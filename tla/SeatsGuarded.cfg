SPECIFICATION Spec
CONSTANTS
    o1 = o1 o2 = o2 u1 = u1 u2 = u2 None = None
    Orgs = {o1}
    Users = {u1, u2}
    Invitations = {i1}
    Expiring = {}
    Requests = {r1, r2}
    RolesInUse = {"owner", "admin"}
    MaxTokens = 1
    Founder <- Founded
    Personal = {o1}
SYMMETRY AnyRequest
INVARIANTS
    SeatsSound
CHECK_DEADLOCK FALSE
