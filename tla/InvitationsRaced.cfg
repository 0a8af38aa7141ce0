SPECIFICATION Spec
CONSTANTS
    o1 = o1 o2 = o2 u1 = u1 u2 = u2 None = None
    Orgs = {o1}
    Users = {u1, u2}
    Invitations = {i1, i2}
    Expiring = {i1}
    Requests = {r1, r2}
    RolesInUse = {"admin"}
    MaxTokens = 2
    Founder <- Founded
    Personal = {}
SYMMETRY AnyRequest
INVARIANTS
    LinksWorkOnce
PROPERTIES
    RevokedSeatsNobody
CHECK_DEADLOCK FALSE
