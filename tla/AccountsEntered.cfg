SPECIFICATION AccountSpec
CONSTANTS
    None = None
    p1 = p1 p2 = p2 g1 = g1 g2 = g2 x1 = x1
    base = base
    People = {p1, p2}
    Emails = {e1, e2}
    Subjects = {g1, g2, x1}
    Owner <- Owners
    Bases = {base}
    Base <- SameBase
    Reserved = {}
    Legacy = {e1}
    Clients = {r1, r2}
    MaxAccounts = 2
SYMMETRY Interchangeable
INVARIANTS
    RegisteredOnce
    OwnersEnter
PROPERTIES
    IdentityStays
CHECK_DEADLOCK FALSE
