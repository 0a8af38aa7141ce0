SPECIFICATION Spec
CONSTANTS
    None = None
    Subjects = {s1, s2}
    Keys <- Links
    DomainOf <- Referrer
    LinkTrait <- Look
    Log <- Tabulated
    DomainTrait <- Numbers
    Mentions = {"farm", "paper", "forum"}
    Requests = {r1, r2}
    Analyses = {a1}
    Charges = {5}
    VelocityLimit = 2
    MonthOf <- Months
    MISSES_BEFORE_LOST = 2
    Estimate = 2
    Cost = 2
    Grants = {2, 6}
    MaxImports = 3
    Respelled = {"farm1"}
    MaxRows = 2
SYMMETRY Interchangeable
INVARIANTS
    LossesMeasured
    InventorySound
    CreditHolds
CHECK_DEADLOCK FALSE
