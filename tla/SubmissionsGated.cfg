SPECIFICATION Spec
CONSTANTS
    None = None
    Users = {u1}
    Ips = {a1}
    Brands = {b1}
    Requests = {r1, r2}
    RowIds = {i1, i2, i3}
    StockLimit = 1
    HourLimit = 1
    MaxCount = 3
    DayCap = 1
    Quota = 1
    CheckerOpen = TRUE
    CheckerHourLimit = 1
    BrandLimit = 2
    CostCap = 1
    Estimate = 2
    Costs = {3}
    MaxCost = 3
    Months <- TwoMonths
SYMMETRY Interchangeable
INVARIANTS
    GatesSound
    QuotaCountsRuns
    SpendBounded
CHECK_DEADLOCK FALSE
