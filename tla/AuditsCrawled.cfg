SPECIFICATION FairSpec
CONSTANTS
    None = None
    Users = {u1}
    Domains = {d1}
    Requests = {r1, r2}
    Workers = {w1, w2}
    Urls = {x, y}
    Finals = {f}
    Page <- MCPage
    MaxProjects = 2
    MaxAudits = 2
    MAX_ATTEMPTS = 2
    ProjectLimit = 1
INVARIANTS
    DomainTrackedOnce
    CrawlsSound
PROPERTIES
    OutcomeKept
    AuditsEnd
CHECK_DEADLOCK FALSE
