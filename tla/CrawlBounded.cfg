SPECIFICATION FairSpec
CONSTANTS
    None = None
    Urls <- SmallWeb
    Seed = 1
    Origin <- WebOrigins
    Site <- OwnSite
    Public = {1, 2, 3, 4, 6}
    Path <- WebPaths
    Queried = {2, 3}
    PageLimit = 3
    MaxQueueUrls = 4
    MaxQueryVariants = 1
    SitemapUrlLimit = 2
    MaxHops = 2
INVARIANTS
    CrawlSound
PROPERTIES
    KeepsPromise
CHECK_DEADLOCK FALSE
