SPECIFICATION MCSpec
CONSTANTS
    None = None
    Home = "home"
    Required <- AllFields
    PriceCode = "price_mismatch"
    AvailabilityCode = "availability_mismatch"
    ImageCodes = {"overlay"}
    c1 = c1
    c2 = c2
    usd = usd
    eur = eur
    text1 = text1
    text2 = text2
    Crawls = {c1, c2}
    Site <- MCSite
    GlobalPermits = 3
    StorePermits = 2
    Budget <- MCBudget
    MaxDepth = 3
    MaxLost = 1
INVARIANTS
    SameSightSameScore
    NewIsExplained
    OneReportPerFinding
PROPERTIES
    CrawlEnds
CHECK_DEADLOCK FALSE
