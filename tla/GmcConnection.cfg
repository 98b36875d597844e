SPECIFICATION MCSpec
CONSTANTS
    None = None
    c1 = c1
    c2 = c2
    shop = shop
    g1 = g1
    g2 = g2
    f1 = f1
    w1 = w1
    refresher = refresher
    Connections = {c1, c2}
    Stores = {shop}
    StoreOf <- OneStore
    Paying = {shop}
    Grants = {g1, g2}
    Flows = {f1}
    Audits = {w1}
    Refresher = refresher
    Quota = 2
    Batch = 2
    AuditCalls = 2
    MaxMissed = 1
INVARIANTS
    TokensStayHome
PROPERTIES
    RevocationEarned
    BrokenIsVisible
    RetiredIsForgotten
CHECK_DEADLOCK FALSE
