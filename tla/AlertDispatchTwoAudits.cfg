\* A failed attempt, its retry and the next audit, reported at any time, with
\* faults; users keep changing their minds.
SPECIFICATION FairAlertSpec
CONSTANTS
    a1 = a1
    a2 = a2
    d1 = d1
    d2 = d2
    d3 = d3
    u1 = u1
    u2 = u2
    Dispatches = {d1, d2, d3}
    Steady = {d3}
    AuditOf <- RetriedAudit
    FailedIn = {d1}
    NewCritical = {a1, a2}
    Delta <- Drops
    Users = {u1}
    Threshold <- Thresholds
    Settings <- AllOrDrops
INVARIANTS
    RateLimit
PROPERTIES
    CriticalNeverThrottled
CHECK_DEADLOCK FALSE
