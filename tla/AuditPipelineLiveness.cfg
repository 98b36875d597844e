\* One audit of up to three attempts on a process that stays up, one that need
\* not, and commits whose acknowledgement may be lost.
SPECIFICATION FairPipeSpec
CONSTANTS
    j1 = j1
    w1 = w1
    w2 = w2
    t1 = t1
    s1 = s1
    None = None
    First = First
    NoDiff = NoDiff
    Jobs = {j1}
    Workers = {w1, w2}
    Reliable = {w1}
    Registered = {j1}
    TenantOf <- OneTenant
    StoreOf <- OneStore
    MaxAttempts = 3
    MaxConcurrent = 1
    NumBackoffs = 1
    AckLoss = TRUE
INVARIANTS
    ReportHasDiff
    SuccessAlertIsLast
PROPERTIES
    EventuallySettled
    AuditDecided
CHECK_DEADLOCK FALSE
