\* Two audits of one store, with commits that are acknowledged.
SPECIFICATION PipeSpec
CONSTANTS
    j1 = j1
    j2 = j2
    w1 = w1
    w2 = w2
    t1 = t1
    s1 = s1
    None = None
    First = First
    NoDiff = NoDiff
    Jobs = {j1, j2}
    Workers = {w1, w2}
    Reliable = {w1}
    Registered = {j1, j2}
    TenantOf <- OneTenant
    StoreOf <- OneStore
    MaxAttempts = 2
    MaxConcurrent = 1
    NumBackoffs = 1
    AckLoss = FALSE
SYMMETRY AuditSymmetry
INVARIANTS
    VerdictsAgree
    DiffsAcyclic
PROPERTIES
    RecordSpec
CHECK_DEADLOCK FALSE
