\* Two ordinary jobs and one nobody handles; one process that keeps running
\* and one that may be stopped, killed or cut off from the database.
SPECIFICATION Spec
CONSTANTS
    j1 = j1
    j2 = j2
    j3 = j3
    w1 = w1
    w2 = w2
    None = None
    t1 = t1
    t2 = t2
    TenantOf <- TwoTenants
    Jobs = {j1, j2, j3}
    Workers = {w1, w2}
    Reliable = {w1}
    Registered = {j1, j2}
    MaxAttempts = 3
    MaxConcurrent = 2
    NumBackoffs = 1
SYMMETRY JobSymmetry
INVARIANTS
    TypeOK
    HolderOwnsRow
    AttemptsWithinBudget
    DeadIsEarned
    OnlyFaultsOrphan
PROPERTIES
    SettledForever
\* Every job ends finished, deleted or stranded, and every process may end.
CHECK_DEADLOCK FALSE
