\* Two stores, a scheduler that stays up and one that may fail, one store a tick.
SPECIFICATION FairSpec
CONSTANTS
    s1 = s1
    s2 = s2
    p1 = p1
    p2 = p2
    Stores = {s1, s2}
    Schedulers = {p1, p2}
    Reliable = {p1}
    BatchSize = 1
INVARIANTS
    EachDateOnce
PROPERTIES
    DueIsAudited
CHECK_DEADLOCK FALSE
