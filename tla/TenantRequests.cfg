SPECIFICATION MCSpec
CONSTANTS
    ann = ann
    bob = bob
    cat = cat
    i1 = i1
    i2 = i2
    s1 = s1
    s2 = s2
    s3 = s3
    r1 = r1
    r2 = r2
    Users = {ann, bob, cat}
    Invitations = {i1, i2}
    Stores = {s1, s2, s3}
    Requests = {r1, r2}
    Calls <- MCCalls
    AsOwner = {i2}
    Owner = ann
    PoolSize = 3
    StoreLimit = 1
    AuditLimit = 1
    MemberLimit = 2
    MaxMissed = 1
INVARIANTS
    OwnerKept
    InvitationAdmitsOne
    QuotaOvershoot
PROPERTIES
    EveryRequestEnds
CHECK_DEADLOCK FALSE
