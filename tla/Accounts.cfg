SPECIFICATION MCSpec
CONSTANTS
    None = None
    ann = ann
    root = root
    p1 = p1
    p2 = p2
    r1 = r1
    r2 = r2
    l1 = l1
    l2 = l2
    l3 = l3
    s1 = s1
    s2 = s2
    s3 = s3
    Users = {ann, root}
    PlatformAdmins = {root}
    Passwords = {p1, p2}
    Requests = {r1, r2}
    Links = {l1, l2, l3}
    Sessions = {s1, s2, s3}
    MaxPerWindow = 3
    Window = 6
    BackoffAfter = 1
    MaxBackoff = 2
    MaxFaults = 1
INVARIANTS
    LinkWorksOnce
    FailuresBounded
    ActingIsLogged
PROPERTIES
    LetInAgain
CHECK_DEADLOCK FALSE
