SPECIFICATION MCSpec
CONSTANTS
    None = None
    Fallback = Fallback
    a1 = a1
    a2 = a2
    tab = tab
    server = server
    worker = worker
    old = old
    new = new
    Values = {old, new}
    Readers = {a1, a2, tab}
    Audits = {a1, a2}
    Processes = {server, worker}
    Home <- MCHome
    Server = server
    Worker = worker
    TTL = 2
    Forms <- MCForms
    MaxSaves = 1
    MaxIssues = 5
    BatchSize = 2
    Limit = 2
    MaxAttempts = 2
    MaxFaults = 1
INVARIANTS
    FixFitsIssue
PROPERTIES
    EnrichmentEnds
    SavedIsUsed
