SPECIFICATION FairSpec
CONSTANTS
    s1 = s1  t1 = t1  t2 = t2  u = u  ux = ux
    Threads = {t1, t2}
    Sources = {s1}
    MaxConcurrency <- Two
    MinDelay <- One
    PerWindow <- Two
    Window = 3
    GlobalConcurrency = 1
    TotalSeconds = 3
    ConnectSeconds = 1
    ReadSeconds = 1
    MaxAttempts = 2
    BackoffFactor = 2
    BackoffCap = 2
    RetryAfterCap = 2
    RetryAfters = {0, 3}
    Locations = {u, ux}
    Normal <- Spelling
    Valid = {u}
    Refused = {}
    MaxHops = 1
    None = None
INVARIANTS TypeOK SlotsAreReturned GrantsArePolite BudgetBoundsTheFetch ChainNeverLoops
PROPERTIES EveryFetchEnds
