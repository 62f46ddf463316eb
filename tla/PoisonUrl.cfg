SPECIFICATION Spec
CONSTANTS
    j1 = j1  j2 = j2  w1 = w1  w2 = w2  p = p  d = d  e = e
    Workers = {w1}
    Pages = {}
    Documents = {d}
    Links <- NoLinks
    Seeds = {d}
    Rank <- RankD
    BatchSize = 10
    MaxDocuments = 9
    MaxPages = 9
    TimeLimited = FALSE
    DryRuns <- NobodyDry
    BudgetTicks = 1
    Prompt = TRUE
    FetchTries = 1
    Poison = {d}
    Conflicting = {}
    Volatile = {}
    Jobs = {j1}
    CrashBudget = 6
    StopBudget = 0
    RaceBudget = 0
    LeaseTicks = 3
    MaxAttempts = 5
    CeilingTicks = 72
    NoWorker = NoWorker  NoJob = NoJob  NoUrl = NoUrl
INVARIANTS PoisonIsBounded
\* The bound on crashes leaves a poisoned download with no way to end.
CHECK_DEADLOCK FALSE
