SPECIFICATION Spec
CONSTANTS
    j1 = j1  j2 = j2  w1 = w1  w2 = w2  p = p  d = d  e = e
    Workers = {w1, w2}
    Pages = {p}
    Documents = {d}
    Links <- LinksPD
    Seeds = {p, d}
    Rank <- RankPD
    BatchSize = 2
    MaxDocuments = 2
    MaxPages = 2
    TimeLimited = FALSE
    DryRuns <- AtMostOneDry
    BudgetTicks = 1
    Prompt = TRUE
    FetchTries = 1
    Poison = {}
    Conflicting = {d}
    Volatile = {}
    Jobs = {j1, j2}
    CrashBudget = 1
    StopBudget = 0
    RaceBudget = 1
    LeaseTicks = 1
    MaxAttempts = 2
    CeilingTicks = 2
    NoWorker = NoWorker  NoJob = NoJob  NoUrl = NoUrl
SYMMETRY Interchangeable
INVARIANTS OneRequestPerUrl ExhaustedIsListed
PROPERTIES DeadLetterIsFinal
