SPECIFICATION FairSpec
CONSTANTS
    j1 = j1  j2 = j2  w1 = w1  w2 = w2  p = p  d = d  e = e
    Workers = {w1}
    Pages = {p}
    Documents = {d, e}
    Links <- LinksOfP
    Seeds = {p}
    Rank <- RankPDE
    BatchSize = 2
    MaxDocuments = 2
    MaxPages = 2
    TimeLimited = FALSE
    DryRuns <- NobodyDry
    BudgetTicks = 1
    Prompt = FALSE
    FetchTries = 2
    Poison = {}
    Conflicting = {e}
    Volatile = {d}
    Jobs = {j1}
    CrashBudget = 1
    StopBudget = 1
    RaceBudget = 1
    LeaseTicks = 1
    MaxAttempts = 2
    CeilingTicks = 2
    NoWorker = NoWorker  NoJob = NoJob  NoUrl = NoUrl
INVARIANTS TypeOK CountersAreExact ClosedRunHoldsNoLease
PROPERTIES ImplementsDelivery EveryUrlSettles
