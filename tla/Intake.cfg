SPECIFICATION FairSpec
CONSTANTS
    w1 = w1  w2 = w2
    Writers = {w1, w2}
    Items <- SomeItems
    Digests <- SomeDigests
    Keys <- SomeKeys
    Allowed <- SomeAllowed
    MaxBytes = 2
    FaultBudget = 2
    NoRow = NoRow  NoKey = NoKey
INVARIANTS TypeOK EventsAreBacked
PROPERTIES ImplementsArchive EveryItemSettles
