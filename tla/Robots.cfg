SPECIFICATION Spec
CONSTANTS
    t1 = t1  t2 = t2
    Threads = {t1, t2}
    Authorities <- TwoAuthorities
    BaseAuthority = "own"
    Paths <- ThreePaths
    Answers <- SomeAnswers
    Contained <- OurNames
    AgentSize <- NameSizes
    Respect = TRUE
    MinDelay = 2
    PerMinute = 20
    ChangeBudget = 1
    NoThread = NoThread  NotRead = NotRead
INVARIANTS ObeysWhatItRead RefusalsAreTheSites NeverFasterThanAsked
CHECK_DEADLOCK FALSE
