SPECIFICATION Spec
CONSTANTS
    d1 = d1  d2 = d2  s1 = s1  s2 = s2
    Documents = {d1}
    Size <- Sizes
    Sessions = {s1}
    Versions = {1}
    Reading <- Readings
    Verdict <- Verdicts
    Amount <- Amounts
    Types = {"contract", "model_agreement"}
    ReferenceTypes = {"model_agreement"}
    FirstType = "contract"
    Analyses = 3
    Events = 2
    Project = Project
    None = None
INVARIANTS StatedIsServed
CHECK_DEADLOCK FALSE
