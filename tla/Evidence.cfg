SPECIFICATION Spec
CONSTANTS
    d1 = d1  d2 = d2  s1 = s1  s2 = s2
    Documents = {d1, d2}
    Size <- Sizes
    Sessions = {s1, s2}
    Versions = {1, 2}
    Reading <- Readings
    Verdict <- Verdicts
    Amount <- Amounts
    Types = {"contract", "model_agreement"}
    ReferenceTypes = {"model_agreement"}
    FirstType = "contract"
    Analyses = 3
    Events = 1
    Project = Project
    None = None
SYMMETRY Interchangeable
INVARIANTS TypeOK ProcessedIsRead SuppressedIsWithdrawn FingerprintsDescribeTheirRows AcceptanceIsOfWhatIsShown
CHECK_DEADLOCK FALSE
