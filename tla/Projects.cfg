SPECIFICATION Spec
CONSTANTS
    o1 = o1  o2 = o2  pwd = pwd  upload = upload  clerk = clerk
    Documents = {1, 2}
    Sources = {pwd, upload}
    Spellings = {"A", "a", "B"}
    Normalised <- Norm
    Versions = {4, 5}
    Stated <- Identifiers
    Retrieved <- FromPortal
    Uploaders = {clerk}
    RowKeys <- Bills
    Operators = {o1, o2}
    Transactions = 3
    Changes = 1
    None = None
SYMMETRY Interchangeable
INVARIANTS TypeOK OneProjectPerReference GroupedByEvidence PairsAreRecorded SupersededIsOut
CHECK_DEADLOCK FALSE
