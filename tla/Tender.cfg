\* The documents of a tender, read one by one and all together.
CONSTANTS
    MaxPages = 3
    OcrMaxPages = 2
    MaxMarks = 60
    BlockGap = 3
    LabelWindow = 10
    TotalWindow = 2
    FeeWindow = 1
    ClauseGap = 3
    MaxBlock = 20
    MaxChanges = 1
    Authorities = {"nhai", "iitb"}
    Types = {"tender", "audit_report"}
    Documents <- MCDocuments
    Order <- MCOrder
    Prints <- MCPrints
    Supplied <- MCSupplied
SPECIFICATION Spec
INVARIANTS
    TypeOK
    PolicyVerdictsArePrinted
    RowsArePrinted
    BillVerdictsArePrinted
PROPERTIES
    QuotedIsNotCompared
