SPECIFICATION Spec
CONSTANTS
    MaxRows = 5
    MaxColumns = 4
    Documents = {"measured", "bill", "other"}
    Items = {"1", "2"}
    Versions = {1, 2}
    Rank <- Order
    Sheet <- Sheets
    FirstType <- Initially
    Types = {"contract", "measurement_sheet", "running_bill"}
    Corrections <- Retypings
    Changes = 2
INVARIANTS PassMeansMeasured DisputesAreReviewed SupersededIsNotJudged CitedFiguresAddUp
CHECK_DEADLOCK FALSE
