SPECIFICATION Spec
CONSTANTS
    Queries = {"three", "two"}
    NoQuery = NoQuery
    Closing = Closing
    Rows <- MCRows
    Paging = {}
    Faults = {"reset"}
    PageSize = 2
    MaxStep = 4
    MaxLosses = 1
CHECK_DEADLOCK FALSE
INVARIANT AllRows
