SPECIFICATION Spec
CONSTANTS
    Queries = {"three", "two"}
    NoQuery = NoQuery
    Closing = Closing
    Rows <- MCRows
    Paging = {}
    Faults = {}
    PageSize = 2
    MaxStep = 4
    MaxLosses = 0
CHECK_DEADLOCK FALSE
INVARIANT AllRequestedToClose
