SPECIFICATION FairSpec
CONSTANTS
    Queries = {"three", "two"}
    NoQuery = NoQuery
    Closing = Closing
    Rows <- MCRows
    Paging = {"two"}
    Faults = {"refuse", "reset", "fin"}
    PageSize = 2
    MaxStep = 4
    MaxLosses = 2
CHECK_DEADLOCK FALSE
INVARIANT TypeOK
INVARIANT AllRowsUnlessLost
INVARIANT EachRowOnce
INVARIANT OpenIsRegistered
INVARIANT ClosedInTheEnd
INVARIANT CloseFailsForAReason
PROPERTY EveryCallEnds
