SPECIFICATION FairSpec
CONSTANTS
    Requests = {"insert", "update", "fetch", "closeQuery"}
    NoRequest = NoRequest
    Kind <- MCKind
    Internal = {}
    Throwing = {}
    Toggles = FALSE
    Faults = {"serverError", "reset", "fin", "noconnect"}
    MaxCalls = 4
    MaxFaults = 2
CHECK_DEADLOCK FALSE
INVARIANT TypeOK
INVARIANT AwaitedIsHeard
INVARIANT SentOnce
PROPERTY SerialisesRequests
PROPERTY EveryCallIsAnswered
