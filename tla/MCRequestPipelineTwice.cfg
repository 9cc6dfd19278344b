SPECIFICATION Spec
CONSTANTS
    Requests = {"insert", "update", "delete"}
    NoRequest = NoRequest
    Kind <- MCKind
    Internal = {}
    Throwing = {"insert"}
    Toggles = FALSE
    Faults = {}
    MaxCalls = 3
    MaxFaults = 0
CHECK_DEADLOCK FALSE
INVARIANT SentOnce
