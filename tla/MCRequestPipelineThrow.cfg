SPECIFICATION Spec
CONSTANTS
    Requests = {"insert", "update", "commit", "rollback", "close", "version", "ownCloseQuery"}
    NoRequest = NoRequest
    Kind <- MCKind
    Internal = {"ownCloseQuery"}
    Throwing = {"insert"}
    Toggles = TRUE
    Faults = {"reset","fin"}
    MaxCalls = 4
    MaxFaults = 2
CHECK_DEADLOCK FALSE
INVARIANT OnlyRepeatedDoneResends
INVARIANT PushedInOrder
INVARIANT HeardUnlessOvertaken
