CONSTANTS
    NumHosts = 2
    MaxRetry = 1
    HasTimeout = TRUE
    Ports = {"new"}
    Faults = {"refused"}
    MaxStale = 0
    MaxConnects = 2
    MaxSockets = 5

SPECIFICATION Spec

INVARIANTS
    FailedConnectTriedAHost

CHECK_DEADLOCK FALSE
