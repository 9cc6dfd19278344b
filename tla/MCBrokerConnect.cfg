CONSTANTS
    NumHosts = 2
    MaxRetry = 1
    HasTimeout = TRUE
    Ports = {"same", "new", "error"}
    Faults = {"refused", "reset", "fin", "early", "throw"}
    MaxStale = 1
    MaxConnects = 3
    MaxSockets = 10

SPECIFICATION FairSpec

INVARIANTS
    TypeOK
    ActiveHostIsConnected
    OpenedIsLoggedIn
    PendingIsExclusive
    GivesUpAfterAllTries
    CurrentErrorIsHandled

PROPERTY ConnectSettles

CHECK_DEADLOCK FALSE
