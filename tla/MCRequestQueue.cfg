CONSTANTS
    q1 = q1
    q2 = q2
    q3 = q3
    u1 = u1
    u2 = u2
    none = none
    Request = {q1, q2, q3, u1, u2}
    Urgent = {u1, u2}
    NoRequest = none
    DoneLimit = 1

SPECIFICATION FairSpec

INVARIANTS
    TypeOK
    OneAtATime
    NothingLost
    DepthIsTruthful

PROPERTIES
    ImplementsExecutor
    EveryRequestSettles
