SPECIFICATION Spec
CONSTANTS
    Base = 64
    Null = Null
    InvalidType = InvalidType
    Calls <- MCCalls
CHECK_DEADLOCK FALSE
INVARIANT TypeOK
INVARIANT ResponseConsumed
INVARIANT AnswersAsSent
INVARIANT ParamsAsGiven
