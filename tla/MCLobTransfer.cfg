SPECIFICATION FairSpec
CONSTANTS
    MaxIO = 2
    MaxLength = 3
    MaxCalls = 4
CHECK_DEADLOCK FALSE
INVARIANT TypeOK
INVARIANT ReadBack
INVARIANT LengthIsStored
PROPERTY TransferEnds
