SPECIFICATION FairSpec
CONSTANTS
    MaxId = 2
    DrainLimit = 4
    MaxEpoch = 3
    MaxGroup = 1
CHECK_DEADLOCK FALSE
INVARIANTS
    DaveInv
    OneRuntime
    MediaUnderRuntime
    EpochCurrent
PROPERTIES
    DrainReturns
