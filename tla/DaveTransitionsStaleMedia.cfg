SPECIFICATION Spec
CONSTANTS
    MaxId = 1
    DrainLimit = 3
    MaxEpoch = 3
    MaxGroup = 1
CHECK_DEADLOCK FALSE
INVARIANT NoStaleMedia
