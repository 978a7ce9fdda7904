SPECIFICATION Spec
CONSTANTS
    NFrames = 3
    SourceTarget = 2
    SourceLow = 1
    RefillBatch = 1
    EgressTarget = 1
    EgressHigh = 1
    BoundaryPackets = 1
    UnderrunAhead = 1
    CommandCap = 2
    RecordCap = 3
    CursorPeriod = 4
    MetricsCap = 3
    MaxCommands = 2
    MaxDave = 0
    MaxSilence = 1
    MaxFaults = 1
INVARIANTS
    SenderFifo
    NothingLost
    InOrderDelivery
    
    PositionNeverAhead
    BuffersFit
    UninterruptedEndDeliversAll
