SPECIFICATION FairSpec
CONSTANTS
    NFrames = 2
    SourceTarget = 2
    SourceLow = 1
    RefillBatch = 1
    EgressTarget = 1
    EgressHigh = 1
    BoundaryPackets = 1
    UnderrunAhead = 1
    CommandCap = 2
    RecordCap = 3
    CursorPeriod = 4
    MetricsCap = 3
    MaxCommands = 1
    MaxDave = 1
    MaxSilence = 1
    MaxFaults = 0
INVARIANTS
    DeliveryInv

    
