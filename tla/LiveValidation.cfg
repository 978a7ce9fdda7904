SPECIFICATION FairSpec
CONSTANTS
    SilenceFrames = 2
    PacketTarget = 2
    RtpCap = 2
    MaxFaults = 1
INVARIANTS
    
    InterruptsProven
    VerdictSound

    
