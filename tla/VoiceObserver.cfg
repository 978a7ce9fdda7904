CONSTANTS
    u1 = u1
    u2 = u2
    s1 = s1
    s2 = s2
    Self = self
    Users = {u1, u2}
    Service = u1
    Ssrcs = {s1, s2}
    Owner <- MCOwner
    Ids <- MCIds
    MaxArrivals = 4
    None = None
SPECIFICATION FairSpec
INVARIANTS
    
    
    FramesDecrypted
PROPERTIES
    
    CallsReturn
