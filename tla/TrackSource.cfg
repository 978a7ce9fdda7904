SPECIFICATION Spec
CONSTANTS
  Videos = {v1, v2}
  Encodings = {a, b}
  Start <- MCStart
  FrameTicks = 2
  HeaderBytes = 1
  BlockBytes = 2
  MaxBody = 3
  MaxRead = 2
  Prebuffer = 1
  SourceTarget = 2
  None = None
INVARIANTS
    
    
    EndIsComplete
PROPERTIES
    PositionKept
    
    
