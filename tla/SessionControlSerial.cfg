SPECIFICATION Spec
CONSTANTS
    Slots = {p1, p2}
    Videos = {v1}
    Contexts = {c1, c2}
    Dialable = {c1, c2}
    Commands = {"Join", "Update", "Play", "Pause", "Resume", "Stop", "Leave"}
    MaxCommands = 4
    Overlapping = {}
    MaxFaults = 0
    MaxUnderruns = 0
    MediaCap = 2
    None = None
SYMMETRY Symmetry
CHECK_DEADLOCK FALSE
INVARIANTS
    SerialInv
    FreshStart
    SessionKept
