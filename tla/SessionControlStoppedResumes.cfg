SPECIFICATION Spec
CONSTANTS
    Slots = {p1, p2, p3}
    Videos = {v1}
    Contexts = {c1, c2}
    Dialable = {c1, c2}
    Commands = {"Join", "Update", "Play", "Stop"}
    MaxCommands = 4
    Overlapping = {"Update", "Stop"}
    MaxFaults = 0
    MaxUnderruns = 0
    MediaCap = 2
    None = None
SYMMETRY Symmetry
CHECK_DEADLOCK FALSE
INVARIANT StoppedStays
