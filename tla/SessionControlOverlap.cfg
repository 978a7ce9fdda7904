SPECIFICATION Spec
CONSTANTS
    Slots = {p1, p2, p3}
    Videos = {v1}
    Contexts = {c1, c2}
    Dialable = {c1}
    Commands = {"Join", "Update", "Play", "Pause", "Resume", "Stop", "Leave"}
    MaxCommands = 3
    Overlapping = {"Join", "Update", "Play", "Pause", "Resume", "Stop", "Leave"}
    MaxFaults = 1
    MaxUnderruns = 1
    MediaCap = 2
    None = None
SYMMETRY SlotSymmetry
CHECK_DEADLOCK FALSE
INVARIANTS
    TrackHasVideo
    ChannelReleased
