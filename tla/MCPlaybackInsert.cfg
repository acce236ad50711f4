SPECIFICATION Spec
CONSTANTS
    a = a
    b = b
    d = d
    None = None
    Tracks <- TwoTracks
    NewTrack = d
    Remote = {}
    Unavailable = {}
    Modes = {"crossfade"}
    Commands = {"Play"}
    Hasty = {"Insert"}
    Troubles = {}
    MaxToken = 2
    MaxCommands = 2
    MaxQueued = 2
INVARIANTS
    TargetRemapped
CHECK_DEADLOCK FALSE
