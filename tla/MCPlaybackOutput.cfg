SPECIFICATION Spec
CONSTANTS
    a = a
    b = b
    d = d
    None = None
    Tracks <- TwoTracks
    NewTrack = d
    Remote = {}
    Unavailable = {}
    Modes = {"crossfade", "gapless"}
    Commands = {"Play"}
    Hasty = {}
    Troubles = {"output"}
    MaxToken = 3
    MaxCommands = 3
    MaxQueued = 2
INVARIANTS
    CancellationIsOwned
CHECK_DEADLOCK FALSE
