SPECIFICATION Spec
CONSTANTS
    a = a
    b = b
    d = d
    None = None
    Tracks <- TwoTracks
    NewTrack = d
    Remote = {b}
    Unavailable = {d}
    Modes = {"gapless", "crossfade"}
    Commands = {"Play", "Pause", "Next", "Previous", "Stop", "Seek", "JumpPhysical", "Append", "Loop", "Shuffle"}
    Hasty = {"Play", "Pause", "Next", "Previous", "Stop", "Seek", "Jump", "JumpPhysical", "Replace", "Insert", "PlayNext", "Append", "ClearUpcoming", "ReplaceUpcoming", "ShuffleUpcoming", "Move", "Remove", "Shuffle", "Loop"}
    Troubles = {"load", "rebuild", "output", "worker"}
    MaxToken = 3
    MaxCommands = 3
    MaxQueued = 2
INVARIANTS
    TypeOK
    LoadSettles
    TargetFollowed
    CommittedIsLive
    PointerFollows
    TransitionIsIntended
    GaplessIsNext
CHECK_DEADLOCK FALSE
