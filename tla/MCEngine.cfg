SPECIFICATION Spec
CONSTANTS
    MaxToken = 2
    MaxCommands = 5
    MaxInbox = 1
    TrackBlocks = 1
    RingBlocks = 1
    FadeBlocks = 1
    Live = {2}
    HoldPaused = TRUE
    Kinds = {"immediate", "crossfade", "gapless"}
    Others <- AllOthers
    None = None
VIEW EngineView
INVARIANTS
    StatusTruthful
    RingsBalanced
    CallbackAgrees
PROPERTIES
    EndedWasHeard
    KeepsContract
CHECK_DEADLOCK FALSE
