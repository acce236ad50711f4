SPECIFICATION FairSpec
CONSTANTS
    MaxToken = 2
    MaxCommands = 4
    MaxInbox = 1
    TrackBlocks = 1
    RingBlocks = 1
    FadeBlocks = 2
    Live = {}
    HoldPaused = FALSE
    Kinds = {"crossfade", "gapless"}
    Others <- LostOnly
    None = None
PROPERTIES
    LoadAnswered
    TrackEnds
    FadeResolves
    DeferredRebuildHappens
CHECK_DEADLOCK FALSE
