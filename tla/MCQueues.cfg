SPECIFICATION QueuesSpec
CONSTANTS
    t1 = t1
    t2 = t2
    t3 = t3
    Track = {t1, t2, t3}
    Explicit = {t1}
    MaxLen = 3
    MaxHistory = 2
    MaxPosition = 3
    Sources = {a, b}
    Listings = {x}
    MaxPlace = 1
    MaxSecs = 1
    None = None
    Events = {"edit", "skip", "listen", "switch", "remove", "device", "save fails", "load fails", "push fails", "quit", "crash"}
    MaxEvents = 3
SYMMETRY TrackSymmetry
VIEW QueuesView
INVARIANTS
    TypeOK
    ShuffleCoversQueue
    NextIsNearestPlayable
    PreviousUndoesNext
    QueuesAreKept
    NewestPushIsTried
PROPERTIES
    EditsKeepPlaying
    EditsKeepHistory
    AdditionsKeepOrder
    UpcomingEditsSparePast
    EditsOutrankAdoption
