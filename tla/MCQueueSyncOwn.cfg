SPECIFICATION SyncSpec
CONSTANTS
    Sources = {a, b}
    Listings = {x}
    MaxPlace = 0
    MaxSecs = 0
    None = None
    Events = {"edit", "switch", "quit"}
    MaxEvents = 2
INVARIANTS
    PushesOwnQueue
