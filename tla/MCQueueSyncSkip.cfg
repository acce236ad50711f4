SPECIFICATION SyncSpec
CONSTANTS
    Sources = {a}
    Listings = {x}
    MaxPlace = 1
    MaxSecs = 0
    None = None
    Events = {"edit", "skip", "device", "quit"}
    MaxEvents = 3
PROPERTIES
    SkipsOutrankAdoption
