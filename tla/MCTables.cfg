SPECIFICATION TablesSpec
CONSTANTS
    Sources = {paged, listed}
    Paginated = {paged}
    Keys = {k}
    Togglers = {t1}
    Callers = {c1, c2}
    None = None
    Events = {"toggle", "device", "switch", "crash"}
    MaxEvents = 2
    MaxCalls = 2
    a = a
    b = b
    here = here
    there = there
    Songs = {a, b}
    Size <- Sizes
    SourceOf <- Owners
    Caps = {1, 3}
    Tasks = {t2, t3}
    MaxMishaps = 1
    Nothing = Nothing
SYMMETRY Symmetry
VIEW TablesView
INVARIANTS
    TypeOK
    IndexAgrees
    CapHolds
PROPERTIES
    ImportAgrees
    PendingSurvives
    JoinIsFresh
