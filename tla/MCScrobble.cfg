SPECIFICATION FairSpec
CONSTANTS
    lastfm = lastfm
    listenbrainz = listenbrainz
    Services <- Two
    MaxListens = 3
    Cap = 2
    Drains = {d1, d2}
    Dead = {lastfm}
    MaxEvents = 2
    None = None
INVARIANTS
    NothingForgotten
PROPERTIES
    RowsLeave
CHECK_DEADLOCK FALSE
