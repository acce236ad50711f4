SPECIFICATION StreamsSpec
CONSTANTS
    Size = 4
    Prebuffer = 2
    Ahead = 2
    Caps = {3, 4}
    MaxHops = 1
    MaxRead = 2
    Failed = failed
    None = none
    Length = 5
    Chunk = 2
    Longest = 3
    MaxFailures = 2
PROPERTIES
    ServesTheBody
    WaitsEnd
    ServesTheFile
CHECK_DEADLOCK FALSE
