SPECIFICATION Spec
CONSTANTS
    Sink = {s1, s2}
    Channel = {c1, c2}
    NULL = NULL
    MaxConnections = 1
    MaxLoad = 2
    MaxFailed = 1
    MaxClosed = 2
SYMMETRY TransportSymmetry
CHECK_DEADLOCK FALSE
INVARIANTS
    SlotLost
    ChannelsAccounted
    OneRecord
    NoStray
