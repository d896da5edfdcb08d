SPECIFICATION FairSpec
CONSTANTS
    Sink = {s1}
    Channel = {c1, c2, c3}
    NULL = NULL
    MaxConnections = 1
    MaxLoad = 2
    MaxFailed = 1
    MaxClosed = 2
CHECK_DEADLOCK FALSE
PROPERTY Discoverable
