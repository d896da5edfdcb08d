SPECIFICATION Spec
CONSTANTS
    p1 = p1
    p2 = p2
    Phone = {p1, p2}
    NULL = NULL
    Configuration <- MCConfiguration
    ListIds = 16
    MaxQueue = 2
    MaxPresses = 2
    MaxCalls = 1
    MaxEnds = 1
CHECK_DEADLOCK FALSE
INVARIANTS
    TypeOK
    LinkFound
    LinksDistinct
    ListedTrue
    ConnectedTrue
    Reachable
    SearchGoesOn
