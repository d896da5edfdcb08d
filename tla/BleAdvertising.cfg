CONSTANTS
    Cid = {c1, c2}
    NULL = NULL
    NameSizes <- MCNameSizes
    MaxSlc = 2
    MaxPairings = 1
    MaxQueue = 2
    MaxFailures = 1
SPECIFICATION Spec
SYMMETRY Channels
INVARIANTS TypeOK AdDataFits AdvertisingIsTimed NoGhostClient RestartFindsNoLink TaskKept StaysReachable
