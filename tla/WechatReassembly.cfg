SPECIFICATION Spec
CONSTANTS
    MAGIC = 9
    VERSION = 1
    Frame <- MCFrame
    Failing = {2}
    FIX_HEAD = 4
    Recovery = 2
    Stale <- MCStale
    MaxFrames = 4
    MaxLinks = 2
    MaxWire = 10
CHECK_DEADLOCK FALSE
INVARIANTS
    StreamKept
    Recovers
    BuffersAccounted
