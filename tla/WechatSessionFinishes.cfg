SPECIFICATION FairSpec
CONSTANTS
    Buffer = {b1, b2}
    NULL = NULL
    Chunks = 2
    Links = {"BLE"}
    MaxLoad = 3
PROPERTY
    FrameFinishes
