SPECIFICATION Spec
CONSTANTS
    Buffer = {b1, b2}
    NULL = NULL
    Chunks = 2
    Links = {"BLE", "RFCOMM"}
    MaxLoad = 2
SYMMETRY BufferSymmetry
INVARIANTS
    TypeOK
    WholeFrames
    FreedOnce
    NoLeak
