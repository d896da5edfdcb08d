SPECIFICATION Spec
CONSTANTS
    OPEN = OPEN
    CLOSE = CLOSE
    PLAIN = PLAIN
    Body <- MCBody
    SIZE_UART_MSG = 6
    INDEX_SIZE = 6
    MaxFrames = 4
    MaxWire = 8
    MaxNoise = 1
CHECK_DEADLOCK FALSE
INVARIANTS
    TypeOK
    PiecesDoNotMatter
    Recovers
    AllHandled
