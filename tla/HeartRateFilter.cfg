SPECIFICATION Spec
CONSTANTS
    UINT8 = 64
    UINT16 = 64
    HB_MIN_VALUE = 8
    HB_SMOOTH_THRESHOLD = 1
    HB_SMOOTH_FILTER = 3
    HB_SMOOTH_COUNT = 3
    HB_YZERO_THRESHOLD = 3
    HB_SMOOTH_ORIGIN_SIZE = 4
    HB_SMOOTH_BUFF_SIZE = 3
    Rate <- MCRate
INVARIANTS
    Between
    ZerosCounted
PROPERTY
    SmallSteps
