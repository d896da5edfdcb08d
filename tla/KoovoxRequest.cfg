SPECIFICATION Spec
CONSTANTS
    PhoneCmd <- MCPhoneCmd
    Measured = {"HEART_RATE"}
    REPEAT_TIMES = 1
    UartRoom = 2
    RxRoom = 1
    MaxErr = 2
    MaxGarbled = 1
    MaxForwarded = 2
INVARIANTS
    TypeOK
    RequestAccounting
    SampleFindsFilter
PROPERTY
    ServesPhone
