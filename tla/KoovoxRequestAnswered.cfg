SPECIFICATION FairSpec
CONSTANTS
    PhoneCmd <- MCAnsweredCmd
    Measured = {"HEART_RATE"}
    REPEAT_TIMES = 1
    UartRoom = 2
    RxRoom = 1
    MaxErr = 1
    MaxGarbled = 0
    MaxForwarded = 2
INVARIANTS
    PendingIsRunning
PROPERTY
    PhoneAnswered
