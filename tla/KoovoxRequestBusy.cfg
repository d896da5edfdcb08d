SPECIFICATION Spec
CONSTANTS
    PhoneCmd <- MCAnsweredCmd
    Measured = {"HEART_RATE"}
    REPEAT_TIMES = 1
    UartRoom = 2
    RxRoom = 1
    MaxErr = 0
    MaxGarbled = 0
    MaxForwarded = 2
INVARIANT
    BusyMeansRunning
