CONSTANTS
    HostBits = 9
    WordBytes = 1
    RamSize = 32
    Images <- MCImages
    Timers <- MCTimers
    Garbage = {255}
    ExtendedIo = FALSE
    TxCmd = 0
    TxData = 1
    RxCmd = 2
    RxData = 3
    Stdin = {97}
SPECIFICATION WaitingSpec
INVARIANTS RefusedIsTakenAfterReturn
