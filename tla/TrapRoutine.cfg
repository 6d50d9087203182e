CONSTANTS
    HostBits = 20
    WordBytes = 2
    RamSize <- MCRamSize
    Images <- MCImages
    Timers <- MCTimers
    Garbage = {255}
    ExtendedIo = FALSE
    TxCmd = 0
    TxData = 1
    RxCmd = 2
    RxData = 3
    Stdin = {97}
SPECIFICATION WatchSpec
PROPERTIES InterruptGoesToRoutine
