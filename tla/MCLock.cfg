CONSTANTS
    HostBits = 9
    WordBytes = 1
    RamSize <- LockRamSize
    Images <- MCImages
    Timers <- MCTimers
    Garbage = {255}
    ExtendedIo = TRUE
    TxCmd = 0
    TxData = 1
    RxCmd = 2
    RxData = 3
    Stdin <- MCStdin
SPECIFICATION FairSpec
INVARIANTS MutualExclusion
PROPERTIES PrintsWhatItRead LockingEnds
