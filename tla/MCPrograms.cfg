CONSTANTS
    HostBits = 17
    WordBytes = 2
    WordSize = 16
    RamSize = 1664
    Images <- MCImages
    Timers <- MCTimers
    Garbage = {0}
    ExtendedIo = FALSE
    TxCmd = 0
    TxData = 1
    RxCmd = 2
    RxData = 3
    Stdin <- MCStdin
    stack_size = 64
    task_1_stack = 1280
    Hi <- MCHi
    Hello <- MCHello
    Calls <- MCCalls
SPECIFICATION ProgramsSpec
INVARIANTS TasksAlternate CallsCompute RegistersPreserved CodeIntact
PROPERTIES ContextKept ProgramsEnd
