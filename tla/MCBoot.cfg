CONSTANTS
    HostBits = 16
    RAM_SIZE = 10
    IntBits = 4
    Invocations <- MCInvocations
    Files <- MCFiles
    Writable = {"a.log", "b.log", "prog"}
    Numerals <- MCNumerals
SPECIFICATION Spec
INVARIANTS TypeOK LinesRead LastPrevails ProgramRuns RamAsConfigured NothingPending
    WordSizeAgrees OneAwaited StartsInRam
