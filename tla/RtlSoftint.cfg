CONSTANTS
    HostBits = 17
    WordBytes = 2
    RamSize <- MCRamSize
    StackBase <- MCStackBase
    Images <- MCSoftImages
    Requests <- MCRequests
    PowerUp = {48123}
SPECIFICATION PairSpec
INVARIANT MatchesSimulator
