CONSTANTS
    HostBits = 17
    WordBytes = 2
    RamSize <- MCRamSize
    StackBase <- MCStackBase
    Images <- MCImages
    Requests <- MCRequests
    PowerUp = {48123}
SPECIFICATION PairSpec
INVARIANTS TypeOK ReturnsFromRoutines MatchesSimulator ExecutesAtPC
PROPERTIES InstructionsAgree NestSpec TrapTaken StoresItsBytes Responds PulseTaken ProgramEnds
