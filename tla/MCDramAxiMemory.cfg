CONSTANTS
    AddrMod = 16
    ZeroData <- MCZero
    Reads <- MCRequests
    Writes <- MCRequests
    InitMemory <- MCMemory
    Lanes = {0}
    Bytes = {0, 1}
    Strobes <- MCStrobes
    Serial = TRUE
SPECIFICATION Spec
INVARIANTS
    ReadBeatsFitTheirBurst
    AnsweredWritesAreDone
PROPERTIES
    AcceptedReadsAnswered
    AcceptedWritesAnswered
