CONSTANTS
    TRCD = 1
    TRP = 1
    TRFC = 13
    TWTR = 6
    WL = 4
    BL = 4
    RL = 3
    PhyRdLat = 5
    FifoDepth = 4
    Long = 14
    StartDelay = 16
    RefreshCycles = 50
    InitSequence <- MCInitSequence
    WdgStart = 1
    Banks <- MCBanks
    Rows <- MCRows
    Lines <- MCLines
    LineOf <- MCLineOf
    Closed = "closed"
    Masked = Masked
    Garbage = Garbage
    Lanes = {0}
    Bytes = {0, 1}
    Strobes <- MCStrobes
    AddrMod = 48
    ZeroData <- MCZero
    Reads <- MCCrossing
    Writes <- MCWrites
    InitMemory <- MCMemory
    Serial = TRUE
    IdDepth = 8
SPECIFICATION Spec
INVARIANTS
    ReadsFitTheirBurst
