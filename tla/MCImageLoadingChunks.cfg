SPECIFICATION Spec
CONSTANTS
    Byte = 4
    WordLen = 2
    PROG_SEQ_LENGTH = 3
    WordMod = 16
    SeqMod = 64
    PROGRAM_SEQUENCE <- SECURESOC
    DRAMWRITE_SEQUENCE <- DRAMWRITE
    RESET_SEQUENCE <- RESETTTTT
    SEQ_BREAK_THRESHOLD = 86
    RAM_DEPTH = 3
    ProgAddrs = 4
    BootImage <- Boot3
    Messages <- Chunks
    Done <- done
    ByteGap = 3
    Stalls = 0
    Pause = 20
    MaxMessages = 2
    CpuWrites <- NoAccess
    CpuReads <- NoAccess
    LineWords = 2
    Latency = 0
    StartUp = 3
INVARIANT EveryImageIsLoaded
