SPECIFICATION Spec
CONSTANTS
    Byte = 4
    WordLen = 2
    PROG_SEQ_LENGTH = 3
    WordMod = 16
    SeqMod = 64
    PROGRAM_SEQUENCE <- SECURESOC
    DRAMWRITE_SEQUENCE <- DRAMWRITE
    RESET_SEQUENCE <- RESETTTTT
    SEQ_BREAK_THRESHOLD = 24
    RAM_DEPTH = 3
    ProgAddrs = 4
    BootImage <- Boot3
    Messages <- AllMessages
    Done <- done
    ByteGap = 11
    Stalls = 1
    Pause = 36
    MaxMessages = 2
    CpuWrites <- Stores
    CpuReads <- Reads
    LineWords = 2
    Latency = 2
    StartUp = 12
INVARIANTS
    MessagesTakeEffect
    EarlierWordsInDram
    WordsInOrder
PROPERTIES
    SocStartsWithWhatWasSent
    NoForeignWordsInRam
