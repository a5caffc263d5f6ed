CONSTANTS
    TRCD = 1
    TRP = 1
    TRFC = 13
    TWTR = 6
    WL = 4
    BL = 4
    RL = 3
    PhyRdLat = 5
    FifoDepth = 4
    Banks = {"b0"}
    Rows = {"r0"}
    Lines <- MCLines
    Closed = "closed"
    Long = 14
    Data = {"d0", "d1"}
    Masked = "masked"
    Garbage = "garbage"
    None = "none"
SPECIFICATION Spec
INVARIANTS
    WriteBeatsMeetTheirCommand
    WriteFifoHasRoom
PROPERTIES
    ImplementsLineMemory
    ReadsAnswered
