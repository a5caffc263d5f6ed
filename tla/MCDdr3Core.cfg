CONSTANTS
    TRCD = 1
    TRP = 1
    TRFC = 6
    TWTR = 2
    WL = 2
    BL = 3
    Banks <- MCBanks
    Rows <- MCRows
    Lines <- MCLines
    Closed = "closed"
    Long = 7
    StartDelay = 9
    RefreshCycles = 30
    InitSequence <- MCInitSequence
SPECIFICATION Spec
INVARIANTS
    TypeOK
    CommandsFindTheirRow
    CommandsKeepDistance
    NoRefreshLost
PROPERTIES
    HeldReadServed
