SPECIFICATION ToolsSpec
CONSTANTS
    BASE_ADDRESS = 8
    KERNEL_OFFSET = 4
    DTB_OFFSET = 11
    Line = 4
    RowLines = 2
    ChipRows = 4
    CoreRows = 8
    Banks = 4
    Texts <- MCTexts
    Missing = Missing
    Word = 2
    FlashTexts <- MCFlashTexts
    Stray = 77
    WordBytes = 2
    MaxWords = 2
    Binaries <- MCBinaries
    HandWritten <- MCHandWritten
    Half = 8
    High = 16
    Lane = 4
    new_base_address = 188
    Images <- MCImages
    WORDS_PER_FILE = 2
    MaxRuns = 2
    DramImages <- MCDramImages
    Trees <- MCTrees
    start_marker <- StartMarker
    end_marker <- EndMarker
    Lines <- MCLines
    Undecodable = "bad"
INVARIANTS
    MemoryIsWhatTheFilesSay
    PreloadIsReadBack
    ClearedFileKeepsPlaces
    FlashHoldsTheFile
    HexHoldsTheProgram
    FramesAreWhole
    EveryWordIsStored
    ImageInDram
    PackagesComeFirst
    IntervalIsBoot
PROPERTY EndMarkerNoticed
CHECK_DEADLOCK FALSE
