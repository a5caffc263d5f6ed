SPECIFICATION SerialSpec
CONSTANTS
    cfg_divider = 54
    Unit = 4
    BitTimes <- Baud921600
    Payloads <- Patterns
    MaxOwed = 4
    ClockHz = 100000000
    BaudRate = 115200
    StartString <- SECURESOC
    Settle = 1000
    TIMEOUT = 5
    BadLine = BadLine
    Tests <- Programs
    MaxSignals = 2
    Divider = 9
    Cycle = 20
    bit_time_ns = 197
    half_bit_time_ns = 98
    Texts <- ConsoleTexts
    Pauses = {0, 3}
    BootCycles = 110
    MaxResets = 1
INVARIANTS
    BytesArriveAsSent
PROPERTIES
    BytesAllArrive
    BenchRunsEveryTest
    ConsoleShowsTheText
CHECK_DEADLOCK FALSE
