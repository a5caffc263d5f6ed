CONSTANTS
    LineAddrs = {0, 1}
    Words = {0, 1}
    Lanes = {0}
    Bytes = {0, 1}
    WdgStart = 1
    Addrs <- MCAddrs
    Dats <- MCDats
    UartWords = 1
SPECIFICATION Spec
INVARIANTS
    WritesTouchTheirBytesOnly
PROPERTIES
    ImplementsWordMemory
    RequestsAnswered
