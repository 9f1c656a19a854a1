SPECIFICATION HistorySpec
CONSTANTS
    INVALID_QUEUE_ID = 1
    MIN_ID = 4
    MAX_ID = 14
    MAX_QUEUE_SIZE = 3
    FirstSpan = 2
    StepLow = 2
    StepHigh = 4
    WrapLow = 1
    WrapHigh = 3
    TimeOut = 1
    SrcIds = {7}
    Clients = {c1}
    Servers = {s1}
    Names = {n1}
    NoQuery = NoQuery
    MaxSince = 5
INVARIANTS
    IdsAndSizeInRange
PROPERTIES
    ReuseTakesALap
