SPECIFICATION MCSpec
CONSTANTS
    HEAP_DBG_MAX_OBJECTS = 30
    Ids = {1, 2}
    Names = {n1}
    MAX_QUEUE_SIZE = 2
    Datagrams <- MCDatagrams
    LocalCounts = {0, 2}
    MaxLost = 1
    Files <- MCFiles
    MaxTurns = 4
    MaxLoads = 1
INVARIANTS
    ReleasedOnce
    NothingElseLeaks
    HeapDbgTellsTheTruth
