SPECIFICATION LoadSpec
CONSTANTS
    DELAY_HISTORY_SIZE = 2
    TimeOut = 1
    ServersCount = 2
    Uninit = Uninit
    NoServer = NoServer
    MaxDWord = 99
    MaxQWord = 99
    MaxSent = 4
    MaxInFlight = 2
INVARIANTS
    ScoreReadsWritten
    WarmUpRoundRobin
    SequentialHistoryExact
PROPERTIES
    LoopPicksBest
CHECK_DEADLOCK FALSE
