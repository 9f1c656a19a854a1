SPECIFICATION FairSpec
CONSTANTS
    INVALID_QUEUE_ID = 1
    MIN_ID = 2
    MAX_ID = 4
    MAX_QUEUE_SIZE = 1
    FirstSpan = 1
    StepLow = 1
    StepHigh = 2
    WrapLow = 0
    WrapHigh = 1
    TimeOut = 1
    NoQuery = NoQuery
    DELAY_HISTORY_SIZE = 1
    ServersCount = 1
    Uninit = Uninit
    MaxTtl = 2
    MAX_CACHE_TTL = 2
    OverdueCap = 1
    NoNode = NoNode
    CLEAN_UP_DELAY = 1
    SrcIds = {3}
    Clients = {c1}
    Names = {"n1", "bad", "exc", "loc"}
    WhiteList = {"exc"}
    BlackList = {"bad", "exc"}
    LocalNames = {"loc", "bad"}
    Headers <- AllHeaders
    AnswerHeaders <- AllAnswerHeaders
    Unasked <- OneUnasked
    Zone <- FullZone
    SendOutcomes = {TRUE, FALSE}
    MaxAsked = 2
INVARIANTS
    CacheFiltered
PROPERTIES
    ServiceProvided
    PendingLeaves
    CachedLeaves
