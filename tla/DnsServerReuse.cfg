SPECIFICATION Spec
CONSTANTS
    INVALID_QUEUE_ID = 1
    MIN_ID = 2
    MAX_ID = 4
    MAX_QUEUE_SIZE = 2
    FirstSpan = 1
    StepLow = 1
    StepHigh = 2
    WrapLow = 0
    WrapHigh = 1
    TimeOut = 1
    NoQuery = NoQuery
    DELAY_HISTORY_SIZE = 1
    ServersCount = 2
    Uninit = Uninit
    MaxTtl = 2
    MAX_CACHE_TTL = 1
    OverdueCap = 1
    NoNode = NoNode
    CLEAN_UP_DELAY = 1
    SrcIds = {3}
    Clients = {c1, c2}
    Names = {"n1", "n2"}
    WhiteList = {}
    BlackList = {}
    LocalNames = {}
    Headers <- PlainHeaders
    AnswerHeaders <- PlainAnswerHeaders
    Unasked <- OneUnasked
    Zone <- PlainZone
    SendOutcomes = {TRUE}
    MaxAsked = 4
SYMMETRY Symmetry
INVARIANTS
    OwedCoversPending
PROPERTIES
    ServiceProvided
    UpstreamsUsed
    TakenOnlyByItsAnswer
