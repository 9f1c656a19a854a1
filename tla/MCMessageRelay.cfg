SPECIFICATION RelaySpec
CONSTANTS
    INT_BITS = 4
    MAX_CACHE_TTL = 4
    isBlackListed <- MCIsBlackListed
    DNS_MSG_MAX_SIZE = 100
    ClientId = 7
    UpstreamId = 300
    Queries <- MCQueries
    Answers <- MCAnswers
    Cuttable <- MCCuttable
    ShortenedAt = {7}
    Clients <- MCClients
    LocalIPs <- MCLocalIPs
    Listed <- MCListed
    DEFAULT_TIME_TO_LIVE = 3
    NoNode = NoNode
INVARIANTS
    AnswerArrives
    CacheAnswers
    QueryArrives
    AnswersFit
    NothingMadeUp
    LocalAnswerArrives
