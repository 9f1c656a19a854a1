SPECIFICATION CacheHistorySpec
CONSTANTS
    CacheNames = {n1, n2}
    Records = {r1, r2}
    MaxTtl = 3
    Answers <- MCAnswers
    MAX_CACHE_TTL = 2
    OverdueCap = 2
    NoNode = NoNode
INVARIANTS
    NeverLivesLonger
    StaleBySweep
