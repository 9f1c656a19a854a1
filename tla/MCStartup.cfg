SPECIFICATION FairStartSpec
CONSTANTS
    Texts = {"server", "host", "host ip", "host ip2", "other"}
    Names = {"host", "other"}
    ServerTexts = {"server"}
    RecordTexts = {"host ip", "host ip2"}
    OneWordTexts = {"host"}
    NameOf <- MCNameOf
    Buffers <- MCBuffers
    LineOf <- MCLineOf
    Lower <- MCLower
    inet_pton <- MCInetPton
    comparator <- filterCmp
    MaxChars = 4
    MaxLines = 3
    LOG_HISTORY_MAX_LINES = 3
    TextLength <- MCTextLength
    JsonSizes <- MCJsonSizes
    MaxLoads = 2
    Descriptors = {d1, d2}
    NoDescriptor = none
    NetInit = {0, 1}
INVARIANTS
    LinesAsMeant
    FollowsTheFile
    LogTellsTheLoad
    JsonIsAList
PROPERTIES
    LockIsReleased
    LogIsTheLastLines
    ServesOrStops
