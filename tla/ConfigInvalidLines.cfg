SPECIFICATION ConfigSpec
CONSTANTS
    Texts = {"server", "host", "host ip", "host ip2", "other"}
    Names = {"host", "other"}
    ServerTexts = {"server"}
    RecordTexts = {"host ip", "host ip2"}
    OneWordTexts = {"host"}
    NameOf <- MCNameOf
    Buffers <- MCBuffers
    LineOf <- MCLineOf
    Lower <- MCLower
    inet_pton <- MCInetPton
    comparator <- filterCmp
    MaxChars = 1
    MaxLines = 2
PROPERTY
    InvalidLinesUnused
