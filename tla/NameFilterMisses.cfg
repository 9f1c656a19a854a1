SPECIFICATION MatchSpec
CONSTANTS
    Char = {"a", "b"}
    Star = "*"
    MaxName = 3
    MaxText = 3
    Names <- MCNames
    Texts <- MCTexts
    NoStar = 99
INVARIANT
    MatchesWhatTheFilterSays
