SPECIFICATION FairMatchSpec
CONSTANTS
    Char = {"a", "b"}
    Star = "*"
    MaxName = 5
    MaxText = 4
    Names <- MCNames
    Texts <- MCTexts
    NoStar = 99
INVARIANTS
    CursorsMatch
    NeverOverMatches
    PrefixFiltersExact
PROPERTY
    MatchReturns
