SPECIFICATION TreeSpec
CONSTANTS
    Keys <- MCKeys
    Vals = {v1, v2}
    compare <- MCCompare
    MIN_ARRAY_SIZE = 2
    MaxKeys = 7
SYMMETRY MCSymmetry
INVARIANTS
    TreeTypeOK
    Balanced
    IsMap
