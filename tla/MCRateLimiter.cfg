SPECIFICATION Spec
CONSTANTS
    k1 = k1
    k2 = k2
    Keys <- MCKeys
    Window = 2
    Max = 2
    MaxTime = 5
    MaxCalls = 6
SYMMETRY KeySymmetry
INVARIANTS
    TypeOK
    AtMostMaxPerWindow
    RemembersWhatCounts
    RefusesOnlyWhenFull
