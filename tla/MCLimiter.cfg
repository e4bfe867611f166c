SPECIFICATION GovernorSpec
CONSTANTS
    g = g
    r = r
    i = i
    q = q
    j = j
    c1 = c1
    c2 = c2
    Keys <- MCKeys
    Level <- MCLevel
    Callers <- MCCallers
    Calls <- MCCalls
    LimitedLevels <- MCLimitedLevels
    Algorithms <- EveryAlgorithm
    Limits = {1, 2}
    Window = 3
    RejectTtl = 3
    MaxEntries = 2
SYMMETRY Symmetries
INVARIANTS
    RateBounded
    RefusedOnlyAtLimit
    WiderLevelsBind
