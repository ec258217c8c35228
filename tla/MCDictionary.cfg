SPECIFICATION FairSpec
CONSTANTS
    k1 = k1
    k2 = k2
    k3 = k3
    Keys = {k1, k2, k3}
    NoKey = null
    Values = {0, 1}
    NoValue = none
    Hashes = {0, 1, 2}
    Probe <- Rand
    Period = 32
    MAX_PROBES = 3
    InitialCap = 2
    InitialKeySz = 1
    KeySz <- Sizes
    MaxCap = 32
INVARIANTS
    LoadCounts
    LookupsEnd
    LoopSeesAll
    IsFiniteMap
PROPERTIES
    PutsEnd
CHECK_DEADLOCK FALSE
