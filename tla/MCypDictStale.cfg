SPECIFICATION StaleSpec
CONSTANTS
    NULL = NULL
    Dummy = Dummy
    k1 = k1  k2 = k2  k3 = k3  k4 = k4
    Keys = {k1, k2}
    HashOf <- MCHash
    AllocLens = {1, 2, 4}
    AllocLenMin = 1
    AllocLenMax = 4
    AllocHintMax = 2
    ProbeLen = 12
    Dicts = {d1, d2}
    Keysets = {n1, n2, n3}
    Values = {v1}
    InlineLen = 1
    Hints = {2}
    HintFloor = 0
SYMMETRY Interchangeable
PROPERTIES
    UpdateAddsAll
