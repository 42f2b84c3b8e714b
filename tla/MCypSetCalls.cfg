SPECIFICATION Spec
CONSTANTS
    NULL = NULL
    Dummy = Dummy
    k1 = k1  k2 = k2  k3 = k3  k4 = k4
    Keys = {k1, k2, k3, k4}
    HashOf <- MCHash
    AllocLens = {4, 8}
    AllocLenMin = 4
    AllocLenMax = 8
    AllocHintMax = 2
    ProbeLen = 12
    Args <- MCArgs
    Hints = {0, 3}
    HintFloor = 0
SYMMETRY CollidingKeys
INVARIANTS
    TypeOK
    CountsMatch
    NoDuplicates
    LookupExact
    HashesKept
    SpaceleftFresh
PROPERTIES
    ImplementsSetSpec
