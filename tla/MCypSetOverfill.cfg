SPECIFICATION RSpec
CONSTANTS
    NULL = NULL
    Dummy = Dummy
    k1 = k1  k2 = k2  k3 = k3  k4 = k4
    Keys = {k1, k2, k3}
    HashOf <- MCHash
    AllocLens = {4}
    AllocLenMin = 4
    AllocLenMax = 4
    AllocHintMax = 2
    ProbeLen = 12
    Args = {}
    Hints = {1}
    HintFloor = 0
    ReentrantOps = {"update_iter"}
PROPERTIES
    NoKeyWithoutSpace
