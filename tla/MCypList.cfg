SPECIFICATION CSpec
CONSTANTS
    i1 = i1  i2 = i2
    Junk = Junk
    Self = Self
    SSizeMax = 9
    Items = {i1, i2}
    Noisy = {i1}
    Rank <- MCRank
    Ranks = {0, 1, 2}
    Unorderable = 0
    NaN = 99
    LenMax = 3
    InlineLen = 1
    InlineRoom = 2
    Slack = {0, 1}
    KeysOnStack = 3
    DepthMax = 1
    Factors = {0, 1, 2}
    Slices <- MCSlices
    Args <- MCArgs
VIEW WithoutCall
INVARIANTS
    BufferFits
    RefsHeld
PROPERTIES
    ImplementsListSpec
