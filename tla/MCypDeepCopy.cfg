SPECIFICATION Spec
CONSTANTS
    Obj = {x1, x2, x3}
    Root = x1
    Leaf <- LeafKinds
    ItemsMax = 2
    Limits = {1, 2}
SYMMETRY Interchangeable
INVARIANTS
    RefsExact
    CopyFaithful
    NeverWithinItself
    FreezeReachesAll
