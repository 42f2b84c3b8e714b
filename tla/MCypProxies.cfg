SPECIFICATION Spec
CONSTANTS
    Addr = {a1, a2, a3}
    Proxy = {p1, p2, p3}
    NoProxy = NoProxy
    StoredMax = 2
    DepthMax = 1
    CallbacksKeepArgs = FALSE
SYMMETRY Interchangeable
INVARIANTS
    OneProxyPerObject
    ReferencesOwned
    CallbacksKept
