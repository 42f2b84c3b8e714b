SPECIFICATION FairSpec
CONSTANTS
    NULL = NULL
    a = a  b = b  c = c
    a1 = a1  a2 = a2  b1 = b1  v1 = v1  v2 = v2
    Objs = {a, b, c}
    Slots = {a1, a2, v1, v2}
    Home <- MCHome
    Immortal = 3
    CallsMax = 1
INVARIANTS
    RefsCounted
    NoDangling
    DeallocatedOnce
    NothingLeaks
    ExitIsFinal
PROPERTIES
    LibraryReturns
