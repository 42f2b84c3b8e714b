SPECIFICATION Spec
CONSTANTS
    Junk = Junk
    SSizeMax = 99
    Unorderable = 0
    NaN = 99
    RunMax = 4
    MinGallop = 2
    TempSize = 10
    Inputs <- MCInputs
    Longest = 9
    LongestOdd = 6
CHECK_DEADLOCK FALSE
INVARIANTS
    NothingLost
    SortedStably
    RunsAbut
    StackBalanced
    TempFits
PROPERTY
    RunsSpec
