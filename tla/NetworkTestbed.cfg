SPECIFICATION Spec
CONSTANTS
    Runs = {r1, r2}
    Lists <- MCLists
    Taken <- MCTaken
    Others <- MCOthers
    MaxIndex = 2
    MaxVds = 16
    NoRun = none
SYMMETRY MCSymmetry
INVARIANTS
    TypeOK
    TestHasNetwork
    NothingIsLeft
    VmksAreKept
    VdsWithinMaximum
\* Runs end.
CHECK_DEADLOCK FALSE
