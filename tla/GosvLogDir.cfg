SPECIFICATION Spec
CONSTANTS
    Runs = {r1, r2, r3}
    SameSecond = FALSE
    RemovesCurrent = FALSE
SYMMETRY MCSymmetry
INVARIANTS
    TypeOK
    LinkResolves
    LogsAreKept
    UndisturbedIsListed
\* The runs come to an end.
CHECK_DEADLOCK FALSE
