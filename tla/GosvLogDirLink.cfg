SPECIFICATION Spec
CONSTANTS
    Runs = {r1, r2}
    SameSecond = FALSE
    RemovesCurrent = FALSE
SYMMETRY MCSymmetry
INVARIANTS
    OldLinkIsUnlinked
\* The runs come to an end.
CHECK_DEADLOCK FALSE
