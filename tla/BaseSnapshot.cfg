SPECIFICATION Spec
CONSTANTS
    MaxRuns = 2
    MaxRenames = 2
    ExitWhenFail = FALSE
    CleanupVm = TRUE
INVARIANTS
    TypeOK
    BaseIsSettled
    FlagMeansSnapshot
    VmIsLeftAtBase
PROPERTY
    BodyStartsFromBase
\* The last run ends.
CHECK_DEADLOCK FALSE
