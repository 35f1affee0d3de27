SPECIFICATION Spec
CONSTANTS
    TestUser = vcuser
    OtherUsers = {other}
    AnyUser = anyone
    Certs = {c1, c2}
    MaxCalls = 2
INVARIANTS
    TypeOK
    PassedMeansClean
PROPERTIES
    VerdictIsTrue
\* The test case ends, and so does the use by hand.
CHECK_DEADLOCK FALSE
