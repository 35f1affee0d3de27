SPECIFICATION Spec
CONSTANTS
    HwVersions = {19, 20, 21}
    ToolsVersions = {10, 12, 13}
    Reporting = {12, 13}
    TestLists <- MCTestLists
INVARIANTS
    TypeOK
    InfoIsExact
\* The run ends.
CHECK_DEADLOCK FALSE
