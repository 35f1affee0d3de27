SPECIFICATION TaskSpec
CONSTANTS
    Paths <- MCPaths
    Looped <- MCLooped
    IgnoreErrors <- MCIgnoreErrors
    KnownIssue = {"known issue"}
    FailMessage = {"fail message"}
    MaxPlays = 2
    MaxTasks = 5
INVARIANTS
    TaskTypeOK
    EntriesNameTheirPlay
PROPERTY
    FailureIsAttributed
\* The last task is over.
CHECK_DEADLOCK FALSE
