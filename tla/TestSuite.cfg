SPECIFICATION SuiteSpec
CONSTANTS
    Names <- MCNames
    TestList <- MCTestList
    MainPlay = "main"
    SetupPlay = "env_setup"
    CleanupPlay = "env_cleanup"
    DeployTest = "deploy_vm"
    DeployAliases <- MCAliases
    Blockers <- MCBlockers
    Profile <- MCProfile
INVARIANTS
    SuiteTypeOK
    VerdictMatchesOutcome
    FolderMatchesTestId
    NothingRunsBehindBlocker
PROPERTIES
    SuiteDrivesPlugin
    RunIsConcluded
\* The playbook ends.
CHECK_DEADLOCK FALSE
