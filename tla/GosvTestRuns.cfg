SPECIFICATION Spec
CONSTANTS
    Names <- MCNames
    TestList <- MCTestList
    MainPlay = "main"
    SetupPlay = "env_setup"
    CleanupPlay = "env_cleanup"
    DeployTest = "deploy_vm"
    DeployAliases <- MCAliases
    Blockers <- MCBlockers
INVARIANTS
    TypeOK
    Bookkeeping
    EventsGoToTheirTest
    BlockedBehindBlockers
PROPERTIES
    VerdictIsFinal
    ImplementsVerdicts
\* The playbook ends.
CHECK_DEADLOCK FALSE
