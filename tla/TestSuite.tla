------------------------------ MODULE TestSuite ------------------------------
(***************************************************************************)
(* A test run of main.yml: the plays it imports, the sections a test case  *)
(* is made of (block, rescue, always), common/skip_test_case.yml and       *)
(* common/test_rescue.yml, together with the log plugin of GosvTestRuns.   *)
(*                                                                         *)
(* The executor is Ansible's, as the playbooks use it: a failed task of a  *)
(* block goes on in the rescue section, then in the always section; a host *)
(* that fails outside of a block or in its rescue or always section, or    *)
(* that is unreachable, takes no further part, and as localhost is the     *)
(* only host of every play the playbook is over.                           *)
(***************************************************************************)
EXTENDS GosvTestRuns

CONSTANTS
    Profile         \* what the playbook of a test case contains

(* open: its setup is outside of the block, as in deploy_vm;               *)
(* early: it has tasks in the block ahead of test_setup.yml;               *)
(* exit: it sets exit_testing_when_fail for its rescue section;            *)
(* always: it has an always section;                                       *)
(* probes: it has tasks with ignore_unreachable;                           *)
(* earlySkips, skips, lateSkips: the reasons it may be skipped for, ahead  *)
(* of test_setup.yml, behind it, and behind a task with ignore_unreachable. *)
Reasons == SkipReasons \cup {"Blocked"}

ProfileType ==
    [open : BOOLEAN, early : BOOLEAN, exit : BOOLEAN, always : BOOLEAN, probes : BOOLEAN,
     earlySkips : SUBSET Reasons, skips : SUBSET Reasons, lateSkips : SUBSET Reasons]

ASSUME ProfileAssumption == \A i \in TestIds : Profile[TestList[i]] \in ProfileType

(* deploy_vm.yml, ovt_verify_pkg_install.yml, ovt_verify_src_install.yml   *)
(* and wintools_complete_install_verify.yml set exit_testing_when_fail.    *)
ASSUME BlockersExitAssumption ==
    \A i \in TestIds : TestList[i] \in Blockers => Profile[TestList[i]].exit

VARIABLES
    params,     \* the parameters of vars/test.yml the playbooks look at
    section,    \* the section of the current play, "none" between plays
    doomed,     \* a rescue or always section failed: the host fails after it
    hostFailed, \* localhost has failed or a delegate was unreachable
    folder,     \* current_testcase_index and the play the log folder is named for
    vmRemoved,  \* vm_cleaned_up
    outcome,    \* history: the result the tasks of each test came to
    probed      \* history: tests with an unreachable result that was ignored

suiteVars ==
    <<vars, params, section, doomed, hostFailed, folder, vmRemoved, outcome, probed>>
history == <<outcome, probed>>

(* new_vm, cleanup_vm and exit_testing_when_fail, which the user sets.      *)
Parameters == [newVm : BOOLEAN, cleanupVm : BOOLEAN, exitWhenFail : BOOLEAN]

NoFolder == [index |-> 0, play |-> NoPlay]
Folders  == [index : 0..NumTests, play : Names \cup {NoPlay}]

Sections == {"none", "tasks", "before", "opened", "block", "rescue", "rescued", "always"}

SuiteInit ==
    /\ Init
    /\ params \in Parameters
    /\ section = "none"
    /\ doomed = FALSE
    /\ hostFailed = FALSE
    /\ folder = NoFolder
    /\ vmRemoved = FALSE
    /\ outcome = [i \in TestIds |-> "none"]
    /\ probed = {}

-----------------------------------------------------------------------------
InTest == played \in 3..(NumTests + 2)
Current == played - 2
Test == Profile[TestList[Current]]

(* The first thing that decides the test is its outcome.                   *)
Outcome(result) ==
    outcome' = IF InTest /\ outcome[Current] = "none"
               THEN [outcome EXCEPT ![Current] = result]
               ELSE outcome

BeginPlaybook ==
    /\ StartPlaybook
    /\ UNCHANGED <<params, section, doomed, hostFailed, folder, vmRemoved, history>>

FirstSection(n) ==
    IF n \in 3..(NumTests + 2) THEN "before" ELSE "tasks"

BeginPlay ==
    /\ section = "none"
    /\ ~ hostFailed
    /\ StartPlay
    /\ section' = FirstSection(played + 1)
    /\ UNCHANGED <<params, doomed, hostFailed, folder, vmRemoved, history>>

(* Mutants: the setup runs twice, the index is not counted up, the name is *)
(* still that of the test before.                                          *)
SetsFactsAgain ==
    /\ section = "before"
    /\ folder' = [index |-> folder.index + 1, play |-> playName]
    /\ CollectTestCaseName(playName)
    /\ UNCHANGED <<params, played, section, doomed, hostFailed, vmRemoved, history>>

KeepsIndex ==
    /\ section = "before"
    /\ folder' = [index |-> folder.index, play |-> playName]
    /\ CollectTestCaseName(playName)
    /\ section' = IF Test.open THEN "opened" ELSE "block"
    /\ UNCHANGED <<params, played, doomed, hostFailed, vmRemoved, history>>

KeepsName ==
    /\ section = "before"
    /\ folder' = [index |-> folder.index + 1, play |-> playName]
    /\ CollectTestCaseName(folder.play)
    /\ section' = IF Test.open THEN "opened" ELSE "block"
    /\ UNCHANGED <<params, played, doomed, hostFailed, vmRemoved, history>>

(* common/set_current_testcase_facts.yml, the first thing in test_setup.   *)
SetCurrentTestcaseFacts ==
    /\ section = "before"
    /\ folder' = [index |-> folder.index + 1, play |-> playName]
    /\ CollectTestCaseName(playName)
    /\ section' = IF Test.open THEN "opened" ELSE "block"
    /\ UNCHANGED <<params, played, doomed, hostFailed, vmRemoved, history>>

(* deploy_vm goes on to its block only with new_vm, else it is skipped.    *)
EnterBlock ==
    /\ section = "opened"
    /\ params.newVm
    /\ section' = "block"
    /\ UNCHANGED <<params, vars, doomed, hostFailed, folder, vmRemoved, history>>

(* deploy_vm_from_iso.yml and deploy_vm_from_ova.yml name their test case. *)
RenameTestCase ==
    /\ section = "block"
    /\ playName = DeployTest
    /\ \E name \in DeployAliases : CollectTestCaseName(name)
    /\ UNCHANGED <<params, played, section, doomed, hostFailed, folder, vmRemoved, history>>

-----------------------------------------------------------------------------
(* Sections in which a failed task is rescued.                             *)
Rescuable ==
    \/ section = "block"
    \/ section = "before" /\ Test.early /\ ~ Test.open

BlockTaskFails ==
    /\ Rescuable
    /\ RunnerOnFailed(FALSE, FALSE)
    /\ Outcome("Failed")
    /\ section' = "rescue"
    /\ UNCHANGED <<params, played, doomed, hostFailed, folder, vmRemoved, probed>>

(* Tasks of main, env_setup and env_cleanup, and those of deploy_vm ahead  *)
(* of its block, have no rescue section.                                   *)
BareTaskFails ==
    /\ \/ section \in {"tasks", "opened"}
       \/ section = "before" /\ Test.open
    /\ RunnerOnFailed(FALSE, FALSE)
    /\ Outcome("Failed")
    /\ section' = "none"
    /\ hostFailed' = TRUE
    /\ UNCHANGED <<params, played, doomed, folder, vmRemoved, probed>>

HostUnreachable ==
    /\ section # "none"
    /\ RunnerOnUnreachable
    /\ Outcome("Failed")
    /\ section' = "none"
    /\ hostFailed' = TRUE
    /\ UNCHANGED <<params, played, doomed, folder, vmRemoved, probed>>

(* The play goes on behind a task that has ignore_unreachable, and the     *)
(* plugin is called all the same.                                          *)
IgnoredUnreachable ==
    /\ section = "block"
    /\ Test.probes
    /\ RunnerOnUnreachable
    /\ probed' = probed \cup {Current}
    /\ UNCHANGED <<params, played, section, doomed, hostFailed, folder, vmRemoved,
                   outcome>>

-----------------------------------------------------------------------------
(* common/skip_test_case.yml: "Blocked" fails, other reasons are shown by  *)
(* a debug task and meta: end_host ends the play, its always section too.  *)
SkipsHere ==
    CASE section = "before" /\ Test.early                       -> Test.earlySkips
      [] section = "opened" /\ ~ params.newVm                          -> Test.skips
      [] section = "block" /\ Current \in probed                -> Test.lateSkips
      [] section = "block" /\ ~ Test.open /\ Current \notin probed -> Test.skips
      [] OTHER                                                  -> {}

SkipTestCase ==
    /\ InTest
    /\ \E reason \in SkipsHere \cap SkipReasons :
         /\ RunnerOnSkipTestCase(reason)
         /\ Outcome(reason)
    /\ section' = "none"
    /\ UNCHANGED <<params, played, doomed, hostFailed, folder, vmRemoved, probed>>

BlockTestCase ==
    /\ InTest
    /\ "Blocked" \in SkipsHere
    /\ RunnerOnFailed(FALSE, TRUE)
    /\ Outcome("Blocked")
    /\ section' = "rescue"
    /\ UNCHANGED <<params, played, doomed, hostFailed, folder, vmRemoved, probed>>

-----------------------------------------------------------------------------
(* common/test_rescue.yml collects into current_test_log_folder, then      *)
(* exits when exit_testing_when_fail is set.  Without a folder, because no *)
(* test has come to its setup yet, its first tasks fail.                   *)
CollectEvidence ==
    /\ section = "rescue"
    /\ folder # NoFolder
    /\ section' = "rescued"
    /\ UNCHANGED <<params, vars, doomed, hostFailed, folder, vmRemoved, outcome, probed>>

(* Mutant: the test case's own exit_testing_when_fail is missing.          *)
ExitsOnlyByParameter == params.exitWhenFail

ExitTesting == params.exitWhenFail \/ Test.exit

(* What follows the sections of a block.                                   *)
AfterRescue(failed) ==
    /\ section' = IF Test.always THEN "always" ELSE "none"
    /\ doomed' = (failed /\ Test.always)
    /\ hostFailed' = (failed /\ ~ Test.always)

RescueTaskFails ==
    /\ section = "rescue"
    /\ RunnerOnFailed(FALSE, FALSE)
    /\ AfterRescue(TRUE)
    /\ UNCHANGED <<params, played, folder, vmRemoved, history>>

RescueExits ==
    /\ section = "rescued"
    /\ ExitTesting
    /\ RunnerOnFailed(FALSE, FALSE)
    /\ AfterRescue(TRUE)
    /\ UNCHANGED <<params, played, folder, vmRemoved, history>>

RescueEnds ==
    /\ section = "rescued"
    /\ ~ ExitTesting
    /\ AfterRescue(FALSE)
    /\ UNCHANGED <<params, vars, folder, vmRemoved, history>>

BlockEnds ==
    /\ section = "block"
    /\ section' = IF Test.always THEN "always" ELSE "none"
    /\ IF Test.always THEN UNCHANGED outcome ELSE Outcome("Passed")
    /\ UNCHANGED <<params, vars, doomed, hostFailed, folder, vmRemoved, probed>>

AlwaysTaskFails ==
    /\ section = "always"
    /\ RunnerOnFailed(FALSE, FALSE)
    /\ Outcome("Failed")
    /\ section' = "none"
    /\ hostFailed' = TRUE
    /\ UNCHANGED <<params, played, doomed, folder, vmRemoved, probed>>

AlwaysEnds ==
    /\ section = "always"
    /\ section' = "none"
    /\ hostFailed' = doomed
    /\ Outcome("Passed")
    /\ UNCHANGED <<params, vars, doomed, folder, vmRemoved, probed>>

-----------------------------------------------------------------------------
(* env_cleanup.yml, "Cleanup new deployed VM".                             *)
RemovesVm == params.cleanupVm /\ params.newVm

RemoveNewVm ==
    /\ section = "tasks"
    /\ playName = CleanupPlay
    /\ RemovesVm
    /\ vmRemoved' = TRUE
    /\ UNCHANGED <<params, vars, section, doomed, hostFailed, folder, history>>

TasksEnd ==
    /\ section = "tasks"
    /\ playName = CleanupPlay /\ RemovesVm => vmRemoved
    /\ section' = "none"
    /\ UNCHANGED <<params, vars, doomed, hostFailed, folder, vmRemoved, history>>

FinishPlaybook ==
    /\ section = "none"
    /\ hostFailed \/ played = Len(Plays)
    /\ EndPlaybook
    /\ UNCHANGED <<params, section, doomed, hostFailed, folder, vmRemoved, history>>

-----------------------------------------------------------------------------
(* Steps that bring the run to its end.                                    *)
SuiteAdvance ==
    \/ BeginPlaybook
    \/ BeginPlay
    \/ SetCurrentTestcaseFacts
    \/ EnterBlock
    \/ BlockTaskFails
    \/ BareTaskFails
    \/ HostUnreachable
    \/ SkipTestCase
    \/ BlockTestCase
    \/ CollectEvidence
    \/ RescueTaskFails
    \/ RescueExits
    \/ RescueEnds
    \/ BlockEnds
    \/ AlwaysTaskFails
    \/ AlwaysEnds
    \/ RemoveNewVm
    \/ TasksEnd
    \/ FinishPlaybook

SuiteNext == SuiteAdvance \/ RenameTestCase \/ IgnoredUnreachable

(* Ansible runs the next task as soon as the last one has ended, and every *)
(* task ends: modules, retries and waits have a timeout.                   *)
SuiteSpec == SuiteInit /\ [][SuiteNext]_suiteVars /\ WF_suiteVars(SuiteAdvance)

-----------------------------------------------------------------------------
(* Types of the executor's state and of the history.                       *)
SuiteTypeOK ==
    /\ TypeOK
    /\ params \in Parameters
    /\ section \in Sections
    /\ doomed \in BOOLEAN /\ hostFailed \in BOOLEAN /\ vmRemoved \in BOOLEAN
    /\ folder \in Folders
    /\ outcome \in [TestIds -> Verdicts \cup {"none"}]
    /\ probed \subseteq TestIds

(* The plugin sees only callbacks, but what it shows for a test is what    *)
(* the tasks of that test came to, unless an unreachable result was        *)
(* ignored in it.  A test that has passed is "Running" until the next play *)
(* starts.                                                                 *)
VerdictMatchesOutcome ==
    \A i \in DOMAIN testRuns \ probed :
      /\ outcome[i] = "none" =>
           testRuns[i].status = IF played >= i + 2 THEN "Running"
                                ELSE IF phase = "recap" THEN testRuns[i].status
                                ELSE "No Run"
      /\ outcome[i] = "Passed" =>
           testRuns[i].status = IF phase = "playing" /\ played = i + 2
                                THEN "Running" ELSE "Passed"
      /\ outcome[i] \notin {"none", "Passed"} => testRuns[i].status = outcome[i]

(* The log folder a test writes to carries its own name and the position   *)
(* results.log shows for it, as long as no test before it and not the test *)
(* itself may end ahead of test_setup.yml.                                 *)
FolderMatchesTestId ==
    (/\ section \in {"opened", "block", "rescue", "rescued", "always"}
     /\ \A j \in 1..Current : ~ Profile[TestList[j]].early)
      => folder = [index |-> Current, play |-> TestList[Current]]

(* No test runs behind a blocker that has failed: the tests that set       *)
(* exit_testing_when_fail in their rescue section cover those the plugin's *)
(* blocker_pattern knows, which is what lets it call the rest "Blocked".   *)
NothingRunsBehindBlocker ==
    \A j \in DOMAIN testRuns \ probed :
      IsFailedBlocker(testRuns[j]) => played <= j + 2

(* Every step of a run is a step of the plugin's environment as            *)
(* GosvTestRuns describes it, so what is proved there holds here.          *)
SuiteDrivesPlugin == Spec

(* However its tasks end, the run comes to its results, by way of          *)
(* env_cleanup unless localhost has failed; then nothing is left in the    *)
(* middle of a section, and every test that has started has a verdict.     *)
RunIsConcluded ==
    <>[] /\ phase = "recap" /\ section = "none"
         /\ hostFailed \/ playName = CleanupPlay
         /\ \A i \in DOMAIN testRuns : testRuns[i].status # "Running"

-----------------------------------------------------------------------------
(* vars/test.yml:62: with cleanup_vm the new VM is removed if there is no  *)
(* failed test case.                                                       *)
VmOfFailedRunIsKept ==
    vmRemoved => \A i \in DOMAIN testRuns : testRuns[i].status # "Failed"
=============================================================================
