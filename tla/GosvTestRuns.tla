---------------------------- MODULE GosvTestRuns ----------------------------
(***************************************************************************)
(* The bookkeeping of test runs in plugin/ansible_vsphere_gosv_log.py: the *)
(* callback plugin loads the test case list when the playbook starts, is   *)
(* told by Ansible of every play and every task result, and derives from   *)
(* these events alone the status of each test case that results.log shows. *)
(*                                                                         *)
(* Ansible is the environment here: the plays of main.yml start in the     *)
(* order they are imported in, any task result may come at any moment of a *)
(* play, and the playbook may end after any play.  TestSuite constrains    *)
(* these events to what the executor does with the test cases of src/.     *)
(***************************************************************************)
EXTENDS Naturals, Sequences, FiniteSets

CONSTANTS
    Names,          \* names a test run may have
    TestList,       \* the test case list file, in order; a name may come twice
    MainPlay,       \* the play of main.yml itself
    SetupPlay,      \* env_setup/env_setup.yml
    CleanupPlay,    \* env_setup/env_cleanup.yml
    DeployTest,     \* deploy_vm, the test case that is renamed while it runs
    DeployAliases,  \* its names: deploy_vm_ova, deploy_vm_efi_..., deploy_vm
    Blockers        \* names that match blocker_pattern

ASSUME TestListAssumption == TestList \in Seq(Names)
ASSUME AliasAssumption ==
    /\ DeployTest \in DeployAliases
    /\ DeployAliases \subseteq Names
(* No test case is named like the plays around the test cases.             *)
ASSUME PlayAssumption == {MainPlay, SetupPlay, CleanupPlay} \cap Names = {}
ASSUME BlockerAssumption ==
    /\ Blockers \subseteq Names
    /\ DeployAliases \subseteq Blockers

VARIABLES
    phase,          \* "start", "playing" or "recap" (v2_playbook_on_stats ran)
    testRuns,       \* test_runs, an OrderedDict whose keys are the positions
    notCompleted,   \* not_completed_testcases
    lastTest,       \* position of _last_test_id in testRuns, 0 for None
    playName,       \* _play_name
    played          \* number of plays Ansible has started

pluginVars == <<phase, testRuns, notCompleted, lastTest, playName>>
vars == <<phase, testRuns, notCompleted, lastTest, playName, played>>

-----------------------------------------------------------------------------
NumTests == Len(TestList)
TestIds  == 1..NumTests

SkipReasons == {"Not Supported", "Not Applicable", "Skipped"}
Verdicts    == {"Passed", "Failed", "Blocked"} \cup SkipReasons
Statuses    == {"No Run", "Running"} \cup Verdicts
NoPlay      == "no play"

TestRun == [name : Names, status : Statuses]

(* main.yml: its own play, then what it imports.                           *)
Plays == <<MainPlay, SetupPlay>> \o TestList \o <<CleanupPlay>>

Init ==
    /\ phase = "start"
    /\ testRuns = << >>
    /\ notCompleted = << >>
    /\ lastTest = 0
    /\ playName = NoPlay
    /\ played = 0

-----------------------------------------------------------------------------
(* v2_playbook_on_start.  An exception on the way to _get_testcase_list    *)
(* (the log directory could not be set up, see GosvLogDir) is caught by    *)
(* Ansible and leaves the plugin without a test case list.                 *)
ListLoaded ==
    /\ testRuns' = [i \in TestIds |-> [name |-> TestList[i], status |-> "No Run"]]
    /\ notCompleted' = TestList

ListNotLoaded ==
    UNCHANGED <<testRuns, notCompleted>>

PlaybookOnStart ==
    /\ phase = "start"
    /\ phase' = "playing"
    /\ ListLoaded \/ ListNotLoaded
    /\ UNCHANGED <<lastTest, playName>>

(* Mutant: the status of the last test is not looked at.                   *)
LastIsKnown == lastTest \in DOMAIN testRuns

(* The guard every handler repeats before it completes the last test.      *)
LastIsRunning ==
    /\ lastTest \in DOMAIN testRuns
    /\ testRuns[lastTest].status = "Running"

(* TestRun.complete, then the pop of the head of not_completed_testcases.  *)
RunsAfter(verdict) ==
    IF LastIsRunning
    THEN [testRuns EXCEPT ![lastTest].status = verdict]
    ELSE testRuns

(* Mutant: the completed test is not popped.                               *)
PendingKept == notCompleted

PendingAfter ==
    IF LastIsRunning THEN Tail(notCompleted) ELSE notCompleted

Complete(verdict) ==
    /\ testRuns' = RunsAfter(verdict)
    /\ notCompleted' = PendingAfter
    /\ UNCHANGED <<phase, lastTest, playName>>

(* v2_playbook_on_play_start: the test that still runs has passed; the     *)
(* position of the next one is the number of tests completed so far.       *)
NextTestId(pending, play) ==
    LET id == Len(testRuns) - Len(pending) + 1
    IN  IF /\ id \in DOMAIN testRuns
           /\ pending[1] = play
           /\ TestList[id] = play
        THEN id
        ELSE 0

(* Mutant: the test that still runs is left as it is.                      *)
PlayStartCompletesNothing(play) ==
    LET next == NextTestId(PendingAfter, play)
    IN  /\ phase = "playing"
        /\ notCompleted' = PendingAfter
        /\ lastTest' = next
        /\ playName' = play
        /\ testRuns' = [i \in DOMAIN testRuns |->
                          IF i = next THEN [testRuns[i] EXCEPT !.status = "Running"]
                          ELSE testRuns[i]]
        /\ UNCHANGED phase

PlaybookOnPlayStart(play) ==
    LET next == NextTestId(PendingAfter, play)
    IN  /\ phase = "playing"
        /\ notCompleted' = PendingAfter
        /\ lastTest' = next
        /\ playName' = play
        /\ testRuns' = [i \in DOMAIN testRuns |->
                          IF i = next
                          THEN [RunsAfter("Passed")[i] EXCEPT !.status = "Running"]
                          ELSE RunsAfter("Passed")[i]]
        /\ UNCHANGED phase

-----------------------------------------------------------------------------
(* v2_runner_on_failed: a failure that is not ignored decides the test,    *)
(* also when a rescue section goes on to handle it.                        *)
RunnerOnFailed(ignoreErrors, blocked) ==
    /\ phase = "playing"
    /\ IF ignoreErrors
       THEN UNCHANGED pluginVars
       ELSE Complete(IF blocked THEN "Blocked" ELSE "Failed")

(* Mutant: an unreachable host only gets its task details printed.         *)
UnreachableIsPrinted ==
    /\ phase = "playing"
    /\ UNCHANGED pluginVars

(* v2_runner_on_unreachable: called with and without ignore_unreachable.   *)
RunnerOnUnreachable ==
    /\ phase = "playing"
    /\ Complete("Failed")

(* Mutants: the skipped test is not popped, the reason is not stripped.    *)
SkipDoesNotPop(reason) ==
    /\ phase = "playing"
    /\ testRuns' = RunsAfter(reason)
    /\ UNCHANGED <<phase, notCompleted, lastTest, playName>>

SkipDoesNotStrip(reason) ==
    /\ phase = "playing"
    /\ Complete("reason: " \o reason)

(* v2_runner_on_ok of the debug task in common/skip_test_case.yml.         *)
RunnerOnSkipTestCase(reason) ==
    /\ phase = "playing"
    /\ Complete(reason)

(* v2_runner_on_ok of a set_fact that gives current_testcase_name, handled *)
(* in _collect_ansible_gosv_facts.                                         *)
CollectTestCaseName(name) ==
    /\ phase = "playing"
    /\ testRuns' = IF lastTest \in DOMAIN testRuns
                   THEN [testRuns EXCEPT ![lastTest].name = name]
                   ELSE testRuns
    /\ UNCHANGED <<phase, notCompleted, lastTest, playName>>

-----------------------------------------------------------------------------
(* _print_test_results: the tests that did not run are blocked when the    *)
(* playbook ended in env_setup or behind a blocker that failed.            *)
IsFailedBlocker(run) ==
    /\ run.status \in {"Failed", "Blocked"}
    /\ run.name \in Blockers

(* Mutants: env_setup blocks nothing, a blocker blocks the next test only. *)
BlockedByTest(runs, i) == \E j \in 1..(i - 1) : IsFailedBlocker(runs[j])

BlockedByPrevious(runs, i) ==
    \/ playName = SetupPlay
    \/ i > 1 /\ IsFailedBlocker(runs[i - 1])

BlockedAt(runs, i) ==
    \/ playName = SetupPlay
    \/ \E j \in 1..(i - 1) : IsFailedBlocker(runs[j])

ResultStatus(runs, i) ==
    IF runs[i].status = "No Run" /\ BlockedAt(runs, i)
    THEN "Blocked"
    ELSE runs[i].status

(* With new_vm, deploy_vm is shown under the name of its configuration.    *)
ResultName(run, alias) ==
    IF run.name = DeployTest THEN alias ELSE run.name

PlaybookOnStats ==
    /\ phase = "playing"
    /\ phase' = "recap"
    /\ \E alias \in DeployAliases :
         testRuns' = [i \in DOMAIN testRuns |->
                        [name   |-> ResultName(testRuns[i], alias),
                         status |-> ResultStatus(RunsAfter("Passed"), i)]]
    /\ notCompleted' = PendingAfter
    /\ UNCHANGED <<lastTest, playName>>

-----------------------------------------------------------------------------
(* The names set_fact gives current_testcase_name in the play of a test.   *)
NamesOf(play) == IF play = DeployTest THEN DeployAliases ELSE {play}

InTestPlay == playName \in {TestList[i] : i \in TestIds}

StartPlaybook == PlaybookOnStart /\ UNCHANGED played

StartPlay ==
    /\ played < Len(Plays)
    /\ PlaybookOnPlayStart(Plays[played + 1])
    /\ played' = played + 1

TaskFailed ==
    /\ played > 0
    /\ \E ignored, blocked \in BOOLEAN : RunnerOnFailed(ignored, blocked)
    /\ UNCHANGED played

TaskUnreachable ==
    /\ played > 0
    /\ RunnerOnUnreachable
    /\ UNCHANGED played

TestSkipped ==
    /\ InTestPlay
    /\ \E reason \in SkipReasons : RunnerOnSkipTestCase(reason)
    /\ UNCHANGED played

TestNamed ==
    /\ InTestPlay
    /\ \E name \in NamesOf(playName) : CollectTestCaseName(name)
    /\ UNCHANGED played

EndPlaybook ==
    /\ played > 0
    /\ PlaybookOnStats
    /\ UNCHANGED played

Next ==
    \/ StartPlaybook
    \/ StartPlay
    \/ TaskFailed
    \/ TaskUnreachable
    \/ TestSkipped
    \/ TestNamed
    \/ EndPlaybook

Spec == Init /\ [][Next]_vars

-----------------------------------------------------------------------------
(* Types of the plugin's fields.                                           *)
TypeOK ==
    /\ phase \in {"start", "playing", "recap"}
    /\ testRuns \in Seq(TestRun)
    /\ Len(testRuns) \in {0, NumTests}
    /\ notCompleted \in Seq(Names)
    /\ lastTest \in 0..NumTests
    /\ playName \in {NoPlay, MainPlay, SetupPlay, CleanupPlay} \cup Names
    /\ played \in 0..Len(Plays)

Completed == Len(testRuns) - Len(notCompleted)

(* not_completed_testcases is the tail of the test case list behind the    *)
(* completed tests: every pop removed the test that was completed with it. *)
PendingIsTail ==
    /\ Completed \in 0..Len(testRuns)
    /\ \A i \in 1..Len(notCompleted) : notCompleted[i] = TestList[Completed + i]

(* Tests are completed in list order: before the first pending test all    *)
(* have a verdict, behind it none has started.                             *)
VerdictsInOrder ==
    phase # "recap" =>
      \A i \in DOMAIN testRuns :
        /\ i <= Completed <=> testRuns[i].status \in Verdicts
        /\ i > Completed + 1 => testRuns[i].status = "No Run"

(* Only the last test is Running, and only the first pending one can be.   *)
RunningIsLast ==
    \A i \in DOMAIN testRuns :
      testRuns[i].status = "Running" => i = lastTest /\ i = Completed + 1

(* The list of pending tests, the test runs and the last test agree.       *)
Bookkeeping == PendingIsTail /\ VerdictsInOrder /\ RunningIsLast

(* While the play of the k-th listed test goes on, the events Ansible      *)
(* reports are booked on the k-th test run: whatever failed, was skipped   *)
(* or unreachable before, and also when a name is listed more than once.   *)
EventsGoToTheirTest ==
    (phase = "playing" /\ testRuns # << >>) =>
      lastTest = IF played \in 3..(NumTests + 2) THEN played - 2 ELSE 0

(* Once booked, a verdict is never overwritten: later failures of the same *)
(* play, of the next plays and the final marking leave it alone.           *)
VerdictIsFinal ==
    [][\A i \in DOMAIN testRuns :
         testRuns[i].status \in Verdicts =>
           /\ i \in DOMAIN testRuns'
           /\ testRuns'[i].status = testRuns[i].status]_vars

(* In results.log, a test whose play never started is "Blocked" exactly    *)
(* when env_setup was the last play or a blocker that ran has failed, and  *)
(* "No Run" otherwise; no test is left "Running".                          *)
BlockedBehindBlockers ==
    phase = "recap" =>
      \A i \in DOMAIN testRuns :
        /\ testRuns[i].status # "Running"
        /\ played < i + 2 =>
             testRuns[i].status =
               IF \/ playName = SetupPlay
                  \/ \E j \in 1..(i - 1) : played >= j + 2 /\ IsFailedBlocker(testRuns[j])
               THEN "Blocked"
               ELSE "No Run"

-----------------------------------------------------------------------------
(* The plugin implements the abstract bookkeeping; a run whose list was    *)
(* not loaded has no test to report.                                       *)
Verdict == INSTANCE TestVerdicts WITH
    status   <- [t \in TestIds |->
                   IF t \in DOMAIN testRuns THEN testRuns[t].status ELSE "No Run"],
    reported <- phase = "recap"

ImplementsVerdicts == Verdict!Spec
=============================================================================
