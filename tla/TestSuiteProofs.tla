-------------------------- MODULE TestSuiteProofs ---------------------------
(***************************************************************************)
(* Proofs about TestSuite, for every test case list and whatever the       *)
(* playbooks of its test cases contain.                                    *)
(*                                                                         *)
(* A run of the suite drives the plugin as GosvTestRuns describes it, so   *)
(* what GosvTestRunsProofs shows of the plugin holds here; the invariant   *)
(* adds what the sections of the current play tell of its test.            *)
(***************************************************************************)
EXTENDS TestSuite, GosvTestRunsProofs

(* Sections of the play of a test case.                                    *)
TestSections == {"before", "opened", "block", "rescue", "rescued", "always"}
Undecided    == {"before", "opened", "block"}
Failures     == {"Failed", "Blocked"}

(* There are sections while a play goes on only; those of a test belong to *)
(* the play of that test.                                                  *)
SectionInv ==
    /\ section # "none" => phase = "playing" /\ played > 0 /\ ~ hostFailed
    /\ section \in TestSections => InTest /\ playName = TestList[Current]
    /\ section = "tasks" => ~ InTest
    /\ hostFailed => played > 0

(* The types of what TestSuite adds, the log folder left out.              *)
SuiteTypes ==
    /\ params \in Parameters
    /\ section \in Sections
    /\ doomed \in BOOLEAN /\ hostFailed \in BOOLEAN /\ vmRemoved \in BOOLEAN
    /\ outcome \in [TestIds -> Verdicts \cup {"none"}]
    /\ probed \subseteq TestIds

(* Every test that started has set its facts once, unless it ended ahead   *)
(* of them; only one that may do so keeps the index behind.                *)
NoneEarly(k) == \A j \in 1..k : ~ Profile[TestList[j]].early
SetUp == IF section = "before" THEN Over - 1 ELSE Over

FolderInv ==
    /\ folder \in Folders
    /\ folder.index \in 0..SetUp
    /\ ~ hostFailed /\ NoneEarly(Over) => folder.index = SetUp
    /\ section \in TestSections \ {"before"} /\ NoneEarly(Over)
         => folder.play = playName

(* A test has an outcome when its sections are over, and not before.       *)
OutcomeInv ==
    /\ \A i \in TestIds : i > Over => outcome[i] = "none"
    /\ \A i \in TestIds : i <= Over /\ outcome[i] = "none" =>
         InTest /\ i = Current /\ section \in Undecided \cup {"always"}
    /\ section \in Undecided => outcome[Current] = "none"
    /\ section \in {"rescue", "rescued"} => outcome[Current] \in Failures
    /\ section = "always" => outcome[Current] \in Failures \cup {"none"}

(* A failed test that exits the run is the last one.                       *)
ExitInv ==
    /\ section = "always" /\ Test.exit /\ outcome[Current] \in Failures => doomed
    /\ \A i \in TestIds :
         Profile[TestList[i]].exit /\ outcome[i] \in Failures =>
           /\ played = i + 2
           /\ section = "none" => hostFailed

(* A test run keeps its name, but for deploy_vm.                           *)
NameInv ==
    \A i \in DOMAIN testRuns : testRuns[i].name \in NamesOf(TestList[i])

-----------------------------------------------------------------------------
(* The current test by the number of plays, and by that of the next play.  *)
LEMMA PlayFacts ==
    ASSUME IInv
    PROVE  /\ Over \in 0..NumTests
           /\ InTest => Current \in TestIds /\ Over = Current /\ ThisTest = Current
           /\ ~ InTest => ThisTest = 0
           /\ \A i \in TestIds : i <= Over <=> played >= i + 2
           /\ \A i \in TestIds : played = i + 2 <=> InTest /\ i = Current
<1>1. played \in 0..(NumTests + 3)
  BY DEF IInv, Fields
<1> QED
  BY <1>1, NumTestsNat DEF Over, InTest, Current, ThisTest

(* What the next play makes of them.                                       *)
LEMMA NextPlayFacts ==
    ASSUME IInv, played < Len(Plays), played' = played + 1
    PROVE  /\ played' > 0
           /\ InTest' <=> played + 1 \in 3..(NumTests + 2)
           /\ InTest' => /\ Current' \in TestIds /\ Over' = Over + 1 /\ Current' = Over'
                         /\ Plays[played + 1] = TestList[Current']
           /\ ~ InTest' => Over' = Over
           /\ \A i \in TestIds : i <= Over' => i <= Over \/ (InTest' /\ i = Current')
           /\ \A i \in TestIds : i > Over' => i > Over
<1>1. played \in 0..(NumTests + 2)
  BY PlaysAt, NumTestsNat DEF IInv, Fields
<1>2. /\ played' > 0
      /\ InTest' <=> played + 1 \in 3..(NumTests + 2)
      /\ InTest' => Current' \in TestIds /\ Over' = Over + 1 /\ Current' = Over'
      /\ ~ InTest' => Over' = Over
  BY <1>1, NumTestsNat DEF Over, InTest, Current
<1>3. ASSUME InTest'
      PROVE  Plays[played + 1] = TestList[Current']
  <2>1. Current' \in TestIds /\ Current' + 2 = played + 1
    BY <1>1, <1>2, <1>3 DEF InTest, Current
  <2> QED
    BY <2>1, PlaysAt
<1>4. /\ \A i \in TestIds : i <= Over' => i <= Over \/ (InTest' /\ i = Current')
      /\ \A i \in TestIds : i > Over' => i > Over
  <2>1. Over \in Int /\ \A i \in TestIds : i \in Int
    BY PlayFacts, NumTestsNat
  <2> QED
    BY <1>2, <2>1
<1> QED
  BY <1>2, <1>3, <1>4

(* Without a new play they stay.                                           *)
LEMMA SamePlay ==
    ASSUME UNCHANGED played
    PROVE  /\ InTest' = InTest /\ Current' = Current /\ Over' = Over
           /\ ThisTest' = ThisTest /\ Test' = Test
  BY DEF InTest, Current, Over, ThisTest, Test

(* Where skip_test_case.yml may be included.                               *)
LEMMA SkipFacts ==
    SkipsHere # {} => /\ section \in Undecided
                      /\ section = "before" => Test.early
  BY DEF SkipsHere, Undecided

(* Skipping a test is no failure, and what is no verdict is none.          *)
LEMMA VerdictFacts ==
    /\ {"Failed", "Blocked"} \subseteq Verdicts /\ "Passed" \in Verdicts
    /\ SkipReasons \subseteq Verdicts
    /\ SkipReasons \cap {"Failed", "Blocked", "Passed", "none"} = {}
    /\ "none" \notin Verdicts
  BY DEF Verdicts, SkipReasons

(* The first result of a test is its outcome.                              *)
Decided(result) ==
    \A i \in TestIds :
      outcome'[i] = IF InTest /\ i = Current /\ outcome[i] = "none" THEN result
                    ELSE outcome[i]

(* An outcome is that of the current test, and of no other.                *)
LEMMA OutcomeFacts ==
    ASSUME IInv, SuiteTypes, NEW result, Outcome(result)
    PROVE  Decided(result)
<1>1. outcome \in [TestIds -> Verdicts \cup {"none"}]
  BY DEF SuiteTypes
<1> QED
  BY <1>1, PlayFacts DEF Outcome, Decided

(* Every step preserves when there are sections.                           *)
LEMMA SectionInvStep ==
    ASSUME IInv, SectionInv, [SuiteNext]_suiteVars
    PROVE  SectionInv'
<1> USE PlayFacts, SamePlay DEF SectionInv, TestSections, vars
<1>1. ASSUME BeginPlaybook
      PROVE  SectionInv'
  BY <1>1 DEF BeginPlaybook, StartPlaybook, PlaybookOnStart
<1>2. ASSUME BeginPlay
      PROVE  SectionInv'
  BY <1>2, NextPlayFacts DEF BeginPlay, StartPlay, PlaybookOnPlayStart, FirstSection
<1>3. ASSUME SetCurrentTestcaseFacts
      PROVE  SectionInv'
  BY <1>3 DEF SetCurrentTestcaseFacts, CollectTestCaseName
<1>4. ASSUME EnterBlock
      PROVE  SectionInv'
  BY <1>4 DEF EnterBlock
<1>5. ASSUME BlockTaskFails
      PROVE  SectionInv'
  BY <1>5 DEF BlockTaskFails, RunnerOnFailed, Complete, Rescuable
<1>6. ASSUME BareTaskFails
      PROVE  SectionInv'
  BY <1>6 DEF BareTaskFails, RunnerOnFailed, Complete
<1>7. ASSUME HostUnreachable
      PROVE  SectionInv'
  BY <1>7 DEF HostUnreachable, RunnerOnUnreachable, Complete
<1>8. ASSUME SkipTestCase
      PROVE  SectionInv'
  BY <1>8 DEF SkipTestCase, RunnerOnSkipTestCase, Complete
<1>9. ASSUME BlockTestCase
      PROVE  SectionInv'
  BY <1>9, SkipFacts DEF BlockTestCase, RunnerOnFailed, Complete, Undecided
<1>10. ASSUME CollectEvidence
      PROVE  SectionInv'
  BY <1>10 DEF CollectEvidence
<1>11. ASSUME RescueTaskFails
      PROVE  SectionInv'
  BY <1>11 DEF RescueTaskFails, RunnerOnFailed, Complete, AfterRescue
<1>12. ASSUME RescueExits
      PROVE  SectionInv'
  BY <1>12 DEF RescueExits, RunnerOnFailed, Complete, AfterRescue
<1>13. ASSUME RescueEnds
      PROVE  SectionInv'
  BY <1>13 DEF RescueEnds, AfterRescue
<1>14. ASSUME BlockEnds
      PROVE  SectionInv'
  BY <1>14 DEF BlockEnds
<1>15. ASSUME AlwaysTaskFails
      PROVE  SectionInv'
  BY <1>15 DEF AlwaysTaskFails, RunnerOnFailed, Complete
<1>16. ASSUME AlwaysEnds
      PROVE  SectionInv'
  BY <1>16 DEF AlwaysEnds
<1>17. ASSUME RemoveNewVm
      PROVE  SectionInv'
  BY <1>17 DEF RemoveNewVm
<1>18. ASSUME TasksEnd
      PROVE  SectionInv'
  BY <1>18 DEF TasksEnd
<1>19. ASSUME FinishPlaybook
      PROVE  SectionInv'
  BY <1>19, PlaysAt, NumTestsNat DEF FinishPlaybook, EndPlaybook, PlaybookOnStats
<1>20. ASSUME RenameTestCase
      PROVE  SectionInv'
  BY <1>20 DEF RenameTestCase, CollectTestCaseName
<1>21. ASSUME IgnoredUnreachable
      PROVE  SectionInv'
  BY <1>21 DEF IgnoredUnreachable, RunnerOnUnreachable, Complete
<1>22. CASE UNCHANGED suiteVars
  BY <1>22 DEF suiteVars
<1> QED
  BY <1>1, <1>2, <1>3, <1>4, <1>5, <1>6, <1>7, <1>8, <1>9,
     <1>10, <1>11, <1>12, <1>13, <1>14, <1>15, <1>16, <1>17, <1>18,
     <1>19, <1>20, <1>21, <1>22
  DEF SuiteNext, SuiteAdvance

-----------------------------------------------------------------------------
(* A step of the suite is a step of the plugin's environment.              *)
LEMMA SuiteStepDrives ==
    ASSUME IInv, SectionInv, [SuiteNext]_suiteVars
    PROVE  [Next]_vars
<1> USE DEF SectionInv, TestSections
<1>1. ASSUME RunnerOnFailed(FALSE, FALSE) \/ RunnerOnFailed(FALSE, TRUE), played > 0,
             UNCHANGED played
      PROVE  Next
  BY <1>1 DEF TaskFailed, Next
<1>2. ASSUME section \in TestSections
      PROVE  /\ InTestPlay
             /\ playName \in NamesOf(playName)
             /\ playName = DeployTest => NamesOf(playName) = DeployAliases
  BY <1>2, PlayFacts, AliasAssumption DEF InTestPlay, NamesOf
<1>3. CASE BeginPlaybook
  BY <1>3 DEF BeginPlaybook, Next
<1>4. CASE BeginPlay
  BY <1>4 DEF BeginPlay, Next
<1>5. CASE SetCurrentTestcaseFacts
  BY <1>2, <1>5 DEF SetCurrentTestcaseFacts, TestNamed, Next
<1>6. CASE BlockTaskFails
  BY <1>1, <1>6 DEF BlockTaskFails, Rescuable
<1>7. CASE BareTaskFails
  BY <1>1, <1>7 DEF BareTaskFails
<1>8. CASE HostUnreachable \/ IgnoredUnreachable
  BY <1>8 DEF HostUnreachable, IgnoredUnreachable, TaskUnreachable, Next
<1>9. CASE SkipTestCase
  <2>1. PICK reason \in SkipsHere \cap SkipReasons : RunnerOnSkipTestCase(reason)
    BY <1>9 DEF SkipTestCase
  <2>2. section \in TestSections
    BY <2>1, SkipFacts DEF Undecided
  <2> QED
    BY <1>2, <1>9, <2>1, <2>2 DEF SkipTestCase, TestSkipped, Next
<1>10. CASE BlockTestCase
  <2>1. section # "none"
    BY <1>10, SkipFacts DEF BlockTestCase, Undecided
  <2> QED
    BY <1>1, <1>10, <2>1 DEF BlockTestCase
<1>11. CASE RescueTaskFails \/ RescueExits \/ AlwaysTaskFails
  BY <1>1, <1>11 DEF RescueTaskFails, RescueExits, AlwaysTaskFails
<1>12. CASE FinishPlaybook
  BY <1>12, PlaysAt, NumTestsNat DEF FinishPlaybook, EndPlaybook, Next
<1>13. CASE RenameTestCase
  BY <1>2, <1>13 DEF RenameTestCase, TestNamed, Next
<1>14. CASE EnterBlock \/ CollectEvidence \/ RescueEnds \/ BlockEnds \/ AlwaysEnds
              \/ RemoveNewVm \/ TasksEnd
  BY <1>14 DEF EnterBlock, CollectEvidence, RescueEnds, BlockEnds, AlwaysEnds,
      RemoveNewVm, TasksEnd
<1>15. CASE UNCHANGED suiteVars
  BY <1>15 DEF suiteVars
<1> QED
  BY <1>3, <1>4, <1>5, <1>6, <1>7, <1>8, <1>9, <1>10, <1>11, <1>12, <1>13,
      <1>14, <1>15
  DEF SuiteNext, SuiteAdvance

-----------------------------------------------------------------------------
(* Every step preserves the types.                                         *)
LEMMA SuiteTypesStep ==
    ASSUME IInv, SectionInv, SuiteTypes, [SuiteNext]_suiteVars
    PROVE  SuiteTypes'
<1> USE PlayFacts, SamePlay, VerdictFacts DEF SuiteTypes, Sections, SectionInv,
      TestSections, history, vars
<1>1. ASSUME BeginPlaybook
      PROVE  SuiteTypes'
  BY <1>1 DEF BeginPlaybook, StartPlaybook, PlaybookOnStart
<1>2. ASSUME BeginPlay
      PROVE  SuiteTypes'
  BY <1>2 DEF BeginPlay, StartPlay, PlaybookOnPlayStart, FirstSection
<1>3. ASSUME SetCurrentTestcaseFacts
      PROVE  SuiteTypes'
  BY <1>3 DEF SetCurrentTestcaseFacts, CollectTestCaseName
<1>4. ASSUME EnterBlock
      PROVE  SuiteTypes'
  BY <1>4 DEF EnterBlock
<1>5. ASSUME BlockTaskFails
      PROVE  SuiteTypes'
  BY <1>5 DEF BlockTaskFails, RunnerOnFailed, Complete, Rescuable, Outcome
<1>6. ASSUME BareTaskFails
      PROVE  SuiteTypes'
  BY <1>6 DEF BareTaskFails, RunnerOnFailed, Complete, Outcome
<1>7. ASSUME HostUnreachable
      PROVE  SuiteTypes'
  BY <1>7 DEF HostUnreachable, RunnerOnUnreachable, Complete, Outcome
<1>8. ASSUME SkipTestCase
      PROVE  SuiteTypes'
  BY <1>8 DEF SkipTestCase, RunnerOnSkipTestCase, Complete, Outcome
<1>9. ASSUME BlockTestCase
      PROVE  SuiteTypes'
  BY <1>9 DEF BlockTestCase, RunnerOnFailed, Complete, Outcome
<1>10. ASSUME CollectEvidence
      PROVE  SuiteTypes'
  BY <1>10 DEF CollectEvidence
<1>11. ASSUME RescueTaskFails
      PROVE  SuiteTypes'
  BY <1>11 DEF RescueTaskFails, RunnerOnFailed, Complete, AfterRescue, Test
<1>12. ASSUME RescueExits
      PROVE  SuiteTypes'
  BY <1>12 DEF RescueExits, RunnerOnFailed, Complete, AfterRescue
<1>13. ASSUME RescueEnds
      PROVE  SuiteTypes'
  BY <1>13 DEF RescueEnds, AfterRescue
<1>14. ASSUME BlockEnds
      PROVE  SuiteTypes'
  BY <1>14 DEF BlockEnds, Outcome
<1>15. ASSUME AlwaysTaskFails
      PROVE  SuiteTypes'
  BY <1>15 DEF AlwaysTaskFails, RunnerOnFailed, Complete, Outcome
<1>16. ASSUME AlwaysEnds
      PROVE  SuiteTypes'
  BY <1>16 DEF AlwaysEnds, Outcome
<1>17. ASSUME RemoveNewVm
      PROVE  SuiteTypes'
  BY <1>17 DEF RemoveNewVm
<1>18. ASSUME TasksEnd
      PROVE  SuiteTypes'
  BY <1>18 DEF TasksEnd
<1>19. ASSUME FinishPlaybook
      PROVE  SuiteTypes'
  BY <1>19 DEF FinishPlaybook, EndPlaybook, PlaybookOnStats
<1>20. ASSUME RenameTestCase
      PROVE  SuiteTypes'
  BY <1>20 DEF RenameTestCase, CollectTestCaseName
<1>21. ASSUME IgnoredUnreachable
      PROVE  SuiteTypes'
  BY <1>21 DEF IgnoredUnreachable, RunnerOnUnreachable, Complete
<1>22. CASE UNCHANGED suiteVars
  BY <1>22 DEF suiteVars
<1> QED
  BY <1>1, <1>2, <1>3, <1>4, <1>5, <1>6, <1>7, <1>8, <1>9,
     <1>10, <1>11, <1>12, <1>13, <1>14, <1>15, <1>16, <1>17, <1>18,
     <1>19, <1>20, <1>21, <1>22
  DEF SuiteNext, SuiteAdvance

(* Every step preserves what the log folder is named for.                  *)
LEMMA FolderInvStep ==
    ASSUME IInv, SectionInv, FolderInv, [SuiteNext]_suiteVars
    PROVE  FolderInv'
<1> USE PlayFacts, SamePlay DEF FolderInv, SetUp, NoneEarly, SectionInv,
      TestSections, Test, vars
<1>1. ASSUME BeginPlaybook
      PROVE  FolderInv'
  BY <1>1 DEF BeginPlaybook, StartPlaybook, PlaybookOnStart
<1>2. ASSUME BeginPlay
      PROVE  FolderInv'
  BY <1>2, NextPlayFacts DEF BeginPlay, StartPlay, PlaybookOnPlayStart, FirstSection
<1>3. ASSUME SetCurrentTestcaseFacts
      PROVE  FolderInv'
  <2>1. /\ section = "before" /\ section' \in TestSections \ {"before"}
        /\ folder' = [index |-> folder.index + 1, play |-> playName]
        /\ UNCHANGED <<playName, played, hostFailed>>
    BY <1>3 DEF SetCurrentTestcaseFacts, CollectTestCaseName
  <2>2. Over \in 1..NumTests /\ playName \in Names
    BY <2>1, NumTestsNat
  <2>3. SetUp = Over - 1 /\ SetUp' = Over
    BY <2>1
  <2>4. folder.index \in 0..(Over - 1) /\ folder' \in Folders
    BY <2>1, <2>2, <2>3, NumTestsNat DEF Folders
  <2>5. /\ folder'.index = folder.index + 1 /\ folder'.index \in 0..SetUp'
        /\ folder.index = SetUp => folder'.index = SetUp'
    BY <2>1, <2>2, <2>3, <2>4
  <2>6. folder'.play = playName'
    BY <2>1
  <2>7. NoneEarly(Over)' = NoneEarly(Over)
    BY <2>1
  <2> HIDE DEF SetUp, NoneEarly
  <2> QED
    BY <2>1, <2>4, <2>5, <2>6, <2>7
<1>4. ASSUME EnterBlock
      PROVE  FolderInv'
  BY <1>4 DEF EnterBlock
<1>5. ASSUME BlockTaskFails
      PROVE  FolderInv'
  BY <1>5 DEF BlockTaskFails, RunnerOnFailed, Complete, Rescuable
<1>6. ASSUME BareTaskFails
      PROVE  FolderInv'
  BY <1>6 DEF BareTaskFails, RunnerOnFailed, Complete
<1>7. ASSUME HostUnreachable
      PROVE  FolderInv'
  BY <1>7 DEF HostUnreachable, RunnerOnUnreachable, Complete
<1>8. ASSUME SkipTestCase
      PROVE  FolderInv'
  BY <1>8, SkipFacts DEF SkipTestCase, RunnerOnSkipTestCase, Complete, Undecided
<1>9. ASSUME BlockTestCase
      PROVE  FolderInv'
  BY <1>9, SkipFacts DEF BlockTestCase, RunnerOnFailed, Complete, Undecided
<1>10. ASSUME CollectEvidence
      PROVE  FolderInv'
  BY <1>10 DEF CollectEvidence
<1>11. ASSUME RescueTaskFails
      PROVE  FolderInv'
  BY <1>11 DEF RescueTaskFails, RunnerOnFailed, Complete, AfterRescue
<1>12. ASSUME RescueExits
      PROVE  FolderInv'
  BY <1>12 DEF RescueExits, RunnerOnFailed, Complete, AfterRescue
<1>13. ASSUME RescueEnds
      PROVE  FolderInv'
  BY <1>13 DEF RescueEnds, AfterRescue
<1>14. ASSUME BlockEnds
      PROVE  FolderInv'
  BY <1>14 DEF BlockEnds
<1>15. ASSUME AlwaysTaskFails
      PROVE  FolderInv'
  BY <1>15 DEF AlwaysTaskFails, RunnerOnFailed, Complete
<1>16. ASSUME AlwaysEnds
      PROVE  FolderInv'
  BY <1>16 DEF AlwaysEnds
<1>17. ASSUME RemoveNewVm
      PROVE  FolderInv'
  BY <1>17 DEF RemoveNewVm
<1>18. ASSUME TasksEnd
      PROVE  FolderInv'
  BY <1>18 DEF TasksEnd
<1>19. ASSUME FinishPlaybook
      PROVE  FolderInv'
  BY <1>19 DEF FinishPlaybook, EndPlaybook, PlaybookOnStats
<1>20. ASSUME RenameTestCase
      PROVE  FolderInv'
  BY <1>20 DEF RenameTestCase, CollectTestCaseName
<1>21. ASSUME IgnoredUnreachable
      PROVE  FolderInv'
  BY <1>21 DEF IgnoredUnreachable, RunnerOnUnreachable, Complete
<1>22. CASE UNCHANGED suiteVars
  BY <1>22 DEF suiteVars
<1> QED
  BY <1>1, <1>2, <1>3, <1>4, <1>5, <1>6, <1>7, <1>8, <1>9,
     <1>10, <1>11, <1>12, <1>13, <1>14, <1>15, <1>16, <1>17, <1>18,
     <1>19, <1>20, <1>21, <1>22
  DEF SuiteNext, SuiteAdvance

(* Every step preserves which tests have an outcome.                       *)
LEMMA OutcomeInvStep ==
    ASSUME IInv, SectionInv, SuiteTypes, OutcomeInv, [SuiteNext]_suiteVars
    PROVE  OutcomeInv'
<1> USE PlayFacts, SamePlay, VerdictFacts, OutcomeFacts DEF Decided,
      OutcomeInv, Undecided, Failures, SectionInv, TestSections, history, vars
<1>1. ASSUME BeginPlaybook
      PROVE  OutcomeInv'
  BY <1>1 DEF BeginPlaybook, StartPlaybook, PlaybookOnStart
<1>2. ASSUME BeginPlay
      PROVE  OutcomeInv'
  BY <1>2, NextPlayFacts DEF BeginPlay, StartPlay, PlaybookOnPlayStart, FirstSection
<1>3. ASSUME SetCurrentTestcaseFacts
      PROVE  OutcomeInv'
  BY <1>3 DEF SetCurrentTestcaseFacts, CollectTestCaseName
<1>4. ASSUME EnterBlock
      PROVE  OutcomeInv'
  BY <1>4 DEF EnterBlock
<1>5. ASSUME BlockTaskFails
      PROVE  OutcomeInv'
  BY <1>5 DEF BlockTaskFails, RunnerOnFailed, Complete, Rescuable
<1>6. ASSUME BareTaskFails
      PROVE  OutcomeInv'
  BY <1>6 DEF BareTaskFails, RunnerOnFailed, Complete
<1>7. ASSUME HostUnreachable
      PROVE  OutcomeInv'
  BY <1>7 DEF HostUnreachable, RunnerOnUnreachable, Complete
<1>8. ASSUME SkipTestCase
      PROVE  OutcomeInv'
  BY <1>8, SkipFacts DEF SkipTestCase, RunnerOnSkipTestCase, Complete
<1>9. ASSUME BlockTestCase
      PROVE  OutcomeInv'
  BY <1>9, SkipFacts DEF BlockTestCase, RunnerOnFailed, Complete
<1>10. ASSUME CollectEvidence
      PROVE  OutcomeInv'
  BY <1>10 DEF CollectEvidence
<1>11. ASSUME RescueTaskFails
      PROVE  OutcomeInv'
  BY <1>11 DEF RescueTaskFails, RunnerOnFailed, Complete, AfterRescue
<1>12. ASSUME RescueExits
      PROVE  OutcomeInv'
  BY <1>12 DEF RescueExits, RunnerOnFailed, Complete, AfterRescue
<1>13. ASSUME RescueEnds
      PROVE  OutcomeInv'
  BY <1>13 DEF RescueEnds, AfterRescue
<1>14. ASSUME BlockEnds
      PROVE  OutcomeInv'
  BY <1>14 DEF BlockEnds
<1>15. ASSUME AlwaysTaskFails
      PROVE  OutcomeInv'
  BY <1>15 DEF AlwaysTaskFails, RunnerOnFailed, Complete
<1>16. ASSUME AlwaysEnds
      PROVE  OutcomeInv'
  BY <1>16 DEF AlwaysEnds
<1>17. ASSUME RemoveNewVm
      PROVE  OutcomeInv'
  BY <1>17 DEF RemoveNewVm
<1>18. ASSUME TasksEnd
      PROVE  OutcomeInv'
  BY <1>18 DEF TasksEnd
<1>19. ASSUME FinishPlaybook
      PROVE  OutcomeInv'
  BY <1>19 DEF FinishPlaybook, EndPlaybook, PlaybookOnStats
<1>20. ASSUME RenameTestCase
      PROVE  OutcomeInv'
  BY <1>20 DEF RenameTestCase, CollectTestCaseName
<1>21. ASSUME IgnoredUnreachable
      PROVE  OutcomeInv'
  BY <1>21 DEF IgnoredUnreachable, RunnerOnUnreachable, Complete
<1>22. CASE UNCHANGED suiteVars
  BY <1>22 DEF suiteVars
<1> QED
  BY <1>1, <1>2, <1>3, <1>4, <1>5, <1>6, <1>7, <1>8, <1>9,
     <1>10, <1>11, <1>12, <1>13, <1>14, <1>15, <1>16, <1>17, <1>18,
     <1>19, <1>20, <1>21, <1>22
  DEF SuiteNext, SuiteAdvance

(* Every step preserves that a failed test that exits is the last.         *)
LEMMA ExitInvStep ==
    ASSUME IInv, SectionInv, SuiteTypes, OutcomeInv, ExitInv, [SuiteNext]_suiteVars
    PROVE  ExitInv'
<1> USE PlayFacts, SamePlay, VerdictFacts, OutcomeFacts DEF Decided,
      OutcomeInv, ExitInv, Undecided, Failures, SectionInv, TestSections,
      history, vars
<1>1. ASSUME BeginPlaybook
      PROVE  ExitInv'
  BY <1>1 DEF BeginPlaybook, StartPlaybook, PlaybookOnStart
<1>2. ASSUME BeginPlay
      PROVE  ExitInv'
  BY <1>2, NextPlayFacts DEF BeginPlay, StartPlay, PlaybookOnPlayStart, FirstSection
<1>3. ASSUME SetCurrentTestcaseFacts
      PROVE  ExitInv'
  BY <1>3 DEF SetCurrentTestcaseFacts, CollectTestCaseName
<1>4. ASSUME EnterBlock
      PROVE  ExitInv'
  BY <1>4 DEF EnterBlock
<1>5. ASSUME BlockTaskFails
      PROVE  ExitInv'
  BY <1>5 DEF BlockTaskFails, RunnerOnFailed, Complete, Rescuable
<1>6. ASSUME BareTaskFails
      PROVE  ExitInv'
  BY <1>6 DEF BareTaskFails, RunnerOnFailed, Complete
<1>7. ASSUME HostUnreachable
      PROVE  ExitInv'
  BY <1>7 DEF HostUnreachable, RunnerOnUnreachable, Complete
<1>8. ASSUME SkipTestCase
      PROVE  ExitInv'
  BY <1>8, SkipFacts DEF SkipTestCase, RunnerOnSkipTestCase, Complete
<1>9. ASSUME BlockTestCase
      PROVE  ExitInv'
  BY <1>9, SkipFacts DEF BlockTestCase, RunnerOnFailed, Complete
<1>10. ASSUME CollectEvidence
      PROVE  ExitInv'
  BY <1>10 DEF CollectEvidence
<1>11. ASSUME RescueTaskFails
      PROVE  ExitInv'
  BY <1>11 DEF RescueTaskFails, RunnerOnFailed, Complete, AfterRescue
<1>12. ASSUME RescueExits
      PROVE  ExitInv'
  BY <1>12 DEF RescueExits, RunnerOnFailed, Complete, AfterRescue
<1>13. ASSUME RescueEnds
      PROVE  ExitInv'
  BY <1>13 DEF RescueEnds, AfterRescue, ExitTesting, Test
<1>14. ASSUME BlockEnds
      PROVE  ExitInv'
  BY <1>14 DEF BlockEnds
<1>15. ASSUME AlwaysTaskFails
      PROVE  ExitInv'
  BY <1>15 DEF AlwaysTaskFails, RunnerOnFailed, Complete
<1>16. ASSUME AlwaysEnds
      PROVE  ExitInv'
  BY <1>16 DEF AlwaysEnds, Test
<1>17. ASSUME RemoveNewVm
      PROVE  ExitInv'
  BY <1>17 DEF RemoveNewVm
<1>18. ASSUME TasksEnd
      PROVE  ExitInv'
  BY <1>18 DEF TasksEnd
<1>19. ASSUME FinishPlaybook
      PROVE  ExitInv'
  BY <1>19 DEF FinishPlaybook, EndPlaybook, PlaybookOnStats
<1>20. ASSUME RenameTestCase
      PROVE  ExitInv'
  BY <1>20 DEF RenameTestCase, CollectTestCaseName
<1>21. ASSUME IgnoredUnreachable
      PROVE  ExitInv'
  BY <1>21 DEF IgnoredUnreachable, RunnerOnUnreachable, Complete
<1>22. CASE UNCHANGED suiteVars
  BY <1>22 DEF suiteVars
<1> QED
  BY <1>1, <1>2, <1>3, <1>4, <1>5, <1>6, <1>7, <1>8, <1>9,
     <1>10, <1>11, <1>12, <1>13, <1>14, <1>15, <1>16, <1>17, <1>18,
     <1>19, <1>20, <1>21, <1>22
  DEF SuiteNext, SuiteAdvance

-----------------------------------------------------------------------------
(* What the plugin shows for a test, given what its tasks came to.         *)
Shown(i) ==
    IF outcome[i] = "none" THEN IF i <= Over THEN "Running" ELSE "No Run"
    ELSE IF outcome[i] = "Passed" /\ InTest /\ i = Current /\ phase = "playing"
         THEN "Running"
    ELSE outcome[i]

ShownInv ==
    \A i \in DOMAIN testRuns \ probed :
      (phase = "recap" /\ outcome[i] = "none") \/ testRuns[i].status = Shown(i)

(* The test runs are loaded all at once.                                   *)
LEMMA TestsLoaded ==
    ASSUME IInv
    PROVE  /\ DOMAIN testRuns \in {{}, TestIds}
           /\ phase = "start" => DOMAIN testRuns = {}
           /\ phase = "playing" => NoTests \/ ShapeOfPlaying
           /\ NoTests => DOMAIN testRuns = {}
           /\ ShapeOfPlaying => DOMAIN testRuns = TestIds /\ testRuns \in [TestIds -> TestRun]
           /\ testRuns # << >> => testRuns \in [TestIds -> TestRun]
<1>1. NoTests => DOMAIN testRuns = {} /\ testRuns = << >>
  BY DEF NoTests
<1>2. ShapeOfPlaying \/ ShapeOfRecap =>
        DOMAIN testRuns = TestIds /\ testRuns \in [TestIds -> TestRun]
  BY DEF ShapeOfPlaying, ShapeOfRecap, Shape
<1>3. phase \in {"start", "playing", "recap"}
  BY DEF IInv, Fields
<1> QED
  BY <1>1, <1>2, <1>3 DEF IInv

(* What completing the last test makes of the test runs, on every list.    *)
LEMMA CompleteStatus ==
    ASSUME IInv, phase = "playing", NEW v \in Verdicts
    PROVE  /\ DOMAIN RunsAfter(v) = DOMAIN testRuns
           /\ \A i \in DOMAIN testRuns :
                RunsAfter(v)[i].status = IF testRuns[i].status = "Running" THEN v
                                         ELSE testRuns[i].status
           /\ \A i \in DOMAIN testRuns : RunsAfter(v)[i].name = testRuns[i].name
<1>1. CASE NoTests
  BY <1>1, TestsLoaded, CompleteNoTests
<1>2. CASE ShapeOfPlaying
  <2>1. DOMAIN testRuns = TestIds
    BY <1>2, TestsLoaded
  <2>2. DOMAIN RunsAfter(v) = TestIds
    BY <1>2, CompleteSettles DEF Shape
  <2> QED
    BY <1>2, <2>1, <2>2, CompleteSettles
<1> QED
  BY <1>1, <1>2, TestsLoaded

(* A task decides the test of this play and its outcome alike.             *)
LEMMA DecideShows ==
    ASSUME IInv, SectionInv, SuiteTypes, OutcomeInv, ShownInv,
           section # "none", NEW v \in Verdicts \ {"Passed"},
           Complete(v), Outcome(v), UNCHANGED <<played, probed>>
    PROVE  ShownInv'
<1>1. phase = "playing" /\ phase' = "playing" /\ testRuns' = RunsAfter(v)
  BY DEF SectionInv, Complete
<1>2. Decided(v) /\ UNCHANGED <<InTest, Current, Over>>
  BY OutcomeFacts, SamePlay
<1>3. DOMAIN testRuns' = DOMAIN testRuns /\ DOMAIN testRuns \subseteq TestIds
  BY <1>1, CompleteStatus, TestsLoaded
<1>4. InTest => outcome[Current] \in Failures \cup {"none"}
  <2>1. section \in TestSections \/ section = "tasks"
    BY DEF SuiteTypes, Sections, TestSections
  <2> QED
    BY <2>1 DEF SectionInv, OutcomeInv, Undecided, Failures, TestSections
<1>5. ASSUME NEW i \in DOMAIN testRuns \ probed
      PROVE  testRuns'[i].status = Shown(i)'
  <2>1. i \in TestIds /\ testRuns[i].status = Shown(i)
    BY <1>1, <1>3 DEF ShownInv
  <2>2. testRuns'[i].status = IF testRuns[i].status = "Running" THEN v
                              ELSE testRuns[i].status
    BY <1>1, CompleteStatus
  <2>3. v # "none" /\ v # "Running" /\ v # "Passed"
    BY VerdictFacts, StatusFacts
  <2>4. CASE InTest /\ i = Current
    <3>1. i <= Over
      BY <2>1, <2>4, PlayFacts
    <3> QED
      BY <1>1, <1>2, <1>4, <2>1, <2>2, <2>3, <2>4, <3>1 DEF Shown, Decided, Failures
  <2>5. CASE ~ (InTest /\ i = Current)
    <3>1. i <= Over => outcome[i] # "none"
      BY <2>1, <2>5 DEF OutcomeInv
    <3>2. outcome[i] # "Running"
      BY <2>1, StatusFacts DEF SuiteTypes
    <3> QED
      BY <1>1, <1>2, <2>1, <2>2, <2>5, <3>1, <3>2 DEF Shown, Decided
  <2> QED
    BY <2>4, <2>5
<1> QED
  BY <1>3, <1>5 DEF ShownInv

(* The next play starts: the test of this one has passed if it is still    *)
(* shown as running, the next one runs.                                    *)
LEMMA PlayStartShows ==
    ASSUME IInv, SectionInv, SuiteTypes, OutcomeInv, ShownInv, BeginPlay
    PROVE  ShownInv'
<1>1. /\ section = "none" /\ phase = "playing" /\ phase' = "playing"
      /\ played < Len(Plays) /\ played' = played + 1
      /\ UNCHANGED <<outcome, probed>>
      /\ lastTest' = NextTestId(PendingAfter, Plays[played + 1])
  BY DEF BeginPlay, StartPlay, PlaybookOnPlayStart, history
<1>2. testRuns' = [i \in DOMAIN testRuns |->
                     IF i = lastTest'
                     THEN [RunsAfter("Passed")[i] EXCEPT !.status = "Running"]
                     ELSE RunsAfter("Passed")[i]]
  BY DEF BeginPlay, StartPlay, PlaybookOnPlayStart
<1>3. CASE NoTests
  <2>1. DOMAIN testRuns' = {}
    BY <1>2, <1>3, TestsLoaded
  <2> QED
    BY <2>1 DEF ShownInv
<1>4. CASE ShapeOfPlaying
  <2>1. DOMAIN testRuns = TestIds /\ DOMAIN testRuns' = TestIds
    BY <1>2, <1>4, TestsLoaded
  <2>2. lastTest' = ThisTest'
    BY <1>1, <1>4, NextTest
  <2>3. ThisTest' = IF InTest' THEN Current' ELSE 0
    BY DEF ThisTest, InTest, Current
  <2>4. \A i \in TestIds : i = lastTest' <=> InTest' /\ i = Current'
    BY <2>2, <2>3, NumTestsNat
  <2>5. ASSUME NEW i \in TestIds
        PROVE  testRuns'[i].status = IF InTest' /\ i = Current' THEN "Running"
                                     ELSE IF testRuns[i].status = "Running" THEN "Passed"
                                     ELSE testRuns[i].status
    <3>1. RunsAfter("Passed") \in [TestIds -> TestRun]
      BY <1>1, <1>4, CompleteSettles, VerdictFacts DEF Shape
    <3>2. RunsAfter("Passed")[i].status = IF testRuns[i].status = "Running" THEN "Passed"
                                          ELSE testRuns[i].status
      BY <1>1, <2>1, CompleteStatus, VerdictFacts
    <3>3. [RunsAfter("Passed")[i] EXCEPT !.status = "Running"].status = "Running"
      BY <3>1 DEF TestRun
    <3> QED
      BY <1>2, <2>1, <2>4, <3>2, <3>3
  <2>6. ASSUME NEW i \in TestIds \ probed
        PROVE  testRuns'[i].status = Shown(i)'
    <3>1. testRuns[i].status = Shown(i)
      BY <1>1, <2>1, <2>6 DEF ShownInv
    <3>2. /\ i <= Over' => i <= Over \/ (InTest' /\ i = Current')
          /\ i > Over' => i > Over
          /\ InTest' /\ i = Current' => i <= Over' /\ ~ (i <= Over)
          /\ i <= Over => i <= Over'
          /\ InTest /\ i = Current => i <= Over
      <4>1. Over \in Int /\ i \in Int
        BY PlayFacts, NumTestsNat
      <4>2. Over' = Over \/ (Over' = Over + 1 /\ InTest' /\ Current' = Over')
        BY <1>1, NextPlayFacts
      <4>3. InTest' => Over' = Over + 1 /\ Current' = Over'
        BY <1>1, NextPlayFacts
      <4>4. InTest /\ i = Current => i <= Over
        BY PlayFacts
      <4> QED
        BY <4>1, <4>2, <4>3, <4>4
    <3>3. i <= Over => outcome[i] # "none"
      BY <1>1 DEF OutcomeInv, Undecided
    <3>4. ~ (i <= Over) => outcome[i] = "none"
      <4>1. ~ (i <= Over) => i > Over
        BY PlayFacts, NumTestsNat
      <4> QED
        BY <4>1 DEF OutcomeInv
    <3>5. outcome[i] # "Running"
      BY StatusFacts DEF SuiteTypes
    <3> QED
      BY <1>1, <2>5, <3>1, <3>2, <3>3, <3>4, <3>5 DEF Shown
  <2> QED
    BY <1>1, <2>1, <2>6 DEF ShownInv
<1> QED
  BY <1>1, <1>3, <1>4, TestsLoaded

(* The results: what still runs has passed.                                *)
LEMMA StatsShow ==
    ASSUME IInv, SectionInv, SuiteTypes, OutcomeInv, ShownInv, FinishPlaybook
    PROVE  ShownInv'
<1>1. /\ section = "none" /\ phase = "playing" /\ phase' = "recap"
      /\ UNCHANGED <<outcome, probed, played>>
  BY DEF FinishPlaybook, EndPlaybook, PlaybookOnStats, history
<1>2. /\ DOMAIN testRuns' = DOMAIN testRuns
      /\ \A i \in DOMAIN testRuns :
           testRuns'[i].status = ResultStatus(RunsAfter("Passed"), i)
  BY DEF FinishPlaybook, EndPlaybook, PlaybookOnStats
<1>3. DOMAIN testRuns \subseteq TestIds
  BY TestsLoaded
<1>4. ASSUME NEW i \in DOMAIN testRuns \ probed, outcome[i] # "none"
      PROVE  testRuns'[i].status = Shown(i)'
  <2>1. testRuns[i].status = Shown(i)
    BY <1>1, <1>4 DEF ShownInv
  <2>2. outcome[i] \in Verdicts
    BY <1>3, <1>4 DEF SuiteTypes
  <2>3. RunsAfter("Passed")[i].status = IF testRuns[i].status = "Running" THEN "Passed"
                                        ELSE testRuns[i].status
    BY <1>1, CompleteStatus, VerdictFacts
  <2>4. RunsAfter("Passed")[i].status = outcome[i]
    BY <1>4, <2>1, <2>2, <2>3, StatusFacts DEF Shown
  <2>5. testRuns'[i].status = outcome[i]
    BY <1>2, <2>2, <2>4, StatusFacts DEF ResultStatus
  <2> QED
    BY <1>1, <1>4, <2>5 DEF Shown
<1> QED
  BY <1>1, <1>2, <1>4 DEF ShownInv

(* Names are changed only.                                                 *)
LEMMA NamingShows ==
    ASSUME IInv, ShownInv, NEW name, CollectTestCaseName(name),
           UNCHANGED <<outcome, probed, played>>
    PROVE  ShownInv'
<1>1. phase' = phase
  BY DEF CollectTestCaseName
<1>2. /\ DOMAIN testRuns' = DOMAIN testRuns
      /\ \A i \in DOMAIN testRuns : testRuns'[i].status = testRuns[i].status
  <2>1. CASE lastTest \in DOMAIN testRuns
    <3>1. testRuns \in [TestIds -> TestRun]
      BY <2>1, TestsLoaded
    <3>2. testRuns' = [testRuns EXCEPT ![lastTest].name = name]
      BY <2>1 DEF CollectTestCaseName
    <3> QED
      BY <3>1, <3>2 DEF TestRun
  <2>2. CASE lastTest \notin DOMAIN testRuns
    BY <2>2 DEF CollectTestCaseName
  <2> QED
    BY <2>1, <2>2
<1>3. UNCHANGED <<InTest, Current, Over>>
  BY SamePlay
<1> QED
  BY <1>1, <1>2, <1>3 DEF ShownInv, Shown

(* Every step preserves that the plugin shows the outcomes.                *)
LEMMA ShownInvStep ==
    ASSUME IInv, SectionInv, SuiteTypes, OutcomeInv, ShownInv, [SuiteNext]_suiteVars
    PROVE  ShownInv'
<1>1. CASE BeginPlaybook
  <2>1. /\ DOMAIN testRuns' \subseteq TestIds /\ phase' = "playing"
        /\ \A i \in DOMAIN testRuns' : testRuns'[i].status = "No Run"
        /\ UNCHANGED <<outcome, played>>
    <3>1. phase = "start" /\ phase' = "playing" /\ UNCHANGED <<outcome, played>>
      BY <1>1 DEF BeginPlaybook, StartPlaybook, PlaybookOnStart, history
    <3>2. CASE ListLoaded
      BY <3>1, <3>2 DEF ListLoaded
    <3>3. CASE ListNotLoaded
      BY <3>1, <3>3, TestsLoaded DEF ListNotLoaded
    <3> QED
      BY <1>1, <3>2, <3>3 DEF BeginPlaybook, StartPlaybook, PlaybookOnStart
  <2>2. \A i \in TestIds : ~ (i <= Over) /\ outcome[i] = "none"
    <3>1. played = 0
      BY <1>1 DEF BeginPlaybook, StartPlaybook, PlaybookOnStart, IInv
    <3>2. Over = 0 /\ \A i \in TestIds : i > Over /\ ~ (i <= Over)
      BY <3>1, NumTestsNat DEF Over
    <3> QED
      BY <3>2 DEF OutcomeInv
  <2>3. Over' = Over
    BY <2>1, SamePlay
  <2> QED
    BY <2>1, <2>2, <2>3 DEF ShownInv, Shown
<1>2. CASE BeginPlay
  BY <1>2, PlayStartShows
<1>3. CASE SetCurrentTestcaseFacts \/ RenameTestCase
  BY <1>3, NamingShows DEF SetCurrentTestcaseFacts, RenameTestCase, history
<1>4. CASE BlockTaskFails \/ BareTaskFails \/ AlwaysTaskFails
  <2>1. Complete("Failed") /\ Outcome("Failed") /\ section # "none"
          /\ UNCHANGED <<played, probed>>
    BY <1>4 DEF BlockTaskFails, BareTaskFails, AlwaysTaskFails, Rescuable, RunnerOnFailed
  <2> QED
    BY <2>1, DecideShows, VerdictFacts
<1>5. CASE HostUnreachable
  <2>1. Complete("Failed") /\ Outcome("Failed") /\ section # "none"
          /\ UNCHANGED <<played, probed>>
    BY <1>5 DEF HostUnreachable, RunnerOnUnreachable
  <2> QED
    BY <2>1, DecideShows, VerdictFacts
<1>6. CASE SkipTestCase
  <2>1. PICK reason \in SkipsHere \cap SkipReasons :
          RunnerOnSkipTestCase(reason) /\ Outcome(reason)
    BY <1>6 DEF SkipTestCase
  <2>2. /\ Complete(reason) /\ section # "none" /\ UNCHANGED <<played, probed>>
        /\ reason \in Verdicts \ {"Passed"}
    BY <1>6, <2>1, SkipFacts, VerdictFacts DEF SkipTestCase, RunnerOnSkipTestCase,
        Undecided
  <2> QED
    BY <2>1, <2>2, DecideShows
<1>7. CASE BlockTestCase
  <2>1. Complete("Blocked") /\ Outcome("Blocked") /\ section # "none"
          /\ UNCHANGED <<played, probed>>
    BY <1>7, SkipFacts DEF BlockTestCase, RunnerOnFailed, Undecided
  <2> QED
    BY <2>1, DecideShows, VerdictFacts
<1>8. CASE RescueTaskFails \/ RescueExits
  <2>1. Complete("Failed") /\ section \in {"rescue", "rescued"}
          /\ UNCHANGED <<played, outcome, probed>>
    BY <1>8 DEF RescueTaskFails, RescueExits, RunnerOnFailed, history
  <2>2. Outcome("Failed")
    BY <2>1 DEF Outcome, OutcomeInv, Failures
  <2> QED
    BY <2>1, <2>2, DecideShows, VerdictFacts
<1>9. CASE IgnoredUnreachable
  <2>1. /\ section = "block" /\ Complete("Failed") /\ probed' = probed \cup {Current}
        /\ UNCHANGED <<played, outcome>>
    BY <1>9 DEF IgnoredUnreachable, RunnerOnUnreachable
  <2>2. InTest /\ phase = "playing" /\ phase' = phase /\ testRuns' = RunsAfter("Failed")
    BY <2>1 DEF SectionInv, TestSections, Complete
  <2>3. DOMAIN testRuns' = DOMAIN testRuns /\ DOMAIN testRuns \subseteq TestIds
    BY <2>2, CompleteStatus, TestsLoaded, VerdictFacts
  <2>4. ASSUME NEW i \in DOMAIN testRuns \ probed, i # Current
        PROVE  testRuns'[i].status = Shown(i)'
    <3>1. i \in TestIds /\ testRuns[i].status = Shown(i)
      BY <2>2, <2>3, <2>4 DEF ShownInv
    <3>2. i <= Over => outcome[i] # "none"
      BY <2>4, <3>1 DEF OutcomeInv
    <3>3. outcome[i] # "Running"
      BY <3>1, StatusFacts DEF SuiteTypes
    <3>4. testRuns'[i].status = testRuns[i].status
      BY <2>2, <2>4, <3>1, <3>2, <3>3, CompleteStatus, VerdictFacts DEF Shown
    <3> QED
      BY <2>1, <2>2, <3>1, <3>4, SamePlay DEF Shown
  <2> QED
    BY <2>1, <2>3, <2>4 DEF ShownInv
<1>10. CASE BlockEnds \/ AlwaysEnds
  <2>1. /\ section \in {"block", "always"} /\ phase = "playing"
        /\ UNCHANGED <<testRuns, phase, played, probed>>
        /\ outcome' = outcome \/ Outcome("Passed")
    BY <1>10 DEF BlockEnds, AlwaysEnds, SectionInv, vars
  <2>2. outcome' = outcome \/ Decided("Passed")
    BY <2>1, OutcomeFacts
  <2>3. DOMAIN testRuns \subseteq TestIds /\ UNCHANGED <<InTest, Current, Over>>
    BY <2>1, TestsLoaded, SamePlay
  <2>4. ASSUME NEW i \in DOMAIN testRuns \ probed
        PROVE  testRuns'[i].status = Shown(i)'
    <3>1. i \in TestIds /\ testRuns[i].status = Shown(i)
      BY <2>1, <2>3 DEF ShownInv
    <3>2. InTest /\ i = Current => i <= Over
      BY <3>1, PlayFacts
    <3> QED
      BY <2>1, <2>2, <2>3, <3>1, <3>2 DEF Shown, Decided
  <2> QED
    BY <2>1, <2>4 DEF ShownInv
<1>11. CASE FinishPlaybook
  BY <1>11, StatsShow
<1>12. CASE EnterBlock \/ CollectEvidence \/ RescueEnds \/ RemoveNewVm \/ TasksEnd
              \/ UNCHANGED suiteVars
  <2>1. UNCHANGED <<testRuns, phase, played, outcome, probed>>
    BY <1>12 DEF EnterBlock, CollectEvidence, RescueEnds, RemoveNewVm, TasksEnd,
        suiteVars, vars, history
  <2>2. UNCHANGED <<InTest, Current, Over>>
    BY <2>1, SamePlay
  <2> QED
    BY <2>1, <2>2 DEF ShownInv, Shown
<1> QED
  BY <1>1, <1>2, <1>3, <1>4, <1>5, <1>6, <1>7, <1>8, <1>9, <1>10, <1>11, <1>12 DEF
      SuiteNext, SuiteAdvance

-----------------------------------------------------------------------------
(* Every step preserves the names of test runs.                            *)
LEMMA NameInvStep ==
    ASSUME IInv, SectionInv, NameInv, [SuiteNext]_suiteVars
    PROVE  NameInv'
<1>1. ASSUME NEW v \in Verdicts, Complete(v), phase = "playing"
      PROVE  NameInv'
  BY <1>1, CompleteStatus DEF Complete, NameInv
<1>2. ASSUME UNCHANGED testRuns
      PROVE  NameInv'
  BY <1>2 DEF NameInv
<1>3. CASE BeginPlaybook
  <2>1. CASE ListLoaded
    <3>1. \A i \in TestIds : TestList[i] \in NamesOf(TestList[i])
      BY AliasAssumption DEF NamesOf
    <3> QED
      BY <2>1, <3>1 DEF ListLoaded, NameInv
  <2>2. CASE ListNotLoaded
    BY <1>2, <2>2 DEF ListNotLoaded
  <2> QED
    BY <1>3, <2>1, <2>2 DEF BeginPlaybook, StartPlaybook, PlaybookOnStart
<1>4. CASE BeginPlay
  <2>1. /\ phase = "playing"
        /\ testRuns' = [i \in DOMAIN testRuns |->
                          IF i = lastTest'
                          THEN [RunsAfter("Passed")[i] EXCEPT !.status = "Running"]
                          ELSE RunsAfter("Passed")[i]]
    BY <1>4 DEF BeginPlay, StartPlay, PlaybookOnPlayStart
  <2>2. \A i \in DOMAIN testRuns : RunsAfter("Passed")[i].name = testRuns[i].name
    BY <2>1, CompleteStatus, VerdictFacts
  <2>3. CASE NoTests
    BY <2>1, <2>3, TestsLoaded DEF NameInv
  <2>4. CASE ShapeOfPlaying
    <3>1. RunsAfter("Passed") \in [TestIds -> TestRun] /\ DOMAIN testRuns = TestIds
      BY <2>1, <2>4, CompleteSettles, VerdictFacts, TestsLoaded DEF Shape
    <3>2. \A r \in TestRun : [r EXCEPT !.status = "Running"].name = r.name
      BY DEF TestRun
    <3>3. \A i \in DOMAIN testRuns : testRuns'[i].name = testRuns[i].name
      BY <2>1, <2>2, <3>1, <3>2
    <3> QED
      BY <2>1, <3>3 DEF NameInv
  <2> QED
    BY <2>1, <2>3, <2>4, TestsLoaded
<1>5. CASE SetCurrentTestcaseFacts \/ RenameTestCase
  <2>1. PICK name \in NamesOf(playName) : CollectTestCaseName(name)
    BY <1>5, AliasAssumption DEF SetCurrentTestcaseFacts, RenameTestCase, NamesOf
  <2>2. InTest /\ playName = TestList[Current] /\ phase = "playing"
    BY <1>5 DEF SetCurrentTestcaseFacts, RenameTestCase, SectionInv, TestSections
  <2>3. CASE lastTest \in DOMAIN testRuns
    <3>1. testRuns \in [TestIds -> TestRun] /\ lastTest = Current
      BY <2>2, <2>3, TestsLoaded, PlayFacts DEF ShapeOfPlaying
    <3>2. testRuns' = [testRuns EXCEPT ![lastTest].name = name]
      BY <2>1, <2>3 DEF CollectTestCaseName
    <3> QED
      BY <2>1, <2>2, <3>1, <3>2 DEF NameInv, TestRun
  <2>4. CASE lastTest \notin DOMAIN testRuns
    BY <1>2, <2>1, <2>4 DEF CollectTestCaseName
  <2> QED
    BY <2>3, <2>4
<1>6. CASE BlockTaskFails \/ BareTaskFails \/ BlockTestCase \/ RescueTaskFails \/ RescueExits
             \/ AlwaysTaskFails
  BY <1>1, <1>6, VerdictFacts DEF BlockTaskFails, BareTaskFails, BlockTestCase,
      RescueTaskFails, RescueExits, AlwaysTaskFails, RunnerOnFailed
<1>7. CASE HostUnreachable \/ IgnoredUnreachable
  BY <1>1, <1>7, VerdictFacts DEF HostUnreachable, IgnoredUnreachable,
      RunnerOnUnreachable
<1>8. CASE SkipTestCase
  BY <1>1, <1>8, VerdictFacts DEF SkipTestCase, RunnerOnSkipTestCase
<1>9. CASE FinishPlaybook
  <2>1. PICK alias \in DeployAliases :
          testRuns' = [i \in DOMAIN testRuns |->
                         [name   |-> ResultName(testRuns[i], alias),
                          status |-> ResultStatus(RunsAfter("Passed"), i)]]
    BY <1>9 DEF FinishPlaybook, EndPlaybook, PlaybookOnStats
  <2>2. \A i \in DOMAIN testRuns : ResultName(testRuns[i], alias) \in NamesOf(TestList[i])
    BY AliasAssumption DEF ResultName, NamesOf, NameInv
  <2> QED
    BY <2>1, <2>2 DEF NameInv
<1>10. CASE EnterBlock \/ CollectEvidence \/ RescueEnds \/ BlockEnds \/ AlwaysEnds
              \/ RemoveNewVm \/ TasksEnd \/ UNCHANGED suiteVars
  BY <1>2, <1>10 DEF EnterBlock, CollectEvidence, RescueEnds, BlockEnds, AlwaysEnds,
      RemoveNewVm, TasksEnd, suiteVars, vars
<1> QED
  BY <1>3, <1>4, <1>5, <1>6, <1>7, <1>8, <1>9, <1>10 DEF SuiteNext, SuiteAdvance

-----------------------------------------------------------------------------
(* The invariant of the suite, next to that of the plugin.                 *)
SuiteInv ==
    /\ SectionInv /\ SuiteTypes /\ FolderInv
    /\ OutcomeInv /\ ExitInv /\ ShownInv /\ NameInv

(* Before the playbook starts nothing has an outcome.                      *)
LEMMA SuiteInitOK == SuiteInit => IInv /\ SuiteInv
<1> SUFFICES ASSUME SuiteInit
             PROVE  IInv /\ SuiteInv
  OBVIOUS
<1>1. IInv
  BY InitOK DEF SuiteInit
<1>2. played = 0 /\ testRuns = << >> /\ Over = 0 /\ ~ InTest
  BY NumTestsNat DEF SuiteInit, Init, Over, InTest
<1>3. SectionInv /\ SuiteTypes
  BY DEF SuiteInit, SectionInv, SuiteTypes, TestSections, Sections
<1>4. FolderInv
  <2>1. folder = NoFolder /\ section = "none" /\ SetUp = 0
    BY <1>2 DEF SuiteInit, SetUp
  <2>2. NoFolder \in Folders /\ NoFolder.index = 0
    BY NumTestsNat DEF NoFolder, Folders
  <2> QED
    BY <2>1, <2>2 DEF FolderInv, TestSections
<1>5. OutcomeInv /\ ExitInv
  <2>1. \A i \in TestIds : outcome[i] = "none" /\ ~ (i <= 0)
    BY NumTestsNat DEF SuiteInit
  <2> QED
    BY <1>2, <2>1 DEF SuiteInit, OutcomeInv, ExitInv, Undecided, Failures
<1>6. ShownInv /\ NameInv
  BY <1>2 DEF ShownInv, NameInv
<1> QED
  BY <1>1, <1>3, <1>4, <1>5, <1>6 DEF SuiteInv

(* Every step keeps both.                                                  *)
LEMMA SuiteStepOK == IInv /\ SuiteInv /\ [SuiteNext]_suiteVars => (IInv /\ SuiteInv)'
<1> SUFFICES ASSUME IInv, SuiteInv, [SuiteNext]_suiteVars
             PROVE  IInv' /\ SuiteInv'
  OBVIOUS
<1>1. /\ SectionInv /\ SuiteTypes /\ FolderInv
      /\ OutcomeInv /\ ExitInv /\ ShownInv /\ NameInv
  BY DEF SuiteInv
<1>2. IInv'
  BY <1>1, SuiteStepDrives, StepOK
<1>3. SectionInv' /\ SuiteTypes' /\ FolderInv'
  BY <1>1, SectionInvStep, SuiteTypesStep, FolderInvStep
<1>4. OutcomeInv' /\ ExitInv' /\ ShownInv' /\ NameInv'
  BY <1>1, OutcomeInvStep, ExitInvStep, ShownInvStep, NameInvStep
<1> QED
  BY <1>2, <1>3, <1>4 DEF SuiteInv

(* They hold throughout a run of the suite.                                *)
LEMMA SuiteInductive == SuiteSpec => [](IInv /\ SuiteInv)
  BY SuiteInitOK, SuiteStepOK, PTL DEF SuiteSpec

(* What the playbooks make of a run are events the plugin is made for, so  *)
(* each theorem of GosvTestRunsProofs holds of every run of the suite.     *)
THEOREM DrivesPlugin == SuiteSpec => SuiteDrivesPlugin
<1>1. SuiteInit => Init
  BY DEF SuiteInit
<1>2. IInv /\ SuiteInv /\ [SuiteNext]_suiteVars => [Next]_vars
  BY SuiteStepDrives DEF SuiteInv
<1> QED
  BY <1>1, <1>2, SuiteInductive, PTL DEF SuiteSpec, SuiteDrivesPlugin, Spec

(* Types of the executor's state, and of the plugin's.                     *)
THEOREM SuiteTypeCorrect == SuiteSpec => []SuiteTypeOK
<1>1. IInv /\ SuiteInv => SuiteTypeOK
  BY TypeFromInv DEF SuiteInv, SuiteTypes, FolderInv, SuiteTypeOK
<1> QED
  BY <1>1, SuiteInductive, PTL

(* The log folder a test writes to has its name and its position.          *)
THEOREM FolderNamesTest == SuiteSpec => []FolderMatchesTestId
<1>1. IInv /\ SuiteInv => FolderMatchesTestId
  <2> SUFFICES ASSUME IInv, SuiteInv,
                      section \in {"opened", "block", "rescue", "rescued", "always"},
                      \A j \in 1..Current : ~ Profile[TestList[j]].early
               PROVE  folder = [index |-> Current, play |-> TestList[Current]]
    BY DEF FolderMatchesTestId
  <2>1. InTest /\ playName = TestList[Current] /\ ~ hostFailed /\ Over = Current
    BY PlayFacts DEF SuiteInv, SectionInv, TestSections
  <2>2. NoneEarly(Over) /\ SetUp = Current
    BY <2>1 DEF NoneEarly, SetUp
  <2>3. folder.index = Current /\ folder.play = TestList[Current] /\ folder \in Folders
    BY <2>1, <2>2 DEF SuiteInv, FolderInv, TestSections
  <2> QED
    BY <2>3 DEF Folders
<1> QED
  BY <1>1, SuiteInductive, PTL

(* What is shown for a test is what its tasks came to.                     *)
THEOREM VerdictsMatch == SuiteSpec => []VerdictMatchesOutcome
<1>1. IInv /\ SuiteInv => VerdictMatchesOutcome
  <2> SUFFICES ASSUME IInv, SuiteInv, NEW i \in DOMAIN testRuns \ probed
               PROVE  /\ outcome[i] = "none" =>
                           testRuns[i].status = IF played >= i + 2 THEN "Running"
                                                ELSE IF phase = "recap" THEN testRuns[i].status
                                                ELSE "No Run"
                      /\ outcome[i] = "Passed" =>
                           testRuns[i].status = IF phase = "playing" /\ played = i + 2
                                                THEN "Running" ELSE "Passed"
                      /\ outcome[i] \notin {"none", "Passed"} =>
                           testRuns[i].status = outcome[i]
    BY DEF VerdictMatchesOutcome
  <2>1. i \in TestIds
    BY TestsLoaded
  <2>2. /\ i <= Over <=> played >= i + 2
        /\ played = i + 2 <=> InTest /\ i = Current
    BY <2>1, PlayFacts
  <2>3. phase = "recap" /\ outcome[i] = "none" => ~ (i <= Over)
    BY <2>1 DEF SuiteInv, OutcomeInv, SectionInv, Undecided
  <2>4. (phase = "recap" /\ outcome[i] = "none") \/ testRuns[i].status = Shown(i)
    BY DEF SuiteInv, ShownInv
  <2> QED
    BY <2>2, <2>3, <2>4 DEF Shown
<1> QED
  BY <1>1, SuiteInductive, PTL

(* No test runs behind a blocker that has failed.                          *)
THEOREM BlockersEndTheRun == SuiteSpec => []NothingRunsBehindBlocker
<1>1. IInv /\ SuiteInv => NothingRunsBehindBlocker
  <2> SUFFICES ASSUME IInv, SuiteInv, NEW j \in DOMAIN testRuns \ probed,
                      IsFailedBlocker(testRuns[j])
               PROVE  played <= j + 2
    BY DEF NothingRunsBehindBlocker
  <2>1. j \in TestIds /\ j \in Int /\ played \in Int
    BY TestsLoaded, NumTestsNat DEF IInv, Fields
  <2>2. CASE j <= Over
    <3>1. testRuns[j].status \in {"Failed", "Blocked"} /\ testRuns[j].name \in Blockers
      BY DEF IsFailedBlocker
    <3>2. outcome[j] # "none" \/ phase # "recap"
      BY <2>1, <2>2 DEF SuiteInv, OutcomeInv, SectionInv, Undecided
    <3>3. testRuns[j].status = Shown(j)
      BY <3>2 DEF SuiteInv, ShownInv
    <3>4. outcome[j] \in Failures
      BY <2>2, <3>1, <3>3 DEF Shown, Failures
    <3>5. TestList[j] \in Blockers
      <4>1. testRuns[j].name \in NamesOf(TestList[j])
        BY DEF SuiteInv, NameInv
      <4> QED
        BY <3>1, <4>1, BlockerAssumption, AliasAssumption DEF NamesOf
    <3>6. played = j + 2
      BY <2>1, <3>4, <3>5, BlockersExitAssumption DEF SuiteInv, ExitInv
    <3> QED
      BY <2>1, <3>6
  <2>3. CASE ~ (j <= Over)
    BY <2>1, <2>3, PlayFacts
  <2> QED
    BY <2>2, <2>3
<1> QED
  BY <1>1, SuiteInductive, PTL

-----------------------------------------------------------------------------
(* RunIsConcluded is a liveness property; what follows are the two facts   *)
(* about states and steps it rests on, next to the fairness of             *)
(* SuiteAdvance.                                                           *)

(* The last play is env_cleanup, and only a host that failed ends the      *)
(* playbook before it.                                                     *)
CleanupInv ==
    /\ played = Len(Plays) => playName = CleanupPlay
    /\ phase = "recap" => hostFailed \/ played = Len(Plays)

(* The phase and the play go on as the playbook does.                      *)
PhaseStep ==
    /\ phase \in {"start", "playing"}
    /\ \/ phase' = phase /\ UNCHANGED <<played, playName>>
       \/ phase = "start" /\ phase' = "playing" /\ UNCHANGED <<played, playName>>
       \/ /\ phase = "playing" /\ phase' = "playing"
          /\ played < Len(Plays) /\ played' = played + 1
          /\ playName' = Plays[played + 1]
       \/ /\ phase = "playing" /\ phase' = "recap"
          /\ hostFailed' \/ played = Len(Plays)
          /\ UNCHANGED <<played, playName>>

(* Every step of the suite does, and there is none in the recap.           *)
LEMMA SuitePhases ==
    ASSUME IInv, SectionInv, SuiteNext
    PROVE  PhaseStep
<1> USE DEF PhaseStep, SectionInv
<1>0. phase \in {"start", "playing", "recap"}
  BY DEF IInv, Fields
<1>1. CASE BeginPlaybook
  BY <1>1 DEF BeginPlaybook, StartPlaybook, PlaybookOnStart
<1>2. CASE BeginPlay
  BY <1>2 DEF BeginPlay, StartPlay, PlaybookOnPlayStart
<1>3. CASE FinishPlaybook
  BY <1>3 DEF FinishPlaybook, EndPlaybook, PlaybookOnStats
<1>4. CASE SetCurrentTestcaseFacts \/ RenameTestCase
  BY <1>4 DEF SetCurrentTestcaseFacts, RenameTestCase, CollectTestCaseName
<1>5. CASE BlockTaskFails \/ BareTaskFails \/ RescueTaskFails \/ RescueExits \/ AlwaysTaskFails
  BY <1>5 DEF BlockTaskFails, BareTaskFails, RescueTaskFails, RescueExits,
      AlwaysTaskFails, RunnerOnFailed, Complete
<1>6. CASE HostUnreachable \/ IgnoredUnreachable
  BY <1>6 DEF HostUnreachable, IgnoredUnreachable, RunnerOnUnreachable, Complete
<1>7. CASE SkipTestCase \/ BlockTestCase
  BY <1>7 DEF SkipTestCase, BlockTestCase, RunnerOnSkipTestCase, RunnerOnFailed, Complete
<1>8. CASE EnterBlock \/ CollectEvidence \/ RescueEnds \/ BlockEnds \/ AlwaysEnds
             \/ RemoveNewVm \/ TasksEnd
  BY <1>0, <1>8 DEF EnterBlock, CollectEvidence, RescueEnds, BlockEnds, AlwaysEnds,
      RemoveNewVm, TasksEnd, vars
<1> QED
  BY <1>1, <1>2, <1>3, <1>4, <1>5, <1>6, <1>7, <1>8 DEF SuiteNext, SuiteAdvance

(* In its results a run is over: it went by way of env_cleanup unless      *)
(* localhost failed, no section is left in the middle, and no test that    *)
(* has started is without a verdict.                                       *)
THEOREM RecapConcludesRun ==
    SuiteSpec =>
      [](phase = "recap" =>
           /\ section = "none"
           /\ hostFailed \/ playName = CleanupPlay
           /\ \A i \in DOMAIN testRuns : testRuns[i].status # "Running")
<1>1. SuiteInit => CleanupInv
  BY PlaysAt, NumTestsNat DEF SuiteInit, Init, CleanupInv
<1>2. IInv /\ SuiteInv /\ CleanupInv /\ [SuiteNext]_suiteVars => CleanupInv'
  <2> SUFFICES ASSUME IInv, SectionInv, CleanupInv, [SuiteNext]_suiteVars
               PROVE  CleanupInv'
    BY DEF SuiteInv
  <2>1. played \in 0..(NumTests + 3) /\ Len(Plays) = NumTests + 3
    BY PlaysAt DEF IInv, Fields
  <2>2. CASE SuiteNext
    <3>1. PhaseStep
      BY <2>2, SuitePhases
    <3>2. played' = Len(Plays) => playName' = CleanupPlay
      <4>1. CASE UNCHANGED <<played, playName>>
        BY <4>1 DEF CleanupInv
      <4>2. CASE played' = played + 1 /\ playName' = Plays[played + 1]
        BY <2>1, <4>2, PlaysAt, NumTestsNat
      <4> QED
        BY <3>1, <4>1, <4>2 DEF PhaseStep
    <3>3. phase' = "recap" => hostFailed' \/ played' = Len(Plays)
      BY <3>1 DEF PhaseStep
    <3> QED
      BY <3>2, <3>3 DEF CleanupInv
  <2>3. CASE UNCHANGED suiteVars
    BY <2>3 DEF suiteVars, vars, CleanupInv
  <2> QED
    BY <2>2, <2>3
<1>3. IInv /\ SuiteInv /\ CleanupInv =>
        (phase = "recap" =>
           /\ section = "none"
           /\ hostFailed \/ playName = CleanupPlay
           /\ \A i \in DOMAIN testRuns : testRuns[i].status # "Running")
  <2>1. IInv /\ phase = "recap" => \A i \in DOMAIN testRuns : testRuns[i].status # "Running"
    BY BlockedFromInv DEF BlockedBehindBlockers
  <2> QED
    BY <2>1 DEF SuiteInv, SectionInv, CleanupInv
<1> QED
  BY <1>1, <1>2, <1>3, SuiteInductive, PTL DEF SuiteSpec

(* Sections, phases and plays that are left; a play has six sections at    *)
(* most, and in env_cleanup the new VM is removed once.                    *)
SectionsLeft ==
    CASE section = "none"    -> 0
      [] section = "tasks"   -> 1
      [] section = "always"  -> 1
      [] section = "rescued" -> 2
      [] section = "rescue"  -> 3
      [] section = "block"   -> 4
      [] section = "opened"  -> 5
      [] section = "before"  -> 6

PhasesLeft == IF phase = "start" THEN 2 ELSE IF phase = "playing" THEN 1 ELSE 0

VmsLeft == IF vmRemoved THEN 0 ELSE 1

StepsLeft == 7 * (Len(Plays) - played) + SectionsLeft + PhasesLeft + VmsLeft

(* However the tasks of a run end, each step of the sections brings it     *)
(* nearer to its results; a test case that is named and an ignored result  *)
(* do not keep it.                                                         *)
THEOREM RunMakesProgress ==
    SuiteSpec =>
      [][/\ SuiteAdvance => StepsLeft' \in Nat /\ StepsLeft' < StepsLeft
         /\ ~ SuiteAdvance => StepsLeft' = StepsLeft]_suiteVars
<1>1. ASSUME IInv, SuiteInv, SuiteInv', SuiteNext, ~ UNCHANGED suiteVars
      PROVE  /\ SuiteAdvance => StepsLeft' \in Nat /\ StepsLeft' < StepsLeft
             /\ ~ SuiteAdvance => StepsLeft' = StepsLeft
  <2> DEFINE n == Len(Plays)
  <2>1. /\ n \in Nat /\ played \in 0..n
        /\ section \in Sections /\ section' \in Sections
        /\ vmRemoved \in BOOLEAN /\ vmRemoved' \in BOOLEAN
        /\ SectionInv
    BY <1>1, PlaysAt, NumTestsNat DEF IInv, Fields, SuiteInv, SuiteTypes
  <2>2. PhaseStep
    BY <1>1, <2>1, SuitePhases
  <2>3. /\ SectionsLeft \in 0..6 /\ SectionsLeft' \in 0..6
        /\ PhasesLeft \in 0..2 /\ PhasesLeft' \in 0..2
        /\ VmsLeft \in 0..1 /\ VmsLeft' \in 0..1
        /\ UNCHANGED vmRemoved => VmsLeft' = VmsLeft
    BY <2>1 DEF SectionsLeft, PhasesLeft, VmsLeft, Sections
  <2>4. /\ StepsLeft = 7 * (n - played) + SectionsLeft + PhasesLeft + VmsLeft
        /\ StepsLeft' = 7 * (n - played') + SectionsLeft' + PhasesLeft' + VmsLeft'
    BY DEF StepsLeft
  <2> HIDE DEF n
  <2> DEFINE Nearer == StepsLeft' \in Nat /\ StepsLeft' < StepsLeft
  <2>5. ASSUME played' \in 0..n,
               \/ /\ played' = played /\ SectionsLeft' < SectionsLeft
                  /\ PhasesLeft' = PhasesLeft /\ VmsLeft' = VmsLeft
               \/ /\ played' = played /\ SectionsLeft' = SectionsLeft
                  /\ PhasesLeft' < PhasesLeft /\ VmsLeft' = VmsLeft
               \/ /\ played' = played /\ SectionsLeft' = SectionsLeft
                  /\ PhasesLeft' = PhasesLeft /\ VmsLeft' < VmsLeft
               \/ played' = played + 1 /\ PhasesLeft' = PhasesLeft /\ VmsLeft' = VmsLeft
        PROVE  Nearer
    <3>1. n \in Nat /\ played \in Nat /\ played' \in Nat
      BY <2>1, <2>5
    <3>2. PICK k \in Nat, p \in Nat, q \in Nat, s \in 0..6, f \in 0..2, v \in 0..1,
               t \in 0..6, g \in 0..2, w \in 0..1 :
            /\ k = n /\ p = played /\ q = played'
            /\ s = SectionsLeft /\ f = PhasesLeft /\ v = VmsLeft
            /\ t = SectionsLeft' /\ g = PhasesLeft' /\ w = VmsLeft'
      BY <2>3, <3>1
    <3>3. /\ p \in 0..k /\ q \in 0..k
          /\ \/ q = p /\ t < s /\ g = f /\ w = v
             \/ q = p /\ t = s /\ g < f /\ w = v
             \/ q = p /\ t = s /\ g = f /\ w < v
             \/ q = p + 1 /\ g = f /\ w = v
      BY <2>1, <2>5, <3>2
    <3>4. /\ 7 * (k - q) + t + g + w \in Nat
          /\ 7 * (k - q) + t + g + w < 7 * (k - p) + s + f + v
      BY <3>3
    <3>5. /\ StepsLeft = 7 * (k - p) + s + f + v
          /\ StepsLeft' = 7 * (k - q) + t + g + w
      BY <2>4, <3>2
    <3> QED
      BY <3>4, <3>5
  <2>6. ASSUME BeginPlaybook \/ FinishPlaybook
        PROVE  Nearer
    <3>1. /\ UNCHANGED <<played, vmRemoved, section>>
          /\ \/ phase = "start" /\ phase' = "playing"
             \/ phase = "playing" /\ phase' = "recap"
      BY <2>6 DEF BeginPlaybook, StartPlaybook, PlaybookOnStart, FinishPlaybook,
          EndPlaybook, PlaybookOnStats
    <3>2. PhasesLeft' < PhasesLeft
      BY <3>1 DEF PhasesLeft
    <3>3. SectionsLeft' = SectionsLeft /\ VmsLeft' = VmsLeft
      BY <3>1 DEF SectionsLeft, VmsLeft
    <3> QED
      BY <2>1, <2>5, <3>1, <3>2, <3>3
  <2>7. ASSUME BeginPlay
        PROVE  Nearer
    <3>1. /\ played < n /\ played' = played + 1
          /\ UNCHANGED <<vmRemoved, phase>>
      BY <2>7 DEF BeginPlay, StartPlay, PlaybookOnPlayStart, n
    <3>2. played' \in 0..n
      BY <2>1, <3>1
    <3>3. PhasesLeft' = PhasesLeft /\ VmsLeft' = VmsLeft
      BY <3>1 DEF PhasesLeft, VmsLeft
    <3> QED
      BY <2>5, <3>1, <3>2, <3>3
  <2>8. ASSUME UNCHANGED <<played, vmRemoved, phase>>, SectionsLeft' < SectionsLeft
        PROVE  Nearer
    <3>1. PhasesLeft' = PhasesLeft /\ VmsLeft' = VmsLeft
      BY <2>8 DEF PhasesLeft, VmsLeft
    <3> QED
      BY <2>1, <2>5, <2>8, <3>1
  <2>9. ASSUME SetCurrentTestcaseFacts \/ EnterBlock
         PROVE  Nearer
    BY <2>8, <2>9 DEF SetCurrentTestcaseFacts, CollectTestCaseName, EnterBlock, vars,
        SectionsLeft
  <2>10. ASSUME BlockTaskFails \/ BareTaskFails
         PROVE  Nearer
    BY <2>8, <2>10 DEF BlockTaskFails, BareTaskFails, Rescuable, RunnerOnFailed,
        Complete, SectionsLeft
  <2>11. ASSUME HostUnreachable
         PROVE  Nearer
    <3>1. SectionsLeft > 0
      BY <2>1, <2>11 DEF HostUnreachable, SectionsLeft, Sections
    <3>2. SectionsLeft' = 0 /\ UNCHANGED <<played, vmRemoved, phase>>
      BY <2>11 DEF HostUnreachable, RunnerOnUnreachable, Complete, SectionsLeft
    <3> QED
      BY <2>8, <3>1, <3>2
  <2>12. ASSUME SkipTestCase \/ BlockTestCase
         PROVE  Nearer
    <3>1. section \in {"before", "opened", "block"}
      BY <2>12, SkipFacts DEF SkipTestCase, BlockTestCase, Undecided
    <3>2. section' \in {"none", "rescue"} /\ UNCHANGED <<played, vmRemoved, phase>>
      BY <2>12 DEF SkipTestCase, BlockTestCase, RunnerOnSkipTestCase, RunnerOnFailed,
          Complete
    <3> QED
      BY <2>8, <3>1, <3>2 DEF SectionsLeft
  <2>13. ASSUME CollectEvidence \/ RescueTaskFails \/ RescueExits \/ RescueEnds
         PROVE  Nearer
    BY <2>8, <2>13 DEF CollectEvidence, RescueTaskFails, RescueExits, RescueEnds,
        AfterRescue, RunnerOnFailed, Complete, vars, SectionsLeft
  <2>14. ASSUME BlockEnds \/ AlwaysTaskFails \/ AlwaysEnds \/ TasksEnd
         PROVE  Nearer
    BY <2>8, <2>14 DEF BlockEnds, AlwaysTaskFails, AlwaysEnds, TasksEnd, RunnerOnFailed,
        Complete, vars, SectionsLeft
  <2>15. ASSUME RemoveNewVm
         PROVE  Nearer
    <3>1. /\ UNCHANGED <<played, phase, section>> /\ vmRemoved' = TRUE
          /\ UNCHANGED <<vars, params, section, doomed, hostFailed, folder, outcome, probed>>
      BY <2>15 DEF RemoveNewVm, vars, history
    <3>2. ~ vmRemoved
      BY <1>1, <2>1, <3>1 DEF suiteVars
    <3>3. SectionsLeft' = SectionsLeft /\ PhasesLeft' = PhasesLeft /\ VmsLeft' < VmsLeft
      BY <3>1, <3>2 DEF SectionsLeft, PhasesLeft, VmsLeft
    <3> QED
      BY <2>1, <2>5, <3>1, <3>3
  <2>16. ASSUME RenameTestCase \/ IgnoredUnreachable
         PROVE  StepsLeft' = StepsLeft
    <3>1. UNCHANGED <<played, phase, section, vmRemoved>>
      BY <2>16 DEF RenameTestCase, IgnoredUnreachable, CollectTestCaseName,
          RunnerOnUnreachable, Complete
    <3> QED
      BY <3>1 DEF StepsLeft, SectionsLeft, PhasesLeft, VmsLeft
  <2>17. SuiteAdvance => Nearer
    BY <2>6, <2>7, <2>9, <2>10, <2>11, <2>12, <2>13, <2>14, <2>15 DEF SuiteAdvance
  <2>18. ~ SuiteAdvance => StepsLeft' = StepsLeft
    BY <1>1, <2>16 DEF SuiteNext
  <2> QED
    BY <2>17, <2>18
<1>2. IInv /\ SuiteInv /\ SuiteInv' /\ [SuiteNext]_suiteVars =>
        [/\ SuiteAdvance => StepsLeft' \in Nat /\ StepsLeft' < StepsLeft
         /\ ~ SuiteAdvance => StepsLeft' = StepsLeft]_suiteVars
  BY <1>1
<1> QED
  BY <1>2, SuiteInductive, PTL DEF SuiteSpec
=============================================================================
