------------------------- MODULE GosvTestRunsProofs -------------------------
(***************************************************************************)
(* Proofs about GosvTestRuns, for every test case list.                    *)
(***************************************************************************)
EXTENDS GosvTestRuns, SequenceTheorems, TLAPS

(* The shape of the bookkeeping: the first c tests have a verdict, test n  *)
(* runs (n is 0 if none does), the others have not run and are pending, in *)
(* the order of the list.                                                  *)
Shape(runs, pending, c, n) ==
    /\ runs \in [TestIds -> TestRun]
    /\ c \in 0..NumTests
    /\ n \in 0..NumTests /\ n \in {0, c + 1}
    /\ pending \in Seq(Names)
    /\ Len(pending) = NumTests - c
    /\ \A i \in 1..Len(pending) : pending[i] = TestList[c + i]
    /\ \A i \in TestIds :
         runs[i].status \in IF i <= c THEN Verdicts
                            ELSE IF i = n THEN {"Running"} ELSE {"No Run"}

(* The test whose play goes on, and how many tests are over with it.       *)
ThisTest == IF played \in 3..(NumTests + 2) THEN played - 2 ELSE 0
Over == IF played < 3 THEN 0 ELSE IF played <= NumTests + 2 THEN played - 2 ELSE NumTests

(* While the playbook plays, the test of this play runs or is decided.     *)
ShapeOfPlaying ==
    /\ lastTest = ThisTest
    /\ \/ Shape(testRuns, notCompleted, Over, 0)
       \/ ThisTest > 0 /\ Shape(testRuns, notCompleted, Over - 1, Over)

(* In the results, the tests behind those that are over are blocked or not. *)
ShapeOfRecap ==
    /\ testRuns \in [TestIds -> TestRun]
    /\ notCompleted \in Seq(Names)
    /\ Len(notCompleted) = NumTests - Over
    /\ \A i \in 1..Len(notCompleted) : notCompleted[i] = TestList[Over + i]
    /\ \A i \in TestIds :
         IF i <= Over
         THEN testRuns[i].status \in Verdicts
         ELSE testRuns[i].status =
                IF \/ playName = SetupPlay
                   \/ \E j \in 1..(i - 1) : j <= Over /\ IsFailedBlocker(testRuns[j])
                THEN "Blocked"
                ELSE "No Run"

NoTests == testRuns = << >> /\ notCompleted = << >> /\ lastTest = 0

Fields ==
    /\ phase \in {"start", "playing", "recap"}
    /\ lastTest \in 0..NumTests
    /\ playName \in {NoPlay, MainPlay, SetupPlay, CleanupPlay} \cup Names
    /\ played \in 0..(NumTests + 3)

IInv ==
    /\ Fields
    /\ phase = "start" => NoTests /\ played = 0
    /\ phase = "playing" => NoTests \/ ShapeOfPlaying
    /\ phase = "recap" => NoTests \/ ShapeOfRecap

-----------------------------------------------------------------------------
(* The test case list is a function on the positions of the tests.         *)
LEMMA NumTestsNat ==
    /\ NumTests \in Nat
    /\ TestIds = 1..NumTests
    /\ TestList \in [TestIds -> Names]
  BY TestListAssumption DEF NumTests, TestIds

(* Test runs that are given by position are a sequence.                    *)
LEMMA RunsAreSeq ==
    ASSUME NEW runs \in [TestIds -> TestRun]
    PROVE  runs \in Seq(TestRun) /\ Len(runs) = NumTests /\ DOMAIN runs = 1..NumTests
  BY NumTestsNat

(* A verdict is none of the statuses of a test that is pending or runs.    *)
LEMMA StatusFacts ==
    /\ "Running" \notin Verdicts
    /\ "No Run" \notin Verdicts
    /\ {"Passed", "Failed", "Blocked"} \subseteq Verdicts
    /\ SkipReasons \subseteq Verdicts
    /\ Statuses = {"No Run", "Running"} \cup Verdicts
  BY DEF Verdicts, SkipReasons, Statuses

(* The number of tests that are over, and the test of this play.           *)
LEMMA OverIsInt == played \in Nat => Over \in 0..NumTests /\ ThisTest \in {0, Over}
  BY NumTestsNat DEF Over, ThisTest

(* The plays of main.yml, by position.                                     *)
LEMMA PlaysAt ==
    /\ Len(Plays) = NumTests + 3
    /\ Plays[1] = MainPlay
    /\ Plays[2] = SetupPlay
    /\ \A i \in TestIds : Plays[i + 2] = TestList[i]
    /\ Plays[NumTests + 3] = CleanupPlay
  <1> DEFINE All == Names \cup {MainPlay, SetupPlay, CleanupPlay}
             Head2 == <<MainPlay, SetupPlay>>
             Front == Head2 \o TestList
             Last1 == <<CleanupPlay>>
  <1>1. Head2 \in Seq(All) /\ Len(Head2) = 2 /\ Last1 \in Seq(All) /\ Len(Last1) = 1
    OBVIOUS
  <1>2. TestList \in Seq(All) /\ Len(TestList) = NumTests
    BY TestListAssumption DEF NumTests
  <1>3. /\ Front \in Seq(All)
        /\ Len(Front) = NumTests + 2
        /\ \A i \in 1..(NumTests + 2) :
             Front[i] = IF i <= 2 THEN Head2[i] ELSE TestList[i - 2]
    BY <1>1, <1>2, ConcatProperties, NumTestsNat
  <1>4. /\ Len(Front \o Last1) = NumTests + 3
        /\ \A i \in 1..(NumTests + 3) :
             (Front \o Last1)[i] = IF i <= NumTests + 2 THEN Front[i]
                                   ELSE Last1[i - (NumTests + 2)]
    BY <1>1, <1>3, ConcatProperties, NumTestsNat
  <1>5. Plays = Front \o Last1
    BY DEF Plays
  <1>6. \A i \in TestIds : i + 2 \in 1..(NumTests + 2) /\ i + 2 > 2 /\ (i + 2) - 2 = i
    BY NumTestsNat DEF TestIds
  <1>7. Plays[1] = MainPlay /\ Plays[2] = SetupPlay
    BY <1>3, <1>4, <1>5, NumTestsNat
  <1>8. Plays[NumTests + 3] = CleanupPlay
    BY <1>4, <1>5, NumTestsNat
  <1>9. ASSUME NEW i \in TestIds PROVE Plays[i + 2] = TestList[i]
    <2>1. (Front \o Last1)[i + 2] = Front[i + 2]
      BY <1>4, <1>6, NumTestsNat
    <2>2. Front[i + 2] = TestList[i]
      BY <1>3, <1>6
    <2> QED
      BY <1>5, <2>1, <2>2
  <1> QED
    BY <1>4, <1>5, <1>7, <1>8, <1>9

-----------------------------------------------------------------------------
(* Completing the last test, if it still runs, gives the verdict to the    *)
(* test of this play and to no other.                                      *)
LEMMA CompleteSettles ==
    ASSUME IInv, phase = "playing", ShapeOfPlaying, NEW v \in Verdicts
    PROVE  /\ Shape(RunsAfter(v), PendingAfter, Over, 0)
           /\ \A i \in TestIds : /\ RunsAfter(v)[i].name = testRuns[i].name
                                 /\ testRuns[i].status = "Running" =>
                                      RunsAfter(v)[i].status = v
                                 /\ testRuns[i].status # "Running" =>
                                      RunsAfter(v)[i] = testRuns[i]
  <1>0. Over \in 0..NumTests /\ ThisTest \in {0, Over}
    BY OverIsInt DEF IInv, Fields
  <1>1. CASE Shape(testRuns, notCompleted, Over, 0)
    <2>1. \A i \in TestIds : testRuns[i].status # "Running"
      <3>1. \A i \in TestIds : i # 0
        BY NumTestsNat
      <3>2. \A i \in TestIds : testRuns[i].status \in Verdicts \cup {"No Run"}
        BY <1>1, <3>1 DEF Shape
      <3> QED
        BY <3>2, StatusFacts
    <2>2. ~ LastIsRunning
      BY <1>1, <2>1 DEF LastIsRunning, Shape
    <2> QED
      BY <1>1, <2>1, <2>2 DEF RunsAfter, PendingAfter
  <1>2. CASE ThisTest > 0 /\ Shape(testRuns, notCompleted, Over - 1, Over)
    <2>1. lastTest = Over /\ Over \in TestIds
      BY <1>0, <1>2, NumTestsNat DEF ShapeOfPlaying
    <2>2. LastIsRunning
      <3>1. ~ (Over <= Over - 1)
        BY <1>0, NumTestsNat
      <3>2. testRuns[Over].status = "Running" /\ DOMAIN testRuns = TestIds
        BY <1>2, <2>1, <3>1 DEF Shape
      <3> QED
        BY <2>1, <3>2 DEF LastIsRunning
    <2>3. PendingAfter = Tail(notCompleted) /\ RunsAfter(v) = [testRuns EXCEPT ![Over].status = v]
      BY <2>1, <2>2 DEF PendingAfter, RunsAfter
    <2>4. notCompleted \in Seq(Names) /\ Len(notCompleted) = NumTests - (Over - 1)
      BY <1>2 DEF Shape
    <2>5. notCompleted # << >>
      BY <1>0, <2>4, NumTestsNat
    <2>6. /\ PendingAfter \in Seq(Names)
          /\ Len(PendingAfter) = NumTests - Over
          /\ \A i \in 1..Len(PendingAfter) : PendingAfter[i] = notCompleted[i + 1]
      BY <1>0, <2>3, <2>4, <2>5, HeadTailProperties, NumTestsNat
    <2>7. ASSUME NEW i \in 1..Len(PendingAfter) PROVE PendingAfter[i] = TestList[Over + i]
      <3>1. i + 1 \in 1..Len(notCompleted) /\ (Over - 1) + (i + 1) = Over + i
        BY <1>0, <2>4, <2>6, NumTestsNat
      <3> QED
        BY <1>2, <2>6, <3>1 DEF Shape
    <2>8. \A r \in TestRun : /\ [r EXCEPT !.status = v] \in TestRun
                             /\ [r EXCEPT !.status = v].status = v
                             /\ [r EXCEPT !.status = v].name = r.name
      BY StatusFacts DEF TestRun
    <2>9. testRuns \in [TestIds -> TestRun]
      BY <1>2 DEF Shape
    <2>10. \A i \in TestIds : RunsAfter(v)[i] = IF i = Over THEN [testRuns[i] EXCEPT !.status = v]
                                                ELSE testRuns[i]
      BY <2>1, <2>3, <2>9
    <2>11. RunsAfter(v) \in [TestIds -> TestRun]
      BY <2>3, <2>8, <2>9, <2>10
    <2>12. ASSUME NEW i \in TestIds
           PROVE  RunsAfter(v)[i].status \in IF i <= Over THEN Verdicts ELSE {"No Run"}
      <3>0. i \in Int /\ Over \in Int
        BY <1>0, NumTestsNat
      <3>1. i # Over => /\ i <= Over <=> i <= Over - 1
                        /\ RunsAfter(v)[i] = testRuns[i]
        <4>1. i # Over => (i <= Over <=> i <= Over - 1)
          BY <3>0
        <4> QED
          BY <2>10, <4>1
      <3>2. i = Over => RunsAfter(v)[i].status = v /\ i <= Over
        <4>1. i = Over => i <= Over
          BY <3>0
        <4>2. testRuns[i] \in TestRun
          BY <2>9
        <4> QED
          BY <2>8, <2>10, <4>1, <4>2
      <3> QED
        BY <1>2, <3>1, <3>2 DEF Shape
    <2>13. Shape(RunsAfter(v), PendingAfter, Over, 0)
      <3>1. 0 \in 0..NumTests
        BY NumTestsNat
      <3>2. \A i \in TestIds : i # 0
        BY NumTestsNat
      <3> QED
        BY <1>0, <2>6, <2>7, <2>11, <2>12, <3>1, <3>2 DEF Shape
    <2>14. testRuns[Over].status = "Running"
      BY <2>1, <2>2 DEF LastIsRunning
    <2>15. ASSUME NEW i \in TestIds, testRuns[i].status = "Running"
           PROVE  i = Over
      BY <1>2, <2>15, StatusFacts DEF Shape
    <2>16. \A i \in TestIds : testRuns[i] \in TestRun
      BY <2>9
    <2> QED
      BY <2>8, <2>10, <2>13, <2>14, <2>15, <2>16, ZenonT(30)
  <1> QED
    BY <1>1, <1>2 DEF ShapeOfPlaying

(* Without a test case list there is nothing to complete.                  *)
LEMMA CompleteNoTests ==
    ASSUME NoTests, NEW v
    PROVE  ~ LastIsRunning /\ RunsAfter(v) = testRuns /\ PendingAfter = notCompleted
  BY DEF NoTests, LastIsRunning, RunsAfter, PendingAfter

-----------------------------------------------------------------------------
(* What the lemmas on the single actions have in common.                   *)
LEMMA OverUnchanged ==
    ASSUME UNCHANGED played
    PROVE  Over' = Over /\ ThisTest' = ThisTest
  BY DEF Over, ThisTest

(* The playbook starts: the list is loaded, no test is over, or it is not. *)
LEMMA StartKeeps ==
    ASSUME IInv, StartPlaybook
    PROVE  IInv'
  <1>1. /\ phase = "start" /\ phase' = "playing"
        /\ lastTest' = lastTest /\ playName' = playName /\ played' = played
    BY DEF StartPlaybook, PlaybookOnStart
  <1>2. NoTests /\ played = 0
    BY <1>1 DEF IInv
  <1>3. Fields'
    BY <1>1 DEF IInv, Fields
  <1>4. CASE ListLoaded
    <2>1. Over' = 0 /\ ThisTest' = 0
      BY <1>1, <1>2, NumTestsNat DEF Over, ThisTest
    <2>2. testRuns' \in [TestIds -> TestRun]
      BY <1>4, NumTestsNat, StatusFacts DEF ListLoaded, TestRun
    <2>3. \A i \in TestIds : testRuns'[i].status = "No Run"
      BY <1>4 DEF ListLoaded
    <2>4. /\ notCompleted' = TestList
          /\ TestList \in Seq(Names)
          /\ Len(TestList) = NumTests
      BY <1>4, TestListAssumption DEF ListLoaded, NumTests
    <2>5. \A i \in TestIds : ~ (i <= 0) /\ i # 0
      BY NumTestsNat
    <2>6. Shape(testRuns', notCompleted', 0, 0)
      <3>1. Len(TestList) = NumTests - 0 /\ 0 \in 0..NumTests
        BY <2>4, NumTestsNat
      <3>2. \A i \in 1..Len(TestList) : TestList[i] = TestList[0 + i]
        <4>1. \A i \in 1..Len(TestList) : i = 0 + i
          BY <2>4, NumTestsNat
        <4> QED
          BY <4>1
      <3> QED
        BY <2>2, <2>3, <2>4, <2>5, <3>1, <3>2 DEF Shape
    <2>7. Shape(testRuns, notCompleted, Over, 0)'
      BY <2>1, <2>6 DEF Shape
    <2>8. ShapeOfPlaying'
      BY <1>1, <1>2, <2>1, <2>7 DEF ShapeOfPlaying, NoTests
    <2> QED
      BY <1>1, <1>3, <2>8 DEF IInv
  <1>5. CASE ListNotLoaded
    BY <1>1, <1>2, <1>3, <1>5 DEF ListNotLoaded, NoTests, IInv
  <1> QED
    BY <1>4, <1>5 DEF StartPlaybook, PlaybookOnStart

(* A failed, unreachable or skipped task gives the test of this play its   *)
(* verdict, or changes nothing if it has one.                              *)
LEMMA CompleteKeeps ==
    ASSUME IInv, phase = "playing", NEW v \in Verdicts, Complete(v), UNCHANGED played
    PROVE  IInv'
  <1>1. /\ testRuns' = RunsAfter(v) /\ notCompleted' = PendingAfter
        /\ phase' = phase /\ lastTest' = lastTest /\ playName' = playName
        /\ played' = played
    BY DEF Complete
  <1>2. Fields'
    BY <1>1 DEF IInv, Fields
  <1>3. CASE NoTests
    BY <1>1, <1>2, <1>3, CompleteNoTests DEF NoTests, IInv
  <1>4. CASE ShapeOfPlaying
    <2>1. Shape(RunsAfter(v), PendingAfter, Over, 0)
      BY <1>4, CompleteSettles
    <2>2. ShapeOfPlaying'
      BY <1>1, <1>4, <2>1, OverUnchanged DEF ShapeOfPlaying, Shape
    <2> QED
      BY <1>1, <1>2, <2>2 DEF IInv
  <1> QED
    BY <1>3, <1>4 DEF IInv

(* The play that starts is that of the first test that is not over, or of  *)
(* no test.                                                                *)
LEMMA NextTest ==
    ASSUME IInv, phase = "playing", ShapeOfPlaying, played < Len(Plays),
           played' = played + 1
    PROVE  /\ NextTestId(PendingAfter, Plays[played + 1]) = ThisTest'
           /\ ThisTest' = 0 => Over' = Over
           /\ ThisTest' # 0 => Over' = Over + 1 /\ ThisTest' = Over + 1 /\ ThisTest' \in TestIds
  <1> DEFINE pending == PendingAfter
             play == Plays[played + 1]
             id == Len(testRuns) - Len(pending) + 1
  <1>1. played \in 0..(NumTests + 2)
    BY PlaysAt, NumTestsNat DEF IInv, Fields
  <1>2. /\ Over \in 0..NumTests
        /\ Over' = IF played < 2 THEN 0 ELSE IF played < NumTests + 2 THEN played - 1 ELSE NumTests
        /\ ThisTest' = IF played \in 2..(NumTests + 1) THEN played - 1 ELSE 0
        /\ Over = IF played < 3 THEN 0 ELSE played - 2
    BY <1>1, NumTestsNat DEF Over, ThisTest
  <1>3. /\ ThisTest' = 0 => Over' = Over
        /\ ThisTest' # 0 => Over' = Over + 1 /\ ThisTest' = Over + 1 /\ ThisTest' \in TestIds
    BY <1>1, <1>2, NumTestsNat
  <1>4. Shape(RunsAfter("Passed"), pending, Over, 0)
    BY CompleteSettles, StatusFacts
  <1>5. Len(testRuns) = NumTests /\ DOMAIN testRuns = TestIds
    BY RunsAreSeq, NumTestsNat DEF ShapeOfPlaying, Shape
  <1>6. Len(pending) = NumTests - Over /\ id = Over + 1
    <2>1. Len(pending) = NumTests - Over
      BY <1>4 DEF Shape
    <2> QED
      BY <1>2, <1>5, <2>1, NumTestsNat
  <1>7. CASE ThisTest' # 0
    <2>1. played \in 2..(NumTests + 1) /\ id = played - 1 /\ id \in TestIds
      BY <1>1, <1>2, <1>3, <1>6, <1>7, NumTestsNat
    <2>2. play = TestList[id]
      <3>1. id + 2 = played + 1
        BY <2>1
      <3> QED
        BY <2>1, <3>1, PlaysAt
    <2>3. pending[1] = TestList[id]
      <3>1. 1 \in 1..Len(pending) /\ Over + 1 = id
        BY <1>2, <1>6, <2>1, NumTestsNat
      <3> QED
        BY <1>4, <3>1 DEF Shape
    <2> QED
      BY <1>3, <1>5, <1>6, <1>7, <2>1, <2>2, <2>3 DEF NextTestId
  <1>8. CASE ThisTest' = 0
    <2>1. played \in {0, 1, NumTests + 2}
      BY <1>1, <1>2, <1>8, NumTestsNat
    <2>2. CASE played = NumTests + 2
      BY <1>2, <1>3, <1>5, <1>6, <1>8, <2>2, NumTestsNat DEF NextTestId
    <2>3. CASE played \in {0, 1}
      <3>1. play \notin Names
        BY <2>3, PlaysAt, PlayAssumption
      <3>2. id \in TestIds => play # TestList[id]
        BY <3>1, NumTestsNat
      <3> QED
        BY <1>3, <1>5, <1>8, <3>2 DEF NextTestId
    <2> QED
      BY <2>1, <2>2, <2>3
  <1> QED
    BY <1>3, <1>7, <1>8

(* The play that starts ends the test of the last one and begins its own.  *)
LEMMA StartPlayKeeps ==
    ASSUME IInv, StartPlay
    PROVE  IInv'
  <1> DEFINE next == NextTestId(PendingAfter, Plays[played + 1])
             settled == RunsAfter("Passed")
  <1>1. /\ phase = "playing" /\ phase' = "playing"
        /\ played < Len(Plays) /\ played' = played + 1
        /\ notCompleted' = PendingAfter
        /\ lastTest' = next
        /\ playName' = Plays[played + 1]
        /\ testRuns' = [i \in DOMAIN testRuns |->
                          IF i = next THEN [settled[i] EXCEPT !.status = "Running"]
                          ELSE settled[i]]
    BY DEF StartPlay, PlaybookOnPlayStart
  <1>2. played \in 0..(NumTests + 2) /\ played' \in 1..(NumTests + 3)
    BY <1>1, PlaysAt, NumTestsNat DEF IInv, Fields
  <1>3. playName' \in {MainPlay, SetupPlay, CleanupPlay} \cup Names
    <2>1. CASE played \in {0, 1, NumTests + 2}
      <3>1. Plays[played + 1] \in {Plays[1], Plays[2], Plays[NumTests + 3]}
        BY <2>1, NumTestsNat
      <3> QED
        BY <1>1, <3>1, PlaysAt
    <2>2. CASE played \notin {0, 1, NumTests + 2}
      <3>1. played - 1 \in TestIds /\ played + 1 = (played - 1) + 2
        BY <1>2, <2>2, NumTestsNat
      <3> QED
        BY <1>1, <3>1, PlaysAt, NumTestsNat
    <2> QED
      BY <2>1, <2>2
  <1>4. CASE NoTests
    <2>1. PendingAfter = << >> /\ settled = << >>
      BY <1>4, CompleteNoTests DEF NoTests
    <2>2. next = 0
      <3>1. DOMAIN testRuns = {}
        BY <1>4 DEF NoTests
      <3> QED
        BY <3>1 DEF NextTestId
    <2>3. testRuns' = << >>
      BY <1>1, <1>4, <2>1 DEF NoTests
    <2>4. NoTests'
      BY <1>1, <2>1, <2>2, <2>3 DEF NoTests
    <2> QED
      BY <1>1, <1>2, <1>3, <2>2, <2>4, NumTestsNat DEF IInv, Fields
  <1>5. CASE ShapeOfPlaying
    <2>1. Shape(settled, PendingAfter, Over, 0)
      BY <1>1, <1>5, CompleteSettles, StatusFacts
    <2>2. /\ next = ThisTest'
          /\ ThisTest' = 0 => Over' = Over
          /\ ThisTest' # 0 => Over' = Over + 1 /\ ThisTest' = Over + 1 /\ ThisTest' \in TestIds
      BY <1>1, <1>5, NextTest
    <2>3. Over \in 0..NumTests
      BY OverIsInt DEF IInv, Fields
    <2>4. DOMAIN testRuns = TestIds
      BY <1>5 DEF ShapeOfPlaying, Shape
    <2>5. Fields'
      BY <1>1, <1>2, <1>3, <2>2, NumTestsNat DEF Fields
    <2>6. CASE ThisTest' = 0
      <3>1. \A i \in TestIds : testRuns'[i] = settled[i]
        <4>1. \A i \in TestIds : i # 0
          BY NumTestsNat
        <4> QED
          BY <1>1, <2>2, <2>4, <2>6, <4>1
      <3>2. testRuns' = settled
        BY <1>1, <2>1, <2>4, <3>1 DEF Shape
      <3>3. Shape(testRuns, notCompleted, Over, 0)'
        BY <1>1, <2>1, <2>2, <2>6, <3>2 DEF Shape
      <3> QED
        BY <1>1, <2>2, <2>5, <3>3 DEF IInv, ShapeOfPlaying
    <2>7. CASE ThisTest' # 0
      <3>1. next = Over + 1 /\ next \in TestIds /\ Over' = next /\ Over = Over' - 1
        BY <2>2, <2>3, <2>7
      <3>2. settled \in [TestIds -> TestRun]
        BY <2>1 DEF Shape
      <3>3. \A r \in TestRun : /\ [r EXCEPT !.status = "Running"] \in TestRun
                               /\ [r EXCEPT !.status = "Running"].status = "Running"
        BY StatusFacts DEF TestRun
      <3>4. testRuns' \in [TestIds -> TestRun]
        BY <1>1, <2>4, <3>2, <3>3
      <3>5. ASSUME NEW i \in TestIds
            PROVE  testRuns'[i].status \in IF i <= Over THEN Verdicts
                                            ELSE IF i = next THEN {"Running"} ELSE {"No Run"}
        <4>1. i = next => testRuns'[i].status = "Running" /\ ~ (i <= Over)
          <5>1. ~ (next <= Over)
            BY <2>3, <3>1
          <5>2. i = next => testRuns'[i] = [settled[i] EXCEPT !.status = "Running"]
            BY <1>1, <2>4
          <5>3. settled[i] \in TestRun
            BY <3>2
          <5> QED
            BY <3>3, <5>1, <5>2, <5>3
        <4>2. i # next => testRuns'[i] = settled[i]
          BY <1>1, <2>4
        <4>3. i # 0
          BY NumTestsNat
        <4> QED
          BY <2>1, <4>1, <4>2, <4>3 DEF Shape
      <3>6. Shape(testRuns', notCompleted', Over, next)
        <4>1. next \in 0..NumTests
          BY <3>1, NumTestsNat
        <4> QED
          BY <1>1, <2>1, <2>3, <3>1, <3>4, <3>5, <4>1 DEF Shape
      <3>7. Shape(testRuns, notCompleted, Over - 1, Over)'
        BY <3>1, <3>6 DEF Shape
      <3>8. ThisTest' > 0
        BY <2>2, <3>1, NumTestsNat
      <3> QED
        BY <1>1, <2>2, <2>5, <3>7, <3>8 DEF IInv, ShapeOfPlaying
    <2> QED
      BY <2>6, <2>7
  <1> QED
    BY <1>1, <1>4, <1>5 DEF IInv

(* A test run that gets a new name keeps its status.                       *)
LEMMA TestNamedKeeps ==
    ASSUME IInv, TestNamed
    PROVE  IInv' /\ \A i \in DOMAIN testRuns : /\ i \in DOMAIN testRuns'
                                              /\ testRuns'[i].status = testRuns[i].status
  <1>1. PICK name \in NamesOf(playName) : CollectTestCaseName(name)
    BY DEF TestNamed
  <1>2. name \in Names
    <2>1. PICK i \in TestIds : playName = TestList[i]
      BY DEF TestNamed, InTestPlay
    <2> QED
      BY <2>1, NumTestsNat, AliasAssumption DEF NamesOf
  <1>3. /\ phase = "playing" /\ phase' = phase /\ lastTest' = lastTest
        /\ playName' = playName /\ notCompleted' = notCompleted /\ played' = played
    BY <1>1 DEF CollectTestCaseName, TestNamed
  <1>4. Fields'
    BY <1>3 DEF IInv, Fields
  <1>5. CASE NoTests
    <2>1. testRuns' = testRuns
      BY <1>1, <1>5 DEF CollectTestCaseName, NoTests
    <2> QED
      BY <1>3, <1>4, <1>5, <2>1 DEF IInv, NoTests
  <1>6. CASE ShapeOfPlaying
    <2>1. testRuns \in [TestIds -> TestRun]
      BY <1>6 DEF ShapeOfPlaying, Shape
    <2>2. \A r \in TestRun : /\ [r EXCEPT !.name = name] \in TestRun
                             /\ [r EXCEPT !.name = name].status = r.status
      BY <1>2 DEF TestRun
    <2>3. testRuns' \in [TestIds -> TestRun]
      BY <1>1, <2>1, <2>2 DEF CollectTestCaseName
    <2>4. ASSUME NEW i \in TestIds PROVE testRuns'[i].status = testRuns[i].status
      <3>1. testRuns'[i] \in {testRuns[i], [testRuns[i] EXCEPT !.name = name]}
        BY <1>1, <2>1 DEF CollectTestCaseName
      <3> QED
        BY <2>1, <2>2, <3>1
    <2>6. Shape(testRuns, notCompleted, Over, 0) => Shape(testRuns, notCompleted, Over, 0)'
      BY <1>3, <2>3, <2>4, OverUnchanged DEF Shape
    <2>7. Shape(testRuns, notCompleted, Over - 1, Over) => Shape(testRuns, notCompleted, Over - 1, Over)'
      BY <1>3, <2>3, <2>4, OverUnchanged DEF Shape
    <2>8. ShapeOfPlaying'
      BY <1>3, <1>6, <2>6, <2>7, OverUnchanged DEF ShapeOfPlaying
    <2>9. DOMAIN testRuns = TestIds /\ DOMAIN testRuns' = TestIds
      BY <2>1, <2>3
    <2> QED
      BY <1>3, <1>4, <2>4, <2>8, <2>9 DEF IInv
  <1> QED
    BY <1>3, <1>5, <1>6 DEF IInv

(* The results: a pending test is blocked if env_setup was the last play   *)
(* or a blocker among the tests that are over has failed.                  *)
LEMMA EndKeeps ==
    ASSUME IInv, EndPlaybook
    PROVE  IInv'
  <1> DEFINE settled == RunsAfter("Passed")
  <1>1. PICK alias \in DeployAliases :
          testRuns' = [i \in DOMAIN testRuns |->
                         [name   |-> ResultName(testRuns[i], alias),
                          status |-> ResultStatus(settled, i)]]
    BY DEF EndPlaybook, PlaybookOnStats
  <1>2. /\ phase = "playing" /\ phase' = "recap" /\ lastTest' = lastTest
        /\ playName' = playName /\ notCompleted' = PendingAfter /\ played' = played
    BY DEF EndPlaybook, PlaybookOnStats
  <1>3. Fields'
    BY <1>2 DEF IInv, Fields
  <1>4. CASE NoTests
    <2>1. testRuns' = << >> /\ notCompleted' = << >>
      BY <1>1, <1>2, <1>4, CompleteNoTests DEF NoTests
    <2> QED
      BY <1>2, <1>3, <1>4, <2>1 DEF IInv, NoTests
  <1>5. CASE ShapeOfPlaying
    <2>1. /\ Shape(settled, PendingAfter, Over, 0)
          /\ \A i \in TestIds : settled[i].name = testRuns[i].name
      BY <1>2, <1>5, CompleteSettles, StatusFacts
    <2>2. Over \in 0..NumTests /\ Over' = Over
      BY <1>2, OverIsInt, OverUnchanged DEF IInv, Fields
    <2>3. testRuns \in [TestIds -> TestRun] /\ settled \in [TestIds -> TestRun]
      BY <1>5, <2>1 DEF ShapeOfPlaying, Shape
    <2>4. \A i \in TestIds : /\ testRuns'[i].name = ResultName(testRuns[i], alias)
                              /\ testRuns'[i].status = ResultStatus(settled, i)
      BY <1>1, <2>3
    <2>5. ASSUME NEW i \in TestIds
          PROVE  /\ ResultName(testRuns[i], alias) \in Names
                 /\ ResultName(testRuns[i], alias) \in Blockers
                      <=> testRuns[i].name \in Blockers
      <3>1. testRuns[i].name \in Names
        BY <2>3 DEF TestRun
      <3> QED
        BY <3>1, AliasAssumption, BlockerAssumption DEF ResultName
    <2>6. ASSUME NEW i \in TestIds
          PROVE  /\ i <= Over => testRuns'[i].status = settled[i].status
                 /\ i <= Over => settled[i].status \in Verdicts
                 /\ i > Over => settled[i].status = "No Run"
      <3>1. i # 0 /\ (i > Over <=> ~ (i <= Over))
        BY <2>2, NumTestsNat
      <3>2. settled[i].status \in IF i <= Over THEN Verdicts ELSE {"No Run"}
        BY <2>1, <3>1 DEF Shape
      <3> QED
        BY <2>4, <3>1, <3>2, StatusFacts DEF ResultStatus
    <2>7. testRuns' \in [TestIds -> TestRun]
      <3>1. \A i \in TestIds : ResultStatus(settled, i) \in Statuses
        BY <2>3, StatusFacts DEF ResultStatus, TestRun
      <3> QED
        <4>0. \A n \in Names, t \in Statuses : [name |-> n, status |-> t] \in TestRun
          BY DEF TestRun
        <4>1. \A i \in TestIds : [name   |-> ResultName(testRuns[i], alias),
                                  status |-> ResultStatus(settled, i)] \in TestRun
          <5> SUFFICES ASSUME NEW i \in TestIds
                       PROVE  [name   |-> ResultName(testRuns[i], alias),
                               status |-> ResultStatus(settled, i)] \in TestRun
            OBVIOUS
          <5>1. ResultName(testRuns[i], alias) \in Names
            BY <2>5
          <5>2. ResultStatus(settled, i) \in Statuses
            BY <3>1
          <5> QED
            BY <4>0, <5>1, <5>2
        <4>2. DOMAIN testRuns = TestIds
          BY <2>3
        <4> QED
          BY <1>1, <4>1, <4>2
    <2>8. \A i \in TestIds : i <= Over =>
            (IsFailedBlocker(testRuns'[i]) <=> IsFailedBlocker(settled[i]))
      <3> SUFFICES ASSUME NEW i \in TestIds, i <= Over
                   PROVE  IsFailedBlocker(testRuns'[i]) <=> IsFailedBlocker(settled[i])
        OBVIOUS
      <3>1. settled[i].name = testRuns[i].name
        BY <2>1
      <3>2. testRuns'[i].name = ResultName(testRuns[i], alias)
        BY <2>4
      <3>3. testRuns'[i].name \in Blockers <=> settled[i].name \in Blockers
        <4>1. ResultName(testRuns[i], alias) \in Blockers <=> testRuns[i].name \in Blockers
          BY <2>5
        <4> QED
          BY <3>1, <3>2, <4>1
      <3>4. testRuns'[i].status = settled[i].status
        BY <2>6
      <3> QED
        BY <3>3, <3>4 DEF IsFailedBlocker
    <2>9. \A i \in TestIds : i > Over => ~ IsFailedBlocker(settled[i])
      BY <2>6 DEF IsFailedBlocker
    <2>10. ASSUME NEW i \in TestIds, i > Over
           PROVE  testRuns'[i].status =
                    IF \/ playName = SetupPlay
                       \/ \E j \in 1..(i - 1) : j <= Over /\ IsFailedBlocker(testRuns'[j])
                    THEN "Blocked"
                    ELSE "No Run"
      <3>1. \A j \in 1..(i - 1) : j \in TestIds /\ (j > Over <=> ~ (j <= Over))
        BY <2>2, NumTestsNat
      <3>2. (\E j \in 1..(i - 1) : j <= Over /\ IsFailedBlocker(testRuns'[j]))
              <=> \E j \in 1..(i - 1) : IsFailedBlocker(settled[j])
        BY <2>8, <2>9, <3>1
      <3> QED
        BY <2>4, <2>6, <2>10, <3>2 DEF ResultStatus, BlockedAt
    <2>11. \A i \in TestIds : i > Over <=> ~ (i <= Over)
      BY <2>2, NumTestsNat
    <2>12. /\ notCompleted' \in Seq(Names)
           /\ Len(notCompleted') = NumTests - Over
           /\ \A i \in 1..Len(notCompleted') : notCompleted'[i] = TestList[Over + i]
      BY <1>2, <2>1 DEF Shape
    <2>13. ShapeOfRecap'
      BY <1>2, <2>2, <2>6, <2>7, <2>10, <2>11, <2>12 DEF ShapeOfRecap
    <2> QED
      BY <1>2, <1>3, <2>13 DEF IInv
  <1> QED
    BY <1>2, <1>4, <1>5 DEF IInv

-----------------------------------------------------------------------------
(* The invariant holds before the playbook starts.                         *)
LEMMA InitOK == Init => IInv
  BY NumTestsNat DEF Init, IInv, NoTests, Fields

(* Every step keeps the invariant.                                         *)
LEMMA StepOK == IInv /\ [Next]_vars => IInv'
  <1> SUFFICES ASSUME IInv, [Next]_vars PROVE IInv'
    OBVIOUS
  <1>1. CASE StartPlaybook
    BY <1>1, StartKeeps
  <1>2. CASE StartPlay
    BY <1>2, StartPlayKeeps
  <1>3. CASE TaskFailed
    <2>1. PICK ignored, blocked \in BOOLEAN : RunnerOnFailed(ignored, blocked)
      BY <1>3 DEF TaskFailed
    <2>2. CASE ignored
      BY <1>3, <2>1, <2>2 DEF TaskFailed, RunnerOnFailed, pluginVars, IInv, Fields, NoTests,
         ShapeOfPlaying, ShapeOfRecap, Shape, Over, ThisTest
    <2>3. CASE ~ ignored
      BY <1>3, <2>1, <2>3, CompleteKeeps, StatusFacts DEF TaskFailed, RunnerOnFailed
    <2> QED
      BY <2>2, <2>3
  <1>4. CASE TaskUnreachable
    BY <1>4, CompleteKeeps, StatusFacts DEF TaskUnreachable, RunnerOnUnreachable
  <1>5. CASE TestSkipped
    BY <1>5, CompleteKeeps, StatusFacts DEF TestSkipped, RunnerOnSkipTestCase
  <1>6. CASE TestNamed
    BY <1>6, TestNamedKeeps
  <1>7. CASE EndPlaybook
    BY <1>7, EndKeeps
  <1>8. CASE UNCHANGED vars
    BY <1>8 DEF vars, IInv, Fields, NoTests, ShapeOfPlaying, ShapeOfRecap, Shape, Over, ThisTest
  <1> QED
    BY <1>1, <1>2, <1>3, <1>4, <1>5, <1>6, <1>7, <1>8 DEF Next

(* At all times the test runs have the shape of the play that goes on.     *)
THEOREM Inductive == Spec => []IInv
  BY InitOK, StepOK, PTL DEF Spec

-----------------------------------------------------------------------------
(* The invariant implies the properties the runs check.                    *)
LEMMA TypeFromInv == IInv => TypeOK
  <1> SUFFICES ASSUME IInv PROVE TypeOK
    OBVIOUS
  <1>1. CASE NoTests
    BY <1>1, PlaysAt, NumTestsNat DEF IInv, Fields, NoTests, TypeOK
  <1>2. CASE testRuns \in [TestIds -> TestRun] /\ notCompleted \in Seq(Names)
    BY <1>2, RunsAreSeq, PlaysAt, NumTestsNat DEF IInv, Fields, TypeOK
  <1>3. ShapeOfPlaying \/ ShapeOfRecap => testRuns \in [TestIds -> TestRun] /\ notCompleted \in Seq(Names)
    BY DEF ShapeOfPlaying, ShapeOfRecap, Shape
  <1> QED
    BY <1>1, <1>2, <1>3 DEF IInv, Fields

(* The shapes relate pending tests, test runs and the last test.           *)
LEMMA BookkeepingFromInv == IInv => Bookkeeping
  <1> SUFFICES ASSUME IInv PROVE Bookkeeping
    OBVIOUS
  <1>0. Over \in 0..NumTests
    BY OverIsInt DEF IInv, Fields
  <1>1. CASE NoTests
    BY <1>1 DEF NoTests, Bookkeeping, PendingIsTail, VerdictsInOrder, RunningIsLast, Completed
  <1>2. CASE phase # "recap" /\ ShapeOfPlaying
    <2>1. PICK c, n : /\ Shape(testRuns, notCompleted, c, n)
                      /\ n # 0 => n = lastTest
      BY <1>0, <1>2, NumTestsNat DEF ShapeOfPlaying, ThisTest, Over
    <2>2. /\ c \in 0..NumTests /\ n \in 0..NumTests /\ n \in {0, c + 1}
          /\ Len(testRuns) = NumTests /\ DOMAIN testRuns = 1..NumTests
          /\ Len(notCompleted) = NumTests - c
      BY <2>1, RunsAreSeq DEF Shape
    <2>3. Completed = c
      BY <2>2, NumTestsNat DEF Completed
    <2>4. PendingIsTail
      BY <2>1, <2>2, <2>3 DEF PendingIsTail, Shape
    <2>5. \A i \in 1..NumTests : i # 0 /\ i \in TestIds /\ (i > c + 1 => i # n /\ ~ (i <= c))
      BY <2>2, NumTestsNat
    <2>6. \A i \in 1..NumTests :
            testRuns[i].status \in IF i <= c THEN Verdicts
                                   ELSE IF i = n THEN {"Running"} ELSE {"No Run"}
      BY <2>1, <2>5 DEF Shape
    <2>7. VerdictsInOrder
      BY <2>2, <2>3, <2>5, <2>6, StatusFacts DEF VerdictsInOrder
    <2>8. RunningIsLast
      BY <2>1, <2>2, <2>3, <2>5, <2>6, StatusFacts DEF RunningIsLast
    <2> QED
      BY <2>4, <2>7, <2>8 DEF Bookkeeping
  <1>3. CASE phase = "recap" /\ ShapeOfRecap
    <2>1. /\ Len(testRuns) = NumTests /\ DOMAIN testRuns = 1..NumTests
          /\ Len(notCompleted) = NumTests - Over
      BY <1>3, RunsAreSeq DEF ShapeOfRecap
    <2>2. Completed = Over
      BY <1>0, <2>1, NumTestsNat DEF Completed
    <2>3. PendingIsTail
      BY <1>0, <1>3, <2>1, <2>2 DEF PendingIsTail, ShapeOfRecap
    <2>4. \A i \in 1..NumTests : testRuns[i].status \in Verdicts \cup {"No Run"}
      BY <1>3, NumTestsNat, StatusFacts DEF ShapeOfRecap
    <2>5. RunningIsLast
      BY <2>1, <2>4, StatusFacts DEF RunningIsLast
    <2> QED
      BY <1>3, <2>3, <2>5 DEF Bookkeeping, VerdictsInOrder
  <1> QED
    BY <1>1, <1>2, <1>3 DEF IInv, Fields

(* While the playbook plays, the last test is the test of this play.       *)
LEMMA EventsFromInv == IInv => EventsGoToTheirTest
  BY DEF IInv, EventsGoToTheirTest, NoTests, ShapeOfPlaying, ThisTest

(* The shape of the results says which tests are blocked.                  *)
LEMMA BlockedFromInv == IInv => BlockedBehindBlockers
  <1> SUFFICES ASSUME IInv, phase = "recap", NEW i \in DOMAIN testRuns
               PROVE  /\ testRuns[i].status # "Running"
                      /\ played < i + 2 =>
                           testRuns[i].status =
                             IF \/ playName = SetupPlay
                                \/ \E j \in 1..(i - 1) :
                                     played >= j + 2 /\ IsFailedBlocker(testRuns[j])
                             THEN "Blocked"
                             ELSE "No Run"
    BY DEF BlockedBehindBlockers
  <1>1. ShapeOfRecap
    BY DEF IInv, NoTests
  <1>2. i \in TestIds
    BY <1>1 DEF ShapeOfRecap
  <1>3. testRuns[i].status \in Verdicts \cup {"No Run"}
    BY <1>1, <1>2, StatusFacts DEF ShapeOfRecap
  <1>4. played \in 0..(NumTests + 3)
    BY DEF IInv, Fields
  <1>5. /\ played < i + 2 => ~ (i <= Over)
        /\ \A j \in 1..(i - 1) : played >= j + 2 <=> j <= Over
    BY <1>2, <1>4, NumTestsNat DEF Over
  <1> QED
    BY <1>1, <1>2, <1>3, <1>5, StatusFacts DEF ShapeOfRecap

-----------------------------------------------------------------------------
(* The plugin's fields keep their types, whatever Ansible reports.         *)
THEOREM TypeCorrect == Spec => []TypeOK
  BY Inductive, TypeFromInv, PTL

(* The pending tests, the test runs and the last test agree at all times.  *)
THEOREM BookkeepingCorrect == Spec => []Bookkeeping
  BY Inductive, BookkeepingFromInv, PTL

(* Every event is booked on the test whose play goes on.                   *)
THEOREM EventsCorrect == Spec => []EventsGoToTheirTest
  BY Inductive, EventsFromInv, PTL

(* In the results a test that did not run is "Blocked" exactly behind a    *)
(* failed env_setup or a failed blocker.                                   *)
THEOREM BlockedCorrect == Spec => []BlockedBehindBlockers
  BY Inductive, BlockedFromInv, PTL

-----------------------------------------------------------------------------
(* A step as the abstract specification sees it: the statuses of the tests *)
(* that were loaded, or none.                                              *)
Same(i) == i \in DOMAIN testRuns' /\ testRuns'[i].status = testRuns[i].status

(* While the playbook plays, a list that was loaded stays loaded.          *)
LEMMA PlayingRuns ==
    ASSUME IInv, phase = "playing", ShapeOfPlaying
    PROVE  testRuns \in [TestIds -> TestRun] /\ DOMAIN testRuns = TestIds
  BY DEF ShapeOfPlaying, Shape

(* A verdict that is booked stays what it is.                              *)
LEMMA StepFinal ==
    ASSUME IInv, Next, NEW i \in DOMAIN testRuns, testRuns[i].status \in Verdicts
    PROVE  Same(i)
  <1>1. CASE StartPlaybook
    BY <1>1 DEF StartPlaybook, PlaybookOnStart, IInv, NoTests
  <1>2. CASE phase = "playing"
    <2>1. ShapeOfPlaying
      BY <1>2 DEF IInv, NoTests
    <2>2. i \in TestIds /\ DOMAIN testRuns = TestIds
      BY <1>2, <2>1, PlayingRuns
    <2>3. testRuns[i].status # "Running" /\ testRuns[i].status # "No Run"
      BY StatusFacts
    <2>4. ASSUME NEW v \in Verdicts
          PROVE  /\ Shape(RunsAfter(v), PendingAfter, Over, 0)
                 /\ DOMAIN RunsAfter(v) = TestIds
                 /\ RunsAfter(v)[i] = testRuns[i]
      <3>1. Shape(RunsAfter(v), PendingAfter, Over, 0) /\ RunsAfter(v)[i] = testRuns[i]
        BY <1>2, <2>1, <2>2, <2>3, CompleteSettles
      <3> QED
        BY <3>1 DEF Shape
    <2>5. ASSUME NEW v \in Verdicts, Complete(v) PROVE Same(i)
      BY <2>2, <2>4, <2>5 DEF Same, Complete
    <2>6. CASE StartPlay
      <3> DEFINE next == NextTestId(PendingAfter, Plays[played + 1])
      <3>1. /\ testRuns' = [k \in DOMAIN testRuns |->
                              IF k = next THEN [RunsAfter("Passed")[k] EXCEPT !.status = "Running"]
                              ELSE RunsAfter("Passed")[k]]
            /\ played < Len(Plays) /\ played' = played + 1
        BY <2>6 DEF StartPlay, PlaybookOnPlayStart
      <3>2. next = ThisTest' /\ (ThisTest' # 0 => ThisTest' = Over + 1)
        BY <1>2, <2>1, <3>1, NextTest
      <3>3. i # next
        <4>1. i # 0 /\ Over \in Int /\ (i = Over + 1 => ~ (i <= Over))
          BY <2>2, OverIsInt, NumTestsNat DEF IInv, Fields
        <4>2. i = Over + 1 => RunsAfter("Passed")[i].status = "No Run"
          BY <2>2, <2>4, <4>1, StatusFacts DEF Shape
        <4> QED
          BY <2>3, <2>4, <3>2, <4>1, <4>2, StatusFacts
      <3> QED
        BY <2>2, <2>4, <3>1, <3>3, StatusFacts DEF Same
    <2>7. CASE TaskFailed
      <3>1. PICK ignored, blocked \in BOOLEAN : RunnerOnFailed(ignored, blocked)
        BY <2>7 DEF TaskFailed
      <3> QED
        BY <2>2, <2>5, <3>1, StatusFacts DEF RunnerOnFailed, pluginVars, Same
    <2>8. CASE TaskUnreachable
      BY <2>5, <2>8, StatusFacts DEF TaskUnreachable, RunnerOnUnreachable
    <2>9. CASE TestSkipped
      BY <2>5, <2>9, StatusFacts DEF TestSkipped, RunnerOnSkipTestCase
    <2>10. CASE TestNamed
      BY <2>10, TestNamedKeeps DEF Same
    <2>11. CASE EndPlaybook
      <3>1. PICK alias \in DeployAliases :
              testRuns' = [k \in DOMAIN testRuns |->
                             [name   |-> ResultName(testRuns[k], alias),
                              status |-> ResultStatus(RunsAfter("Passed"), k)]]
        BY <2>11 DEF EndPlaybook, PlaybookOnStats
      <3>2. ResultStatus(RunsAfter("Passed"), i) = testRuns[i].status
        BY <2>3, <2>4, StatusFacts DEF ResultStatus
      <3> QED
        BY <2>2, <3>1, <3>2 DEF Same
    <2> QED
      BY <1>2, <2>6, <2>7, <2>8, <2>9, <2>10, <2>11
         DEF Next, StartPlaybook, PlaybookOnStart
  <1> QED
    BY <1>1, <1>2 DEF Next, StartPlay, PlaybookOnPlayStart, TaskFailed, RunnerOnFailed,
       TaskUnreachable, RunnerOnUnreachable, TestSkipped, RunnerOnSkipTestCase, TestNamed,
       CollectTestCaseName, EndPlaybook, PlaybookOnStats

(* No later event, play or final marking overwrites a verdict.             *)
THEOREM VerdictsFinal == Spec => VerdictIsFinal
  <1>1. IInv /\ [Next]_vars =>
          [\A i \in DOMAIN testRuns :
             testRuns[i].status \in Verdicts =>
               /\ i \in DOMAIN testRuns'
               /\ testRuns'[i].status = testRuns[i].status]_vars
    BY StepFinal DEF Same
  <1> QED
    BY <1>1, Inductive, PTL DEF Spec, VerdictIsFinal

-----------------------------------------------------------------------------
(* The refinement mapping, spelled out.                                    *)
StatusOf(runs) == [t \in TestIds |-> IF t \in DOMAIN runs THEN runs[t].status ELSE "No Run"]

(* The mapping reads the status of each test run.                          *)
LEMMA StatusAt ==
    ASSUME NEW runs \in [TestIds -> TestRun]
    PROVE  \A t \in TestIds : StatusOf(runs)[t] = runs[t].status
  BY DEF StatusOf

(* Without test runs no test has run.                                      *)
LEMMA StatusOfNoTests == StatusOf(<< >>) = [t \in TestIds |-> "No Run"]
  BY DEF StatusOf

(* A completed test is decided; if it had its verdict nothing changes.     *)
LEMMA CompleteDecides ==
    ASSUME IInv, phase = "playing", ShapeOfPlaying, NEW v \in Verdicts
    PROVE  /\ StatusOf(RunsAfter(v)) =
                 [t \in TestIds |-> IF StatusOf(testRuns)[t] = "Running" THEN v
                                    ELSE StatusOf(testRuns)[t]]
           /\ \A t \in TestIds : StatusOf(testRuns)[t] = "Running" =>
                 StatusOf(RunsAfter(v)) = [StatusOf(testRuns) EXCEPT ![t] = v]
  <1>1. testRuns \in [TestIds -> TestRun] /\ DOMAIN testRuns = TestIds
    BY PlayingRuns
  <1>2. /\ RunsAfter(v) \in [TestIds -> TestRun]
        /\ \A t \in TestIds :
             RunsAfter(v)[t].status = IF testRuns[t].status = "Running" THEN v
                                      ELSE testRuns[t].status
    <2>1. Shape(RunsAfter(v), PendingAfter, Over, 0)
      BY CompleteSettles
    <2>2. ASSUME NEW t \in TestIds
          PROVE  RunsAfter(v)[t].status = IF testRuns[t].status = "Running" THEN v
                                          ELSE testRuns[t].status
      BY CompleteSettles
    <2> QED
      BY <2>1, <2>2 DEF Shape
  <1>3. \A t \in TestIds : /\ StatusOf(testRuns)[t] = testRuns[t].status
                            /\ StatusOf(RunsAfter(v))[t] = RunsAfter(v)[t].status
    BY <1>1, <1>2, StatusAt
  <1>4. StatusOf(RunsAfter(v)) =
          [t \in TestIds |-> IF StatusOf(testRuns)[t] = "Running" THEN v
                             ELSE StatusOf(testRuns)[t]]
    BY <1>2, <1>3 DEF StatusOf
  <1>5. \A t, u \in TestIds : testRuns[t].status = "Running" /\ testRuns[u].status = "Running" => t = u
    <2>1. \A t \in TestIds : testRuns[t].status = "Running" => t = lastTest
      BY BookkeepingFromInv, <1>1 DEF Bookkeeping, RunningIsLast
    <2> QED
      BY <2>1
  <1>6. ASSUME NEW t \in TestIds, StatusOf(testRuns)[t] = "Running"
        PROVE  StatusOf(RunsAfter(v)) = [StatusOf(testRuns) EXCEPT ![t] = v]
    <2>1. \A u \in TestIds : StatusOf(testRuns)[u] = "Running" <=> u = t
      BY <1>3, <1>5, <1>6
    <2>2. DOMAIN StatusOf(testRuns) = TestIds
      BY DEF StatusOf
    <2> QED
      BY <1>4, <2>1, <2>2 DEF StatusOf
  <1> QED
    BY <1>4, <1>6

(* The abstract specification under the mapping.                           *)
LEMMA AbstractVars ==
    /\ Verdict!Tests = TestIds
    /\ Verdict!vars = <<StatusOf(testRuns), phase = "recap">>
    /\ \A t : Verdict!Passed(t) = IF StatusOf(testRuns)[t] = "Running" THEN "Passed"
                                  ELSE StatusOf(testRuns)[t]
  BY NumTestsNat DEF Verdict!Tests, Verdict!vars, Verdict!Passed, StatusOf

(* Initial states map to initial states.                                   *)
LEMMA RefineInit == Init => Verdict!Init
  BY NumTestsNat DEF Init, Verdict!Init, Verdict!Tests

(* Completing the last test is Decide, or a stutter.                       *)
LEMMA RefineComplete ==
    ASSUME IInv, phase = "playing", NEW v \in Verdicts, Complete(v)
    PROVE  [Verdict!Next]_(Verdict!vars)
  <1>1. testRuns' = RunsAfter(v) /\ phase' = phase
    BY DEF Complete
  <1>2. CASE NoTests
    BY <1>1, <1>2, CompleteNoTests DEF Verdict!vars, NoTests
  <1>3. CASE ShapeOfPlaying
    <2>1. CASE \A t \in TestIds : StatusOf(testRuns)[t] # "Running"
      <3>1. StatusOf(RunsAfter(v)) = StatusOf(testRuns)
        BY <1>3, <2>1, CompleteDecides DEF StatusOf
      <3> QED
        BY <1>1, <3>1 DEF Verdict!vars, StatusOf
    <2>2. CASE \E t \in TestIds : StatusOf(testRuns)[t] = "Running"
      <3>1. PICK t \in TestIds : StatusOf(testRuns)[t] = "Running"
        BY <2>2
      <3>2. StatusOf(testRuns') = [StatusOf(testRuns) EXCEPT ![t] = v]
        BY <1>1, <1>3, <3>1, CompleteDecides
      <3>3. Verdict!Decide(t)
        BY <1>1, <3>1, <3>2 DEF Verdict!Decide, StatusOf
      <3> QED
        BY <3>3, AbstractVars DEF Verdict!Next
    <2> QED
      BY <2>1, <2>2
  <1> QED
    BY <1>2, <1>3 DEF IInv

(* The start of a play is Start, Finish, or a stutter.                     *)
LEMMA RefineStartPlay ==
    ASSUME IInv, StartPlay
    PROVE  [Verdict!Next]_(Verdict!vars)
  <1> DEFINE next == NextTestId(PendingAfter, Plays[played + 1])
             settled == RunsAfter("Passed")
  <1>1. /\ phase = "playing" /\ phase' = "playing"
        /\ played < Len(Plays) /\ played' = played + 1
        /\ testRuns' = [i \in DOMAIN testRuns |->
                          IF i = next THEN [settled[i] EXCEPT !.status = "Running"]
                          ELSE settled[i]]
    BY DEF StartPlay, PlaybookOnPlayStart
  <1>2. CASE NoTests
    <2>1. testRuns' = << >>
      BY <1>1, <1>2 DEF NoTests
    <2> QED
      BY <1>1, <1>2, <2>1 DEF Verdict!vars, NoTests
  <1>3. CASE ShapeOfPlaying
    <2>1. testRuns \in [TestIds -> TestRun] /\ DOMAIN testRuns = TestIds
      BY <1>1, <1>3, PlayingRuns
    <2>2. Shape(settled, PendingAfter, Over, 0)
      BY <1>1, <1>3, CompleteSettles, StatusFacts
    <2>3. settled \in [TestIds -> TestRun]
      BY <2>2 DEF Shape
    <2>4. /\ next = ThisTest'
          /\ ThisTest' # 0 => ThisTest' = Over + 1 /\ ThisTest' \in TestIds
      BY <1>1, <1>3, NextTest
    <2>5. \A t \in TestIds : StatusOf(settled)[t] = Verdict!Passed(t)
      <3>1. "Passed" \in Verdicts
        BY StatusFacts
      <3>2. StatusOf(settled) =
              [t \in TestIds |-> IF StatusOf(testRuns)[t] = "Running" THEN "Passed"
                                 ELSE StatusOf(testRuns)[t]]
        BY <1>1, <1>3, <3>1, CompleteDecides
      <3>3. ASSUME NEW t \in TestIds PROVE StatusOf(settled)[t] = Verdict!Passed(t)
        <4>1. Verdict!Passed(t) = IF StatusOf(testRuns)[t] = "Running" THEN "Passed"
                                  ELSE StatusOf(testRuns)[t]
          BY AbstractVars
        <4> HIDE DEF settled
        <4> QED
          BY <3>2, <4>1
      <3> QED
        BY <3>3
    <2>6. CASE next = 0
      <3>1. \A i \in TestIds : i # 0
        BY NumTestsNat
      <3>2. testRuns' = settled
        BY <1>1, <2>1, <2>3, <2>6, <3>1
      <3>3. StatusOf(testRuns') = StatusOf(settled)
        BY <3>2
      <3>4. CASE \A t \in TestIds : StatusOf(testRuns)[t] # "Running"
        <4>1. StatusOf(settled) = StatusOf(testRuns)
          BY <1>1, <1>3, <3>4, CompleteDecides, StatusFacts DEF StatusOf
        <4> QED
          BY <1>1, <3>3, <4>1 DEF Verdict!vars, StatusOf
      <3>5. CASE \E t \in TestIds : StatusOf(testRuns)[t] = "Running"
        <4>1. PICK t \in TestIds : StatusOf(testRuns)[t] = "Running"
          BY <3>5
        <4>2. StatusOf(testRuns') = [StatusOf(testRuns) EXCEPT ![t] = "Passed"]
          BY <1>1, <1>3, <3>3, <4>1, CompleteDecides, StatusFacts
        <4>3. Verdict!Finish(t)
          BY <1>1, <4>1, <4>2 DEF Verdict!Finish, StatusOf
        <4> QED
          BY <4>3, AbstractVars DEF Verdict!Next
      <3> QED
        BY <3>4, <3>5
    <2>7. CASE next # 0
      <3>1. next \in TestIds /\ next = Over + 1 /\ Over \in 0..NumTests
        BY <2>4, <2>7, OverIsInt DEF IInv, Fields
      <3>2. \A t \in TestIds : t # 0 /\ (t < next => t <= Over) /\ ~ (next <= Over)
        BY <3>1, NumTestsNat
      <3>3. \A t \in TestIds :
              settled[t].status \in IF t <= Over THEN Verdicts ELSE {"No Run"}
        BY <2>2, <3>2 DEF Shape
      <3>4. \A t \in TestIds : StatusOf(settled)[t] = settled[t].status
        BY <2>3, StatusAt
      <3>5. StatusOf(testRuns)[next] = "No Run"
        <4>1. settled[next].status = "No Run"
          BY <3>1, <3>2, <3>3
        <4> QED
          BY <2>5, <3>1, <3>4, <4>1, AbstractVars
      <3>6. \A u \in 1..(next - 1) : StatusOf(testRuns)[u] # "No Run"
        <4>1. \A u \in 1..(next - 1) : u \in TestIds /\ u <= Over
          BY <3>1, NumTestsNat
        <4> QED
          BY <2>5, <3>3, <3>4, <4>1, AbstractVars, StatusFacts
      <3>7. StatusOf(testRuns') = [u \in TestIds |-> IF u = next THEN "Running"
                                                     ELSE Verdict!Passed(u)]
        <4>1. DOMAIN testRuns' = TestIds
          BY <1>1, <2>1
        <4>2. \A r \in TestRun : [r EXCEPT !.status = "Running"].status = "Running"
          BY DEF TestRun
        <4>3. ASSUME NEW u \in TestIds
              PROVE  testRuns'[u].status = IF u = next THEN "Running" ELSE Verdict!Passed(u)
          <5>1. testRuns'[u] = IF u = next THEN [settled[u] EXCEPT !.status = "Running"]
                               ELSE settled[u]
            BY <1>1, <2>1
          <5>2. settled[u] \in TestRun /\ settled[u].status = Verdict!Passed(u)
            BY <2>3, <2>5, <3>4
          <5> QED
            BY <4>2, <5>1, <5>2
        <4> QED
          BY <4>1, <4>3 DEF StatusOf
      <3>8. PICK t \in TestIds : t = next
        BY <3>1
      <3>9. Verdict!Start(t)
        BY <1>1, <3>5, <3>6, <3>7, <3>8, AbstractVars DEF Verdict!Start, StatusOf
      <3> QED
        BY <3>9, AbstractVars DEF Verdict!Next
    <2> QED
      BY <2>6, <2>7
  <1> QED
    BY <1>1, <1>2, <1>3 DEF IInv

(* A new name is a stutter: the abstract specification has no names.       *)
LEMMA RefineNamed ==
    ASSUME IInv, TestNamed
    PROVE  UNCHANGED Verdict!vars
  <1>1. PICK name \in NamesOf(playName) : CollectTestCaseName(name)
    BY DEF TestNamed
  <1>2. phase' = phase /\ DOMAIN testRuns' = DOMAIN testRuns
    BY <1>1 DEF CollectTestCaseName
  <1>3. \A t \in DOMAIN testRuns : testRuns'[t].status = testRuns[t].status
    BY TestNamedKeeps
  <1> QED
    BY <1>2, <1>3 DEF Verdict!vars

(* All pending tests are reported alike, since all blockers that failed    *)
(* are ahead of them.                                                      *)
LEMMA RefineEnd ==
    ASSUME IInv, EndPlaybook
    PROVE  Verdict!Next
  <1> DEFINE settled == RunsAfter("Passed")
  <1>1. phase = "playing" /\ phase' = "recap"
    BY DEF EndPlaybook, PlaybookOnStats
  <1>2. PICK alias \in DeployAliases :
          testRuns' = [i \in DOMAIN testRuns |->
                         [name   |-> ResultName(testRuns[i], alias),
                          status |-> ResultStatus(settled, i)]]
    BY DEF EndPlaybook, PlaybookOnStats
  <1>3. SUFFICES Verdict!Report
    BY DEF Verdict!Next
  <1>4. SUFFICES \E v \in {"No Run", "Blocked"} :
                   StatusOf(testRuns') = [u \in TestIds |->
                     IF StatusOf(testRuns)[u] = "No Run" THEN v ELSE Verdict!Passed(u)]
    BY <1>1, AbstractVars DEF Verdict!Report, StatusOf
  <1>5. CASE NoTests
    <2>1. testRuns' = << >>
      BY <1>2, <1>5 DEF NoTests
    <2>2. StatusOf(testRuns') = [u \in TestIds |->
            IF StatusOf(testRuns)[u] = "No Run" THEN "No Run" ELSE Verdict!Passed(u)]
      BY <1>5, <2>1, StatusOfNoTests DEF NoTests
    <2> QED
      BY <2>2
  <1>6. CASE ShapeOfPlaying
    <2> DEFINE stopped == \/ playName = SetupPlay
                          \/ \E j \in TestIds : IsFailedBlocker(settled[j])
               v == IF stopped THEN "Blocked" ELSE "No Run"
    <2>1. testRuns \in [TestIds -> TestRun] /\ DOMAIN testRuns = TestIds
      BY <1>1, <1>6, PlayingRuns
    <2>2. Shape(settled, PendingAfter, Over, 0)
      BY <1>1, <1>6, CompleteSettles, StatusFacts
    <2>3. settled \in [TestIds -> TestRun] /\ Over \in 0..NumTests
      BY <2>2 DEF Shape
    <2>4. \A t \in TestIds : settled[t].status = Verdict!Passed(t)
      <3>1. \A t \in TestIds : StatusOf(settled)[t] = Verdict!Passed(t)
        BY <1>1, <1>6, CompleteDecides, AbstractVars, StatusFacts, ZenonT(30)
      <3> QED
        BY <2>3, <3>1, StatusAt
    <2>5. \A t \in TestIds : settled[t].status \in IF t <= Over THEN Verdicts ELSE {"No Run"}
      <3>1. \A t \in TestIds : t # 0
        BY NumTestsNat
      <3> QED
        BY <2>2, <3>1 DEF Shape
    <2>6. ASSUME NEW t \in TestIds, settled[t].status = "No Run"
          PROVE  BlockedAt(settled, t) <=> stopped
      <3>1. ~ (t <= Over)
        BY <2>5, <2>6, StatusFacts
      <3>2. \A j \in TestIds : IsFailedBlocker(settled[j]) => j <= Over
        BY <2>5 DEF IsFailedBlocker
      <3>3. \A j \in TestIds : j <= Over => j \in 1..(t - 1)
        BY <2>3, <3>1, NumTestsNat
      <3>4. \A j \in 1..(t - 1) : j \in TestIds
        BY NumTestsNat
      <3> QED
        BY <3>2, <3>3, <3>4 DEF BlockedAt
    <2>7. ASSUME NEW t \in TestIds
          PROVE  testRuns'[t].status = IF settled[t].status = "No Run" THEN v
                                       ELSE settled[t].status
      <3>1. testRuns'[t].status = ResultStatus(settled, t)
        BY <1>2, <2>1
      <3> QED
        BY <2>6, <3>1 DEF ResultStatus
    <2>8. \A t \in TestIds : settled[t].status = "No Run" <=> StatusOf(testRuns)[t] = "No Run"
      BY <2>4, AbstractVars
    <2>9. DOMAIN testRuns' = TestIds
      BY <1>2, <2>1
    <2>10. StatusOf(testRuns') = [u \in TestIds |->
             IF StatusOf(testRuns)[u] = "No Run" THEN v ELSE Verdict!Passed(u)]
      BY <2>4, <2>7, <2>8, <2>9 DEF StatusOf
    <2> QED
      BY <2>10
  <1> QED
    BY <1>1, <1>5, <1>6 DEF IInv

(* Every step maps to an abstract step or a stutter.                       *)
LEMMA RefineStep == IInv /\ [Next]_vars => [Verdict!Next]_(Verdict!vars)
  <1> SUFFICES ASSUME IInv, [Next]_vars PROVE [Verdict!Next]_(Verdict!vars)
    OBVIOUS
  <1>1. CASE StartPlaybook
    <2>1. NoTests /\ phase = "start" /\ phase' = "playing"
      BY <1>1 DEF StartPlaybook, PlaybookOnStart, IInv
    <2>2. CASE ListLoaded
      <3>1. DOMAIN testRuns' = TestIds /\ \A t \in TestIds : testRuns'[t].status = "No Run"
        BY <2>2 DEF ListLoaded
      <3>2. StatusOf(testRuns') = [t \in TestIds |-> "No Run"]
        BY <3>1 DEF StatusOf
      <3>3. StatusOf(testRuns) = [t \in TestIds |-> "No Run"]
        BY <2>1, StatusOfNoTests DEF NoTests
      <3> QED
        BY <2>1, <3>2, <3>3 DEF Verdict!vars, StatusOf
    <2>3. CASE ListNotLoaded
      BY <2>1, <2>3 DEF ListNotLoaded, Verdict!vars, NoTests
    <2> QED
      BY <1>1, <2>2, <2>3 DEF StartPlaybook, PlaybookOnStart
  <1>2. CASE StartPlay
    BY <1>2, RefineStartPlay
  <1>3. CASE TaskFailed
    <2>1. PICK ignored, blocked \in BOOLEAN : RunnerOnFailed(ignored, blocked)
      BY <1>3 DEF TaskFailed
    <2>2. CASE ignored
      BY <2>1, <2>2 DEF RunnerOnFailed, pluginVars, Verdict!vars
    <2>3. CASE ~ ignored
      BY <2>1, <2>3, RefineComplete, StatusFacts DEF RunnerOnFailed
    <2> QED
      BY <2>2, <2>3
  <1>4. CASE TaskUnreachable
    BY <1>4, RefineComplete, StatusFacts DEF TaskUnreachable, RunnerOnUnreachable
  <1>5. CASE TestSkipped
    BY <1>5, RefineComplete, StatusFacts DEF TestSkipped, RunnerOnSkipTestCase
  <1>6. CASE TestNamed
    BY <1>6, RefineNamed
  <1>7. CASE EndPlaybook
    BY <1>7, RefineEnd
  <1>8. CASE UNCHANGED vars
    BY <1>8 DEF vars, Verdict!vars
  <1> QED
    BY <1>1, <1>2, <1>3, <1>4, <1>5, <1>6, <1>7, <1>8 DEF Next

(* The plugin implements the abstract bookkeeping of TestVerdicts.         *)
THEOREM Implements == Spec => ImplementsVerdicts
  BY Inductive, RefineInit, RefineStep, PTL DEF Spec, ImplementsVerdicts, Verdict!Spec
=============================================================================
