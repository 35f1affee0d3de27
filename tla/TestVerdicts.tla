---------------------------- MODULE TestVerdicts ----------------------------
(***************************************************************************)
(* What the test run bookkeeping promises, without lists, identifiers or   *)
(* callbacks: tests run one at a time in the order of the list, each gets  *)
(* one verdict, and at the end those that never ran are reported alike.    *)
(***************************************************************************)
EXTENDS Naturals

CONSTANTS
    NumTests,   \* length of the list of tests
    Verdicts    \* what a test may come to; "Passed" and "Blocked" are two of them

VARIABLES status, reported

vars == <<status, reported>>

Tests == 1..NumTests

Init ==
    /\ status = [t \in Tests |-> "No Run"]
    /\ reported = FALSE

Passed(t) == IF status[t] = "Running" THEN "Passed" ELSE status[t]

(* The running test gets its verdict.                                      *)
Decide(t) ==
    /\ ~ reported
    /\ status[t] = "Running"
    /\ \E v \in Verdicts : status' = [status EXCEPT ![t] = v]
    /\ UNCHANGED reported

(* The test that still runs has passed, the next one in the list starts.   *)
Start(t) ==
    /\ ~ reported
    /\ status[t] = "No Run"
    /\ \A u \in 1..(t - 1) : status[u] # "No Run"
    /\ status' = [u \in Tests |-> IF u = t THEN "Running" ELSE Passed(u)]
    /\ UNCHANGED reported

(* A play that is no test case starts: the test that still runs has passed. *)
Finish(t) ==
    /\ ~ reported
    /\ status[t] = "Running"
    /\ status' = [status EXCEPT ![t] = "Passed"]
    /\ UNCHANGED reported

(* The results are printed: what did not run stays so or is blocked.       *)
Report ==
    /\ ~ reported
    /\ \E v \in {"No Run", "Blocked"} :
         status' = [u \in Tests |-> IF status[u] = "No Run" THEN v ELSE Passed(u)]
    /\ reported' = TRUE

Next ==
    \/ \E t \in Tests : Decide(t) \/ Start(t) \/ Finish(t)
    \/ Report

Spec == Init /\ [][Next]_vars
=============================================================================
