------------------------------ MODULE LogProofs ------------------------------
(***************************************************************************)
(* Proofs about the logs, for any number of runs, plays, tasks and lines:  *)
(* the log folders of GosvLogDir, which log files the results of TaskLogs  *)
(* go to, and what LogExtractor finds in a log.                            *)
(***************************************************************************)
EXTENDS GosvLogDir, TaskLogs, LogExtractor, FiniteSetTheorems, TLAPS

-----------------------------------------------------------------------------
(***************************************************************************)
(* GosvLogDir.  What a run does to the folders concerns its own log_dir    *)
(* and its own testrun_log_path only, as long as no two runs start in the  *)
(* same second; what they share is the link.  The invariant says of each   *)
(* step on the way of a run what that run relies on there although others  *)
(* interleave.                                                             *)
(***************************************************************************)

(* What a run has of its own: the second it started in, the fact           *)
(* testrun_log_path if it moves its logs, and the folder if one was made.  *)
RunsInv ==
    /\ \A r \in Runs : second[r] = 0 <=> pc[r] = "none"
    /\ ~ SameSecond =>
         \A r, q \in Runs : r # q /\ second[r] = second[q] => second[r] = 0
    /\ \A r \in Runs : pc[r] \in Ending => r \in collected
    /\ \A r \in made : pc[r] \notin {"done", "killed"} => r \in paths

(* Where "current" points to is there, or never was; a run that removes    *)
(* its log_dir has taken the link away from it, and one that sets the link *)
(* to its log_dir has that.                                                *)
LinkInv ==
    /\ \A s \in Seconds : link = LogDir(s) => s \in dirs
    /\ \A r \in Runs : link = LogPath(r) =>
         r \in paths \/ (r \in collected \ made /\ pc[r] = "done")
    /\ \A r \in Runs : pc[r] = "link" => second[r] \in dirs
    /\ \A r \in Runs : pc[r] = "remove" => link # LogDir(second[r])

(* The log_dir is removed when the logs are in testrun_log_path.           *)
LogsInv ==
    /\ \A r \in kept : pc[r] # "none"
    /\ \A r \in kept : r \in dirLogs[second[r]] \cup pathLogs
    /\ \A r \in kept : pc[r] \in {"unlink current", "remove"} => r \in pathLogs

(* What a start finds does not change behind its back, else it is          *)
(* disturbed: a link that dangled when it looked is still in the way.      *)
StartInv ==
    /\ \A r \in Runs \ disturbed :
         /\ pc[r] \in {"none"} \cup Starting => r \notin listed
         /\ pc[r] \in {"none", "check", "unlink"} => r \notin misled
         /\ pc[r] \in {"look", "make", "link"} => (link = NoLink <=> r \notin misled)
         /\ pc[r] = "make" => second[r] \notin dirs
         /\ pc[r] \in {"running", "done"} \cup Ending => (r \in listed <=> r \notin misled)
    /\ misled # {} => \E q \in collected \ made : pc[q] = "done"

-----------------------------------------------------------------------------
(* The names of log_dirs and log paths differ, and seconds are positive.   *)
LEMMA TargetFacts ==
    /\ \A s, t : LogDir(s) = LogDir(t) => s = t
    /\ \A r, q : LogPath(r) = LogPath(q) => r = q
    /\ \A s, r : LogDir(s) # LogPath(r) /\ LogDir(s) # NoLink /\ LogPath(r) # NoLink
  BY DEF LogDir, LogPath, NoLink

(* Seconds are numbers from 1.                                             *)
LEMMA SecondFacts ==
    Seconds \subseteq Nat /\ 0 \notin Seconds
  BY LogDirAssumption, FS_CardinalityType DEF Seconds

(* The second of a new run is no earlier run's, unless it may be.          *)
LEMMA NewSecond ==
    ASSUME TypeOK, NEW s \in Seconds,
           \A r \in Runs : IF SameSecond THEN second[r] <= s ELSE second[r] < s
    PROVE  s # 0 /\ (~ SameSecond => \A r \in Runs : second[r] # s)
<1>1. s \in Nat /\ s # 0
  BY SecondFacts
<1>2. ASSUME NEW r \in Runs, ~ SameSecond
      PROVE  second[r] # s
  <2>1. second[r] \in {0} \cup Seconds
    BY DEF TypeOK
  <2>2. second[r] \in Nat
    BY <2>1, SecondFacts DEF Seconds
  <2>3. second[r] < s
    BY <1>2
  <2> QED
    BY <1>1, <2>2, <2>3
<1> QED
  BY <1>1, <1>2

(* os.path.exists says that there is no link if there is none, or if it    *)
(* points to a folder that was never created.                              *)
LEMMA LinkExistsFacts ==
    ASSUME TypeOK, LinkInv
    PROVE  /\ LinkExists => link # NoLink
           /\ link # NoLink /\ ~ LinkExists =>
                \E r \in collected \ made : pc[r] = "done" /\ link = LogPath(r)
<1>1. ASSUME link # NoLink, ~ LinkExists
      PROVE  \E r \in collected \ made : pc[r] = "done" /\ link = LogPath(r)
  <2>1. link \in Targets
    BY <1>1 DEF TypeOK
  <2>2. PICK r \in Runs : link = LogPath(r)
    BY <1>1, <2>1 DEF LinkInv, LinkExists, Targets
  <2> QED
    BY <1>1, <2>2 DEF LinkInv, LinkExists
<1>2. ASSUME LinkExists
      PROVE  link # NoLink
  BY <1>2, TargetFacts DEF LinkExists
<1> QED
  BY <1>1, <1>2

(* The types, one by one.                                                  *)
Steps == {"none", "running", "done", "killed"} \cup Starting \cup Ending

Types ==
    /\ pc \in [Runs -> Steps]
    /\ second \in [Runs -> {0} \cup Seconds]
    /\ dirs \subseteq Seconds /\ dirLogs \in [Seconds -> SUBSET Runs]
    /\ collected \subseteq Runs /\ made \subseteq collected
    /\ paths \subseteq made /\ pathLogs \subseteq paths
    /\ link \in {NoLink} \cup Targets
    /\ listed \subseteq Runs /\ kept \subseteq Runs
    /\ disturbed \subseteq Runs /\ misled \subseteq Runs

LEMMA TypesAre == (TypeOK <=> Types) /\ (TypeOK' <=> Types')
  BY DEF TypeOK, Types, Steps

(* A run that has begun has a second.                                      *)
LEMMA HasSecond ==
    ASSUME Types, RunsInv, NEW run \in Runs, pc[run] # "none"
    PROVE  second[run] \in Seconds /\ LogDir(second[run]) \in Targets
  BY DEF Types, RunsInv, Targets

(* Every step preserves the types.                                         *)
LEMMA TypeOKStep ==
    ASSUME TypeOK, RunsInv, [Next]_vars
    PROVE  TypeOK'
<1>0. Types
  BY TypesAre
<1> SUFFICES Types'
  BY TypesAre
<1> USE <1>0 DEF Types, Steps, Starting, Ending, Disturb, Goto, vars, own, files, history
<1> HIDE DEF TypeOK
<1>1. ASSUME NEW run \in Runs, Begin(run)
      PROVE  Types'
  <2>1. PICK s \in Seconds : second' = [second EXCEPT ![run] = s]
    BY <1>1 DEF Begin
  <2> QED
    BY <1>1, <2>1 DEF Begin
<1>2. ASSUME NEW run \in Runs, CheckLink(run)
      PROVE  Types'
  BY <1>2 DEF CheckLink
<1>3. ASSUME NEW run \in Runs, UnlinkOld(run)
      PROVE  Types'
  BY <1>3 DEF UnlinkOld
<1>4. ASSUME NEW run \in Runs, LookForDir(run)
      PROVE  Types'
  BY <1>4 DEF LookForDir
<1>5. ASSUME NEW run \in Runs, MakeDir(run)
      PROVE  Types'
  <2>1. second[run] \in Seconds
    BY <1>5, HasSecond DEF MakeDir
  <2> QED
    BY <1>5, <2>1 DEF MakeDir
<1>6. ASSUME NEW run \in Runs, MakeLink(run)
      PROVE  Types'
  <2>2. LogDir(second[run]) \in Targets
    BY <1>6, HasSecond DEF MakeLink
  <2>3. link' \in {NoLink} \cup Targets
    BY <1>6, <2>2 DEF MakeLink
  <2>4. listed' \subseteq Runs /\ disturbed' \subseteq Runs /\ kept' = kept
    <3>1. listed' = listed \/ listed' = listed \cup {run}
      BY <1>6 DEF MakeLink
    <3>2. listed \subseteq Runs /\ disturbed \subseteq Runs
      OBVIOUS
    <3>3. disturbed' \subseteq Runs /\ kept' = kept
      BY <1>6, <3>2 DEF MakeLink
    <3> QED
      BY <3>1, <3>2, <3>3
  <2>5. UNCHANGED <<own, dirs, dirLogs, paths, pathLogs, made, misled>>
    BY <1>6 DEF MakeLink
  <2>6. pc' = [pc EXCEPT ![run] = "running"]
    BY <1>6 DEF MakeLink
  <2> QED
    BY <2>3, <2>4, <2>5, <2>6
<1>7. ASSUME NEW run \in Runs, WriteLogs(run)
      PROVE  Types'
  BY <1>7 DEF WriteLogs
<1>8. ASSUME NEW run \in Runs, SetLogPath(run)
      PROVE  Types'
  BY <1>8 DEF SetLogPath
<1>9. ASSUME NEW run \in Runs, CreateLogPath(run)
      PROVE  Types'
  BY <1>9 DEF CreateLogPath
<1>10. ASSUME NEW run \in Runs, EndPlaybook(run)
      PROVE  Types'
  BY <1>10 DEF EndPlaybook
<1>11. ASSUME NEW run \in Runs, CopyLogs(run)
      PROVE  Types'
  <2>1. pathLogs' \subseteq paths /\ kept' \subseteq kept
    BY <1>11 DEF CopyLogs
  <2>2. pc' = [pc EXCEPT ![run] = "unlink current"]
    BY <1>11 DEF CopyLogs
  <2>3. UNCHANGED <<own, dirs, dirLogs, paths, link, listed, made, disturbed, misled>>
    BY <1>11 DEF CopyLogs
  <2> QED
    BY <2>1, <2>2, <2>3
<1>12. ASSUME NEW run \in Runs, UnlinkCurrent(run)
      PROVE  Types'
  BY <1>12 DEF UnlinkCurrent
<1>13. ASSUME NEW run \in Runs, RemoveDir(run)
      PROVE  Types'
  BY <1>13 DEF RemoveDir
<1>14. ASSUME NEW run \in Runs, LinkCurrent(run)
      PROVE  Types'
  <2>1. LogPath(run) \in Targets
    BY DEF Targets
  <2> QED
    BY <1>14, <2>1 DEF LinkCurrent
<1>15. ASSUME NEW run \in Runs, Kill(run)
      PROVE  Types'
  BY <1>15 DEF Kill
<1>16. ASSUME NEW run \in Runs, RemoveOldLogs(run)
      PROVE  Types'
  BY <1>16 DEF RemoveOldLogs
<1>17. CASE UNCHANGED vars
  BY <1>17
<1> QED
  BY <1>1, <1>2, <1>3, <1>4, <1>5, <1>6, <1>7, <1>8, <1>9,
     <1>10, <1>11, <1>12, <1>13, <1>14, <1>15, <1>16, <1>17 DEF Next, Step

(* Every step preserves that seconds are distinct.                         *)
LEMMA RunsInvStep ==
    ASSUME TypeOK, RunsInv, [Next]_vars
    PROVE  RunsInv'
<1> USE SecondFacts DEF TypeOK, RunsInv, Starting, Ending, Goto, vars, own, files, history
<1>1. ASSUME NEW run \in Runs, Begin(run)
      PROVE  RunsInv'
  <2>1. PICK s \in Seconds :
          /\ \A r \in Runs : IF SameSecond THEN second[r] <= s ELSE second[r] < s
          /\ second' = [second EXCEPT ![run] = s]
    BY <1>1 DEF Begin
  <2>2. s # 0 /\ (~ SameSecond => \A r \in Runs : second[r] # s)
    BY <2>1, NewSecond
  <2> QED
    BY <1>1, <2>1, <2>2 DEF Begin
<1>2. ASSUME NEW run \in Runs, CheckLink(run)
      PROVE  RunsInv'
  BY <1>2 DEF CheckLink
<1>3. ASSUME NEW run \in Runs, UnlinkOld(run)
      PROVE  RunsInv'
  BY <1>3 DEF UnlinkOld
<1>4. ASSUME NEW run \in Runs, LookForDir(run)
      PROVE  RunsInv'
  BY <1>4 DEF LookForDir
<1>5. ASSUME NEW run \in Runs, MakeDir(run)
      PROVE  RunsInv'
  BY <1>5 DEF MakeDir
<1>6. ASSUME NEW run \in Runs, MakeLink(run)
      PROVE  RunsInv'
  BY <1>6 DEF MakeLink
<1>7. ASSUME NEW run \in Runs, WriteLogs(run)
      PROVE  RunsInv'
  BY <1>7 DEF WriteLogs
<1>8. ASSUME NEW run \in Runs, SetLogPath(run)
      PROVE  RunsInv'
  BY <1>8 DEF SetLogPath
<1>9. ASSUME NEW run \in Runs, CreateLogPath(run)
      PROVE  RunsInv'
  BY <1>9 DEF CreateLogPath
<1>10. ASSUME NEW run \in Runs, EndPlaybook(run)
      PROVE  RunsInv'
  BY <1>10 DEF EndPlaybook
<1>11. ASSUME NEW run \in Runs, CopyLogs(run)
      PROVE  RunsInv'
  BY <1>11 DEF CopyLogs
<1>12. ASSUME NEW run \in Runs, UnlinkCurrent(run)
      PROVE  RunsInv'
  BY <1>12 DEF UnlinkCurrent
<1>13. ASSUME NEW run \in Runs, RemoveDir(run)
      PROVE  RunsInv'
  BY <1>13 DEF RemoveDir
<1>14. ASSUME NEW run \in Runs, LinkCurrent(run)
      PROVE  RunsInv'
  <2>1. LogPath(run) \in Targets
    BY DEF Targets
  <2> QED
    BY <1>14, <2>1 DEF LinkCurrent
<1>15. ASSUME NEW run \in Runs, Kill(run)
      PROVE  RunsInv'
  BY <1>15 DEF Kill
<1>16. ASSUME NEW run \in Runs, RemoveOldLogs(run)
      PROVE  RunsInv'
  BY <1>16 DEF RemoveOldLogs
<1>17. CASE UNCHANGED vars
  BY <1>17
<1> QED
  BY <1>1, <1>2, <1>3, <1>4, <1>5, <1>6, <1>7, <1>8, <1>9,
     <1>10, <1>11, <1>12, <1>13, <1>14, <1>15, <1>16, <1>17 DEF Next, Step

(* Every step preserves that the link resolves.                            *)
LEMMA LinkInvStep ==
    ASSUME ~ SameSecond, ~ RemovesCurrent,
           TypeOK, RunsInv, LinkInv, [Next]_vars
    PROVE  LinkInv'
<1>1. ASSUME NEW run \in Runs, NEW step, pc' = [pc EXCEPT ![run] = step],
             pc[run] # "done", step # "remove", step = "link" => second[run] \in dirs,
             UNCHANGED <<second, collected, dirs, paths, link, made>>
      PROVE  LinkInv'
  <2>1. pc'[run] = step /\ \A r \in Runs \ {run} : pc'[r] = pc[r]
    BY <1>1 DEF TypeOK
  <2> QED
    BY <1>1, <2>1 DEF LinkInv
<1> USE DEF Goto, own, files, history
<1>2. CASE \E run \in Runs : \/ CheckLink(run) \/ LookForDir(run) \/ EndPlaybook(run)
                             \/ CopyLogs(run) \/ Kill(run)
  <2>1. ASSUME NEW run \in Runs, CheckLink(run)
        PROVE  LinkInv'
    <3>1. PICK step \in {"unlink", "look"} : pc' = [pc EXCEPT ![run] = step]
      BY <2>1 DEF CheckLink
    <3> QED
      BY <2>1, <3>1, <1>1 DEF CheckLink
  <2>2. ASSUME NEW run \in Runs, LookForDir(run)
        PROVE  LinkInv'
    <3>1. PICK step \in {"link", "make"} :
            /\ pc' = [pc EXCEPT ![run] = step]
            /\ step = "link" => second[run] \in dirs
      BY <2>2 DEF LookForDir
    <3> QED
      BY <2>2, <3>1, <1>1 DEF LookForDir
  <2>3. ASSUME NEW run \in Runs, EndPlaybook(run)
        PROVE  LinkInv'
    <3>1. PICK step \in {"copy", "done"} : pc' = [pc EXCEPT ![run] = step]
      BY <2>3 DEF EndPlaybook
    <3> QED
      BY <2>3, <3>1, <1>1 DEF EndPlaybook
  <2>4. ASSUME NEW run \in Runs, CopyLogs(run)
        PROVE  LinkInv'
    BY <2>4, <1>1 DEF CopyLogs
  <2>5. ASSUME NEW run \in Runs, Kill(run)
        PROVE  LinkInv'
    BY <2>5, <1>1 DEF Kill, Starting, Ending
  <2> QED
    BY <1>2, <2>1, <2>2, <2>3, <2>4, <2>5
<1>3. /\ pc \in [Runs -> Steps] /\ second \in [Runs -> {0} \cup Seconds]
      /\ paths \subseteq made /\ made \subseteq collected /\ collected \subseteq Runs
  BY DEF TypeOK, Steps
<1> USE <1>3, TargetFacts, SecondFacts DEF RunsInv, LinkInv, Starting, Ending, vars
<1>4. ASSUME NEW run \in Runs, Begin(run)
      PROVE  LinkInv'
  BY <1>4 DEF Begin
<1>5. ASSUME NEW run \in Runs, UnlinkOld(run)
      PROVE  LinkInv'
  BY <1>5 DEF UnlinkOld
<1>6. ASSUME NEW run \in Runs, MakeDir(run)
      PROVE  LinkInv'
  <2>1. dirs \subseteq dirs' /\ second[run] \in dirs' /\ UNCHANGED <<paths, link, own, made>>
    BY <1>6 DEF MakeDir
  <2>2. PICK step \in {"link", "running"} : pc' = [pc EXCEPT ![run] = step]
    BY <1>6 DEF MakeDir
  <2>3. \A r \in Runs \ {run} : pc'[r] = pc[r]
    BY <2>2
  <2>4. pc[run] = "make"
    BY <1>6 DEF MakeDir
  <2>5. pc'[run] \in {"link", "running"}
    BY <2>2
  <2>6. ASSUME NEW r \in Runs, link' = LogPath(r)
        PROVE  r \in paths' \/ (r \in collected' \ made' /\ pc'[r] = "done")
    BY <2>1, <2>3, <2>4, <2>6
  <2>7. \A s \in Seconds : link' = LogDir(s) => s \in dirs'
    BY <2>1
  <2>8. \A r \in Runs : pc'[r] = "link" => second'[r] \in dirs'
    BY <2>1, <2>3
  <2>9. \A r \in Runs : pc'[r] = "remove" => link' # LogDir(second'[r])
    BY <2>1, <2>3, <2>5
  <2> QED
    BY <2>6, <2>7, <2>8, <2>9
<1>7. ASSUME NEW run \in Runs, MakeLink(run)
      PROVE  LinkInv'
  <2>1. link' = link \/ link' = LogDir(second[run])
    BY <1>7 DEF MakeLink
  <2>2. second[run] \in dirs /\ UNCHANGED <<own, dirs, paths, made>>
    BY <1>7 DEF MakeLink
  <2>3. pc' = [pc EXCEPT ![run] = "running"] /\ second[run] \in Seconds
    BY <1>7 DEF MakeLink
  <2>4. \A s \in Seconds : link' = LogDir(s) => s \in dirs'
    BY <2>1, <2>2, <2>3
  <2>5. ASSUME NEW r \in Runs, link' = LogPath(r)
        PROVE  r \in paths' \/ (r \in collected' \ made' /\ pc'[r] = "done")
    <3>1. link = LogPath(r)
      BY <2>1, <2>5
    <3>2. pc[r] = "done" => pc'[r] = "done"
      BY <1>7, <2>3 DEF MakeLink
    <3> QED
      BY <2>2, <3>1, <3>2
  <2>6. \A r \in Runs : pc'[r] = "link" => second'[r] \in dirs'
    <3>1. \A r \in Runs : pc'[r] = "link" => pc[r] = "link"
      BY <2>3
    <3> QED
      BY <2>2, <3>1
  <2>7. ASSUME NEW r \in Runs, pc'[r] = "remove"
        PROVE  link' # LogDir(second'[r])
    <3>1. r # run /\ pc[r] = "remove" /\ second'[r] = second[r] /\ second[r] # 0
      BY <2>2, <2>3, <2>7
    <3>2. second[r] # second[run] /\ second[r] \in Seconds
      BY <1>7, <3>1, <2>3 DEF MakeLink
    <3> QED
      BY <2>1, <2>3, <3>1, <3>2
  <2> QED
    BY <2>4, <2>5, <2>6, <2>7
<1>8. ASSUME NEW run \in Runs, WriteLogs(run)
      PROVE  LinkInv'
  BY <1>8 DEF WriteLogs
<1>9. ASSUME NEW run \in Runs, SetLogPath(run)
      PROVE  LinkInv'
  BY <1>9 DEF SetLogPath
<1>10. ASSUME NEW run \in Runs, CreateLogPath(run)
      PROVE  LinkInv'
  BY <1>10 DEF CreateLogPath
<1>11. ASSUME NEW run \in Runs, UnlinkCurrent(run)
      PROVE  LinkInv'
  BY <1>11 DEF UnlinkCurrent
<1>12. ASSUME NEW run \in Runs, RemoveDir(run)
      PROVE  LinkInv'
  <2>1. /\ pc[run] = "remove" /\ pc' = [pc EXCEPT ![run] = "link current"]
        /\ dirs' = dirs \ {second[run]} /\ UNCHANGED <<own, paths, link, made>>
    BY <1>12 DEF RemoveDir
  <2>2. \A s \in Seconds : link' = LogDir(s) => s \in dirs'
    BY <2>1
  <2>3. \A r \in Runs : link' = LogPath(r) =>
          r \in paths' \/ (r \in collected' \ made' /\ pc'[r] = "done")
    BY <2>1
  <2>4. \A r \in Runs : pc'[r] = "remove" => link' # LogDir(second'[r])
    BY <2>1
  <2>5. \A r \in Runs : pc'[r] = "link" => second'[r] \in dirs'
    <3>1. \A r \in Runs \ {run} : second[r] = second[run] => pc[r] = "none"
      BY <2>1
    <3>2. \A r \in Runs : pc'[r] = "link" => pc[r] = "link" /\ r # run
      BY <2>1
    <3> QED
      BY <2>1, <3>1, <3>2
  <2> QED
    BY <2>2, <2>3, <2>4, <2>5
<1>13. ASSUME NEW run \in Runs, LinkCurrent(run)
      PROVE  LinkInv'
  <2>1. /\ pc[run] = "link current" /\ pc' = [pc EXCEPT ![run] = "done"]
        /\ UNCHANGED <<own, dirs, paths, made>>
    BY <1>13 DEF LinkCurrent
  <2>2. link' = link \/ link' = LogPath(run)
    BY <1>13 DEF LinkCurrent
  <2>3. run \in collected /\ (run \in made => run \in paths)
    BY <2>1
  <2>4. \A r \in Runs : link' = LogPath(r) =>
          r \in paths' \/ (r \in collected' \ made' /\ pc'[r] = "done")
    BY <2>1, <2>2, <2>3
  <2> QED
    BY <2>1, <2>2, <2>4
<1>14. ASSUME NEW run \in Runs, RemoveOldLogs(run)
      PROVE  LinkInv'
  BY <1>14 DEF RemoveOldLogs
<1>15. CASE UNCHANGED vars
  BY <1>15
<1> QED
  BY <1>4, <1>5, <1>6, <1>7, <1>8, <1>9, <1>10, <1>11, <1>12, <1>13, <1>14, <1>15,
     <1>2 DEF Next, Step

(* Every step preserves that logs are somewhere.                           *)
LEMMA LogsInvStep ==
    ASSUME ~ SameSecond, TypeOK, RunsInv, LogsInv, [Next]_vars
    PROVE  LogsInv'
<1> USE SecondFacts DEF TypeOK, RunsInv, LogsInv, Starting, Ending, Goto, vars,
      own, files, history
<1>1. ASSUME NEW run \in Runs, Begin(run)
      PROVE  LogsInv'
  BY <1>1 DEF Begin
<1>2. ASSUME NEW run \in Runs, CheckLink(run)
      PROVE  LogsInv'
  BY <1>2 DEF CheckLink
<1>3. ASSUME NEW run \in Runs, UnlinkOld(run)
      PROVE  LogsInv'
  BY <1>3 DEF UnlinkOld
<1>4. ASSUME NEW run \in Runs, LookForDir(run)
      PROVE  LogsInv'
  BY <1>4 DEF LookForDir
<1>5. ASSUME NEW run \in Runs, MakeDir(run)
      PROVE  LogsInv'
  BY <1>5 DEF MakeDir
<1>6. ASSUME NEW run \in Runs, MakeLink(run)
      PROVE  LogsInv'
  BY <1>6 DEF MakeLink
<1>7. ASSUME NEW run \in Runs, WriteLogs(run)
      PROVE  LogsInv'
  BY <1>7 DEF WriteLogs
<1>8. ASSUME NEW run \in Runs, SetLogPath(run)
      PROVE  LogsInv'
  BY <1>8 DEF SetLogPath
<1>9. ASSUME NEW run \in Runs, CreateLogPath(run)
      PROVE  LogsInv'
  BY <1>9 DEF CreateLogPath
<1>10. ASSUME NEW run \in Runs, EndPlaybook(run)
      PROVE  LogsInv'
  BY <1>10 DEF EndPlaybook
<1>11. ASSUME NEW run \in Runs, CopyLogs(run)
      PROVE  LogsInv'
  BY <1>11 DEF CopyLogs
<1>12. ASSUME NEW run \in Runs, UnlinkCurrent(run)
      PROVE  LogsInv'
  BY <1>12 DEF UnlinkCurrent
<1>13. ASSUME NEW run \in Runs, RemoveDir(run)
      PROVE  LogsInv'
  BY <1>13 DEF RemoveDir
<1>14. ASSUME NEW run \in Runs, LinkCurrent(run)
      PROVE  LogsInv'
  BY <1>14 DEF LinkCurrent
<1>15. ASSUME NEW run \in Runs, Kill(run)
      PROVE  LogsInv'
  BY <1>15 DEF Kill
<1>16. ASSUME NEW run \in Runs, RemoveOldLogs(run)
      PROVE  LogsInv'
  BY <1>16 DEF RemoveOldLogs
<1>17. CASE UNCHANGED vars
  BY <1>17
<1> QED
  BY <1>1, <1>2, <1>3, <1>4, <1>5, <1>6, <1>7, <1>8, <1>9,
     <1>10, <1>11, <1>12, <1>13, <1>14, <1>15, <1>16, <1>17 DEF Next, Step

(* Every step preserves what starts rely on.                               *)
LEMMA StartInvStep ==
    ASSUME TypeOK, LinkInv, StartInv, [Next]_vars
    PROVE  StartInv'
<1> USE LinkExistsFacts DEF TypeOK, StartInv, Starting, Ending, Goto, Disturb,
      vars, own, files, history
<1>1. ASSUME NEW run \in Runs, Begin(run)
      PROVE  StartInv'
  BY <1>1 DEF Begin
<1>2. ASSUME NEW run \in Runs, CheckLink(run)
      PROVE  StartInv'
  BY <1>2 DEF CheckLink
<1>3. ASSUME NEW run \in Runs, UnlinkOld(run)
      PROVE  StartInv'
  BY <1>3 DEF UnlinkOld
<1>4. ASSUME NEW run \in Runs, LookForDir(run)
      PROVE  StartInv'
  BY <1>4 DEF LookForDir
<1>5. ASSUME NEW run \in Runs, MakeDir(run)
      PROVE  StartInv'
  <2>1. CASE second[run] \in dirs
    <3>1. run \in disturbed
      BY <1>5, <2>1 DEF MakeDir
    <3> QED
      BY <1>5, <2>1, <3>1 DEF MakeDir
  <2>2. CASE second[run] \notin dirs
    BY <1>5, <2>2 DEF MakeDir
  <2> QED
    BY <2>1, <2>2
<1>6. ASSUME NEW run \in Runs, MakeLink(run)
      PROVE  StartInv'
  <2>1. /\ pc[run] = "link" /\ pc' = [pc EXCEPT ![run] = "running"]
        /\ UNCHANGED <<own, dirs, made, misled>>
        /\ disturbed' = disturbed \cup {r \in Runs \ {run} : pc[r] \in Starting}
    BY <1>6 DEF MakeLink
  <2>2. listed' = IF link = NoLink THEN listed \cup {run} ELSE listed
    BY <1>6 DEF MakeLink
  <2>3. misled' # {} => \E q \in collected' \ made' : pc'[q] = "done"
    BY <2>1
  <2>4. run \notin disturbed => (run \in listed' <=> run \notin misled)
    BY <2>1, <2>2
  <2>5. \A r \in Runs \ {run} : (r \in listed' <=> r \in listed) /\ pc'[r] = pc[r]
    BY <2>1, <2>2
  <2>6. \A r \in Runs \ disturbed' : r # run => pc[r] \notin Starting /\ r \notin disturbed
    BY <2>1
  <2>7. pc'[run] = "running"
    BY <2>1
  <2>8. ASSUME NEW r \in Runs \ disturbed', r # run
        PROVE  /\ pc'[r] = "none" => r \notin listed' /\ r \notin misled'
               /\ pc'[r] \notin Starting
               /\ pc'[r] \in {"running", "done"} \cup Ending
                    => (r \in listed' <=> r \notin misled')
    BY <2>1, <2>5, <2>6, <2>8
  <2>9. run \notin disturbed' => run \notin disturbed
    BY <2>1
  <2> HIDE DEF Ending
  <2> QED
    BY <2>1, <2>3, <2>4, <2>7, <2>8, <2>9
<1>7. ASSUME NEW run \in Runs, WriteLogs(run)
      PROVE  StartInv'
  BY <1>7 DEF WriteLogs
<1>8. ASSUME NEW run \in Runs, SetLogPath(run)
      PROVE  StartInv'
  BY <1>8 DEF SetLogPath
<1>9. ASSUME NEW run \in Runs, CreateLogPath(run)
      PROVE  StartInv'
  BY <1>9 DEF CreateLogPath
<1>10. ASSUME NEW run \in Runs, EndPlaybook(run)
      PROVE  StartInv'
  BY <1>10 DEF EndPlaybook
<1>11. ASSUME NEW run \in Runs, CopyLogs(run)
      PROVE  StartInv'
  BY <1>11 DEF CopyLogs
<1>12. ASSUME NEW run \in Runs, UnlinkCurrent(run)
      PROVE  StartInv'
  BY <1>12 DEF UnlinkCurrent
<1>13. ASSUME NEW run \in Runs, RemoveDir(run)
      PROVE  StartInv'
  BY <1>13 DEF RemoveDir
<1>14. ASSUME NEW run \in Runs, LinkCurrent(run)
      PROVE  StartInv'
  BY <1>14 DEF LinkCurrent
<1>15. ASSUME NEW run \in Runs, Kill(run)
      PROVE  StartInv'
  BY <1>15 DEF Kill
<1>16. ASSUME NEW run \in Runs, RemoveOldLogs(run)
      PROVE  StartInv'
  BY <1>16 DEF RemoveOldLogs
<1>17. CASE UNCHANGED vars
  BY <1>17
<1> QED
  BY <1>1, <1>2, <1>3, <1>4, <1>5, <1>6, <1>7, <1>8, <1>9,
     <1>10, <1>11, <1>12, <1>13, <1>14, <1>15, <1>16, <1>17 DEF Next, Step

-----------------------------------------------------------------------------
(* The folders are empty before the first run.                             *)
LEMMA InitFacts ==
    Init => TypeOK /\ RunsInv /\ LinkInv /\ LogsInv /\ StartInv
<1> SUFFICES ASSUME Init
             PROVE  TypeOK /\ RunsInv /\ LinkInv /\ LogsInv /\ StartInv
  OBVIOUS
<1> USE DEF Init
<1>1. TypeOK
  BY DEF TypeOK
<1>2. RunsInv
  BY DEF RunsInv, Ending
<1>3. LinkInv
  BY TargetFacts DEF LinkInv, Ending
<1>4. LogsInv
  BY DEF LogsInv
<1>5. StartInv
  BY DEF StartInv, Ending
<1> QED
  BY <1>1, <1>2, <1>3, <1>4, <1>5

(* Types and what runs have of their own rest on each other.               *)
LEMMA TypesAndRuns == Spec => [](TypeOK /\ RunsInv)
<1>1. TypeOK /\ RunsInv /\ [Next]_vars => (TypeOK /\ RunsInv)'
  BY TypeOKStep, RunsInvStep
<1> QED
  BY <1>1, InitFacts, PTL DEF Spec

(* Types, however many runs there are and however they overlap.            *)
THEOREM TypeCorrect == Spec => []TypeOK
  BY TypesAndRuns, PTL

(* The link resolves at every step, types and seconds being what they are. *)
LEMMA LinkCorrect ==
    ASSUME ~ SameSecond, ~ RemovesCurrent
    PROVE  Spec => []LinkInv
<1>1. TypeOK /\ RunsInv /\ LinkInv /\ [Next]_vars => LinkInv'
  BY LinkInvStep
<1> QED
  BY <1>1, InitFacts, TypesAndRuns, PTL DEF Spec

(* "current" never points to a folder that is gone, only to one that was   *)
(* never created, provided that no two runs start in the same second and   *)
(* the user leaves the logs it points to alone.                            *)
THEOREM LinkCurrentResolves ==
    ASSUME ~ SameSecond, ~ RemovesCurrent
    PROVE  Spec => []LinkResolves
<1>1. TypeOK /\ LinkInv => LinkResolves
  BY LinkExistsFacts DEF LinkResolves
<1> QED
  BY <1>1, TypeCorrect, LinkCorrect, PTL

(* The logs of a run are in one of its two folders at any moment, wherever *)
(* it or others are killed, provided that no two start in the same second. *)
THEOREM LogsStay ==
    ASSUME ~ SameSecond
    PROVE  Spec => []LogsAreKept
<1>1. TypeOK /\ RunsInv /\ LogsInv /\ [Next]_vars => LogsInv'
  BY LogsInvStep
<1>2. LogsInv => LogsAreKept
  BY DEF LogsInv, LogsAreKept
<1> QED
  BY <1>1, <1>2, InitFacts, TypesAndRuns, PTL DEF Spec

(* A run that no other disturbs while it starts has its test case list,    *)
(* whatever earlier runs have left behind, exactly if it did not find a    *)
(* link to the testrun_log_path of a run that could not create it.         *)
THEOREM UndisturbedStarts ==
    ASSUME ~ SameSecond, ~ RemovesCurrent
    PROVE  Spec => []UndisturbedIsListed
<1>1. TypeOK /\ LinkInv /\ StartInv /\ [Next]_vars => StartInv'
  BY StartInvStep
<1>2. StartInv => UndisturbedIsListed
  BY DEF StartInv, UndisturbedIsListed
<1> QED
  BY <1>1, <1>2, InitFacts, TypesAndRuns, LinkCorrect, PTL DEF Spec

-----------------------------------------------------------------------------
(***************************************************************************)
(* TaskLogs.  The caches of the plugin stand for what is in the files: the *)
(* invariant says of what is in a cache that it is in the file of it,      *)
(* below the heading of the play, and which task a reader finds named last *)
(* above the next entry.                                                   *)
(***************************************************************************)

(* A task is of a play; it has a uuid of its own, which _last_task_uuid is *)
(* from its first result on, its only one without a loop.  A path met in   *)
(* the play has the uuid of its first task.                                *)
TaskInv ==
    /\ task # NoTask =>
         /\ play > 0
         /\ task.uuid \in {lastTask, lastTask + 1}
         /\ task.path \notin Looped => IsNewTask
         /\ first[task.path] # 0
    /\ \A path \in Paths : first[path] <= IF task = NoTask THEN lastTask ELSE task.uuid

(* A play is named in a file before its first entry in the cache.          *)
PlayInv ==
    /\ failedCache # {} => above["failed_tasks.log"].play = play
    /\ knownCache # {} => above["known_issues.log"].play = play

(* What is in the cache of known issues is listed.                         *)
KnownInv ==
    \A path \in knownCache : <<play, path>> \in issues

(* A path in the cache of failures has been met in this play before; if it *)
(* is that of the task that goes on, met now for the first time, it is the *)
(* task named last.                                                        *)
FailedInv ==
    /\ \A path \in failedCache : first[path] \in 1..lastTask
    /\ (/\ task # NoTask
        /\ ~ IsNewTask
        /\ task.path \in failedCache
        /\ first[task.path] = task.uuid)
         => above["failed_tasks.log"].task = task.path

(* The inductive invariant of TaskLogs.                                    *)
TaskLogsInv ==
    /\ TaskTypeOK
    /\ TaskInv
    /\ PlayInv
    /\ KnownInv
    /\ FailedInv
    /\ EntriesNameTheirPlay

(* What FailureIsAttributed says of a step.                                *)
Attributed ==
    ("failed_tasks.log" \in written' /\ (task.path \in Looped => first[task.path] = task.uuid))
      => above'["failed_tasks.log"].task = task.path

(* The first play has no tasks yet.                                        *)
LEMMA TaskLogsInit ==
    ASSUME TaskInit
    PROVE  TaskLogsInv
<1>1. TaskTypeOK
  BY TaskLogsAssumption DEF TaskInit, TaskTypeOK, Nothing, NoTask
<1>2. TaskInv /\ PlayInv /\ KnownInv /\ FailedInv /\ EntriesNameTheirPlay
  BY DEF TaskInit, TaskInv, PlayInv, KnownInv, FailedInv, EntriesNameTheirPlay
<1> QED
  BY <1>1, <1>2 DEF TaskLogsInv

(* The types of a task that goes on.                                       *)
LEMMA TaskTypes ==
    ASSUME TaskLogsInv, task # NoTask
    PROVE  /\ play \in 1..MaxPlays /\ lastTask \in 0..MaxTasks
           /\ task \in [path : Paths, uuid : 1..MaxTasks]
           /\ task.path \in Paths
           /\ task.uuid \in 1..MaxTasks
           /\ task.uuid \in {lastTask, lastTask + 1}
           /\ MaxPlays \in Nat /\ MaxTasks \in Nat
  BY TaskLogsAssumption DEF TaskLogsInv, TaskInv, TaskTypeOK

(* The play above a failure or a known issue is that of the task.          *)
LEMMA PlayIsNamed ==
    ASSUME PlayInv
    PROVE  /\ PlayHead("full_debug.log") = play
           /\ PlayHead("failed_tasks.log") = play
           /\ PlayHead("known_issues.log") = play
  BY DEF PlayInv, PlayHead

(* A result keeps the types.                                               *)
LEMMA PrintTypes ==
    ASSUME TaskLogsInv, task # NoTask,
           NEW status, NEW ignored, PrintTaskDetails(status, ignored),
           play' = play, first' = first, task' \in {task, NoTask}
    PROVE  TaskTypeOK'
<1>1. /\ TaskTypeOK /\ task.path \in Paths /\ play \in 1..MaxPlays
      /\ task.uuid \in 1..MaxTasks /\ MaxPlays \in Nat /\ MaxTasks \in Nat
  BY TaskTypes DEF TaskLogsInv
<1>2. /\ play' \in 0..MaxPlays /\ lastTask' \in 0..MaxTasks
      /\ task' \in [path : Paths, uuid : 1..MaxTasks] \cup {NoTask}
      /\ first' \in [Paths -> 0..MaxTasks]
  BY <1>1 DEF TaskTypeOK, PrintTaskDetails
<1>3. {failedCache', knownCache'} \subseteq SUBSET Paths
  BY <1>1 DEF TaskTypeOK, PrintTaskDetails, FailedCacheAfter
<1>4. MeetsKnownIssue(status) => task.path \in KnownIssue
  BY DEF MeetsKnownIssue
<1>5. met' \subseteq (1..MaxPlays) \X KnownIssue
  BY <1>1, <1>4 DEF TaskTypeOK, PrintTaskDetails
<1>6. PlayHead("known_issues.log") \in 0..MaxPlays
  BY <1>1, PlayIsNamed DEF TaskLogsInv
<1>7. issues' \subseteq (0..MaxPlays) \X KnownIssue
  BY <1>1, <1>4, <1>6 DEF TaskTypeOK, PrintTaskDetails, LogsKnown
<1>8. written' \subseteq Files
  BY DEF PrintTaskDetails, FilesOf, Files
<1>9. above' \in [Files -> [play : 0..MaxPlays, task : Paths \cup {NoTask.path}]]
  <2>1. \A file \in Files : PlayHead(file) = play
    BY PlayIsNamed DEF TaskLogsInv, Files
  <2>2. \A file \in Files :
          Heads(file) \in [play : 0..MaxPlays, task : Paths \cup {NoTask.path}]
    BY <1>1, <2>1 DEF Heads, TaskTypeOK
  <2> QED
    BY <1>1, <2>2 DEF PrintTaskDetails, TaskTypeOK
<1> QED
  BY <1>2, <1>3, <1>5, <1>7, <1>8, <1>9 DEF TaskTypeOK

(* What a result changes in the caches and in the two files.               *)
LEMMA PrintFacts ==
    ASSUME TaskLogsInv, NEW status, NEW ignored, PrintTaskDetails(status, ignored)
    PROVE  /\ lastTask' = task.uuid
           /\ "failed_tasks.log" \in written' <=> LogsFailed(status, ignored)
           /\ IF LogsFailed(status, ignored)
              THEN /\ failedCache' = failedCache \cup {task.path}
                   /\ above'["failed_tasks.log"].play = play
                   /\ above'["failed_tasks.log"].task
                        = IF FailedHasBanner THEN task.path
                                                   ELSE above["failed_tasks.log"].task
              ELSE /\ failedCache' = failedCache
                   /\ above'["failed_tasks.log"] = above["failed_tasks.log"]
           /\ IF MeetsKnownIssue(status)
              THEN /\ knownCache' = knownCache \cup {task.path}
                   /\ met' = met \cup {<<play, task.path>>}
                   /\ task.path \notin knownCache =>
                        /\ issues' = issues \cup {<<play, task.path>>}
                        /\ above'["known_issues.log"].play = play
                   /\ task.path \in knownCache =>
                        /\ issues' = issues
                        /\ above'["known_issues.log"] = above["known_issues.log"]
              ELSE /\ knownCache' = knownCache /\ met' = met /\ issues' = issues
                   /\ above'["known_issues.log"] = above["known_issues.log"]
<1>1. /\ PlayHead("failed_tasks.log") = play
      /\ PlayHead("known_issues.log") = play
  BY PlayIsNamed DEF TaskLogsInv
<1>2. /\ "failed_tasks.log" \in written' <=> LogsFailed(status, ignored)
      /\ "known_issues.log" \in written' <=> LogsKnown(status)
  BY DEF PrintTaskDetails, FilesOf
<1>3. \A file \in Files :
        above'[file] = IF file \in written' THEN Heads(file) ELSE above[file]
  BY DEF PrintTaskDetails
<1>4. above'["failed_tasks.log"] = IF LogsFailed(status, ignored)
                                   THEN Heads("failed_tasks.log")
                                   ELSE above["failed_tasks.log"]
  BY <1>2, <1>3 DEF Files
<1>5. above'["known_issues.log"] = IF LogsKnown(status)
                                   THEN Heads("known_issues.log")
                                   ELSE above["known_issues.log"]
  BY <1>2, <1>3 DEF Files
<1>6. /\ Heads("failed_tasks.log").play = play
      /\ Heads("known_issues.log").play = play
      /\ Heads("failed_tasks.log").task
           = IF FailedHasBanner THEN task.path ELSE above["failed_tasks.log"].task
  BY <1>1 DEF Heads, HasBanner
<1>7. IF LogsFailed(status, ignored)
      THEN failedCache' = failedCache \cup {task.path}
      ELSE failedCache' = failedCache
  BY DEF PrintTaskDetails, FailedCacheAfter
<1>8. IF MeetsKnownIssue(status)
      THEN /\ knownCache' = knownCache \cup {task.path}
           /\ met' = met \cup {<<play, task.path>>}
           /\ task.path \notin knownCache => issues' = issues \cup {<<play, task.path>>}
           /\ task.path \in knownCache => issues' = issues
      ELSE knownCache' = knownCache /\ met' = met /\ issues' = issues
  BY <1>1 DEF PrintTaskDetails, LogsKnown
<1>9. LogsKnown(status) <=> MeetsKnownIssue(status) /\ task.path \notin knownCache
  BY DEF LogsKnown
<1>10. lastTask' = task.uuid
  BY DEF PrintTaskDetails
<1> QED
  BY <1>2, <1>4, <1>5, <1>6, <1>7, <1>8, <1>9, <1>10

(* A result keeps the invariant, and what is written of it can be told     *)
(* from the results of other tasks.                                        *)
LEMMA PrintStep ==
    ASSUME TaskLogsInv, task # NoTask,
           NEW status, NEW ignored, PrintTaskDetails(status, ignored),
           play' = play, first' = first,
           task' = NoTask \/ (task' = task /\ task.path \in Looped)
    PROVE  TaskLogsInv' /\ Attributed
<1>1. TaskTypeOK'
  BY PrintTypes
<1>2. /\ play \in 1..MaxPlays /\ lastTask \in 0..MaxTasks /\ task.path \in Paths
      /\ task.uuid \in 1..MaxTasks /\ task.uuid \in {lastTask, lastTask + 1}
      /\ MaxPlays \in Nat /\ MaxTasks \in Nat
      /\ task.path \notin Looped => IsNewTask
      /\ first[task.path] \in 1..task.uuid
  BY TaskTypes DEF TaskLogsInv, TaskInv, TaskTypeOK
<1>3. TaskInv'
  <2>1. \A path \in Paths : first[path] <= task.uuid
    BY DEF TaskLogsInv, TaskInv
  <2>2. lastTask' = task.uuid /\ play' = play /\ first' = first
    BY PrintFacts
  <2>3. CASE task' = NoTask
    BY <2>1, <2>2, <2>3 DEF TaskInv
  <2>4. CASE task' = task /\ task.path \in Looped
    BY <1>2, <2>1, <2>2, <2>4 DEF TaskInv
  <2> QED
    BY <2>3, <2>4
<1>4. PlayInv'
  BY PrintFacts DEF TaskLogsInv, PlayInv
<1>5. KnownInv'
  <2> SUFFICES ASSUME NEW path \in knownCache'
               PROVE  <<play, path>> \in issues'
    BY DEF KnownInv
  <2>1. issues \subseteq issues'
    BY PrintFacts
  <2>2. CASE path \in knownCache
    BY <2>1, <2>2 DEF TaskLogsInv, KnownInv
  <2>3. CASE path \notin knownCache
    BY <2>3, PrintFacts
  <2> QED
    BY <2>2, <2>3
<1>6. (* of a task that goes on its first failure is with its banner *)
      LogsFailed(status, ignored) /\ first[task.path] = task.uuid
        => above'["failed_tasks.log"].task = task.path
  <2>1. CASE FailedHasBanner
    BY <2>1, PrintFacts
  <2>2. CASE ~ FailedHasBanner
    BY <2>2, PrintFacts DEF FailedHasBanner, TaskLogsInv, FailedInv
  <2> QED
    BY <2>1, <2>2
<1>7. FailedInv'
  <2>1. \A path \in failedCache' : first'[path] \in 1..lastTask'
    BY <1>2, PrintFacts DEF TaskLogsInv, FailedInv
  <2>2. ASSUME task' # NoTask, task'.path \in failedCache',
               first'[task'.path] = task'.uuid
        PROVE  above'["failed_tasks.log"].task = task'.path
    <3>1. task' = task /\ first[task.path] = task.uuid /\ task.path \in failedCache'
      BY <2>2
    <3>2. CASE LogsFailed(status, ignored)
      BY <1>6, <3>1, <3>2
    <3>3. CASE ~ LogsFailed(status, ignored)
      <4>1. task.path \in failedCache /\ above'["failed_tasks.log"] = above["failed_tasks.log"]
        BY <3>1, <3>3, PrintFacts
      <4>2. task.uuid \in 1..lastTask
        BY <3>1, <4>1 DEF TaskLogsInv, FailedInv
      <4>3. ~ IsNewTask
        BY <1>2, <4>2 DEF IsNewTask
      <4> QED
        BY <3>1, <4>1, <4>3 DEF TaskLogsInv, FailedInv
    <3> QED
      BY <3>2, <3>3
  <2> QED
    BY <2>1, <2>2 DEF FailedInv
<1>8. EntriesNameTheirPlay'
  <2>1. "failed_tasks.log" \in written' => above'["failed_tasks.log"].play = play'
    BY PrintFacts
  <2>2. met' \subseteq issues'
    <3>1. met \subseteq issues /\ issues \subseteq issues'
      BY PrintFacts DEF TaskLogsInv, EntriesNameTheirPlay
    <3>2. met' = met \/ (met' = met \cup {<<play, task.path>>} /\ task.path \in knownCache')
      BY PrintFacts
    <3> QED
      BY <1>5, <3>1, <3>2 DEF KnownInv
  <2> QED
    BY <2>1, <2>2 DEF EntriesNameTheirPlay
<1>9. Attributed
  <2> SUFFICES ASSUME LogsFailed(status, ignored),
                      task.path \in Looped => first[task.path] = task.uuid
               PROVE  above'["failed_tasks.log"].task = task.path
    BY PrintFacts DEF Attributed
  <2>1. CASE task.path \in Looped
    BY <1>6, <2>1
  <2>2. CASE task.path \notin Looped
    BY <1>2, <2>2, PrintFacts DEF FailedHasBanner
  <2> QED
    BY <2>1, <2>2
<1> QED
  BY <1>1, <1>3, <1>4, <1>5, <1>7, <1>8, <1>9 DEF TaskLogsInv

(* Every step keeps the invariant and writes failures as promised.         *)
LEMMA TaskLogsStep ==
    ASSUME TaskLogsInv, [TaskNext]_taskVars
    PROVE  TaskLogsInv' /\ (Attributed \/ UNCHANGED taskVars)
<1>0. /\ TaskTypeOK /\ TaskInv /\ PlayInv /\ KnownInv /\ FailedInv
      /\ EntriesNameTheirPlay /\ MaxPlays \in Nat /\ MaxTasks \in Nat
  BY TaskLogsAssumption DEF TaskLogsInv
<1>1. CASE PlaybookOnPlayStart
  <2> USE <1>1 DEF PlaybookOnPlayStart
  <2>1. TaskTypeOK'
    BY <1>0 DEF TaskTypeOK
  <2>2. TaskInv' /\ PlayInv' /\ KnownInv' /\ FailedInv'
    BY <1>0 DEF TaskTypeOK, TaskInv, PlayInv, KnownInv, FailedInv
  <2>3. EntriesNameTheirPlay' /\ Attributed
    BY <1>0 DEF EntriesNameTheirPlay, Attributed
  <2> QED
    BY <2>1, <2>2, <2>3 DEF TaskLogsInv
<1>2. ASSUME NEW path \in Paths, StartTask(path)
      PROVE  TaskLogsInv' /\ Attributed
  <2> DEFINE uuid == lastTask + 1
  <2>1. /\ play > 0 /\ task = NoTask /\ uuid <= MaxTasks
        /\ task' = [path |-> path, uuid |-> uuid]
        /\ first' = IF first[path] = 0 THEN [first EXCEPT ![path] = uuid] ELSE first
        /\ written' = {}
        /\ UNCHANGED <<play, lastTask, failedCache, knownCache, met, issues, above>>
    BY <1>2 DEF StartTask, caches
  <2>2. /\ lastTask \in 0..MaxTasks /\ first \in [Paths -> 0..MaxTasks]
        /\ uuid \in 1..MaxTasks
    BY <1>0, <2>1 DEF TaskTypeOK
  <2> HIDE DEF uuid
  <2>3. first' \in [Paths -> 0..MaxTasks]
    BY <1>0, <2>1, <2>2
  <2>4. TaskTypeOK'
    BY <1>0, <2>1, <2>2, <2>3 DEF TaskTypeOK
  <2>5. lastTask' # task'.uuid
    BY <2>1, <2>2 DEF uuid
  <2>6. /\ \A p \in Paths : first[p] # 0 => first'[p] = first[p]
        /\ \A p \in Paths : first'[p] \in 0..uuid
        /\ first'[path] # 0
    BY <1>0, <2>1, <2>2 DEF TaskInv, uuid
  <2>7. TaskInv'
    <3>1. task'.uuid = uuid /\ task'.path = path /\ task' # NoTask
      BY <2>1, <2>2 DEF NoTask
    <3> QED
      BY <2>1, <2>2, <2>5, <2>6, <3>1 DEF TaskInv, IsNewTask, uuid
  <2>8. PlayInv' /\ KnownInv'
    BY <1>0, <2>1 DEF PlayInv, KnownInv
  <2>9. FailedInv'
    <3>1. \A p \in failedCache : p \in Paths /\ first[p] \in 1..lastTask
      BY <1>0 DEF FailedInv, TaskTypeOK
    <3>2. \A p \in failedCache : first'[p] \in 1..lastTask
      BY <2>6, <3>1
    <3> QED
      BY <2>1, <2>5, <3>2 DEF FailedInv, IsNewTask
  <2>10. EntriesNameTheirPlay' /\ Attributed
    BY <1>0, <2>1 DEF EntriesNameTheirPlay, Attributed
  <2> QED
    BY <2>4, <2>7, <2>8, <2>9, <2>10 DEF TaskLogsInv
<1>3. CASE TaskResult
  <2>1. /\ task # NoTask /\ task' = NoTask /\ play' = play /\ first' = first
        /\ \E status, ignored : PrintTaskDetails(status, ignored)
    BY <1>3 DEF TaskResult
  <2> QED
    BY <2>1, PrintStep
<1>4. CASE ItemResult
  <2>1. /\ task # NoTask /\ task' = task /\ play' = play /\ first' = first
        /\ task.path \in Looped
        /\ \E status, ignored : PrintTaskDetails(status, ignored)
    BY <1>4 DEF ItemResult
  <2> QED
    BY <2>1, PrintStep
<1>5. CASE ProcessItems
  <2>1. /\ task # NoTask /\ ~ IsNewTask /\ task' = NoTask /\ written' = {}
        /\ UNCHANGED <<play, lastTask, failedCache, knownCache, first, met, issues, above>>
    BY <1>5 DEF ProcessItems, caches
  <2>2. TaskTypeOK'
    BY <1>0, <2>1 DEF TaskTypeOK
  <2>3. TaskInv'
    BY <1>0, <2>1 DEF TaskInv, IsNewTask
  <2>4. PlayInv' /\ KnownInv' /\ FailedInv'
    BY <1>0, <2>1 DEF PlayInv, KnownInv, FailedInv
  <2>5. EntriesNameTheirPlay' /\ Attributed
    BY <1>0, <2>1 DEF EntriesNameTheirPlay, Attributed
  <2> QED
    BY <2>2, <2>3, <2>4, <2>5 DEF TaskLogsInv
<1>6. CASE UNCHANGED taskVars
  BY <1>0, <1>6 DEF taskVars, caches, TaskLogsInv, TaskTypeOK, TaskInv, PlayInv,
      KnownInv, FailedInv, EntriesNameTheirPlay, IsNewTask
<1> QED
  BY <1>1, <1>2, <1>3, <1>4, <1>5, <1>6 DEF TaskNext

(* The invariant holds in every state of a run.                            *)
LEMMA TaskLogsInvariance ==
    TaskSpec => []TaskLogsInv
<1>1. TaskInit => TaskLogsInv
  BY TaskLogsInit
<1>2. TaskLogsInv /\ [TaskNext]_taskVars => TaskLogsInv'
  BY TaskLogsStep
<1> QED
  BY <1>1, <1>2, PTL DEF TaskSpec

(* Types of the plugin's caches and of what the log files say.             *)
THEOREM TaskLogsTypes ==
    TaskSpec => []TaskTypeOK
<1>1. TaskLogsInv => TaskTypeOK
  BY DEF TaskLogsInv
<1> QED
  BY <1>1, TaskLogsInvariance, PTL

(* Failures stand below their play, and all known issues met are listed    *)
(* below theirs, however many plays and tasks there are.                   *)
THEOREM EntriesStandBelowTheirPlay ==
    TaskSpec => []EntriesNameTheirPlay
<1>1. TaskLogsInv => EntriesNameTheirPlay
  BY DEF TaskLogsInv
<1> QED
  BY <1>1, TaskLogsInvariance, PTL

(* A failure stands below the banner of its task, whichever items of which *)
(* loops have failed before, if its file is included once in the play.     *)
THEOREM FailuresAreAttributed ==
    TaskSpec => FailureIsAttributed
<1>1. TaskLogsInv /\ [TaskNext]_taskVars => [Attributed]_taskVars
  BY TaskLogsStep
<1>2. [Attributed]_taskVars =>
        [("failed_tasks.log" \in written'
            /\ (task.path \in Looped => first[task.path] = task.uuid))
           => above'["failed_tasks.log"].task = task.path]_taskVars
  BY DEF Attributed
<1> QED
  BY <1>1, <1>2, TaskLogsInvariance, PTL DEF TaskSpec, FailureIsAttributed

-----------------------------------------------------------------------------
(***************************************************************************)
(* LogExtractor.  The reference definition is recursive over the lines, so *)
(* its two functions are shown to satisfy their equations first.  The      *)
(* invariant then says which line the cursors are on in terms of them.     *)
(***************************************************************************)

(* A set of numbers that has 0, and with each number the next one, has     *)
(* them all: else take the least one it has not.                           *)
LEMMA Counting ==
    ASSUME NEW N \in Nat, NEW T, 0 \in T, \A n \in 0..N : n \in T /\ n < N => n + 1 \in T
    PROVE  0..N \subseteq T
<1> DEFINE rest == (0..N) \ T
           upto == {0..i : i \in rest}
<1> SUFFICES ASSUME rest # {}
             PROVE  FALSE
  OBVIOUS
<1>1. IsWellFoundedOn(StrictSubsetOrdering(Nat), FiniteSubsetsOf(Nat))
  BY FS_StrictSubsetOrderingWellFounded
<1>2. upto \subseteq FiniteSubsetsOf(Nat) /\ upto # {}
  <2>1. \A i \in Nat : IsFiniteSet(0..i)
    BY FS_Interval
  <2> QED
    BY <2>1 DEF FiniteSubsetsOf
<1>3. PICK x \in upto : \A y \in upto : <<y, x>> \notin StrictSubsetOrdering(Nat)
  <2> HIDE DEF upto
  <2> QED
    BY <1>1, <1>2, WFMin
<1>4. PICK i \in rest : x = 0..i
  OBVIOUS
<1>5. i \in 1..N /\ i - 1 \in 0..N /\ i - 1 < N /\ (i - 1) + 1 = i
  OBVIOUS
<1>6. i - 1 \in rest
  BY <1>5
<1>7. 0..(i - 1) \in upto /\ 0..(i - 1) \subseteq 0..i /\ i \in 0..i /\ i \notin 0..(i - 1)
  BY <1>5, <1>6
<1>8. <<0..(i - 1), 0..i>> \in StrictSubsetOrdering(Nat)
  BY <1>5, <1>7 DEF StrictSubsetOrdering
<1> QED
  BY <1>3, <1>4, <1>7, <1>8

(* A function on 0..N can be given by its first value and by its next one  *)
(* in terms of its index and the one before.                               *)
StepsOn(N, S) == [(1..N) \X S -> S]
Unfolds(f, N, S, base, step) ==
    /\ f \in [0..N -> S]
    /\ f[0] = base
    /\ \A i \in 1..N : f[i] = step[<<i, f[i - 1]>>]

(* There is such a function.                                               *)
LEMMA Recursion ==
    ASSUME NEW N \in Nat, NEW S, NEW base \in S, NEW step \in StepsOn(N, S)
    PROVE  \E f : Unfolds(f, N, S, base, step)
<1> DEFINE IsUpTo(f, n) ==
             f[0] = base /\ \A i \in 1..n : f[i] = step[<<i, f[i - 1]>>]
           T == {n \in 0..N : \E f \in [0..n -> S] : IsUpTo(f, n)}
<1>1. 0 \in T
  <2> DEFINE f == [i \in 0..0 |-> base]
  <2>1. f \in [0..0 -> S] /\ f[0] = base
    OBVIOUS
  <2> HIDE DEF f
  <2>2. 0 \in 0..N /\ IsUpTo(f, 0)
    BY <2>1
  <2> QED
    BY <2>1, <2>2
<1>2. ASSUME NEW n \in 0..N, n \in T, n < N
      PROVE  n + 1 \in T
  <2>1. PICK f \in [0..n -> S] : IsUpTo(f, n)
    BY <1>2
  <2> DEFINE g == [i \in 0..(n + 1) |-> IF i = n + 1 THEN step[<<n + 1, f[n]>>] ELSE f[i]]
  <2>2. step[<<n + 1, f[n]>>] \in S
    BY <1>2 DEF StepsOn
  <2>3. g \in [0..(n + 1) -> S]
    BY <2>2
  <2>4. \A i \in 0..n : g[i] = f[i]
    OBVIOUS
  <2>5. g[n + 1] = step[<<n + 1, g[n]>>]
    <3>1. g[n + 1] = step[<<n + 1, f[n]>>] /\ n \in 0..n
      OBVIOUS
    <3> QED
      BY <2>4, <3>1
  <2> HIDE DEF g
  <2>6. IsUpTo(g, n + 1)
    BY <2>1, <2>4, <2>5
  <2> HIDE DEF IsUpTo
  <2>7. \E h \in [0..(n + 1) -> S] : IsUpTo(h, n + 1)
    BY <2>3, <2>6
  <2>8. n + 1 \in 0..N
    BY <1>2
  <2> QED
    BY <2>7, <2>8
<1> HIDE DEF T
<1>3. N \in T
  BY <1>1, <1>2, Counting
<1> QED
  BY <1>3 DEF T, Unfolds

(* It is the only one: a function that does the steps as long as its       *)
(* values are in S does them all.                                          *)
LEMMA RecursionTypes ==
    ASSUME NEW N \in Nat, NEW S, NEW base \in S, NEW step \in StepsOn(N, S),
           NEW f, f = [i \in 0..N |-> f[i]], f[0] = base,
           \A i \in 1..N : f[i - 1] \in S => f[i] = step[<<i, f[i - 1]>>]
    PROVE  Unfolds(f, N, S, base, step)
<1> DEFINE typed == {i \in 0..N : f[i] \in S}
<1>1. 0 \in typed
  OBVIOUS
<1>2. ASSUME NEW n \in 0..N, n \in typed, n < N
      PROVE  n + 1 \in typed
  <2>1. n + 1 \in 1..N /\ (n + 1) - 1 = n /\ n + 1 \in 0..N
    BY <1>2
  <2>2. f[n] \in S /\ f[n + 1] = step[<<n + 1, f[n]>>]
    BY <1>2, <2>1
  <2> QED
    BY <2>1, <2>2 DEF StepsOn
<1> HIDE DEF typed
<1>3. 0..N \subseteq typed
  BY <1>1, <1>2, Counting
<1>4. \A i \in 0..N : f[i] \in S
  BY <1>3 DEF typed
<1>5. \A i \in 1..N : i - 1 \in 0..N
  OBVIOUS
<1> QED
  BY <1>4, <1>5 DEF Unfolds

(* A log is a sequence of lines.                                           *)
LEMMA LogFacts ==
    ASSUME NEW log \in Logs
    PROVE  /\ log \in Seq(LineKinds) /\ Len(log) \in Nat
           /\ \A i \in 1..Len(log) : log[i] \in LineKinds
           /\ DOMAIN log = 1..Len(log)
<1>1. PICK n \in 0..MaxLines : log \in [1..n -> LineKinds]
  BY DEF Logs
<1>2. n \in Nat
  BY LineKindsAssumption
<1>3. log \in Seq(LineKinds)
  BY <1>1, <1>2
<1> QED
  BY <1>3

(* The traceback of a line in terms of that of the line before.            *)
TraceAfter(log, t, i) ==
    IF t # 0 /\ log[t].head \in log[i].under THEN t
    ELSE IF log[i].head # NoHead THEN i
    ELSE 0

(* TraceOf satisfies its recursive definition: there is a function that    *)
(* does, so CHOOSE takes one.                                              *)
LEMMA TraceFacts ==
    ASSUME NEW log \in Logs
    PROVE  /\ TraceOf(log) \in [0..Len(log) -> 0..Len(log)]
           /\ TraceOf(log)[0] = 0
           /\ \A i \in 1..Len(log) :
                TraceOf(log)[i] = TraceAfter(log, TraceOf(log)[i - 1], i)
<1> DEFINE N == Len(log)
           Body(f) ==
             [i \in 0..N |->
               IF i = 0 THEN 0
               ELSE IF f[i - 1] # 0 /\ log[f[i - 1]].head \in log[i].under THEN f[i - 1]
               ELSE IF log[i].head # NoHead THEN i
               ELSE 0]
           step == [p \in (1..N) \X (0..N) |-> TraceAfter(log, p[2], p[1])]
<1>1. N \in Nat
  BY LogFacts
<1> HIDE DEF N
<1>2. step \in StepsOn(N, 0..N) /\ 0 \in 0..N
  BY <1>1 DEF TraceAfter, StepsOn
<1>3. \A i \in 1..N, t \in 0..N : step[<<i, t>>] = TraceAfter(log, t, i)
  OBVIOUS
<1> HIDE DEF step
<1>4. PICK f : Unfolds(f, N, 0..N, 0, step)
  BY <1>1, <1>2, Recursion
<1>5. \A i \in 1..N : f[i] = TraceAfter(log, f[i - 1], i)
  <2>1. \A i \in 1..N : i - 1 \in 0..N
    BY <1>1
  <2>2. \A i \in 1..N : f[i - 1] \in 0..N
    BY <1>4, <2>1 DEF Unfolds
  <2> QED
    BY <1>3, <1>4, <2>2 DEF Unfolds
<1>6. f = Body(f)
  <2>1. \A i \in 0..N : i # 0 => i \in 1..N
    BY <1>1
  <2>2. \A i \in 0..N : f[i] = Body(f)[i]
    BY <1>4, <1>5, <2>1 DEF TraceAfter, Unfolds
  <2> QED
    BY <1>4, <2>2 DEF Unfolds
<1>7. TraceOf(log) = CHOOSE g : g = Body(g)
  BY DEF TraceOf, N
<1> DEFINE T == TraceOf(log)
<1>8. T = Body(T)
  <2> HIDE DEF Body
  <2> QED
    BY <1>6, <1>7
<1> HIDE DEF T
<1>9. /\ DOMAIN T = 0..N
      /\ \A i \in 0..N : T[i] = IF i = 0 THEN 0 ELSE TraceAfter(log, T[i - 1], i)
  BY <1>8 DEF TraceAfter
<1>10. T = [i \in 0..N |-> T[i]]
  BY <1>8
<1>11. \A i \in 1..N : T[i] = TraceAfter(log, T[i - 1], i)
  <2>1. \A i \in 1..N : i \in 0..N /\ i # 0
    BY <1>1
  <2> QED
    BY <1>9, <2>1
<1>12. Unfolds(T, N, 0..N, 0, step)
  <2>1. T[0] = 0
    BY <1>2, <1>9
  <2>2. \A i \in 1..N : T[i - 1] \in 0..N => T[i] = step[<<i, T[i - 1]>>]
    BY <1>3, <1>11
  <2> QED
    BY <1>1, <1>2, <1>10, <2>1, <2>2, RecursionTypes
<1> QED
  BY <1>11, <1>12 DEF T, N, Unfolds

(* What a line adds to what is extracted from the lines before it.         *)
ExtractAfter(log, s, i) ==
    IF IsExtracted(log, i) THEN Append(s, log[i].text) ELSE s

(* The texts there are.                                                    *)
Texts == {l.text : l \in LineKinds}

(* Extract follows its definition, line by line.                           *)
LEMMA ExtractFacts ==
    ASSUME NEW log \in Logs
    PROVE  /\ Extract(log) \in [0..Len(log) -> Seq(Texts)]
           /\ Extract(log)[0] = << >>
           /\ \A i \in 1..Len(log) :
                Extract(log)[i] = ExtractAfter(log, Extract(log)[i - 1], i)
<1> DEFINE N == Len(log)
           Body(f) ==
             [i \in 0..N |->
               IF i = 0 THEN << >>
               ELSE IF IsExtracted(log, i) THEN Append(f[i - 1], log[i].text)
               ELSE f[i - 1]]
           step == [p \in (1..N) \X Seq(Texts) |-> ExtractAfter(log, p[2], p[1])]
<1>1. N \in Nat /\ \A i \in 1..N : log[i].text \in Texts
  BY LogFacts DEF Texts
<1> HIDE DEF N
<1>2. step \in StepsOn(N, Seq(Texts)) /\ << >> \in Seq(Texts)
  BY <1>1 DEF ExtractAfter, StepsOn
<1>3. \A i \in 1..N, s \in Seq(Texts) : step[<<i, s>>] = ExtractAfter(log, s, i)
  OBVIOUS
<1> HIDE DEF step
<1>4. PICK f : Unfolds(f, N, Seq(Texts), << >>, step)
  BY <1>1, <1>2, Recursion
<1>5. \A i \in 1..N : f[i] = ExtractAfter(log, f[i - 1], i)
  <2>1. \A i \in 1..N : i - 1 \in 0..N
    BY <1>1
  <2>2. \A i \in 1..N : f[i - 1] \in Seq(Texts)
    BY <1>4, <2>1 DEF Unfolds
  <2> QED
    BY <1>3, <1>4, <2>2 DEF Unfolds
<1>6. f = Body(f)
  <2>1. \A i \in 0..N : i # 0 => i \in 1..N
    BY <1>1
  <2>2. \A i \in 0..N : f[i] = Body(f)[i]
    BY <1>4, <1>5, <2>1 DEF ExtractAfter, Unfolds
  <2> QED
    BY <1>4, <2>2 DEF Unfolds
<1>7. Extract(log) = CHOOSE g : g = Body(g)
  BY DEF Extract, N
<1> DEFINE T == Extract(log)
<1>8. T = Body(T)
  <2> HIDE DEF Body
  <2> QED
    BY <1>6, <1>7
<1> HIDE DEF T
<1>9. /\ DOMAIN T = 0..N
      /\ \A i \in 0..N : T[i] = IF i = 0 THEN << >> ELSE ExtractAfter(log, T[i - 1], i)
  BY <1>8 DEF ExtractAfter
<1>10. T = [i \in 0..N |-> T[i]]
  BY <1>8
<1>11. \A i \in 1..N : T[i] = ExtractAfter(log, T[i - 1], i)
  <2>1. \A i \in 1..N : i \in 0..N /\ i # 0
    BY <1>1
  <2> QED
    BY <1>9, <2>1
<1>12. Unfolds(T, N, Seq(Texts), << >>, step)
  <2>1. T[0] = << >>
    BY <1>1, <1>9
  <2>2. \A i \in 1..N : T[i - 1] \in Seq(Texts) => T[i] = step[<<i, T[i - 1]>>]
    BY <1>3, <1>11
  <2> QED
    BY <1>1, <1>2, <1>10, <2>1, <2>2, RecursionTypes
<1> QED
  BY <1>11, <1>12 DEF T, N, Unfolds

(* e, extracted from the first n lines, has texts of these lines only, and *)
(* that of each error among them.                                          *)
HasTexts(log, e, n) ==
    /\ \A k \in DOMAIN e : \E j \in 1..n : e[k] = log[j].text
    /\ \A j \in 1..n :
         log[j].error /\ ~ log[j].warning => \E k \in DOMAIN e : e[k] = log[j].text

(* An error that is not extracted has the text of a line before it, which  *)
(* is the same line and an error, too.                                     *)
LEMMA ExtractTexts ==
    ASSUME NEW log \in Logs,
           NEW n \in 0..Len(log)
    PROVE  HasTexts(log, Extract(log)[n], n)
<1> DEFINE N == Len(log)
           E == Extract(log)
           good == {m \in 0..N : HasTexts(log, E[m], m)}
<1>1. N \in Nat /\ \A i \in 1..N : log[i] \in LineKinds
  BY LogFacts
<1>2. /\ E \in [0..N -> Seq(Texts)]
      /\ E[0] = << >>
      /\ \A i \in 1..N : E[i] = ExtractAfter(log, E[i - 1], i)
  BY ExtractFacts
<1> HIDE DEF N, E
<1>3. 0 \in good
  BY <1>1, <1>2 DEF HasTexts
<1>4. ASSUME NEW m \in 0..N, m \in good, m < N
      PROVE  m + 1 \in good
  <2> DEFINE i == m + 1
             text == log[i].text
  <2>1. /\ i \in 1..N /\ i \in 0..N /\ i - 1 = m /\ i \in 1..i
        /\ \A j \in 1..i : j = i \/ j \in 1..m
        /\ \A j \in 1..m : j \in 1..i /\ j \in 1..N
    BY <1>1, <1>4
  <2>2. E[m] \in Seq(Texts) /\ text \in Texts
    BY <1>1, <1>2, <2>1 DEF Texts
  <2>3. HasTexts(log, E[m], m) /\ E[i] = ExtractAfter(log, E[m], i)
    BY <1>2, <1>4, <2>1
  <2> HIDE DEF i
  <2>4. CASE IsExtracted(log, i)
    <3>1. E[i] = Append(E[m], text)
      BY <2>3, <2>4 DEF ExtractAfter
    <3>2. /\ \A k \in DOMAIN E[m] : k \in DOMAIN E[i] /\ E[i][k] = E[m][k]
          /\ \A k \in DOMAIN E[i] : k \in DOMAIN E[m] \/ E[i][k] = text
          /\ \E k \in DOMAIN E[i] : E[i][k] = text
      <4> DEFINE s == E[m]
      <4>1. /\ DOMAIN s = 1..Len(s) /\ Len(s) \in Nat
            /\ DOMAIN Append(s, text) = 1..(Len(s) + 1)
            /\ Append(s, text)[Len(s) + 1] = text
            /\ \A k \in 1..Len(s) : Append(s, text)[k] = s[k]
        BY <2>2
      <4> HIDE DEF s
      <4>2. \A k \in DOMAIN s : k \in DOMAIN E[i] /\ E[i][k] = s[k]
        BY <3>1, <4>1 DEF s
      <4>3. Len(s) + 1 \in DOMAIN E[i] /\ E[i][Len(s) + 1] = text
        BY <3>1, <4>1 DEF s
      <4>4. \A k \in DOMAIN E[i] : k \in DOMAIN s \/ k = Len(s) + 1
        BY <3>1, <4>1 DEF s
      <4> QED
        BY <4>2, <4>3, <4>4 DEF s
    <3> QED
      BY <2>1, <2>3, <3>2 DEF HasTexts
  <2>5. CASE ~ IsExtracted(log, i)
    <3>1. E[i] = E[m]
      BY <2>3, <2>5 DEF ExtractAfter
    <3>2. log[i].error /\ ~ log[i].warning => \E j \in 1..m : log[j] = log[i]
      <4>1. log[i].error /\ ~ log[i].warning => \E j \in 1..m : log[j].text = log[i].text
        BY <2>1, <2>5 DEF IsExtracted
      <4> QED
        BY <1>1, <2>1, <4>1, LineKindsAssumption
    <3> QED
      BY <2>1, <2>3, <3>1, <3>2 DEF HasTexts
  <2> QED
    BY <2>1, <2>4, <2>5 DEF i
<1> HIDE DEF good
<1>5. 0..N \subseteq good
  BY <1>1, <1>3, <1>4, Counting
<1> QED
  BY <1>5 DEF good, N, E

-----------------------------------------------------------------------------
(* Where the cursors are: in a stack, on the last line known to belong to  *)
(* the traceback whose head is looked for; else on a line that does not    *)
(* belong to the traceback of the line before.  No pattern has raised on a *)
(* line that has been passed, and nothing is printed before the end.       *)
CursorInv ==
    LET trace == TraceOf(lines)
    IN  /\ lines \in Logs
        /\ loop \in {"lines", "stack", "done", "raised"}
        /\ line_cursor \in 1..(Len(lines) + 1)
        /\ loop \in {"stack", "raised"} =>
             /\ line_cursor <= Len(lines)
             /\ next_line_cursor = line_cursor + 1
             /\ trace[line_cursor] # 0
             /\ head = lines[trace[line_cursor]].head
        /\ loop = "lines" /\ line_cursor <= Len(lines) =>
             \/ trace[line_cursor - 1] = 0
             \/ lines[trace[line_cursor - 1]].head \notin lines[line_cursor].under
        /\ loop = "raised" =>
             /\ next_line_cursor <= Len(lines)
             /\ head \in lines[next_line_cursor].raises
        /\ loop = "done" => line_cursor = Len(lines) + 1
        /\ \A i \in 1..(line_cursor - 1) : i < Len(lines) => ~ RaisesBelow(lines, i)
        /\ printed = IF loop = "done" THEN errors ELSE << >>

(* The inductive invariant of LogExtractor.                                *)
ExtractorInv ==
    CursorInv /\ CollectsWhatIsExtracted

(* Three for each line ahead of the cursor, two more in the outer loop and *)
(* one in the inner loop.                                                  *)
LoopLeft(l) == IF l = "lines" THEN 2 ELSE IF l = "stack" THEN 1 ELSE 0

Left == 3 * (Len(lines) + 1 - line_cursor) + LoopLeft(loop)

(* No line has been passed.                                                *)
LEMMA ExtractorInit ==
    ASSUME ExtractInit
    PROVE  ExtractorInv
<1>1. lines \in Logs /\ Len(lines) \in Nat
  BY LogFacts DEF ExtractInit
<1>2. TraceOf(lines)[0] = 0 /\ Extract(lines)[0] = << >>
  BY <1>1, TraceFacts, ExtractFacts
<1> QED
  BY <1>1, <1>2 DEF ExtractInit, ExtractorInv, CursorInv, CollectsWhatIsExtracted

(* Each step passes at most one line, and prints it if it is extracted.    *)
LEMMA ExtractorStep ==
    ASSUME ExtractorInv, ExtractNext
    PROVE  ExtractorInv' /\ Left \in Nat /\ Left' \in Nat /\ Left' < Left
<1> DEFINE N == Len(lines)
           T == TraceOf(lines)
           E == Extract(lines)
           CursorOK(l, c, n, h) ==
             /\ c \in 1..(N + 1)
             /\ l \in {"stack", "raised"} =>
                  c <= N /\ n = c + 1 /\ T[c] # 0 /\ h = lines[T[c]].head
             /\ l = "lines" /\ c <= N =>
                  T[c - 1] = 0 \/ lines[T[c - 1]].head \notin lines[c].under
             /\ l = "raised" => n <= N /\ h \in lines[n].raises
             /\ l = "done" => c = N + 1
             /\ \A i \in 1..(c - 1) : i < N => ~ RaisesBelow(lines, i)
           c == line_cursor
           next == next_line_cursor
<1>1. /\ lines \in Logs /\ lines \in Seq(LineKinds) /\ N \in Nat
      /\ DOMAIN lines = 1..N /\ \A i \in 1..N : lines[i].text \in Texts
  BY LogFacts DEF ExtractorInv, CursorInv, Texts
<1>2. /\ T[0] = 0
      /\ \A i \in 1..N : T[i] = TraceAfter(lines, T[i - 1], i)
  BY <1>1, TraceFacts
<1>3. /\ E \in [0..N -> Seq(Texts)]
      /\ \A i \in 1..N : E[i] = ExtractAfter(lines, E[i - 1], i)
  BY <1>1, ExtractFacts
<1>4. lines' = lines
  BY DEF ExtractNext, FindTraceback, FollowStack, LeaveStack, PatternRaises,
         OtherLine, LastLine
<1>5. CursorOK(loop, c, next, head)
  BY DEF ExtractorInv, CursorInv
<1>6. errors = E[IF loop \in {"stack", "raised"} THEN next - 1 ELSE c - 1]
  BY DEF ExtractorInv, CollectsWhatIsExtracted
<1>7. ASSUME loop' \in {"lines", "stack", "done", "raised"},
             CursorOK(loop', c', next', head'),
             errors' = E[IF loop' \in {"stack", "raised"} THEN next' - 1 ELSE c' - 1],
             printed' = IF loop' = "done" THEN errors' ELSE << >>
      PROVE  ExtractorInv'
  BY <1>1, <1>4, <1>7 DEF ExtractorInv, CursorInv, CollectsWhatIsExtracted
<1>8. Left = 3 * (N + 1 - c) + LoopLeft(loop) /\ Left' = 3 * (N + 1 - c') + LoopLeft(loop')
  BY <1>4 DEF Left, LoopLeft
<1>9. /\ Line = lines[c] /\ NextLine = lines[next]
      /\ InStack <=> next \in 1..N /\ head \in lines[next].under
      /\ Raises <=> next \in 1..N /\ head \in lines[next].raises
  BY <1>1 DEF Line, NextLine, InStack, Raises
<1>10. \A i \in 1..N : HasTexts(lines, E[i - 1], i - 1)
  <2>1. \A i \in 1..N : i - 1 \in 0..N
    BY <1>1
  <2> QED
    BY <1>1, <2>1, ExtractTexts
<1>11. printed = IF loop = "done" THEN errors ELSE << >>
  BY DEF ExtractorInv, CursorInv
<1> HIDE DEF N, T, E
<1>12. CASE FindTraceback
  <2>1. /\ loop = "lines" /\ c \in 1..N /\ lines[c].head # NoHead
        /\ errors' = Append(errors, lines[c].text) /\ head' = lines[c].head
        /\ next' = c + 1 /\ loop' = "stack" /\ c' = c /\ printed' = printed
    BY <1>1, <1>5, <1>9, <1>12 DEF FindTraceback
  <2>2. T[c] = c
    BY <1>2, <1>5, <2>1 DEF TraceAfter
  <2>3. E[c] = Append(E[c - 1], lines[c].text)
    <3>1. IsExtracted(lines, c)
      BY <1>1, <2>1, <2>2 DEF IsExtracted, T
    <3> QED
      BY <1>3, <2>1, <3>1 DEF ExtractAfter
  <2>4. CursorOK(loop', c', next', head') /\ errors' = E[next' - 1]
    BY <1>1, <1>5, <1>6, <2>1, <2>2, <2>3
  <2>5. Left \in Nat /\ Left' \in Nat /\ Left' < Left
    BY <1>1, <1>8, <2>1 DEF LoopLeft
  <2> QED
    BY <1>7, <1>11, <2>1, <2>4, <2>5
<1>13. CASE FollowStack
  <2>1. /\ loop = "stack" /\ next \in 1..N /\ head \in lines[next].under
        /\ errors' = Append(errors, lines[next].text)
        /\ c' = next /\ next' = next + 1 /\ loop' = loop /\ head' = head
        /\ printed' = printed
    BY <1>9, <1>13 DEF FollowStack
  <2>2. T[next] = T[c] /\ T[c] # 0 /\ head = lines[T[c]].head /\ next = c + 1 /\ c \in 1..N
    BY <1>1, <1>2, <1>5, <2>1 DEF TraceAfter
  <2>3. E[next] = Append(E[next - 1], lines[next].text)
    BY <1>3, <2>1, <2>2 DEF ExtractAfter, IsExtracted, T
  <2>4. ~ RaisesBelow(lines, c)
    <3>1. head \notin lines[next].raises
      BY <1>1, <2>1, <2>2, LogFacts, LineKindsAssumption
    <3> QED
      BY <2>2, <3>1 DEF RaisesBelow, T
  <2>5. CursorOK(loop', c', next', head') /\ errors' = E[next' - 1]
    BY <1>1, <1>5, <1>6, <2>1, <2>2, <2>3, <2>4
  <2>6. Left \in Nat /\ Left' \in Nat /\ Left' < Left
    <3>1. c \in 1..N /\ c' = c + 1 /\ loop' = loop
      BY <2>1, <2>2
    <3>2. LoopLeft(loop') = LoopLeft(loop) /\ LoopLeft(loop) \in Nat
      BY <3>1 DEF LoopLeft
    <3> QED
      BY <1>1, <1>8, <3>1, <3>2
  <2> QED
    BY <1>7, <1>11, <2>1, <2>5, <2>6
<1>14. CASE LeaveStack
  <2>1. /\ loop = "stack" /\ c' = c + 1 /\ loop' = "lines"
        /\ next \in 1..N => head \notin lines[next].under /\ head \notin lines[next].raises
        /\ errors' = errors /\ printed' = printed
    BY <1>9, <1>14 DEF LeaveStack
  <2>2. c \in 1..N /\ next = c + 1 /\ head = lines[T[c]].head
    BY <1>1, <1>5, <2>1
  <2>3. c < N => ~ RaisesBelow(lines, c)
    <3>1. c < N => next \in 1..N
      BY <1>1, <2>2
    <3> QED
      BY <2>1, <2>2, <3>1 DEF RaisesBelow, T
  <2>4. CursorOK(loop', c', next', head') /\ errors' = E[c' - 1]
    BY <1>1, <1>5, <1>6, <2>1, <2>2, <2>3
  <2>5. Left \in Nat /\ Left' \in Nat /\ Left' < Left
    <3>1. c \in 1..N /\ c' = c + 1 /\ LoopLeft(loop) = 1 /\ LoopLeft(loop') = 2
      BY <2>1, <2>2 DEF LoopLeft
    <3> QED
      BY <1>1, <1>8, <3>1
  <2> QED
    BY <1>7, <1>11, <2>1, <2>4, <2>5
<1>15. CASE PatternRaises
  <2>1. /\ loop = "stack" /\ next \in 1..N /\ head \in lines[next].raises
        /\ loop' = "raised" /\ c' = c /\ next' = next /\ head' = head
        /\ errors' = errors /\ printed' = printed
    BY <1>9, <1>15 DEF PatternRaises
  <2>2. CursorOK(loop', c', next', head') /\ errors' = E[next' - 1]
    BY <1>1, <1>5, <1>6, <2>1
  <2>3. Left \in Nat /\ Left' \in Nat /\ Left' < Left
    <3>1. c \in 1..N
      BY <1>1, <1>5, <2>1
    <3> QED
      BY <1>1, <1>8, <2>1, <3>1 DEF LoopLeft
  <2> QED
    BY <1>7, <1>11, <2>1, <2>2, <2>3
<1>16. CASE OtherLine
  <2>1. /\ loop = "lines" /\ c \in 1..N /\ lines[c].head = NoHead
        /\ errors' = IF IsReported(lines[c])
                     THEN Append(errors, lines[c].text)
                     ELSE errors
        /\ c' = c + 1 /\ loop' = loop /\ printed' = printed
    BY <1>1, <1>5, <1>9, <1>16 DEF OtherLine
  <2>2. T[c] = 0
    BY <1>2, <1>5, <2>1 DEF TraceAfter
  <2>3. errors = E[c - 1]
    BY <1>6, <2>1
  <2>4. IsReported(lines[c]) <=> IsExtracted(lines, c)
    <3> DEFINE text == lines[c].text
    <3>1. HasTexts(lines, errors, c - 1)
      BY <1>10, <2>1, <2>3
    <3>2. IsReported(lines[c]) <=>
            /\ lines[c].error /\ ~ lines[c].warning
            /\ \A k \in DOMAIN errors : errors[k] # text
      BY DEF IsReported, Collected
    <3>3. IsExtracted(lines, c) <=>
            /\ lines[c].error /\ ~ lines[c].warning
            /\ \A j \in 1..(c - 1) : lines[j].text # text
      BY <2>2 DEF IsExtracted, T
    <3>4. \A j \in 1..(c - 1) : lines[j].text = text => lines[j] = lines[c]
      <4>1. \A j \in 1..(c - 1) : j \in 1..N
        BY <1>1, <2>1
      <4> QED
        BY <1>1, <2>1, <4>1, LogFacts, LineKindsAssumption DEF N
    <3> QED
      BY <3>1, <3>2, <3>3, <3>4 DEF HasTexts
  <2>5. errors' = E[c]
    BY <1>3, <2>1, <2>3, <2>4 DEF ExtractAfter
  <2>6. CursorOK(loop', c', next', head') /\ errors' = E[c' - 1]
    <3>1. c' - 1 = c /\ c' \in 1..(N + 1) /\ loop' = "lines"
      BY <1>1, <2>1
    <3>2. ~ RaisesBelow(lines, c)
      BY <2>2 DEF RaisesBelow, T
    <3>3. \A i \in 1..c : i < N => ~ RaisesBelow(lines, i)
      BY <1>1, <1>5, <2>1, <3>2
    <3> QED
      BY <2>2, <2>5, <3>1, <3>3
  <2>7. Left \in Nat /\ Left' \in Nat /\ Left' < Left
    BY <1>1, <1>8, <2>1 DEF LoopLeft
  <2> QED
    BY <1>7, <1>11, <2>1, <2>6, <2>7
<1>17. CASE LastLine
  <2>1. /\ loop = "lines" /\ c = N + 1 /\ loop' = "done" /\ c' = c
        /\ errors' = errors /\ printed' = errors
    BY <1>1, <1>5, <1>17 DEF LastLine, N
  <2>2. CursorOK(loop', c', next', head') /\ errors' = E[c' - 1]
    BY <1>1, <1>5, <1>6, <2>1
  <2>3. Left \in Nat /\ Left' \in Nat /\ Left' < Left
    BY <1>1, <1>8, <2>1 DEF LoopLeft
  <2> QED
    BY <1>7, <2>1, <2>2, <2>3
<1> QED
  BY <1>12, <1>13, <1>14, <1>15, <1>16, <1>17 DEF ExtractNext

(* The invariant holds in every state of the tool.                         *)
LEMMA ExtractorInvariance ==
    ExtractSpec => []ExtractorInv
<1>1. ExtractInit => ExtractorInv
  BY ExtractorInit
<1>2. ExtractorInv /\ [ExtractNext]_extractVars => ExtractorInv'
  <2>1. ASSUME ExtractorInv, UNCHANGED extractVars
        PROVE  ExtractorInv'
    BY <2>1 DEF extractVars, ExtractorInv, CursorInv, CollectsWhatIsExtracted
  <2> QED
    BY <2>1, ExtractorStep
<1> QED
  BY <1>1, <1>2, PTL DEF ExtractSpec

(* In every log the two loops collect what the reference definition        *)
(* extracts of the lines passed, tracebacks in the stacks of others        *)
(* included, up to a line on which the pattern of a traceback raises.      *)
THEOREM ExtractorCollects ==
    ExtractSpec => []CollectsWhatIsExtracted
<1>1. ExtractorInv => CollectsWhatIsExtracted
  BY DEF ExtractorInv
<1> QED
  BY <1>1, ExtractorInvariance, PTL

(* A tool that is done has passed all lines, on none of which a pattern    *)
(* raises, and prints what is to be extracted of them; one that raises has *)
(* come to such a line, and prints nothing of what it has collected.       *)
THEOREM ExtractorPrintsAllOrNothing ==
    ExtractSpec => []PrintsAllOrNothing
<1>1. ExtractorInv => PrintsAllOrNothing
  <2> SUFFICES ASSUME ExtractorInv
               PROVE  PrintsAllOrNothing
    OBVIOUS
  <2>1. Len(lines) \in Nat /\ DOMAIN lines = 1..Len(lines)
    BY LogFacts DEF ExtractorInv, CursorInv
  <2>2. CursorInv /\ CollectsWhatIsExtracted
    BY DEF ExtractorInv
  <2>3. ASSUME loop = "done"
        PROVE  printed = Extract(lines)[Len(lines)] /\ ~ HasRaisingLine(lines)
    <3>1. line_cursor - 1 = Len(lines) /\ printed = errors
      BY <2>1, <2>2, <2>3 DEF CursorInv
    <3>2. errors = Extract(lines)[Len(lines)]
      BY <2>2, <2>3, <3>1 DEF CollectsWhatIsExtracted
    <3>3. \A i \in 1..(Len(lines) - 1) : i \in 1..(line_cursor - 1) /\ i < Len(lines)
      BY <2>1, <3>1
    <3>4. ~ HasRaisingLine(lines)
      BY <2>2, <3>3 DEF CursorInv, HasRaisingLine
    <3> QED
      BY <3>1, <3>2, <3>4
  <2>4. ASSUME loop = "raised"
        PROVE  printed = << >> /\ HasRaisingLine(lines)
    <3>1. /\ line_cursor \in 1..(Len(lines) - 1)
          /\ next_line_cursor = line_cursor + 1
          /\ printed = << >>
      BY <2>1, <2>2, <2>4 DEF CursorInv
    <3>2. RaisesBelow(lines, line_cursor)
      BY <2>2, <2>4, <3>1 DEF CursorInv, RaisesBelow
    <3> QED
      BY <3>1, <3>2 DEF HasRaisingLine
  <2> QED
    BY <2>3, <2>4 DEF PrintsAllOrNothing
<1> QED
  BY <1>1, ExtractorInvariance, PTL

(* Each step of the two loops lowers a natural number, so they end; that a *)
(* step is taken as long as there is one is the fairness of Spec.          *)
THEOREM ExtractorMakesProgress ==
    ExtractSpec => [][Left' \in Nat /\ Left' < Left]_extractVars
<1>1. ExtractorInv /\ [ExtractNext]_extractVars
        => [Left' \in Nat /\ Left' < Left]_extractVars
  BY ExtractorStep
<1> QED
  BY <1>1, ExtractorInvariance, PTL DEF ExtractSpec
=============================================================================
