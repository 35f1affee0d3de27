----------------------------- MODULE GosvLogDir -----------------------------
(***************************************************************************)
(* The log folders of test runs: _set_log_dir and the end of               *)
(* v2_playbook_on_stats in plugin/ansible_vsphere_gosv_log.py.  A run logs *)
(* to a folder named for the second it starts in, and moves what is in it  *)
(* to testrun_log_path at its end; the link "current" points to the logs   *)
(* of one run.  Runs with the same local_log_path share the link.          *)
(*                                                                         *)
(* Runs are processes that interleave system call by system call, and may  *)
(* be killed at any of them.                                               *)
(***************************************************************************)
EXTENDS Naturals, FiniteSets

CONSTANTS
    Runs,           \* ansible-playbook processes
    SameSecond,     \* whether two of them may start in the same second
    RemovesCurrent  \* whether the user may remove the logs "current" points to

ASSUME LogDirAssumption ==
    /\ IsFiniteSet(Runs)
    /\ {SameSecond, RemovesCurrent} \subseteq BOOLEAN

VARIABLES
    pc,         \* what each run is at
    second,     \* the second a run has started in: the name of its log_dir
    dirs,       \* the log_dirs there are
    dirLogs,    \* the runs whose logs are in a log_dir
    collected,  \* the runs whose plugin has the fact testrun_log_path
    paths,      \* those among them whose testrun_log_path there is
    pathLogs,   \* those whose logs are in it
    link,       \* where "current" points to
    listed,     \* the runs whose plugin has read the test case list
    made,       \* history: the runs whose testrun_log_path has been created
    kept,       \* history: the runs whose logs are there, unless the user removed
                \* them or the cp of v2_playbook_on_stats has failed
    disturbed,  \* history: runs whose start saw another run change the folders
    misled      \* history: runs whose start found a link to a folder that is not there

own == <<second, collected>>
files == <<dirs, dirLogs, paths, pathLogs, link>>
history == <<made, kept, disturbed, misled>>
vars == <<pc, own, files, listed, history>>

-----------------------------------------------------------------------------
Seconds == 1..Cardinality(Runs)

LogDir(s)  == <<"log_dir", s>>
LogPath(r) == <<"testrun_log_path", r>>
NoLink     == <<"no link", 0>>
Targets    == {LogDir(s) : s \in Seconds} \cup {LogPath(r) : r \in Runs}

(* os.path.exists of the link looks at what it points to.                  *)
LinkExists ==
    \/ \E s \in dirs : link = LogDir(s)
    \/ \E r \in paths : link = LogPath(r)

Starting == {"check", "unlink", "look", "make", "link"}
Ending   == {"copy", "unlink current", "remove", "link current"}

(* Every run that is starting sees what another one does to the folders.   *)
Disturb(run) ==
    disturbed' = disturbed \cup {r \in Runs \ {run} : pc[r] \in Starting}

Goto(run, step) == pc' = [pc EXCEPT ![run] = step]

Init ==
    /\ pc = [r \in Runs |-> "none"]
    /\ second = [r \in Runs |-> 0]
    /\ dirs = {}
    /\ dirLogs = [s \in Seconds |-> {}]
    /\ collected = {}
    /\ paths = {}
    /\ pathLogs = {}
    /\ link = NoLink
    /\ listed = {}
    /\ made = {}
    /\ kept = {}
    /\ disturbed = {}
    /\ misled = {}

-----------------------------------------------------------------------------
(* v2_playbook_on_start: log_dir gets the name of the second.              *)
Begin(run) ==
    /\ pc[run] = "none"
    /\ \E s \in Seconds :
         /\ \A r \in Runs : IF SameSecond THEN second[r] <= s ELSE second[r] < s
         /\ second' = [second EXCEPT ![run] = s]
    /\ Goto(run, "check")
    /\ UNCHANGED <<collected, files, listed, history>>

CheckLink(run) ==
    /\ pc[run] = "check"
    /\ Goto(run, IF LinkExists THEN "unlink" ELSE "look")
    /\ misled' = IF LinkExists \/ link = NoLink THEN misled ELSE misled \cup {run}
    /\ UNCHANGED <<own, files, listed, made, kept, disturbed>>

(* Mutant: the old link is left alone.                                     *)
LeavesOld(run) ==
    /\ pc[run] = "unlink"
    /\ Goto(run, "look")
    /\ UNCHANGED <<own, files, listed, history>>

(* An error here, as when the link is gone by now, is displayed only.      *)
UnlinkOld(run) ==
    /\ pc[run] = "unlink"
    /\ link' = NoLink
    /\ Disturb(run)
    /\ Goto(run, "look")
    /\ UNCHANGED <<own, dirs, dirLogs, paths, pathLogs, listed, made, kept, misled>>

LookForDir(run) ==
    /\ pc[run] = "look"
    /\ Goto(run, IF second[run] \in dirs THEN "link" ELSE "make")
    /\ UNCHANGED <<own, files, listed, history>>

(* makedirs and symlink raise FileExistsError, and then the rest of        *)
(* v2_playbook_on_start, the test case list with it, does not take place.  *)
MakeDir(run) ==
    /\ pc[run] = "make"
    /\ dirs' = dirs \cup {second[run]}
    /\ Goto(run, IF second[run] \in dirs THEN "running" ELSE "link")
    /\ Disturb(run)
    /\ UNCHANGED <<own, dirLogs, paths, pathLogs, link, listed, made, kept, misled>>

MakeLink(run) ==
    /\ pc[run] = "link"
    /\ IF link = NoLink
       THEN link' = LogDir(second[run]) /\ listed' = listed \cup {run}
       ELSE UNCHANGED <<link, listed>>
    /\ Disturb(run)
    /\ Goto(run, "running")
    /\ UNCHANGED <<own, dirs, dirLogs, paths, pathLogs, made, kept, misled>>

-----------------------------------------------------------------------------
(* write_to_logfile and the file handlers.                                 *)
WriteLogs(run) ==
    /\ pc[run] = "running"
    /\ second[run] \in dirs
    /\ dirLogs' = [dirLogs EXCEPT ![second[run]] = @ \cup {run}]
    /\ kept' = kept \cup {run}
    /\ UNCHANGED <<pc, own, dirs, paths, pathLogs, link, listed>>
    /\ UNCHANGED <<made, disturbed, misled>>

(* env_setup/create_local_log_path.yml: first the fact, which the plugin    *)
(* collects at once, then the folder.  A run whose second task fails ends  *)
(* with the one and without the other.                                     *)
SetLogPath(run) ==
    /\ pc[run] = "running"
    /\ collected' = collected \cup {run}
    /\ UNCHANGED <<pc, second, files, listed, history>>

(* Mutant: the folder is created ahead of the fact.                        *)
FolderFirst(run) ==
    /\ pc[run] = "running"
    /\ paths' = paths \cup {run}
    /\ made' = made \cup {run}
    /\ UNCHANGED <<pc, own, dirs, dirLogs, pathLogs, link, listed>>
    /\ UNCHANGED <<kept, disturbed, misled>>

CreateLogPath(run) ==
    /\ pc[run] = "running"
    /\ run \in collected
    /\ paths' = paths \cup {run}
    /\ made' = made \cup {run}
    /\ UNCHANGED <<pc, own, dirs, dirLogs, pathLogs, link, listed>>
    /\ UNCHANGED <<kept, disturbed, misled>>

(* Mutant: nothing is copied.                                              *)
EndsWithoutCopy(run) ==
    /\ pc[run] = "running"
    /\ Goto(run, IF run \in collected THEN "unlink current" ELSE "done")
    /\ UNCHANGED <<own, files, listed, history>>

(* The end of v2_playbook_on_stats looks at the fact, never at the folder; *)
(* without the fact all stays as it is.                                    *)
EndPlaybook(run) ==
    /\ pc[run] = "running"
    /\ Goto(run, IF run \in collected THEN "copy" ELSE "done")
    /\ UNCHANGED <<own, files, listed, history>>

(* os.system: nobody looks at the exit status of cp, which fails in any    *)
(* case without the folder.                                                *)
CopyLogs(run) ==
    /\ pc[run] = "copy"
    /\ \E failed \in BOOLEAN :
         /\ run \notin paths => failed
         /\ pathLogs' = IF failed THEN pathLogs
                        ELSE pathLogs \cup (dirLogs[second[run]] \cap {run})
         /\ kept' = IF failed THEN kept \ {run} ELSE kept
    /\ Goto(run, "unlink current")
    /\ UNCHANGED <<own, dirs, dirLogs, paths, link, listed, made, disturbed, misled>>

(* Mutant: the link is still there when the log_dir is removed.            *)
KeepsCurrent(run) ==
    /\ pc[run] = "unlink current"
    /\ Goto(run, IF link = NoLink THEN "done" ELSE "remove")
    /\ UNCHANGED <<own, files, listed, history>>

(* Without a link unlink raises, and the log_dir is left where it is.      *)
UnlinkCurrent(run) ==
    /\ pc[run] = "unlink current"
    /\ link' = NoLink
    /\ Disturb(run)
    /\ Goto(run, IF link = NoLink THEN "done" ELSE "remove")
    /\ UNCHANGED <<own, dirs, dirLogs, paths, pathLogs, listed, made, kept, misled>>

RemoveDir(run) ==
    /\ pc[run] = "remove"
    /\ dirs' = dirs \ {second[run]}
    /\ dirLogs' = [dirLogs EXCEPT ![second[run]] = {}]
    /\ Disturb(run)
    /\ Goto(run, "link current")
    /\ UNCHANGED <<own, paths, pathLogs, link, listed, made, kept, misled>>

(* os.symlink does not mind whether there is something to link to.         *)
LinkCurrent(run) ==
    /\ pc[run] = "link current"
    /\ link' = IF link = NoLink THEN LogPath(run) ELSE link
    /\ Disturb(run)
    /\ Goto(run, "done")
    /\ UNCHANGED <<own, dirs, dirLogs, paths, pathLogs, listed, made, kept, misled>>

-----------------------------------------------------------------------------
Kill(run) ==
    /\ pc[run] \in Starting \cup Ending \cup {"running"}
    /\ Goto(run, "killed")
    /\ UNCHANGED <<own, files, listed, history>>

(* The user clears the logs of a run that is over.                         *)
RemoveOldLogs(run) ==
    /\ pc[run] \in {"done", "killed"}
    /\ run \in paths
    /\ RemovesCurrent \/ link # LogPath(run)
    /\ paths' = paths \ {run}
    /\ pathLogs' = pathLogs \ {run}
    /\ kept' = kept \ {run}
    /\ UNCHANGED <<pc, own, dirs, dirLogs, link, listed, made, disturbed, misled>>

Step(run) ==
    \/ Begin(run)
    \/ CheckLink(run)
    \/ UnlinkOld(run)
    \/ LookForDir(run)
    \/ MakeDir(run)
    \/ MakeLink(run)
    \/ WriteLogs(run)
    \/ SetLogPath(run)
    \/ CreateLogPath(run)
    \/ EndPlaybook(run)
    \/ CopyLogs(run)
    \/ UnlinkCurrent(run)
    \/ RemoveDir(run)
    \/ LinkCurrent(run)
    \/ Kill(run)

Next == \E run \in Runs : Step(run) \/ RemoveOldLogs(run)

Spec == Init /\ [][Next]_vars

-----------------------------------------------------------------------------
(* Types of the processes' state and of the folders.                       *)
TypeOK ==
    /\ pc \in [Runs -> {"none", "running", "done", "killed"} \cup Starting \cup Ending]
    /\ second \in [Runs -> {0} \cup Seconds]
    /\ dirs \subseteq Seconds
    /\ dirLogs \in [Seconds -> SUBSET Runs]
    /\ collected \subseteq Runs
    /\ made \subseteq collected
    /\ paths \subseteq made
    /\ pathLogs \subseteq paths
    /\ link \in {NoLink} \cup Targets
    /\ {listed, kept, disturbed, misled} \subseteq SUBSET Runs

(* However runs overlap and wherever they are killed, "current" never      *)
(* points to a folder that is gone.  What it may point to is a             *)
(* testrun_log_path that never was: that of a run which has moved its logs *)
(* there although create_local_log_path.yml had failed to create it.       *)
LinkResolves ==
    link # NoLink =>
      LinkExists \/ \E run \in collected \ made : pc[run] = "done" /\ link = LogPath(run)

(* README.md:36: the log folder of a run has its log files.  They are in   *)
(* its log_dir or in its testrun_log_path, also after the move and after a *)
(* move that was interrupted.  Only a cp that fails loses them.            *)
LogsAreKept ==
    \A run \in kept : run \in dirLogs[second[run]] \cup pathLogs

(* A run that is not disturbed while it starts has its test case list, and *)
(* so comes to print test results, unless it found a link that dangles:    *)
(* then it never has.  No remains of other runs are in its way but those   *)
(* of one whose testrun_log_path could not be created.                     *)
UndisturbedIsListed ==
    \A run \in Runs \ disturbed :
      pc[run] \in {"running", "done"} \cup Ending =>
        /\ run \in listed <=> run \notin misled
        /\ run \in misled => \E other \in collected \ made : pc[other] = "done"

(* plugin/ansible_vsphere_gosv_log.py:1087: an existing link is unlinked.  *)
OldLinkIsUnlinked ==
    \A run \in Runs :
      (pc[run] = "look" /\ run \notin disturbed) => link = NoLink

=============================================================================
