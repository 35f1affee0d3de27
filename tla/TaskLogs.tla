------------------------------ MODULE TaskLogs ------------------------------
(***************************************************************************)
(* _print_task_details of plugin/ansible_vsphere_gosv_log.py: which log    *)
(* files the result of a task goes to, and below which headings.  A result *)
(* carries the banner of its task only if it is the first one of the task, *)
(* and a log file names a play only once, so what a result in the log is   *)
(* about depends on what was written before it.                            *)
(*                                                                         *)
(* A task is known by its path (file and line); each time its file is      *)
(* included it is a new task with a uuid of its own.                       *)
(***************************************************************************)
EXTENDS Naturals

CONSTANTS
    Paths,          \* paths of tasks
    Looped,         \* those with a loop
    IgnoreErrors,   \* those with ignore_errors
    KnownIssue,     \* those with the tag known_issue
    FailMessage,    \* those with the tag fail_message
    MaxPlays,       \* bound: plays
    MaxTasks        \* bound: tasks of all plays

ASSUME TaskLogsAssumption ==
    /\ {Looped, IgnoreErrors, KnownIssue, FailMessage} \subseteq SUBSET Paths
    /\ {MaxPlays, MaxTasks} \subseteq Nat

VARIABLES
    play,           \* number of the play
    task,           \* the task that goes on: its path and uuid, which is 0 for none
    lastTask,       \* _last_task_uuid
    failedCache,    \* _play_tasks_cache['failed']
    knownCache,     \* _play_tasks_cache['known_issue']
    first,          \* history: for each path the first uuid of this play
    met,            \* history: the known issues met, with their plays
    issues,         \* history: the known issues in known_issues.log, with the plays
                    \* they stand below
    written,        \* history: the files the last result went to
    above           \* history: the play and the task a reader finds named last in
                    \* each file, going up from its end

caches == <<failedCache, knownCache>>
taskVars == <<play, task, lastTask, caches, first, met, issues, written, above>>

-----------------------------------------------------------------------------
Files    == {"full_debug.log", "failed_tasks.log", "known_issues.log"}
Statuses == {"ok", "changed", "failed", "unreachable", "skipped"}
NoTask   == [path |-> "none", uuid |-> 0]
Nothing  == [play |-> 0, task |-> NoTask.path]

TaskInit ==
    /\ play = 0
    /\ task = NoTask
    /\ lastTask = 0
    /\ failedCache = {}
    /\ knownCache = {}
    /\ first = [p \in Paths |-> 0]
    /\ met = {}
    /\ issues = {}
    /\ written = {}
    /\ above = [f \in Files |-> Nothing]

-----------------------------------------------------------------------------
(* A result that was skipped has no msg.                                   *)
HasMsg(status) == status # "skipped"

(* log_failed_tasks; a loop looks up ignore_errors for its items itself.   *)
LogsFailed(status, ignored) ==
    \/ /\ status \in {"failed", "unreachable"}
       /\ ~ ignored
       /\ ~ (task.path \in Looped /\ task.path \in IgnoreErrors)
    \/ task.path \in FailMessage /\ HasMsg(status)

(* Mutant: nobody looks for the tag.                                       *)
IgnoresTag(status) == HasMsg(status)

MeetsKnownIssue(status) == task.path \in KnownIssue /\ HasMsg(status)

(* The handler of known_issues.log is there for the first result only.     *)
LogsKnown(status) == MeetsKnownIssue(status) /\ task.path \notin knownCache

IsNewTask == lastTask # task.uuid

(* Mutant: the banner is repeated for no item of a loop.                   *)
NoBannerForItems == IsNewTask

(* "If it is a failed item and not the first item, log its task name and   *)
(* path in self.failed_tasks_log as well."                                 *)
FailedHasBanner == IsNewTask \/ task.path \notin failedCache

FailedCacheAfter(status, ignored) ==
    IF LogsFailed(status, ignored) THEN failedCache \cup {task.path} ELSE failedCache

FilesOf(status, ignored) ==
    {"full_debug.log"}
      \cup (IF LogsFailed(status, ignored) THEN {"failed_tasks.log"} ELSE {})
      \cup (IF LogsKnown(status) THEN {"known_issues.log"} ELSE {})

(* What heads the result in each of the files it goes to: the play when it *)
(* is the first result of the play there, and the banner of the task.      *)
PlayHead(file) ==
    CASE file = "full_debug.log"   -> play
      [] file = "failed_tasks.log" -> IF failedCache = {} THEN play ELSE above[file].play
      [] file = "known_issues.log" -> IF knownCache = {} THEN play ELSE above[file].play

HasBanner(file) ==
    IF file = "failed_tasks.log" THEN FailedHasBanner ELSE IsNewTask

Heads(file) ==
    [play |-> PlayHead(file),
     task |-> IF HasBanner(file) THEN task.path ELSE above[file].task]

PrintTaskDetails(status, ignored) ==
    /\ lastTask' = task.uuid
    /\ failedCache' = FailedCacheAfter(status, ignored)
    /\ knownCache' = IF MeetsKnownIssue(status) THEN knownCache \cup {task.path} ELSE knownCache
    /\ met' = IF MeetsKnownIssue(status) THEN met \cup {<<play, task.path>>} ELSE met
    /\ issues' = IF LogsKnown(status)
                 THEN issues \cup {<<PlayHead("known_issues.log"), task.path>>}
                 ELSE issues
    /\ written' = FilesOf(status, ignored)
    /\ above' = [f \in Files |-> IF f \in written' THEN Heads(f) ELSE above[f]]

-----------------------------------------------------------------------------
(* Mutant: the cache of the play before is kept.                           *)
KeepsCache ==
    /\ task = NoTask
    /\ play < MaxPlays
    /\ play' = play + 1
    /\ first' = [p \in Paths |-> 0]
    /\ written' = {}
    /\ UNCHANGED <<task, lastTask, caches, met, issues, above>>

PlaybookOnPlayStart ==
    /\ task = NoTask
    /\ play < MaxPlays
    /\ play' = play + 1
    /\ failedCache' = {}
    /\ knownCache' = {}
    /\ first' = [p \in Paths |-> 0]
    /\ written' = {}
    /\ UNCHANGED <<task, lastTask, met, issues, above>>

StartTask(path) ==
    LET uuid == lastTask + 1
    IN  /\ play > 0
        /\ task = NoTask
        /\ uuid <= MaxTasks
        /\ task' = [path |-> path, uuid |-> uuid]
        /\ first' = IF first[path] = 0 THEN [first EXCEPT ![path] = uuid] ELSE first
        /\ written' = {}
        /\ UNCHANGED <<play, lastTask, caches, met, issues, above>>

(* v2_runner_on_ok, _failed, _unreachable and _skipped of a task without a *)
(* loop, of one that failed before its first item or was unreachable.      *)
TaskResult ==
    /\ task # NoTask
    /\ \E status \in Statuses :
         /\ task.path \in Looped =>
              status = "unreachable" \/ (status = "failed" /\ IsNewTask)
         /\ PrintTaskDetails(status, status = "failed" /\ task.path \in IgnoreErrors)
    /\ task' = NoTask
    /\ UNCHANGED <<play, first>>

(* v2_runner_item_on_ok, _failed and _skipped.                             *)
ItemResult ==
    /\ task # NoTask
    /\ task.path \in Looped
    /\ \E status \in Statuses \ {"unreachable"} : PrintTaskDetails(status, FALSE)
    /\ UNCHANGED <<play, task, first>>

(* The result of a loop as a whole is not printed again.                   *)
ProcessItems ==
    /\ task # NoTask
    /\ task.path \in Looped
    /\ ~ IsNewTask
    /\ task' = NoTask
    /\ written' = {}
    /\ UNCHANGED <<play, lastTask, caches, first, met, issues, above>>

TaskNext ==
    \/ PlaybookOnPlayStart
    \/ \E path \in Paths : StartTask(path)
    \/ TaskResult
    \/ ItemResult
    \/ ProcessItems

TaskSpec == TaskInit /\ [][TaskNext]_taskVars

-----------------------------------------------------------------------------
(* Types of the plugin's caches and of the history.                        *)
TaskTypeOK ==
    /\ play \in 0..MaxPlays
    /\ task \in [path : Paths, uuid : 1..MaxTasks] \cup {NoTask}
    /\ lastTask \in 0..MaxTasks
    /\ {failedCache, knownCache} \subseteq SUBSET Paths
    /\ first \in [Paths -> 0..MaxTasks]
    /\ met \subseteq (1..MaxPlays) \X KnownIssue
    /\ issues \subseteq (0..MaxPlays) \X KnownIssue
    /\ written \subseteq Files
    /\ above \in [Files -> [play : 0..MaxPlays, task : Paths \cup {NoTask.path}]]

(* The failures in failed_tasks.log stand below the heading of the play    *)
(* they are from, although a play is named only once: with its first one;  *)
(* and known_issues.log lists the known issues of the run, those of each   *)
(* play below its heading (README.md:40).                                  *)
EntriesNameTheirPlay ==
    /\ "failed_tasks.log" \in written => above["failed_tasks.log"].play = play
    /\ met \subseteq issues

(* A failure in failed_tasks.log stands below the banner of its own task,  *)
(* also if it is a later item of a loop and its first items did not fail,  *)
(* unless the task's file has been included before in the play.            *)
FailureIsAttributed ==
    [][("failed_tasks.log" \in written' /\ (task.path \in Looped => first[task.path] = task.uuid))
         => above'["failed_tasks.log"].task = task.path]_taskVars
=============================================================================
