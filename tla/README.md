# A verification project for ansible-vsphere-gos-validation

`ansible-vsphere-gos-validation` runs test cases against a guest operating
system in a vSphere virtual machine (VM).  It is a set of Ansible playbooks, a
callback plugin that turns Ansible's events into test results, and a few Python
tools.  This directory holds TLA+ modules that model its parts, TLC
configurations that check them on small instances, and proofs that TLAPS checks.

Paths below are relative to `src/`; `plugin` stands for
`plugin/ansible_vsphere_gosv_log.py`.

## 1. The system

`main.yml` imports `env_setup/env_setup.yml`, the playbooks of a test case list
(`linux/gosv_testcase_list.yml` or `windows/...`) and `env_setup/env_cleanup.yml`.
Every imported playbook is one play on `localhost`.  A test case includes
`setup/test_setup.yml`, does its work in a `block`, and has a `rescue` section
that includes `common/test_rescue.yml`.  The plugin sees none of this.  It reads
the test case list and is told of plays and task results.

| Part | State | Operations | Interacts with |
| --- | --- | --- | --- |
| Test run bookkeeping (`plugin`) | `test_runs`, `not_completed_testcases`, `_last_test_id`, `_play_name` | the `v2_*` callbacks, `_get_testcase_list`, `_print_test_results` | Ansible (callbacks), `common/skip_test_case.yml` and `set_current_testcase_facts.yml` (recognised by task name and facts) |
| Test suite execution (`main.yml`, `common/`, `setup/`, `env_setup/`) | facts: `current_testcase_index`, `current_test_log_folder`, `exit_testing_when_fail`, `vm_cleaned_up`; the executor's failed hosts | plays, block/rescue/always, skip, rescue, exit, cleanup | plugin (events), base snapshot |
| Base snapshot (`common/*snapshot*.yml`, `create_base_snapshot.yml`, `env_cleanup.yml`) | snapshots of the VM, `base_snapshot_exists`, `win_update_snapshot_name` | check and revert, create, reset (remove or rename), revert and restore at the end | every test case; later runs on the same VM |
| Log folders (`plugin`, `create_local_log_path.yml`) | `log_dir`, the link `current`, `testrun_log_path` | `_set_log_dir`, the move in `v2_playbook_on_stats` | other runs with the same `local_log_path` |
| Log files and messages (`plugin`) | `logger`, file handlers | `add_logger_file_handler`, `_print_task_details`, tables | bookkeeping |
| Error messages (`plugin`, `extract_error_msg`) | none | a recursive walk of a task result | task details |
| VM and testbed information (`plugin`) | `vm_info`, `testbed_info`, `os_ctrl` | collected from facts, printed at the end | playbooks (facts) |
| Log extractor (`tools/extractor.py`) | a line cursor | call traces and errors out of a log | `common/extract_errors_from_log.yml` |
| Guest operations with SAML tokens (`tools/vgauth_guestops.py`) | alias mappings in the guest | list, add and remove aliases, start and read processes | `host_verify_saml_token` |
| Power, IP and tools waits (`common/vm_*`) | power state, IP address, tools status | power operations, waits with retries | nearly every test case |
| Network testbed (`common/network_testbed_*.yml`) | switches, port groups, the router VM | set-up, removal | network tests |
| Guest customization (`*/guest_customization`) | customization status | customize, wait, verify | network testbed, waits |
| Device tests (`*/vhba_hot_add_remove`, `cpu_hot_add_basic`, ...) | devices of the VM | hot-add, hot-remove, verify in the guest | waits |
| Windows update and tools installation | what is installed | install, reset the base snapshot | base snapshot |
| VM deployment (`*/deploy_vm`, `autoinstall/`) | the new VM | deploy from ISO or OVA | bookkeeping (renames its test case) |
| Container image (`docker_file`) | none | packaging | none |

What is hard in it, and what correctness means for the parts modelled:

* **Bookkeeping.**  The plugin infers from events in what test it is.  It finds
  the next test by counting completed ones, every handler completes the last test
  under the same guard, and a list may name a test case twice.  A pop too many
  books all later results on the wrong test.  Correct means: events are booked on
  the test whose play goes on, verdicts are given once and in order, and tests
  that never ran are shown as blocked exactly if a blocker or `env_setup` stopped
  the run.
* **Execution.**  Failures come inside and outside of blocks, in rescue and always
  sections, as unreachable hosts and as unreachable results that are ignored.
  Facts of one test are still set in the next.  Correct means: the result shown is
  what the tasks came to, no test runs behind a failed blocker, and the run always
  comes to its results.
* **Base snapshot.**  It outlives the run, the facts about it do not.  Replacing it
  takes several tasks, each of which may fail, and a run may be aborted anywhere.
  Correct means: a test body starts from the base snapshot, the snapshot never holds
  what a test left behind, and the fact `base_snapshot_exists` can be relied on.
* **Log folders.**  Concurrent runs share the link, each changes it with several
  system calls and may be killed between them; the folder that a run's logs are
  moved to may not have been created.  Correct means: the link resolves, no logs are
  lost, and remains of one run do not spoil the start of another.  The code keeps the
  first and the last of these except behind a run without that folder, and the
  properties say which exception that is.
* **Log files.**  `failed_tasks.log` and `known_issues.log` hold excerpts: a play is
  named once, a task with the first of its results.  Correct means: a reader who goes
  up from a failure finds the play and the task it is from.
* **SAML tokens.**  The tool learns of a change only by listing the aliases
  afterwards, of each certificate it looks at the first, and certificates are
  renewed between two invocations.  Correct means: it says of the alias what is
  true, and a test case that passes leaves neither alias nor user nor session.
* **Address of the VM.**  What VMware Tools report and the ESXi host has seen lags
  behind reverts, reboots and leases.  Correct means: every call of
  `update_inventory.yml` ends, and with the VM's address in `target_vm` if the VM
  stays as it is meanwhile.
* **Network testbed.**  A set-up takes up to six tasks, each of which may fail and is
  not undone; two runs number VMkernel adapters of one host without a lock.  Correct
  means: a test has the whole network it asked for, at the end nothing of it is
  left, nobody else's adapter goes with it.
* **VM information.**  Facts are set one task after the other and outlive upgrades
  and reverts of the VM.  Correct means: every entry of `guest_info.json` is what
  the guest reported with one pair of versions, and none is missed.
* **Log extractor.**  Two nested loops move one cursor, and a pattern made of a log
  line may be none that can be compiled.  Correct means: no line is passed over or
  printed twice, the loops end, and what is collected is printed.  The last of these
  holds for logs without such a line.

## 2. Modules

| Module | Models | Uses |
| --- | --- | --- |
| `TestVerdicts` | abstract specification of the bookkeeping | |
| `GosvTestRuns` | the plugin's bookkeeping; refines `TestVerdicts` | `TestVerdicts` (INSTANCE) |
| `GosvTestRunsProofs` | theorems about it | `GosvTestRuns`, TLAPS |
| `TestSuite` | executor and playbook sections, driving the plugin | `GosvTestRuns` |
| `TestSuiteProofs` | theorems about it | `TestSuite`, `GosvTestRunsProofs`, TLAPS |
| `BaseSnapshot` | the base snapshot over several runs | |
| `BaseSnapshotProofs` | theorems about it | `BaseSnapshot`, TLAPS |
| `GosvLogDir` | log folders of concurrent runs | |
| `TaskLogs` | which log files a task result goes to, below which headings | |
| `LogExtractor` | `extract_error_from_log` and a reference definition of it | |
| `LogProofs` | theorems about the three | `GosvLogDir`, `TaskLogs`, `LogExtractor`, TLAPS |
| `GuestAlias` | `vgauth_guestops.py` and `host_verify_saml_token` | |
| `GuestAliasProofs` | theorems about it | `GuestAlias`, TLAPS |
| `NetworkTestbed` | the networks of network tests, with several runs on one host | |
| `NetworkTestbedProofs` | theorems about it | `NetworkTestbed`, TLAPS |
| `GuestInfo` | facts of the VM, what the plugin collects of them and prints at the end | |
| `GuestInfoProofs` | theorems about it | `GuestInfo`, TLAPS |
| `GuestAddress` | `update_inventory.yml` and all that it waits for | |
| `GuestAddressProofs` | theorems about it | `GuestAddress`, TLAPS |
| `MCGosvTestRuns`, `MCTestSuite`, `MCGosvLogDir`, `MCTaskLogs`, `MCLogExtractor`, `MCNetworkTestbed`, `MCGuestInfo` | instances for TLC | |

`PROJECT.json` maps each definition to its source lines.

### GosvTestRuns

`testRuns` is `test_runs`, an `OrderedDict` whose keys are built from position and
name; the model keeps the position.  `notCompleted` is `not_completed_testcases`,
`lastTest` the position of `_last_test_id`, `playName` is `_play_name`.  `played`
counts the plays Ansible has started and belongs to the environment.

Each callback that changes this state is one operator (`PlaybookOnPlayStart`,
`RunnerOnFailed`, `RunnerOnUnreachable`, `RunnerOnSkipTestCase`,
`CollectTestCaseName`, `PlaybookOnStats`) and each event of Ansible one action
(`StartPlay`, `TaskFailed`, ...).  The environment is as loose as it can be: in
any play any result may be reported at any moment and any number of times, and
the playbook may end after any play.  Two things are assumed of it: plays start in
the order of `main.yml`, and the task names and facts the plugin looks for appear
only in the plays of test cases.

`PlaybookOnStart` may leave the list unloaded.  Setting up the log folder comes
first and may raise (see `GosvLogDir`); Ansible catches what a callback raises.

### TestSuite

`section` is the section of the current play, `params` are the parameters of
`vars/test.yml` that the playbooks look at, in every combination.  `Profile` says
of a test case what its playbook contains: whether its setup is in the block,
whether it has tasks ahead of the setup, an always section, tasks with
`ignore_unreachable`, its own `exit_testing_when_fail`, and the reasons it may be
skipped for.  Every action of the plugin's environment that the executor takes is
tied to the section it can happen in.  `BlockersExitAssumption` says of `Profile` that
blockers set `exit_testing_when_fail`, as `deploy_vm.yml`, `ovt_verify_pkg_install.yml`,
`ovt_verify_src_install.yml` and `wintools_complete_install_verify.yml` do.  The
history variable `outcome` holds what the tasks of each test came to, independently
of the plugin.

### BaseSnapshot

A VM's contents are abstracted to a set of marks: `config` (reconfigured by
`create_base_snapshot.yml`), `tools`, `update` and `effects` (anything a test case
did on the way).  Updates of which some have failed change the VM and leave the base
snapshot as it is (`PartlyInstalled`).  A snapshot is what the VM held when it was
taken.  Test cases are of four kinds by what they do to the base snapshot.  Every
step of reset and restore is an action, and `SetupFails`, `CreateBaseFails`,
`BodyFails` and `Abort` interrupt them.  `vmExists`, `vm`, `snaps` and `current`
survive into the next run, the facts do not.

### GosvLogDir

Every system call on the folders and the link is an action of one run.
`create_local_log_path.yml` is two tasks: `SetLogPath` sets the fact
`testrun_log_path`, which the plugin collects at once (`collected`), and
`CreateLogPath` creates the folder (`paths`), unless it fails or the run ends ahead
of it.  `EndPlaybook` looks at the fact only, as the plugin does; without the folder
the run then loses its logs and leaves a `current` that dangles.  `made` (the
folders that have ever been created) and `misled` (the runs whose start found a
dangling link) are history.  `disturbed` is a history variable: the runs whose start
saw another run change something.  `kept` is another: the runs whose logs have to be
somewhere, which are those that have logged, less those whose logs the user has
removed or whose `cp` has failed (the code ignores its exit status and removes the
only copy).  The constants say whether two runs may start in the same second and
whether the user may also remove the logs that `current` points to.

### TaskLogs

`play` and `task` are what Ansible is at; `lastTask`, `failedCache` and `knownCache`
are `_last_task_uuid` and the two lists of `_play_tasks_cache`.  A task is known by
its path; a file that is included again makes a new task, with a new uuid, of the
same path.  `PrintTaskDetails` is the whole of `_print_task_details`, the handlers
that it adds and removes included: as they are removed before it returns, the files
a result goes to are a function of the result and the caches.  The actions are the
callbacks: results of tasks (`TaskResult`), of items (`ItemResult`) and of loops as
a whole (`ProcessItems`).  `above` records, for each file, which play and task are
named last in it; `met` and `issues` the known issues that occurred and those that
the file has, with their plays.

### LogExtractor

A line is a record of what the tool's patterns tell apart.  Each turn of a loop is
an action, and a log is chosen in `Init`.  What is left of `Traceback` goes into a
regular expression unescaped, as part of a look-behind.  So for each line `under`
has the prefixes whose pattern it matches, in whatever way, and `raises` those whose
pattern makes `re.search` raise.  `PatternRaises` is that exception: it ends the
tool, and `errors`, what has been collected, is never `printed`.  `Extract(log)[n]`,
a recursive function over the lines, is what is to be printed of the first `n`: the
lines of tracebacks wherever they are, and other lines that report an error where
their text is for the first time.  `TraceOf(log)` says which traceback a line
belongs to.

### GuestAlias

An alias of the guest user is a pair of a certificate and the domain user it stands
for; `aliases` maps each certificate to its subjects.  An invocation of the tool
goes through `main()` with `step`: a token for the administrator (whose certificate
`base64Cert` is), the login, the VM, the operation, and the `finally` section that
logs out if `service_instance` is set.  Everything that asks vCenter Server or the
guest may raise before it had an effect (`Raises`) or after it (`ConnectRaises`,
`ChangeAliasRaises`, `DisconnectRaises`), and `ChangeAlias` may leave the aliases
as they were.  `FirstAliases` is what `list_guest_alias` can see, since the order
within a mapping is the guest's.  `phase` is what `host_verify_saml_token.yml` has
come to, `byHand` says that somebody else uses the tool instead, with a guest user
whose aliases others change as well.

### GuestAddress

`vm` is the VM: powered on, booted, and the address of its primary adapter.
`report` is what vSphere shows of it: `ToolsReport`, `ToolsStop` and
`HostSeesAddress` bring it up to date piece by piece and in any order.  `pc` names
the task of `update_inventory.yml` or of the files it includes, `tries` counts its
retries, and `Retry` is what a wait does when the answer is not what it waits for.
`others` are the addresses at which other machines answer, so that a stale address
may well be reachable.  If the status of VMware Tools cannot be read, which is
ignored, the tasks go on as without tools (`ToolsUnknown`).  Before each call the VM
was reverted to a base snapshot that was taken of a running or a stopped VM, shut
down, or left alone.

### NetworkTestbed

A set-up or removal is a sequence of tasks (`VssSetup`, `VdsCleanup`, ...); `left` is
what remains of it.  `MakePart`, `GetIndex`, `AddVmk` and `RemovePart` carry out the
next task; `SetupFails` is a task that fails, before or after it has done its work,
and the run goes on with the next test; `RunFails` ends the run.  `run` holds the
facts, among them `vss_network_is_setup` and the index that
`vds_vmk_device_index` is computed from; `vmks` says who owns each VMkernel adapter.
An index that another run has taken in the meantime is recorded in `stale` and
`raced`.  A run that lost its adapter so still removes the adapter with its index
at the end (`RemoveVmk`), whoever has it by then: that run counts as raced too.

### GuestInfo

`vm` is the hardware version and the version of VMware Tools, `base` what a revert
brings back.  `facts` are Ansible's, which the plugin follows task by task.
`check_os_fullname` upgrades the hardware step by step, through the versions in
whatever order the host reports them, `ovt_verify_pkg_install`
installs tools and replaces the base snapshot, and any task that talks to vSphere
or the guest may fail.  `Collect` is `_collect_ansible_gosv_facts`, which keeps the
first entry for a pair of versions; `DumpGuestInfo`,
`PrintTestResults` and `SummaryRaises` are the parts of `v2_playbook_on_stats` that
write `guest_info.json` and the servers, whose names come from the vars file and may
be missing, empty or without a value.

## 3. What is checked

Passing runs.

| Run | Shows | Bounds, and why they are enough |
| --- | --- | --- |
| `GosvTestRuns` | `Bookkeeping`, `EventsGoToTheirTest`, `BlockedBehindBlockers`, `VerdictIsFinal`, and that the plugin implements `TestVerdicts` | four tests: a blocker that is renamed while it runs, one listed twice in a row, one more blocker at the end.  The theorems of section 5 hold for every list |
| `TestSuite` | `VerdictMatchesOutcome`, `FolderMatchesTestId`, `NothingRunsBehindBlocker`, `SuiteDrivesPlugin`, and the liveness property `RunIsConcluded` | five tests of the Linux list, one of each profile that differs; all values of the parameters.  A verdict depends on the test itself and on whether the run goes on, so one test of each profile behind a blocker and ahead of others reaches every case |
| `BaseSnapshot` | `BaseIsSettled`, `FlagMeansSnapshot`, `VmIsLeftAtBase`, `BodyStartsFromBase` | two runs on one VM and two renames; any number of test cases in a run.  The second run starts from whatever the first has left, and nothing but the VM connects runs; two renames, so that one restore meets the remains of an earlier rename |
| `GosvLogDir` | `LinkResolves`, `LogsAreKept`, `UndisturbedIsListed` | three runs: two that race and one that comes upon what they left; `cp` may fail, the folder for the logs may not be created, any run may be killed between system calls, and the user clears logs that `current` does not point to.  The first and the third say of a run without its folder what it leaves behind: a link that dangles, and a next run without a list |
| `TaskLogs` | `EntriesNameTheirPlay` (failures and known issues), `FailureIsAttributed` | two plays, since nothing but the cache and the last uuid connects plays; up to five tasks out of one of each sort, any number of items: the caches tell paths apart only by whether they have been there before in the play |
| `LogExtractor` | `CollectsWhatIsExtracted`, `PrintsAllOrNothing`, and the liveness property `Terminates` | all logs of up to five lines of ten kinds: a traceback, one in its stack, the end of the stack, and a line before and after it; one of the tracebacks has a prefix that is no pattern, and one line is too short for it to be compiled |
| `GuestAlias` | `PassedMeansClean`, `VerdictIsTrue` | two certificates, one other domain user and aliases for any user: a renewal between two invocations, an alias ahead of the test user's; two invocations by hand, as one starts from any aliases.  The theorems of section 5 hold for any number |
| `GuestAddress` | the liveness property `CallEnds`: also that a VM which stays as it is comes into `target_vm` | two leases, so that a stale address differs from the new one; one retry of each wait, as a wait either succeeds or runs out; two calls, the second behind whatever the first has left; four changes of the guest, the reports and other machines |
| `NetworkTestbed` | `TestHasNetwork`, `NothingIsLeft`, `VmksAreKept`, `VdsWithinMaximum` | two runs of the same two tests in either order; three adapter indices, so that there is a gap, none, and no index left; 14 or 15 switches of others, so that both runs' switches fit under the maximum of 16, or one's only.  The runs are symmetric |
| `GuestInfo` | `InfoIsExact` | three hardware versions, so that there are two upgrades and a revert over both; tools of three versions, one of which gives no version in the extra config; three lists, in which an installation precedes the upgrades or stands between them |

`SuiteDrivesPlugin` says that each step of `TestSuite` is a step of `GosvTestRuns`,
hence what is proved of `GosvTestRuns` holds in the suite.

Deadlock is not checked: a playbook ends, and in every module the last state has
no successor.  That a run cannot stop *early* is `RunIsConcluded`.

**Fairness.**  `SuiteSpec` has `WF(SuiteAdvance)` and no other: as long as a step
that brings the run forward is possible, one is taken.  Ansible starts the next
task when the last one has ended, and tasks end because modules, `retries` and
waits are bounded.  `RenameTestCase` and `IgnoredUnreachable`, which leave the
section as it is, get no fairness, and nothing is assumed of *which* way a test
goes.  `LogExtractor` has `WF(ExtractNext)`: it is one thread that nothing holds up.
`GuestAddress` has `WF(Task)`, the next task or the next try: every module it calls
has a timeout and every `until` a number of retries.  The guest, the reports and
other machines get no fairness: a VM that never boots is among the behaviours.

**Runs with an expected violation** each show that the code does not do what a
comment or the documentation says of it.

| Run | Violated | What the code does |
| --- | --- | --- |
| `TestSuiteVmKept` | `VmOfFailedRunIsKept` | `cleanup_vm` removes the VM also after failed tests |
| `GosvLogDirLink` | `OldLinkIsUnlinked` | `os.path.exists` follows the link: a dangling one is not removed, and `os.symlink` raises.  The link dangles although nobody removed anything: a run whose log folder could not be created has left it |

Other differences between code and documentation, met while modelling, that have no
run of their own:

* `docs/TESTCASE_DEV_GUIDE.md:87` has a test that includes `skip_test_case.yml` end
  with the result that it names; one that had a task with `ignore_unreachable` before
  it stays `Failed` (`plugin:1044`).
* `docs/TESTCASE_DEV_GUIDE.md:97` has a failed test collect evidence into its log
  folder; one that fails ahead of `test_setup.yml`
  (`linux/cpu_hot_add_basic/cpu_hot_add_basic.yml:48`) still has the folder of the
  test before.
* `docs/TESTCASE_DEV_GUIDE.md:79` has the set-up revert to the base snapshot; on a
  new VM (`common/base_snapshot_check_revert.yml:12`) nobody looks for one whose
  creation failed half-way, and the next test tries to create it again.
* `plugin:638` and `:640`: paths of failed tasks are remembered for the play, so that
  a failed item of a file included a second time has no banner of its own.
* `plugin:1225` announces an update of the versions in the inbox driver file, which
  `plugin:857` and `:862` make only where the file has no such key;
  `linux/check_inbox_driver/check_inbox_driver.yml:44` always writes both, `N/A` for
  want of a version.
* `plugin:172`: a vars file with `vcenter_hostname:` and no value behind it makes the
  table of servers raise; `results.log` lacks the results then.
  `TestbedIsPrinted` and `SummaryRaises` of `GuestInfo` have that case; no property is
  about it, as nothing follows but what the table raises.
* `env_setup/create_local_log_path.yml:5` sets `testrun_log_path` ahead of creating the
  folder, and `plugin:1258` takes the fact for the folder.  If the folder could not be
  created, `cp` fails, the only copy of the logs is removed, `current` points to a
  folder that never was, and the next run has no test case list
  (`LinkResolves` and `UndisturbedIsListed` say so).
* `tools/extractor.py:117` puts what is left of `Traceback` into a pattern as it is.  With
  a prefix such as `(` or `    | ` `re.error` ends the tool, and nothing of what has
  been collected is printed (`PrintsAllOrNothing`).
* `common/vm_wait_connection.yml:21` waits until somebody answers at `vm_guest_ip`.  A
  stale address that another machine has by now passes, and
  `common/update_inventory.yml` puts it into `target_vm`.  `CallEnds` therefore
  speaks of calls during which the VM, the reports and the other machines stay as they
  are, and the reports are those of the VM.
* `common/vm_get_ip_from_notools.yml:27` resets a VM without a world number; it is
  never reached, as `common/vm_get_world_id.yml:28` asserts that there is one.

Runs of the same second share `log_dir` (its name has a resolution of one second).
The checked runs of `GosvLogDir` have `SameSecond = FALSE`; with `TRUE`,
`LogsAreKept` fails: the first run to end removes the folder of the other.

## 4. Mutants

Every property of a passing run has a mutant in `PROJECT.json`: a definition in the
same module that changes one definition of the model the way a plausible bug would
(a pop that is missing, a guard that only tests for existence, a revert that is left
out), under which TLC finds the property violated.

## 5. What is proved

`GosvTestRunsProofs` proves, for every test case list, every set of names and
blockers, and any number of events:

* `TypeCorrect`, `BookkeepingCorrect`, `EventsCorrect`, `BlockedCorrect`: the
  invariants of the run `GosvTestRuns`;
* `VerdictsFinal`: the action property `VerdictIsFinal`;
* `Implements`: the plugin implements `TestVerdicts`, with `status` read from
  `testRuns` and `reported` from `phase`.

Assumptions are those declared in `GosvTestRuns`: the list is a finite sequence of
names, no test case is named like the three plays around the tests, and all names
of `deploy_vm` match `blocker_pattern`.

None of the properties is inductive.  `Bookkeeping` says that the pending tests are
a tail of the list, but not *which*; a play start that finds its test by counting
needs to know that the number of completed tests is the number of plays that are
over.  The invariant `IInv` says so.  `Shape(runs, pending, c, n)` is the shape of
the bookkeeping when `c` tests have a verdict and test `n` runs.  `ShapeOfPlaying`
ties `c` and `n` to `played`, the number of plays started: the test of this play
either runs or is decided, and `lastTest` is its position.  `ShapeOfRecap`
describes the results.  `NoTests` covers a list that was not loaded.  The proof has
one lemma per action; `CompleteSettles` is shared by all handlers that complete a
test, and `NextTest` shows that counting finds the right position.  It uses that a
listed name differs from the plays around the tests.  `RefineStep` uses the same
lemmas.  `RefineEnd` rests on the fact that all failed blockers precede all pending
tests, so that these are all blocked or none is.

`GuestAliasProofs` proves, for any finite set of other users, any certificates and
any number of invocations:

* `TypeCorrect` and `PassedClean`: the invariants of the run `GuestAlias`;
* `VerdictTrue`: the action property `VerdictIsTrue`.

`PassedMeansClean` speaks of the end only.  The invariant has, besides the types,
`ToolInv` (within an invocation: no result before the `finally` section, and the
operation fits the step), `AliasesInv` (the test's guest user has no aliases but
the test user's, and from a successful removal on not this one either) and
`TestInv` (what each phase of the test case has established: the token has been
accepted, the user is deleted, no invocation that ended well leaves its session
open).  The step that matters is `VerifyAlias`: a removal is reported as done if the
test user is in none of the *first* aliases, and as nobody else is mapped to the
test's guest user, no mapping has an alias behind its first (`FirstAliasesFacts`).
`VerdictTrue` needs this for any guest user: with distinct certificates a mapping
is a singleton (`OnlyAlias`, from the cardinality), and without them a success is
still true in the weaker sense that the property states.  A removal can then be
reported although the alias is there, behind another one.

`TestSuiteProofs` proves, for every list, every profile of its test cases and all
values of the parameters:

* `DrivesPlugin`: `SuiteSpec` implements `Spec` of `GosvTestRuns`
  (`SuiteDrivesPlugin`), so that the theorems above hold in the suite;
* `SuiteTypeCorrect`, `FolderNamesTest`, `VerdictsMatch` and `BlockersEndTheRun`: the
  invariants of the run `TestSuite`.

The invariant is the plugin's `IInv` and, next to it, `SectionInv` (the sections of
a test belong to the play of that test), `FolderInv` (every test that started has
moved the index on once, unless it ended ahead of its set-up), `OutcomeInv` (a test
has an outcome exactly when its sections are over), `ExitInv` (a failed test that
exits is the last) and `ShownInv`.  The last one is the core: it gives, as a
function of the outcomes and of the play that goes on, the status that the plugin
shows for each test (`Shown`), and each way of completing a test (`DecideShows`,
`PlayStartShows`, `StatsShow`) is shown to keep it.  `BlockersEndTheRun` rests on
`BlockersExitAssumption`; a blocker without `exit_testing_when_fail` would let the
run go on.

`BaseSnapshotProofs` proves, for any number of runs on a VM and of renamed
snapshots, the invariants `TypeOK`, `BaseIsSettled`, `FlagMeansSnapshot` and
`VmIsLeftAtBase`, and the action property `BodyStartsFromBase`.  To keep the effects
of a test out of the base snapshot, `SettledInv` has to keep them out of all that a
base snapshot can come from: the renamed ones, the VM that has none, the VM of which
one is about to be taken.  `FlagInv` and `AtBaseInv` say where in a run the fact is
set and the VM is reverted; `OldInv` and `OriginInv` follow a renamed snapshot to
the restore at the end.  The proofs do not work on the map of snapshots: each
action takes, removes or renames one (`ActionFacts`), and the three are described
once.

`LogProofs` proves of `GosvLogDir`, for any finite set of runs:

* `TypeCorrect`, without further assumptions;
* `LogsStay`: `LogsAreKept`, if no two runs start in the same second;
* `LinkCurrentResolves` and `UndisturbedStarts`: `LinkResolves` and
  `UndisturbedIsListed`, if besides the user leaves the logs that `current` points
  to alone.  They cover the runs whose folder could not be created: `current` resolves
  or points to the folder of such a run, which has ended; an undisturbed start has its
  list exactly if it found no link that dangles, and it finds one only behind such a
  run.

These are the values of the constants in the run `GosvLogDir`.  Each assumption is
needed: without it TLC finds the properties that rest on it violated (see section 3
for `SameSecond`).  `LinkInv`
says what a run may rely on between its system calls although others interleave:
about to set the link it has the folder, about to remove its `log_dir` it has taken
the link away from it.  `LogsInv` has the logs in `testrun_log_path` before
`log_dir` is removed, and `StartInv` relates what a start has read to what there
still is.

Of `TaskLogs` it proves, for any paths, loops and known issues and any number of
plays and tasks, `TaskLogsTypes`, `EntriesStandBelowTheirPlay` and
`FailuresAreAttributed`: the invariants `TaskTypeOK` and `EntriesNameTheirPlay` and the
action property `FailureIsAttributed` of the run `TaskLogs`.  A result decides by a
cache whether its play and its task are named ahead of it, so `PlayInv`, `KnownInv`
and `FailedInv` say what an entry of a cache stands for in the files: a failed path
that the current task has met first is the task named last.  `TaskInv` keeps tasks
apart by their uuids, which are counted up; `_last_task_uuid` is at most one behind.

Of `LogExtractor` it proves, for logs of any length and any kinds of lines:

* `ExtractorCollects`: the invariant `CollectsWhatIsExtracted`, by which the two loops
  with their cursors collect what the recursive definition says;
* `ExtractorPrintsAllOrNothing`: the invariant `PrintsAllOrNothing`; at the end all
  that is to be extracted is printed, or nothing, which is so exactly for the logs
  that have a line on which the pattern of the traceback above raises;
* `ExtractorMakesProgress`: every step lowers `Left`, a natural number.

`CursorInv` says what the loops know of the line they are on: inside of a stack, to
which traceback it belongs, outside, that it does not belong to the one before; and that no
pattern raises on a line that is passed.  The proof needs the equations of `TraceOf` and `Extract`.  They are not given: a function
defined by recursion is a CHOOSE, and that a function with this definition exists
takes an induction.  `Counting` is that induction, for a set in place of a
predicate, from the well-foundedness of strict inclusion; `Recursion` and
`RecursionTypes` give existence and types once, and `TraceFacts` and `ExtractFacts`
are their instances.

`NetworkTestbedProofs` proves, for any runs on a host, any lists of network tests,
any range of indices and whatever adapters and switches the host has:

* `TypeCorrect`, `TestsHaveNetworks`, `HostIsLeftClean`, `AdaptersAreKept`: the
  invariants `TypeOK`, `TestHasNetwork`, `NothingIsLeft` and `VmksAreKept`;
* `VdsAreBounded`: `VdsWithinMaximum` for at most two runs at the same time.

A run's `left` is always a tail of the plan of its network (`PlaceOK`), which ties
its parts to what is left (`Standing`): what must be there is what the tasks behind
have made, and, unless something has failed, nothing else is.  `NameOK` needs the
order of the tests, `IndexOK` that a second set-up fails at the switch that is there
before it takes another index.  `VmkInv` says whose the adapters are: an index taken
by a run that is not stale is free, and an adapter of a run that has not raced is its
own.  That `NewIndex` is free is proved with the least gap (`NewIndexIsFree`, from the
well-foundedness of strict inclusion).  Two results of the proof were not to be seen in
the run with two runs.  A run that has lost its adapter to another removes whichever
adapter has its index, even if a third run got it in good faith; `raced` has to pass
that on.  And `VdsWithinMaximum` needs the bound: `Check the number of vSphere
Distributed Switch` leaves room for two switches (fewer than 15, of 16), so that
three runs that count at the same time may be one too many.  `CountInv` says that
each run which has counted has found room for two.

`GuestInfoProofs` proves, for any hardware and tools versions and any list, the
invariants `TypeOK` and `InfoIsExact` of the run `GuestInfo`.
What matters is `FactsInv`: when guest information is read, the fact of the hardware
version is that of the VM.  It has to say, for each place in a run, whether the VM is
at the base snapshot's version or ahead of it, and that in the always section
`vm_current_hw_version > vm_base_hw_version` whenever the fact is not the base
snapshot's, so that it is read again; with a failed upgrade the fact may lag behind
the VM, but is then the base snapshot's or is read again.  With it, `ReadIsFiled`
shows that an entry is filed below a key that no other VM has.

`GuestAddressProofs` proves, for any leases, retries, calls and changes of the
guest, `TypeOK`, and the two parts of `CallEnds` that are not about fairness (see
below).

Liveness is out of the prover's reach, as fairness needs `ENABLED`: `RunIsConcluded`,
`CallEnds` and `Terminates` are model-checked only.  What can be proved of them for
every value of the constants is the rest of the argument, which states are
reached at the end and that a measure falls until then:

| Liveness property | Where it ends | What falls |
| --- | --- | --- |
| `RunIsConcluded` | `RecapConcludesRun`: in the recap no section is open, `env_cleanup` has been reached or `localhost` has failed, no test is "Running" | `RunMakesProgress`: `StepsLeft`, with every step of `SuiteAdvance`; the other steps keep it |
| `CallEnds` | `SteadyVmIsFound`: if the VM stayed up and reported as it is, the call has its address, and `target_vm` has it | `CallMakesProgress`: `TriesLeft`, with every try of a task; the guest, the host and other machines keep it |
| `Terminates` | `ExtractorPrintsAllOrNothing` | `ExtractorMakesProgress`: `Left` |

So only finitely many steps of these can be taken, however tasks fail; left to TLC is
that one of them can be taken, and with fairness is, until the end is reached.

## 6. What is not modelled

* Wording, layout and colours of log messages, durations, the tables of
  `results.log`: output without a property.
* What a test case does inside its block, apart from what it does to the base
  snapshot: each is a straight sequence of module calls.
* `--start-at-task`, tags, more than one host: `main.yml` has one play host.
* A failed `cp` at the end of a run loses its logs; that is in `GosvLogDir`, but no
  property speaks of it.  A callback that raises while it prints is not modelled.
* `vm_not_revert_base` (`env_setup/env_cleanup.yml:21`), with which the end of a run would
  not revert the VM: nothing in the repository sets it, and `CleanupReverts` leaves it
  out.
* What pyVim's `Disconnect` does, in `GuestAlias`: that it raises if the logout has
  failed is taken from how `vgauth_guestops.py` uses it.  The clause of
  `PassedMeansClean` about open sessions rests on that.
* `extract_calltrace_from_log`: one pass over a text with regular expressions.
* Of the VM's power state, the waits for suspend, shutdown and reset; of the guest's
  release information, the files and tables it goes to.
* Two runs of the same second on one host name their switches alike
  (`common/vss_network_setup.yml:13`); `NetworkTestbed` takes names to differ.
* `extract_error_msg`: what it makes of a task result is wording.
* Guest customization and hot-add tests: module calls in a fixed order and checks of
  their answers, in a block that `TestSuite` takes as a whole.
* Answer files, OS-specific commands, the container image: data.

## 7. Plan

Done: `TestVerdicts`, `GosvTestRuns`, `TestSuite`, `BaseSnapshot`, `GosvLogDir`,
`TaskLogs`, `LogExtractor`, `GuestAlias`, `NetworkTestbed`, `GuestInfo` and
`GuestAddress`, each with its proofs.  Every invariant and action property that a
passing run checks is a theorem.

Models to come: the waits for customization (`common/vm_wait_gosc_completed.yml`,
`linux/guest_customization`) on top of `GuestAddress`, and `extract_error_msg` as a
definition on task results.
