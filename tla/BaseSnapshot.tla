---------------------------- MODULE BaseSnapshot ----------------------------
(***************************************************************************)
(* The base snapshot of the VM under test.  Every test case starts from it *)
(* (setup/test_setup.yml), some move it to what they have installed        *)
(* (common/reset_base_snapshot.yml), env_cleanup.yml goes back to it, and  *)
(* a later run on the same VM finds it there.                              *)
(*                                                                         *)
(* The VM and its snapshots outlive a run; the facts of Ansible            *)
(* (base_snapshot_exists, win_update_snapshot_name) do not.  Any task may  *)
(* fail, and a run may be aborted between any two tasks.                   *)
(***************************************************************************)
EXTENDS Naturals

CONSTANTS
    MaxRuns,        \* bound: runs on the same VM
    MaxRenames,     \* bound: base snapshots that were renamed
    ExitWhenFail,   \* exit_testing_when_fail of vars/test.yml
    CleanupVm       \* cleanup_vm of vars/test.yml

ASSUME BaseSnapshotAssumption ==
    /\ MaxRuns \in Nat
    /\ MaxRenames \in Nat
    /\ {ExitWhenFail, CleanupVm} \subseteq BOOLEAN

VARIABLES
    pc,         \* what the run has come to
    run,        \* number of the run
    vmExists,   \* vm_exists
    vm,         \* what has been done to the VM
    snaps,      \* the VM's snapshots: what had been done when each was taken
    current,    \* name of the current snapshot
    newVm,      \* new_vm
    flag,       \* base_snapshot_exists; undefined is FALSE
    oldName,    \* win_update_snapshot_name, NoName when it is undefined
    kind,       \* what the current test case does with the base snapshot
    how,        \* how reset_base_snapshot.yml treats the old one
    renames,    \* number of base snapshots renamed, their timestamp
    adopted,    \* history: cleanup_old_snapshots made test effects permanent
    origin      \* history: the base snapshot windows_update_install renamed

world == <<vmExists, vm, snaps, current>>
facts == <<newVm, flag, oldName>>
history == <<adopted, origin>>
vars == <<pc, run, world, facts, kind, how, renames, history>>

-----------------------------------------------------------------------------
(* "effects" are those of a test case that is not meant to leave any, or   *)
(* of an installation that was not completed.                              *)
Marks    == {"config", "tools", "update", "effects"}
Contents == SUBSET Marks

(* The base snapshot, those that test cases and test_rescue.yml take, and  *)
(* the renamed ones: <base_snapshot_name>-<timestamp>.                     *)
Base     == <<"base", 0>>
Other    == <<"other", 0>>
Old(n)   == <<"old", n>>
NoName   == <<"none", 0>>
SnapNames == {Base, Other} \cup {Old(n) : n \in 1..MaxRenames}

(* remove: wintools_complete_install_verify, guest_os_inplace_upgrade and  *)
(* windows_online_updates_install; rename: ovt_verify_pkg_install and      *)
(* ovt_verify_src_install; update: windows_update_install.                 *)
Kinds == {"plain", "remove", "rename", "update"}

Exists(name) == name \in DOMAIN snaps

With(name, content) ==
    [n \in DOMAIN snaps \cup {name} |-> IF n = name THEN content ELSE snaps[n]]

Without(name) == [n \in DOMAIN snaps \ {name} |-> snaps[n]]

Renamed(from, to) ==
    [n \in (DOMAIN snaps \ {from}) \cup {to} |-> IF n = to THEN snaps[from] ELSE snaps[n]]

(* vm_revert_snapshot.yml of a snapshot that exists.                       *)
RevertTo(name) ==
    /\ vm' = snaps[name]
    /\ current' = name
    /\ UNCHANGED <<vmExists, snaps>>

(* vm_take_snapshot.yml: nothing is taken when the name is already there,  *)
(* what is asserted afterwards is that the current snapshot has the name.  *)
Take(name, content) ==
    IF Exists(name)
    THEN UNCHANGED <<snaps, current>>
    ELSE snaps' = With(name, content) /\ current' = name

(* Mutant: the removed snapshot is still taken for the current one.        *)
RemoveKeepsCurrent(name) ==
    /\ snaps' = Without(name)
    /\ UNCHANGED current

(* vm_remove_snapshot.yml: a parent becomes current if the current goes.   *)
Remove(name) ==
    /\ snaps' = Without(name)
    /\ IF current = name
       THEN current' \in {NoName} \cup (DOMAIN snaps \ {name})
       ELSE UNCHANGED current

NoSnaps == [n \in {} |-> {}]

Init ==
    /\ pc = "start"
    /\ run = 1
    /\ vmExists \in BOOLEAN
    /\ vm = {}
    /\ snaps = NoSnaps
    /\ current = NoName
    /\ newVm = FALSE
    /\ flag = FALSE
    /\ oldName = NoName
    /\ kind = "plain"
    /\ how = "rename"
    /\ renames = 0
    /\ adopted = FALSE
    /\ origin = {}

-----------------------------------------------------------------------------
(* env_setup.yml: new_vm must fit the VM, else the run ends there.         *)
EnvSetup ==
    /\ pc = "start"
    /\ newVm' = ~ vmExists
    /\ flag' = FALSE
    /\ oldName' = NoName
    /\ pc' = IF vmExists THEN "existing" ELSE "deploy"
    /\ UNCHANGED <<run, world, kind, how, renames, history>>

(* existing_vm_setup.yml: cleanup_old_snapshots is false, or all snapshots *)
(* are removed, with a revert to revert_to_snapshot before or without.     *)
KeepSnapshots ==
    /\ pc = "existing"
    /\ pc' = "idle"
    /\ UNCHANGED <<run, world, facts, kind, how, renames, history>>

CleanupSnapshots ==
    /\ pc = "existing"
    /\ \E content \in {vm} \cup {snaps[n] : n \in DOMAIN snaps} :
         /\ vm' = content
         /\ adopted' = (adopted \/ "effects" \in content)
    /\ snaps' = NoSnaps
    /\ current' = NoName
    /\ pc' = "idle"
    /\ UNCHANGED <<run, vmExists, facts, kind, how, renames, origin>>

(* deploy_vm.yml, from an OVA with a snapshot of its own.                  *)
DeployVm ==
    /\ pc = "deploy"
    /\ vmExists' = TRUE
    /\ vm' = {}
    /\ \/ UNCHANGED <<snaps, current>>
       \/ Take(Other, {})
    /\ pc' = "idle"
    /\ UNCHANGED <<run, facts, kind, how, renames, history>>

-----------------------------------------------------------------------------
BeginTest ==
    /\ pc = "idle"
    /\ kind' \in Kinds
    /\ pc' = "setup"
    /\ UNCHANGED <<run, world, facts, how, renames, history>>

(* Mutant: only the fact is looked at, it is unknown in a new run.         *)
OnlyByFact == flag

(* base_snapshot_check_revert.yml: the check is left out for a new VM.     *)
BaseFound == flag \/ (~ newVm /\ Exists(Base))

(* Mutant: the existing base snapshot is found, but not reverted to.       *)
FoundIsEnough ==
    /\ pc = "setup"
    /\ flag' = BaseFound
    /\ UNCHANGED world
    /\ pc' = "ready"
    /\ UNCHANGED <<run, newVm, oldName, kind, how, renames, history>>

CheckAndRevert ==
    /\ pc = "setup"
    /\ flag' = BaseFound
    /\ IF ~ BaseFound THEN UNCHANGED world /\ pc' = "ready"
       ELSE IF Exists(Base) THEN RevertTo(Base) /\ pc' = "ready"
       ELSE UNCHANGED world /\ pc' = "rescue"
    /\ UNCHANGED <<run, newVm, oldName, kind, how, renames, history>>

(* Also the "Blocked" of skip_test_case.yml without VMware Tools.          *)
SetupFails ==
    /\ pc \in {"setup", "ready"}
    /\ pc' = "rescue"
    /\ UNCHANGED <<run, world, facts, kind, how, renames, history>>

(* create_base_snapshot.yml: reconfigure, take, set the fact.              *)
CreateBase ==
    /\ pc = "ready"
    /\ ~ flag
    /\ vm' = vm \cup {"config"}
    /\ Take(Base, vm')
    /\ flag' = (current' = Base)
    /\ pc' = IF current' = Base THEN "body" ELSE "rescue"
    /\ UNCHANGED <<run, vmExists, newVm, oldName, kind, how, renames, history>>

(* It fails while it reconfigures, or when it looks at what it has taken.  *)
CreateBaseFails ==
    /\ pc = "ready"
    /\ ~ flag
    /\ vm' = vm \cup {"config"}
    /\ Take(Base, vm') \/ UNCHANGED <<snaps, current>>
    /\ pc' = "rescue"
    /\ UNCHANGED <<run, vmExists, facts, kind, how, renames, history>>

StartBody ==
    /\ pc = "ready"
    /\ flag
    /\ pc' = "body"
    /\ UNCHANGED <<run, world, facts, kind, how, renames, history>>

-----------------------------------------------------------------------------
Resets == kind # "plain"

(* A test case at work, check_quiesce_snapshot takes snapshots as well.    *)
Body ==
    /\ pc = "body"
    /\ ~ Resets
    /\ vm' = vm \cup {"effects"}
    /\ Take(Other, vm') \/ UNCHANGED <<snaps, current>>
    /\ UNCHANGED <<pc, run, vmExists, facts, kind, how, renames, history>>

(* What a test case was at when it was interrupted may be half-done.       *)
Interrupted ==
    /\ \/ UNCHANGED vm
       \/ pc = "body" /\ vm' = vm \cup {"effects"}
    /\ UNCHANGED <<run, vmExists, snaps, current, facts, kind, how, renames, history>>

BodyFails ==
    /\ pc \in {"body", "reset", "take", "save"}
    /\ Interrupted
    /\ pc' = "rescue"

(* Passed, or skipped in the middle of it.                                 *)
TestEnds ==
    /\ pc = "body"
    /\ pc' = "idle"
    /\ UNCHANGED <<run, world, facts, kind, how, renames, history>>

Installs == IF kind = "update" THEN "update" ELSE "tools"

(* What a test case has installed is verified before the snapshot is reset; *)
(* windows_update_install resets it for the online updates, too, and then  *)
(* removes the old one.                                                    *)
Installed ==
    /\ pc = "body"
    /\ Resets
    /\ vm' = vm \cup {Installs}
    /\ how' \in IF kind = "update" THEN {"remove", "rename"} ELSE {kind}
    /\ pc' = "reset"
    /\ UNCHANGED <<run, vmExists, snaps, current, facts, kind, renames, history>>

(* install_online_updates.yml: some updates are installed and others have  *)
(* failed.  The base snapshot stays, and the test case goes on.            *)
PartlyInstalled ==
    /\ pc = "body"
    /\ kind = "update"
    /\ vm' = vm \cup {"update"}
    /\ UNCHANGED <<pc, run, vmExists, snaps, current, facts, kind, how, renames, history>>

(* reset_base_snapshot.yml, first half: the old one goes.                  *)
RemoveOldBase ==
    /\ pc = "reset"
    /\ how = "remove"
    /\ IF Exists(Base) THEN Remove(Base) ELSE UNCHANGED <<snaps, current>>
    /\ pc' = "take"
    /\ UNCHANGED <<run, vmExists, vm, facts, kind, how, renames, history>>

(* The rename waits for the current snapshot to have the new name.         *)
RenameBase ==
    /\ renames < MaxRenames
    /\ renames' = renames + 1
    /\ snaps' = Renamed(Base, Old(renames'))
    /\ current' = IF current = Base THEN Old(renames') ELSE current
    /\ pc' = IF current = Base THEN "take" ELSE "rescue"
    /\ origin' = IF kind = "update" THEN snaps[Base] ELSE origin

RenameOldBase ==
    /\ pc = "reset"
    /\ how = "rename"
    /\ IF Exists(Base)
       THEN RenameBase
       ELSE pc' = "take" /\ UNCHANGED <<renames, snaps, current, origin>>
    /\ UNCHANGED <<run, vmExists, vm, facts, kind, how, adopted>>

(* Second half: the new one is taken, the fact is set.                     *)
TakeNewBase ==
    /\ pc = "take"
    /\ Take(Base, vm)
    /\ flag' = TRUE
    /\ pc' = IF kind # "update" THEN "idle" ELSE IF how = "remove" THEN "body" ELSE "save"
    /\ UNCHANGED <<run, vmExists, vm, newVm, oldName, kind, how, renames, history>>

(* windows_update_install keeps the name for env_cleanup.                  *)
SaveOldName ==
    /\ pc = "save"
    /\ oldName' = Old(renames)
    /\ pc' = "idle"
    /\ UNCHANGED <<run, world, newVm, flag, kind, how, renames, history>>

-----------------------------------------------------------------------------
(* Mutant: a test case that resets the base snapshot lets the run go on.   *)
RescueGoesOn ==
    /\ pc = "rescue"
    /\ Take(Other, vm) \/ UNCHANGED <<snaps, current>>
    /\ pc' = IF ExitWhenFail THEN "aborted" ELSE "idle"
    /\ UNCHANGED <<run, vmExists, vm, facts, kind, how, renames, history>>

(* test_rescue.yml: take_fail_snapshot, then the exit that every test case *)
(* that resets the base snapshot asks for.                                 *)
Rescue ==
    /\ pc = "rescue"
    /\ Take(Other, vm) \/ UNCHANGED <<snaps, current>>
    /\ pc' = IF ExitWhenFail \/ Resets THEN "aborted" ELSE "idle"
    /\ UNCHANGED <<run, vmExists, vm, facts, kind, how, renames, history>>

(* The host is unreachable, a task fails that nothing rescues, or the      *)
(* ansible-playbook process is stopped.                                    *)
Abort ==
    /\ pc \notin {"start", "ended", "aborted"}
    /\ Interrupted
    /\ pc' = "aborted"

-----------------------------------------------------------------------------
(* env_cleanup.yml.                                                        *)
BeginCleanup ==
    /\ pc = "idle"
    /\ pc' = "cleanup"
    /\ UNCHANGED <<run, world, facts, kind, how, renames, history>>

(* skip_if_not_exist: a missing snapshot is no failure.                    *)
CleanupReverts ==
    /\ pc = "cleanup"
    /\ IF flag /\ Exists(Base) THEN RevertTo(Base) ELSE UNCHANGED world
    /\ pc' = "cleaned"
    /\ UNCHANGED <<run, facts, kind, how, renames, history>>

RemoveVm ==
    /\ pc = "cleaned"
    /\ IF CleanupVm /\ newVm
       THEN /\ vmExists' = FALSE
            /\ vm' = {}
            /\ snaps' = NoSnaps
            /\ current' = NoName
            /\ adopted' = FALSE
       ELSE UNCHANGED <<world, adopted>>
    /\ pc' = "restore"
    /\ UNCHANGED <<run, facts, kind, how, renames, origin>>

(* Mutant: the base snapshot is replaced under the VM as it is.            *)
RestoreDoesNotRevert ==
    /\ pc = "restore"
    /\ pc' = IF oldName # NoName /\ vmExists THEN "remove base" ELSE "ended"
    /\ UNCHANGED <<run, world, facts, kind, how, renames, history>>

RestoreReverts ==
    /\ pc = "restore"
    /\ IF oldName = NoName \/ ~ vmExists THEN UNCHANGED world /\ pc' = "ended"
       ELSE IF Exists(oldName) THEN RevertTo(oldName) /\ pc' = "remove base"
       ELSE UNCHANGED world /\ pc' = "aborted"
    /\ UNCHANGED <<run, facts, kind, how, renames, history>>

RestoreRemoves ==
    /\ pc = "remove base"
    /\ IF flag THEN Remove(Base) ELSE UNCHANGED <<snaps, current>>
    /\ pc' = "rename base"
    /\ UNCHANGED <<run, vmExists, vm, facts, kind, how, renames, history>>

RestoreRenames ==
    /\ pc = "rename base"
    /\ snaps' = Renamed(oldName, Base)
    /\ current' = IF current = oldName THEN Base ELSE current
    /\ pc' = IF current = oldName THEN "ended" ELSE "aborted"
    /\ UNCHANGED <<run, vmExists, vm, facts, kind, how, renames, history>>

NextRun ==
    /\ pc \in {"ended", "aborted"}
    /\ run < MaxRuns
    /\ run' = run + 1
    /\ pc' = "start"
    /\ UNCHANGED <<world, facts, kind, how, renames, history>>

-----------------------------------------------------------------------------
Next ==
    \/ EnvSetup
    \/ KeepSnapshots
    \/ CleanupSnapshots
    \/ DeployVm
    \/ BeginTest
    \/ CheckAndRevert
    \/ SetupFails
    \/ CreateBase
    \/ CreateBaseFails
    \/ StartBody
    \/ Body
    \/ BodyFails
    \/ TestEnds
    \/ Installed
    \/ PartlyInstalled
    \/ RemoveOldBase
    \/ RenameOldBase
    \/ TakeNewBase
    \/ SaveOldName
    \/ Rescue
    \/ Abort
    \/ BeginCleanup
    \/ CleanupReverts
    \/ RemoveVm
    \/ RestoreReverts
    \/ RestoreRemoves
    \/ RestoreRenames
    \/ NextRun

Spec == Init /\ [][Next]_vars

-----------------------------------------------------------------------------
Steps ==
    {"start", "existing", "deploy", "idle", "setup", "ready", "body", "reset",
     "take", "save", "rescue", "cleanup", "cleaned", "restore", "remove base",
     "rename base", "ended", "aborted"}

(* Types of the VM, its snapshots and the facts of the run.                *)
TypeOK ==
    /\ pc \in Steps
    /\ run \in Nat
    /\ vmExists \in BOOLEAN /\ newVm \in BOOLEAN
    /\ flag \in BOOLEAN /\ adopted \in BOOLEAN
    /\ vm \in Contents
    /\ DOMAIN snaps \subseteq SnapNames
    /\ snaps \in [DOMAIN snaps -> Contents]
    /\ current \in {NoName} \cup DOMAIN snaps
    /\ oldName \in {NoName} \cup {Old(n) : n \in 1..MaxRenames}
    /\ kind \in Kinds
    /\ how \in {"remove", "rename"}
    /\ renames \in 0..MaxRenames
    /\ origin \in Contents

(* No base snapshot, also not one that a run aborted anywhere leaves to    *)
(* the next run, holds the effects of a test case, unless the user had the *)
(* snapshots removed at a VM state that holds them.                        *)
BaseIsSettled ==
    (Exists(Base) /\ ~ adopted) => "effects" \notin snaps[Base]

(* A test case body starts from the base snapshot and nothing else.        *)
BodyStartsFromBase ==
    [][(pc # "body" /\ pc' = "body") =>
         /\ current' = Base
         /\ vm' = snaps'[Base]]_vars

(* base_snapshot_exists is never checked again once it is true: whenever   *)
(* a test case or env_cleanup acts on it, the snapshot is there.           *)
FlagMeansSnapshot ==
    (flag /\ pc \in {"idle", "setup", "ready", "body", "cleanup", "remove base"})
      => Exists(Base)

(* A run that came to its end leaves an existing VM at its base snapshot,  *)
(* which, if windows_update_install has replaced it, is the one before the *)
(* update.                                                                 *)
VmIsLeftAtBase ==
    (pc = "ended" /\ vmExists /\ flag) =>
      /\ Exists(Base)
      /\ current = Base
      /\ vm = snaps[Base]
      /\ oldName # NoName => snaps[Base] = origin /\ ~ Exists(oldName)
=============================================================================
