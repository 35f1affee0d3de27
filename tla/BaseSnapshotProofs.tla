------------------------- MODULE BaseSnapshotProofs -------------------------
(***************************************************************************)
(* Proofs about BaseSnapshot, for any number of runs and of renamed base   *)
(* snapshots, and for both settings of exit_testing_when_fail and          *)
(* cleanup_vm.                                                             *)
(*                                                                         *)
(* base_snapshot_exists is a fact of the run, never checked again: the     *)
(* invariant says at which steps it still holds of the VM, what the VM is  *)
(* then like, and why a run that gives up in between leaves a snapshot, or *)
(* a VM without one, that the next run may use.                            *)
(***************************************************************************)
EXTENDS BaseSnapshot, TLAPS

(* Steps of a run whose VM is there.                                       *)
WithVm ==
    {"existing", "idle", "setup", "ready", "body", "reset", "take", "save",
     "rescue", "cleanup", "cleaned", "remove base", "rename base"}

(* A VM that is not there has nothing; the facts are those of the run.     *)
VmInv ==
    /\ pc \in WithVm => vmExists
    /\ ~ vmExists => snaps = NoSnaps /\ current = NoName /\ vm = {}
    /\ pc \in {"existing", "deploy"} => ~ flag /\ oldName = NoName
    /\ pc = "existing" => ~ newVm
    /\ pc = "deploy" => ~ vmExists

(* base_snapshot_exists is true of the VM wherever a run goes on with it.  *)
FlagInv ==
    /\ flag =>
         /\ pc \in {"idle", "setup", "ready", "body", "reset", "save", "cleanup",
                    "cleaned", "remove base"} => Exists(Base)
         /\ pc = "rescue" /\ ~ Resets => Exists(Base)
         /\ pc = "restore" /\ vmExists => Exists(Base)
    /\ pc \in {"body", "reset", "take", "save"} => flag
    /\ pc \in {"reset", "take", "save"} => Resets
    /\ pc = "take" => ~ Exists(Base)

AtBase == Exists(Base) /\ current = Base /\ vm = snaps[Base]

(* Where a test case or env_cleanup has reverted, the VM is at its base    *)
(* snapshot; in a new VM whose base snapshot was taken but not booked,     *)
(* taking it again finds it as it is.                                      *)
AtBaseInv ==
    /\ pc = "ready" /\ flag => AtBase
    /\ pc = "ready" /\ ~ flag /\ ~ newVm => ~ Exists(Base)
    /\ pc \in {"idle", "setup", "ready", "rescue"} /\ ~ flag /\ newVm
         /\ Exists(Base) /\ current = Base => vm = snaps[Base] /\ "config" \in vm
    /\ pc = "cleaned" /\ flag => AtBase
    /\ pc = "restore" /\ flag /\ vmExists => AtBase

(* Unless the user adopted them, the effects of a test case are nowhere a  *)
(* base snapshot may come from: not in one, nor in a renamed one, nor in   *)
(* the VM when there is none, or when one of it is about to be taken.      *)
SettledInv ==
    ~ adopted =>
      /\ Exists(Base) => "effects" \notin snaps[Base]
      /\ \A n \in 1..MaxRenames : Exists(Old(n)) => "effects" \notin snaps[Old(n)]
      /\ ~ Exists(Base) => "effects" \notin vm
      /\ pc \in {"body", "reset", "take"} /\ Resets => "effects" \notin vm

(* Renamed snapshots are numbered as they are renamed.                     *)
OldInv ==
    /\ \A n \in 1..MaxRenames : Exists(Old(n)) => n <= renames
    /\ \A n \in 1..MaxRenames : oldName = Old(n) => n <= renames

(* The old name is that of the base snapshot before the update, as long as *)
(* the run goes on.                                                        *)
Updating == pc \in {"take", "save"} /\ kind = "update" /\ how = "rename"

OriginInv ==
    /\ pc = "save" => kind = "update" /\ how = "rename"
    /\ Updating => /\ renames \in 1..MaxRenames
                   /\ Exists(Old(renames))
                   /\ snaps[Old(renames)] = origin
    /\ oldName # NoName /\ Exists(oldName) /\ ~ Updating
         /\ pc \notin {"start", "ended", "aborted"}
         /\ ~ (pc = "rescue" /\ Resets)
       => snaps[oldName] = origin
    /\ pc \in {"remove base", "rename base"} =>
         /\ oldName # NoName
         /\ Exists(oldName)
         /\ current = oldName
         /\ vm = snaps[oldName]

-----------------------------------------------------------------------------
(* The names of snapshots differ.                                          *)
LEMMA NameFacts ==
    /\ Base # Other /\ Base # NoName /\ Other # NoName
    /\ \A n : Old(n) # Base /\ Old(n) # Other /\ Old(n) # NoName
    /\ \A n, k : Old(n) = Old(k) => n = k
  BY DEF Base, Other, NoName, Old

(* win_update_snapshot_name is undefined or a renamed snapshot's.          *)
LEMMA OldNameFacts ==
    ASSUME TypeOK
    PROVE  \/ oldName = NoName
           \/ \E n \in 1..MaxRenames : oldName = Old(n)
  BY DEF TypeOK

(* What an action finds of the snapshots afterwards.                       *)
Took(name, content) ==
    /\ DOMAIN snaps' = DOMAIN snaps \cup {name}
    /\ \A n \in DOMAIN snaps : snaps'[n] = snaps[n]
    /\ Exists(name) => current' = current
    /\ ~ Exists(name) => snaps'[name] = content /\ current' = name

Removed(name) ==
    /\ DOMAIN snaps' = DOMAIN snaps \ {name}
    /\ \A n \in DOMAIN snaps \ {name} : snaps'[n] = snaps[n]
    /\ current # name => current' = current
    /\ current' \in {NoName, current} \cup DOMAIN snaps'
    /\ current' # name

RenamedTo(from, to) ==
    /\ DOMAIN snaps' = (DOMAIN snaps \ {from}) \cup {to}
    /\ \A n \in DOMAIN snaps \ {from, to} : snaps'[n] = snaps[n]
    /\ snaps'[to] = snaps[from]

SnapsTyped == snaps \in [DOMAIN snaps -> Contents]

(* vm_take_snapshot.yml, vm_remove_snapshot.yml and renaming do just that. *)
LEMMA TakeFacts ==
    ASSUME NEW name, NEW content, Take(name, content)
    PROVE  /\ Took(name, content)
           /\ SnapsTyped /\ content \in Contents => SnapsTyped'
<1>1. CASE Exists(name)
  BY <1>1 DEF Take, Took, Exists, SnapsTyped
<1>2. CASE ~ Exists(name)
  <2>1. snaps' = With(name, content) /\ current' = name
    BY <1>2 DEF Take
  <2> QED
    BY <1>2, <2>1 DEF With, Took, Exists, SnapsTyped
<1> QED
  BY <1>1, <1>2

(* Removal of a snapshot, in the terms of Removed.                         *)
LEMMA RemoveFacts ==
    ASSUME NEW name, name # NoName, Remove(name)
    PROVE  /\ Removed(name)
           /\ SnapsTyped => SnapsTyped'
  BY DEF Remove, Without, Removed, SnapsTyped

(* A renamed snapshot, in the terms of RenamedTo.                          *)
LEMMA RenamedFacts ==
    ASSUME NEW from, NEW to, snaps' = Renamed(from, to)
    PROVE  /\ RenamedTo(from, to)
           /\ SnapsTyped /\ Exists(from) => SnapsTyped'
  BY DEF Renamed, RenamedTo, SnapsTyped, Exists

(* Contents of snapshots that are left alone, and of one of them.          *)
LEMMA SameTyped ==
    ASSUME SnapsTyped, snaps' = snaps
    PROVE  SnapsTyped'
  BY DEF SnapsTyped

(* A snapshot that is there has a content.                                 *)
LEMMA ContentOf ==
    ASSUME SnapsTyped, NEW name, Exists(name)
    PROVE  snaps[name] \in Contents
  BY DEF SnapsTyped, Exists

SameSnaps == UNCHANGED <<snaps, current>>

(* What each action does to the snapshots, in these terms.                 *)
LEMMA ActionFacts ==
    /\ DeployVm => SameSnaps \/ Took(Other, {})
    /\ CreateBase => Took(Base, vm')
    /\ CreateBaseFails => SameSnaps \/ Took(Base, vm')
    /\ Body => SameSnaps \/ Took(Other, vm')
    /\ RemoveOldBase => (~ Exists(Base) /\ SameSnaps) \/ Removed(Base)
    /\ RenameOldBase => (~ Exists(Base) /\ SameSnaps) \/ RenamedTo(Base, Old(renames'))
    /\ TakeNewBase => Took(Base, vm)
    /\ Rescue => SameSnaps \/ Took(Other, vm)
    /\ RestoreRemoves => SameSnaps \/ Removed(Base)
    /\ RestoreRenames => RenamedTo(oldName, Base)
<1>1. DeployVm => SameSnaps \/ Took(Other, {})
  BY TakeFacts DEF DeployVm, SameSnaps
<1>2. CreateBase => Took(Base, vm')
  BY TakeFacts DEF CreateBase, SameSnaps
<1>3. CreateBaseFails => SameSnaps \/ Took(Base, vm')
  BY TakeFacts DEF CreateBaseFails, SameSnaps
<1>4. Body => SameSnaps \/ Took(Other, vm')
  BY TakeFacts DEF Body, SameSnaps
<1>5. RemoveOldBase => (~ Exists(Base) /\ SameSnaps) \/ Removed(Base)
  BY RemoveFacts, NameFacts DEF RemoveOldBase, SameSnaps
<1>6. RenameOldBase => (~ Exists(Base) /\ SameSnaps) \/ RenamedTo(Base, Old(renames'))
  BY RenamedFacts DEF RenameOldBase, RenameBase, SameSnaps
<1>7. TakeNewBase => Took(Base, vm)
  BY TakeFacts DEF TakeNewBase
<1>8. Rescue => SameSnaps \/ Took(Other, vm)
  BY TakeFacts DEF Rescue, SameSnaps
<1>9. RestoreRemoves => SameSnaps \/ Removed(Base)
  BY RemoveFacts, NameFacts DEF RestoreRemoves, SameSnaps
<1>10. RestoreRenames => RenamedTo(oldName, Base)
  BY RenamedFacts DEF RestoreRenames
<1> QED
  BY <1>1, <1>2, <1>3, <1>4, <1>5, <1>6, <1>7, <1>8, <1>9, <1>10

(* No snapshots are left, no contents are left.                            *)
LEMMA NoSnapsFacts ==
    /\ DOMAIN NoSnaps = {}
    /\ snaps' = NoSnaps => SnapsTyped'
  BY DEF NoSnaps, SnapsTyped

(* Whatever is done to a VM gives contents.                                *)
LEMMA ContentFacts ==
    /\ {} \in Contents
    /\ \A c \in Contents : \A m \in {"config", "tools", "update", "effects"} :
         c \cup {m} \in Contents
  BY DEF Contents, Marks

(* Types of the steps and facts, of contents, and of names.                *)
TypeSteps ==
    /\ pc \in Steps
    /\ run \in Nat
    /\ vmExists \in BOOLEAN /\ newVm \in BOOLEAN
    /\ flag \in BOOLEAN /\ adopted \in BOOLEAN
    /\ kind \in Kinds
    /\ how \in {"remove", "rename"}
    /\ renames \in 0..MaxRenames

TypeContents ==
    /\ vm \in Contents
    /\ SnapsTyped
    /\ origin \in Contents

TypeNames ==
    /\ DOMAIN snaps \subseteq SnapNames
    /\ current \in {NoName} \cup DOMAIN snaps
    /\ oldName \in {NoName} \cup {Old(n) : n \in 1..MaxRenames}

(* They are all the types there are.                                       *)
LEMMA TypeParts ==
    TypeOK <=> TypeSteps /\ TypeContents /\ TypeNames
  BY DEF TypeOK, TypeSteps, TypeContents, TypeNames, SnapsTyped

(* Runs and renames are counted, renames up to the bound.                  *)
LEMMA RunFacts ==
    ASSUME TypeSteps, NextRun
    PROVE  run' \in Nat
<1>1. run \in Nat /\ run' = run + 1
  BY DEF TypeSteps, NextRun
<1> QED
  BY <1>1

(* A rename takes a number that no earlier one has had.                    *)
LEMMA RenamesFacts ==
    ASSUME TypeSteps, RenameBase
    PROVE  /\ renames \in Nat /\ renames' = renames + 1
           /\ renames' \in 1..MaxRenames
           /\ ~ (renames' <= renames)
<1>1. renames \in 0..MaxRenames /\ renames < MaxRenames /\ renames' = renames + 1
  BY DEF TypeSteps, RenameBase
<1>2. MaxRenames \in Nat
  BY BaseSnapshotAssumption
<1> QED
  BY <1>1, <1>2

(* Every step preserves the types of steps and facts.                      *)
LEMMA TypeStepsStep ==
    ASSUME TypeSteps, [Next]_vars
    PROVE  TypeSteps'
<1> USE BaseSnapshotAssumption DEF TypeSteps, Steps, Kinds, BaseFound, vars,
      world, facts, history, Exists, SameSnaps
<1>1. ASSUME EnvSetup
      PROVE  TypeSteps'
  BY <1>1 DEF EnvSetup
<1>2. ASSUME KeepSnapshots
      PROVE  TypeSteps'
  BY <1>2 DEF KeepSnapshots
<1>3. ASSUME CleanupSnapshots
      PROVE  TypeSteps'
  BY <1>3, NoSnapsFacts DEF CleanupSnapshots
<1>4. ASSUME DeployVm
      PROVE  TypeSteps'
  BY <1>4, ActionFacts DEF DeployVm, Took
<1>5. ASSUME BeginTest
      PROVE  TypeSteps'
  BY <1>5 DEF BeginTest
<1>6. ASSUME CheckAndRevert
      PROVE  TypeSteps'
  BY <1>6 DEF CheckAndRevert, BaseFound, RevertTo
<1>7. ASSUME SetupFails
      PROVE  TypeSteps'
  BY <1>7 DEF SetupFails
<1>8. ASSUME CreateBase
      PROVE  TypeSteps'
  BY <1>8, ActionFacts DEF CreateBase, Took
<1>9. ASSUME CreateBaseFails
      PROVE  TypeSteps'
  BY <1>9, ActionFacts DEF CreateBaseFails, Took
<1>10. ASSUME StartBody
      PROVE  TypeSteps'
  BY <1>10 DEF StartBody
<1>11. ASSUME Body
      PROVE  TypeSteps'
  BY <1>11, ActionFacts DEF Body, Took
<1>12. ASSUME BodyFails
      PROVE  TypeSteps'
  BY <1>12 DEF BodyFails, Interrupted
<1>13. ASSUME TestEnds
      PROVE  TypeSteps'
  BY <1>13 DEF TestEnds
<1>14. ASSUME Installed
      PROVE  TypeSteps'
  <2>1. how' \in {"remove", "rename"} /\ pc' = "reset"
    BY <1>14 DEF Installed, Resets
  <2>2. UNCHANGED <<run, vmExists, newVm, flag, adopted, kind, renames>>
    BY <1>14 DEF Installed
  <2> QED
    BY <2>1, <2>2
<1>15. ASSUME PartlyInstalled
      PROVE  TypeSteps'
  BY <1>15 DEF PartlyInstalled
<1>16. ASSUME RemoveOldBase
      PROVE  TypeSteps'
  BY <1>16, ActionFacts DEF RemoveOldBase, Removed
<1>17. ASSUME RenameOldBase
      PROVE  TypeSteps'
  <2>1. renames' \in 0..MaxRenames
    BY <1>17, RenamesFacts, BaseSnapshotAssumption DEF RenameOldBase
  <2>2. pc' \in {"take", "rescue"}
    BY <1>17 DEF RenameOldBase, RenameBase
  <2>3. UNCHANGED <<run, vmExists, newVm, flag, adopted, kind, how>>
    BY <1>17 DEF RenameOldBase
  <2> QED
    BY <2>1, <2>2, <2>3
<1>18. ASSUME TakeNewBase
      PROVE  TypeSteps'
  BY <1>18, ActionFacts DEF TakeNewBase, Took
<1>19. ASSUME SaveOldName
      PROVE  TypeSteps'
  BY <1>19 DEF SaveOldName
<1>20. ASSUME Rescue
      PROVE  TypeSteps'
  BY <1>20, ActionFacts DEF Rescue, Took
<1>21. ASSUME Abort
      PROVE  TypeSteps'
  BY <1>21 DEF Abort, Interrupted
<1>22. ASSUME BeginCleanup
      PROVE  TypeSteps'
  BY <1>22 DEF BeginCleanup
<1>23. ASSUME CleanupReverts
      PROVE  TypeSteps'
  BY <1>23 DEF CleanupReverts, RevertTo
<1>24. ASSUME RemoveVm
      PROVE  TypeSteps'
  BY <1>24, NoSnapsFacts DEF RemoveVm
<1>25. ASSUME RestoreReverts
      PROVE  TypeSteps'
  BY <1>25 DEF RestoreReverts, RevertTo
<1>26. ASSUME RestoreRemoves
      PROVE  TypeSteps'
  BY <1>26, ActionFacts DEF RestoreRemoves, Removed
<1>27. ASSUME RestoreRenames
      PROVE  TypeSteps'
  BY <1>27, ActionFacts DEF RestoreRenames, RenamedTo
<1>28. ASSUME NextRun
      PROVE  TypeSteps'
  <2>1. run' \in Nat /\ pc' = "start"
    BY <1>28, RunFacts DEF NextRun
  <2>2. UNCHANGED <<vmExists, newVm, flag, adopted, kind, how, renames>>
    BY <1>28 DEF NextRun
  <2> QED
    BY <2>1, <2>2
<1>29. CASE UNCHANGED vars
  <2>1. UNCHANGED <<run, pc, vmExists, newVm, flag, adopted, kind, how, renames>>
    BY <1>29
  <2> QED
    BY <2>1, ZenonT(20)
<1> QED
  BY <1>1, <1>2, <1>3, <1>4, <1>5, <1>6, <1>7, <1>8, <1>9,
     <1>10, <1>11, <1>12, <1>13, <1>14, <1>15, <1>16, <1>17, <1>18, <1>19,
     <1>20, <1>21, <1>22, <1>23, <1>24, <1>25, <1>26, <1>27, <1>28,
     <1>29 DEF Next

(* Every step preserves the types of contents.                             *)
LEMMA TypeContentsStep ==
    ASSUME TypeContents, OriginInv, [Next]_vars
    PROVE  TypeContents'
<1> USE ContentFacts, ContentOf, SameTyped DEF TypeContents, OriginInv, vars,
      world, facts, history, Exists, SameSnaps
<1>1. ASSUME EnvSetup
      PROVE  TypeContents'
  BY <1>1 DEF EnvSetup
<1>2. ASSUME KeepSnapshots
      PROVE  TypeContents'
  BY <1>2 DEF KeepSnapshots
<1>3. ASSUME CleanupSnapshots
      PROVE  TypeContents'
  <2>1. vm' \in Contents
    BY <1>3, ContentOf DEF CleanupSnapshots
  <2>2. SnapsTyped' /\ origin' = origin
    BY <1>3, NoSnapsFacts DEF CleanupSnapshots
  <2> QED
    BY <2>1, <2>2
<1>4. ASSUME DeployVm
      PROVE  TypeContents'
  <2>1. vm' \in Contents /\ origin' = origin
    BY <1>4 DEF DeployVm
  <2>2. SnapsTyped'
    BY <1>4, <2>1, TakeFacts DEF DeployVm
  <2> QED
    BY <2>1, <2>2
<1>5. ASSUME BeginTest
      PROVE  TypeContents'
  BY <1>5 DEF BeginTest
<1>6. ASSUME CheckAndRevert
      PROVE  TypeContents'
  BY <1>6 DEF CheckAndRevert, BaseFound, RevertTo
<1>7. ASSUME SetupFails
      PROVE  TypeContents'
  BY <1>7 DEF SetupFails
<1>8. ASSUME CreateBase
      PROVE  TypeContents'
  <2>1. vm' \in Contents /\ origin' = origin
    BY <1>8 DEF CreateBase
  <2>2. SnapsTyped'
    BY <1>8, <2>1, TakeFacts DEF CreateBase
  <2> QED
    BY <2>1, <2>2
<1>9. ASSUME CreateBaseFails
      PROVE  TypeContents'
  <2>1. vm' \in Contents /\ origin' = origin
    BY <1>9 DEF CreateBaseFails
  <2>2. SnapsTyped'
    BY <1>9, <2>1, TakeFacts DEF CreateBaseFails
  <2> QED
    BY <2>1, <2>2
<1>10. ASSUME StartBody
      PROVE  TypeContents'
  BY <1>10 DEF StartBody
<1>11. ASSUME Body
      PROVE  TypeContents'
  <2>1. vm' \in Contents /\ origin' = origin
    BY <1>11 DEF Body
  <2>2. SnapsTyped'
    BY <1>11, <2>1, TakeFacts DEF Body
  <2> QED
    BY <2>1, <2>2
<1>12. ASSUME BodyFails
      PROVE  TypeContents'
  BY <1>12 DEF BodyFails, Interrupted
<1>13. ASSUME TestEnds
      PROVE  TypeContents'
  BY <1>13 DEF TestEnds
<1>14. ASSUME Installed
      PROVE  TypeContents'
  <2>1. Installs \in {"config", "tools", "update", "effects"}
    BY DEF Installs
  <2>2. vm' \in Contents
    BY <1>14, <2>1 DEF Installed
  <2> QED
    BY <1>14, <2>2 DEF Installed
<1>15. ASSUME PartlyInstalled
      PROVE  TypeContents'
  <2>1. vm' \in Contents
    BY <1>15 DEF PartlyInstalled
  <2> QED
    BY <1>15, <2>1 DEF PartlyInstalled
<1>16. ASSUME RemoveOldBase
      PROVE  TypeContents'
  <2>1. SnapsTyped'
    BY <1>16, RemoveFacts, NameFacts DEF RemoveOldBase
  <2> QED
    BY <1>16, <2>1 DEF RemoveOldBase
<1>17. ASSUME RenameOldBase
      PROVE  TypeContents'
  <2>1. SnapsTyped'
    BY <1>17, RenamedFacts DEF RenameOldBase, RenameBase
  <2>2. origin' \in Contents /\ vm' = vm
    BY <1>17, ContentOf DEF RenameOldBase, RenameBase
  <2> QED
    BY <2>1, <2>2
<1>18. ASSUME TakeNewBase
      PROVE  TypeContents'
  <2>1. vm' \in Contents /\ origin' = origin
    BY <1>18 DEF TakeNewBase
  <2>2. SnapsTyped'
    BY <1>18, <2>1, TakeFacts DEF TakeNewBase
  <2> QED
    BY <2>1, <2>2
<1>19. ASSUME SaveOldName
      PROVE  TypeContents'
  BY <1>19 DEF SaveOldName
<1>20. ASSUME Rescue
      PROVE  TypeContents'
  <2>1. vm' \in Contents /\ origin' = origin
    BY <1>20 DEF Rescue
  <2>2. SnapsTyped'
    BY <1>20, <2>1, TakeFacts DEF Rescue
  <2> QED
    BY <2>1, <2>2
<1>21. ASSUME Abort
      PROVE  TypeContents'
  BY <1>21 DEF Abort, Interrupted
<1>22. ASSUME BeginCleanup
      PROVE  TypeContents'
  BY <1>22 DEF BeginCleanup
<1>23. ASSUME CleanupReverts
      PROVE  TypeContents'
  BY <1>23 DEF CleanupReverts, RevertTo
<1>24. ASSUME RemoveVm
      PROVE  TypeContents'
  BY <1>24, NoSnapsFacts, NoSnapsFacts DEF RemoveVm
<1>25. ASSUME RestoreReverts
      PROVE  TypeContents'
  BY <1>25 DEF RestoreReverts, RevertTo
<1>26. ASSUME RestoreRemoves
      PROVE  TypeContents'
  <2>1. SnapsTyped'
    BY <1>26, RemoveFacts, NameFacts DEF RestoreRemoves
  <2> QED
    BY <1>26, <2>1 DEF RestoreRemoves
<1>27. ASSUME RestoreRenames
      PROVE  TypeContents'
  <2>1. SnapsTyped'
    BY <1>27, RenamedFacts, NameFacts DEF RestoreRenames
  <2> QED
    BY <1>27, <2>1 DEF RestoreRenames
<1>28. ASSUME NextRun
      PROVE  TypeContents'
  BY <1>28 DEF NextRun
<1>29. CASE UNCHANGED vars
  BY <1>29
<1> QED
  BY <1>1, <1>2, <1>3, <1>4, <1>5, <1>6, <1>7, <1>8, <1>9,
     <1>10, <1>11, <1>12, <1>13, <1>14, <1>15, <1>16, <1>17, <1>18, <1>19,
     <1>20, <1>21, <1>22, <1>23, <1>24, <1>25, <1>26, <1>27, <1>28,
     <1>29 DEF Next

(* Every step preserves the types of names.                                *)
LEMMA TypeNamesStep ==
    ASSUME TypeSteps, TypeNames, OriginInv, [Next]_vars
    PROVE  TypeNames'
<1> USE NameFacts DEF TypeNames, SnapNames, OriginInv, Updating, vars, world,
      facts, history, Exists, SameSnaps
<1>1. ASSUME EnvSetup
      PROVE  TypeNames'
  BY <1>1 DEF EnvSetup
<1>2. ASSUME KeepSnapshots
      PROVE  TypeNames'
  BY <1>2 DEF KeepSnapshots
<1>3. ASSUME CleanupSnapshots
      PROVE  TypeNames'
  BY <1>3, NoSnapsFacts DEF CleanupSnapshots
<1>4. ASSUME DeployVm
      PROVE  TypeNames'
  BY <1>4, ActionFacts DEF DeployVm, Took
<1>5. ASSUME BeginTest
      PROVE  TypeNames'
  BY <1>5 DEF BeginTest
<1>6. ASSUME CheckAndRevert
      PROVE  TypeNames'
  BY <1>6 DEF CheckAndRevert, BaseFound, RevertTo
<1>7. ASSUME SetupFails
      PROVE  TypeNames'
  BY <1>7 DEF SetupFails
<1>8. ASSUME CreateBase
      PROVE  TypeNames'
  BY <1>8, ActionFacts DEF CreateBase, Took
<1>9. ASSUME CreateBaseFails
      PROVE  TypeNames'
  BY <1>9, ActionFacts DEF CreateBaseFails, Took
<1>10. ASSUME StartBody
      PROVE  TypeNames'
  BY <1>10 DEF StartBody
<1>11. ASSUME Body
      PROVE  TypeNames'
  BY <1>11, ActionFacts DEF Body, Took
<1>12. ASSUME BodyFails
      PROVE  TypeNames'
  BY <1>12 DEF BodyFails, Interrupted
<1>13. ASSUME TestEnds
      PROVE  TypeNames'
  BY <1>13 DEF TestEnds
<1>14. ASSUME Installed
      PROVE  TypeNames'
  BY <1>14 DEF Installed, Installs
<1>15. ASSUME PartlyInstalled
      PROVE  TypeNames'
  BY <1>15 DEF PartlyInstalled
<1>16. ASSUME RemoveOldBase
      PROVE  TypeNames'
  BY <1>16, ActionFacts DEF RemoveOldBase, Removed
<1>17. ASSUME RenameOldBase
      PROVE  TypeNames'
  <2>1. CASE SameSnaps
    BY <1>17, <2>1 DEF RenameOldBase
  <2>2. CASE RenamedTo(Base, Old(renames')) /\ RenameBase
    <3>1. renames' \in 1..MaxRenames
      BY <2>2, RenamesFacts
    <3>2. DOMAIN snaps' \subseteq SnapNames
      BY <2>2, <3>1 DEF RenamedTo
    <3>3. current' \in {NoName} \cup DOMAIN snaps'
      BY <2>2 DEF RenamedTo, RenameBase
    <3> QED
      BY <1>17, <3>2, <3>3 DEF RenameOldBase
  <2> QED
    BY <1>17, <2>1, <2>2, ActionFacts DEF RenameOldBase
<1>18. ASSUME TakeNewBase
      PROVE  TypeNames'
  BY <1>18, ActionFacts DEF TakeNewBase, Took
<1>19. ASSUME SaveOldName
      PROVE  TypeNames'
  BY <1>19 DEF SaveOldName
<1>20. ASSUME Rescue
      PROVE  TypeNames'
  BY <1>20, ActionFacts DEF Rescue, Took
<1>21. ASSUME Abort
      PROVE  TypeNames'
  BY <1>21 DEF Abort, Interrupted
<1>22. ASSUME BeginCleanup
      PROVE  TypeNames'
  BY <1>22 DEF BeginCleanup
<1>23. ASSUME CleanupReverts
      PROVE  TypeNames'
  BY <1>23 DEF CleanupReverts, RevertTo
<1>24. ASSUME RemoveVm
      PROVE  TypeNames'
  BY <1>24, NoSnapsFacts DEF RemoveVm
<1>25. ASSUME RestoreReverts
      PROVE  TypeNames'
  BY <1>25 DEF RestoreReverts, RevertTo
<1>26. ASSUME RestoreRemoves
      PROVE  TypeNames'
  BY <1>26, ActionFacts DEF RestoreRemoves, Removed
<1>27. ASSUME RestoreRenames
      PROVE  TypeNames'
  BY <1>27, ActionFacts DEF RestoreRenames, RenamedTo
<1>28. ASSUME NextRun
      PROVE  TypeNames'
  BY <1>28 DEF NextRun
<1>29. CASE UNCHANGED vars
  BY <1>29
<1> QED
  BY <1>1, <1>2, <1>3, <1>4, <1>5, <1>6, <1>7, <1>8, <1>9,
     <1>10, <1>11, <1>12, <1>13, <1>14, <1>15, <1>16, <1>17, <1>18, <1>19,
     <1>20, <1>21, <1>22, <1>23, <1>24, <1>25, <1>26, <1>27, <1>28,
     <1>29 DEF Next

(* Every step preserves what a VM that is not there has.                   *)
LEMMA VmInvStep ==
    ASSUME VmInv, [Next]_vars
    PROVE  VmInv'
<1> USE NameFacts, NoSnapsFacts DEF VmInv, WithVm, vars, world, facts, history,
      Exists, SameSnaps
<1>1. ASSUME EnvSetup
      PROVE  VmInv'
  BY <1>1 DEF EnvSetup
<1>2. ASSUME KeepSnapshots
      PROVE  VmInv'
  BY <1>2 DEF KeepSnapshots
<1>3. ASSUME CleanupSnapshots
      PROVE  VmInv'
  BY <1>3, NoSnapsFacts DEF CleanupSnapshots
<1>4. ASSUME DeployVm
      PROVE  VmInv'
  BY <1>4, ActionFacts DEF DeployVm, Took
<1>5. ASSUME BeginTest
      PROVE  VmInv'
  BY <1>5 DEF BeginTest
<1>6. ASSUME CheckAndRevert
      PROVE  VmInv'
  BY <1>6 DEF CheckAndRevert, BaseFound, RevertTo
<1>7. ASSUME SetupFails
      PROVE  VmInv'
  BY <1>7 DEF SetupFails
<1>8. ASSUME CreateBase
      PROVE  VmInv'
  BY <1>8, ActionFacts DEF CreateBase, Took
<1>9. ASSUME CreateBaseFails
      PROVE  VmInv'
  BY <1>9, ActionFacts DEF CreateBaseFails, Took
<1>10. ASSUME StartBody
      PROVE  VmInv'
  BY <1>10 DEF StartBody
<1>11. ASSUME Body
      PROVE  VmInv'
  BY <1>11, ActionFacts DEF Body, Took
<1>12. ASSUME BodyFails
      PROVE  VmInv'
  BY <1>12 DEF BodyFails, Interrupted
<1>13. ASSUME TestEnds
      PROVE  VmInv'
  BY <1>13 DEF TestEnds
<1>14. ASSUME Installed
      PROVE  VmInv'
  BY <1>14 DEF Installed, Installs
<1>15. ASSUME PartlyInstalled
      PROVE  VmInv'
  BY <1>15 DEF PartlyInstalled
<1>16. ASSUME RemoveOldBase
      PROVE  VmInv'
  BY <1>16, ActionFacts DEF RemoveOldBase, Removed
<1>17. ASSUME RenameOldBase
      PROVE  VmInv'
  BY <1>17, ActionFacts DEF RenameOldBase, RenameBase, RenamedTo
<1>18. ASSUME TakeNewBase
      PROVE  VmInv'
  BY <1>18, ActionFacts DEF TakeNewBase, Took
<1>19. ASSUME SaveOldName
      PROVE  VmInv'
  BY <1>19 DEF SaveOldName
<1>20. ASSUME Rescue
      PROVE  VmInv'
  BY <1>20, ActionFacts DEF Rescue, Took
<1>21. ASSUME Abort
      PROVE  VmInv'
  BY <1>21 DEF Abort, Interrupted
<1>22. ASSUME BeginCleanup
      PROVE  VmInv'
  BY <1>22 DEF BeginCleanup
<1>23. ASSUME CleanupReverts
      PROVE  VmInv'
  BY <1>23 DEF CleanupReverts, RevertTo
<1>24. ASSUME RemoveVm
      PROVE  VmInv'
  BY <1>24, NoSnapsFacts DEF RemoveVm
<1>25. ASSUME RestoreReverts
      PROVE  VmInv'
  BY <1>25 DEF RestoreReverts, RevertTo
<1>26. ASSUME RestoreRemoves
      PROVE  VmInv'
  BY <1>26, ActionFacts DEF RestoreRemoves, Removed
<1>27. ASSUME RestoreRenames
      PROVE  VmInv'
  BY <1>27, ActionFacts DEF RestoreRenames, RenamedTo
<1>28. ASSUME NextRun
      PROVE  VmInv'
  BY <1>28 DEF NextRun
<1>29. CASE UNCHANGED vars
  BY <1>29
<1> QED
  BY <1>1, <1>2, <1>3, <1>4, <1>5, <1>6, <1>7, <1>8, <1>9,
     <1>10, <1>11, <1>12, <1>13, <1>14, <1>15, <1>16, <1>17, <1>18, <1>19,
     <1>20, <1>21, <1>22, <1>23, <1>24, <1>25, <1>26, <1>27, <1>28,
     <1>29 DEF Next

(* Every step preserves what base_snapshot_exists stands for.              *)
LEMMA FlagInvStep ==
    ASSUME VmInv, FlagInv, OriginInv, [Next]_vars
    PROVE  FlagInv'
<1> USE NameFacts DEF VmInv, WithVm, FlagInv, OriginInv, Resets, vars, world,
      facts, history, Exists, SameSnaps
<1>1. ASSUME EnvSetup
      PROVE  FlagInv'
  BY <1>1 DEF EnvSetup
<1>2. ASSUME KeepSnapshots
      PROVE  FlagInv'
  BY <1>2 DEF KeepSnapshots
<1>3. ASSUME CleanupSnapshots
      PROVE  FlagInv'
  BY <1>3, NoSnapsFacts DEF CleanupSnapshots
<1>4. ASSUME DeployVm
      PROVE  FlagInv'
  BY <1>4, ActionFacts DEF DeployVm, Took
<1>5. ASSUME BeginTest
      PROVE  FlagInv'
  BY <1>5 DEF BeginTest
<1>6. ASSUME CheckAndRevert
      PROVE  FlagInv'
  BY <1>6 DEF CheckAndRevert, BaseFound, RevertTo
<1>7. ASSUME SetupFails
      PROVE  FlagInv'
  BY <1>7 DEF SetupFails
<1>8. ASSUME CreateBase
      PROVE  FlagInv'
  BY <1>8, ActionFacts DEF CreateBase, Took
<1>9. ASSUME CreateBaseFails
      PROVE  FlagInv'
  BY <1>9, ActionFacts DEF CreateBaseFails, Took
<1>10. ASSUME StartBody
      PROVE  FlagInv'
  BY <1>10 DEF StartBody
<1>11. ASSUME Body
      PROVE  FlagInv'
  BY <1>11, ActionFacts DEF Body, Took
<1>12. ASSUME BodyFails
      PROVE  FlagInv'
  BY <1>12 DEF BodyFails, Interrupted
<1>13. ASSUME TestEnds
      PROVE  FlagInv'
  BY <1>13 DEF TestEnds
<1>14. ASSUME Installed
      PROVE  FlagInv'
  BY <1>14 DEF Installed, Installs
<1>15. ASSUME PartlyInstalled
      PROVE  FlagInv'
  BY <1>15 DEF PartlyInstalled
<1>16. ASSUME RemoveOldBase
      PROVE  FlagInv'
  BY <1>16, ActionFacts DEF RemoveOldBase, Removed
<1>17. ASSUME RenameOldBase
      PROVE  FlagInv'
  BY <1>17, ActionFacts DEF RenameOldBase, RenameBase, RenamedTo
<1>18. ASSUME TakeNewBase
      PROVE  FlagInv'
  BY <1>18, ActionFacts DEF TakeNewBase, Took
<1>19. ASSUME SaveOldName
      PROVE  FlagInv'
  BY <1>19 DEF SaveOldName
<1>20. ASSUME Rescue
      PROVE  FlagInv'
  BY <1>20, ActionFacts DEF Rescue, Took
<1>21. ASSUME Abort
      PROVE  FlagInv'
  BY <1>21 DEF Abort, Interrupted
<1>22. ASSUME BeginCleanup
      PROVE  FlagInv'
  BY <1>22 DEF BeginCleanup
<1>23. ASSUME CleanupReverts
      PROVE  FlagInv'
  BY <1>23 DEF CleanupReverts, RevertTo
<1>24. ASSUME RemoveVm
      PROVE  FlagInv'
  BY <1>24, NoSnapsFacts DEF RemoveVm
<1>25. ASSUME RestoreReverts
      PROVE  FlagInv'
  BY <1>25 DEF RestoreReverts, RevertTo
<1>26. ASSUME RestoreRemoves
      PROVE  FlagInv'
  BY <1>26, ActionFacts DEF RestoreRemoves, Removed
<1>27. ASSUME RestoreRenames
      PROVE  FlagInv'
  BY <1>27, ActionFacts DEF RestoreRenames, RenamedTo
<1>28. ASSUME NextRun
      PROVE  FlagInv'
  BY <1>28 DEF NextRun
<1>29. CASE UNCHANGED vars
  BY <1>29
<1> QED
  BY <1>1, <1>2, <1>3, <1>4, <1>5, <1>6, <1>7, <1>8, <1>9,
     <1>10, <1>11, <1>12, <1>13, <1>14, <1>15, <1>16, <1>17, <1>18, <1>19,
     <1>20, <1>21, <1>22, <1>23, <1>24, <1>25, <1>26, <1>27, <1>28,
     <1>29 DEF Next

(* Every step preserves where the VM is at its base snapshot.              *)
LEMMA AtBaseInvStep ==
    ASSUME VmInv, FlagInv, AtBaseInv, [Next]_vars
    PROVE  AtBaseInv'
<1> USE NameFacts, NoSnapsFacts DEF VmInv, WithVm, FlagInv, AtBaseInv, AtBase,
      Resets, vars, world, facts, history, Exists, SameSnaps
<1>1. ASSUME EnvSetup
      PROVE  AtBaseInv'
  BY <1>1 DEF EnvSetup
<1>2. ASSUME KeepSnapshots
      PROVE  AtBaseInv'
  BY <1>2 DEF KeepSnapshots
<1>3. ASSUME CleanupSnapshots
      PROVE  AtBaseInv'
  BY <1>3, NoSnapsFacts DEF CleanupSnapshots
<1>4. ASSUME DeployVm
      PROVE  AtBaseInv'
  BY <1>4, ActionFacts DEF DeployVm, Took
<1>5. ASSUME BeginTest
      PROVE  AtBaseInv'
  BY <1>5 DEF BeginTest
<1>6. ASSUME CheckAndRevert
      PROVE  AtBaseInv'
  BY <1>6 DEF CheckAndRevert, BaseFound, RevertTo
<1>7. ASSUME SetupFails
      PROVE  AtBaseInv'
  BY <1>7 DEF SetupFails
<1>8. ASSUME CreateBase
      PROVE  AtBaseInv'
  BY <1>8, ActionFacts DEF CreateBase, Took
<1>9. ASSUME CreateBaseFails
      PROVE  AtBaseInv'
  BY <1>9, ActionFacts DEF CreateBaseFails, Took
<1>10. ASSUME StartBody
      PROVE  AtBaseInv'
  BY <1>10 DEF StartBody
<1>11. ASSUME Body
      PROVE  AtBaseInv'
  BY <1>11, ActionFacts DEF Body, Took
<1>12. ASSUME BodyFails
      PROVE  AtBaseInv'
  BY <1>12 DEF BodyFails, Interrupted
<1>13. ASSUME TestEnds
      PROVE  AtBaseInv'
  BY <1>13 DEF TestEnds
<1>14. ASSUME Installed
      PROVE  AtBaseInv'
  BY <1>14 DEF Installed, Installs
<1>15. ASSUME PartlyInstalled
      PROVE  AtBaseInv'
  BY <1>15 DEF PartlyInstalled
<1>16. ASSUME RemoveOldBase
      PROVE  AtBaseInv'
  BY <1>16, ActionFacts DEF RemoveOldBase, Removed
<1>17. ASSUME RenameOldBase
      PROVE  AtBaseInv'
  BY <1>17, ActionFacts DEF RenameOldBase, RenameBase, RenamedTo
<1>18. ASSUME TakeNewBase
      PROVE  AtBaseInv'
  BY <1>18, ActionFacts DEF TakeNewBase, Took
<1>19. ASSUME SaveOldName
      PROVE  AtBaseInv'
  BY <1>19 DEF SaveOldName
<1>20. ASSUME Rescue
      PROVE  AtBaseInv'
  BY <1>20, ActionFacts DEF Rescue, Took
<1>21. ASSUME Abort
      PROVE  AtBaseInv'
  BY <1>21 DEF Abort, Interrupted
<1>22. ASSUME BeginCleanup
      PROVE  AtBaseInv'
  BY <1>22 DEF BeginCleanup
<1>23. ASSUME CleanupReverts
      PROVE  AtBaseInv'
  BY <1>23 DEF CleanupReverts, RevertTo
<1>24. ASSUME RemoveVm
      PROVE  AtBaseInv'
  BY <1>24, NoSnapsFacts DEF RemoveVm
<1>25. ASSUME RestoreReverts
      PROVE  AtBaseInv'
  BY <1>25 DEF RestoreReverts, RevertTo
<1>26. ASSUME RestoreRemoves
      PROVE  AtBaseInv'
  BY <1>26, ActionFacts DEF RestoreRemoves, Removed
<1>27. ASSUME RestoreRenames
      PROVE  AtBaseInv'
  BY <1>27, ActionFacts DEF RestoreRenames, RenamedTo
<1>28. ASSUME NextRun
      PROVE  AtBaseInv'
  BY <1>28 DEF NextRun
<1>29. CASE UNCHANGED vars
  BY <1>29
<1> QED
  BY <1>1, <1>2, <1>3, <1>4, <1>5, <1>6, <1>7, <1>8, <1>9,
     <1>10, <1>11, <1>12, <1>13, <1>14, <1>15, <1>16, <1>17, <1>18, <1>19,
     <1>20, <1>21, <1>22, <1>23, <1>24, <1>25, <1>26, <1>27, <1>28,
     <1>29 DEF Next

(* Every step preserves where there are no effects.                        *)
LEMMA SettledInvStep ==
    ASSUME TypeOK, VmInv, FlagInv, AtBaseInv, SettledInv,
           OriginInv, [Next]_vars
    PROVE  SettledInv'
<1> USE NameFacts, OldNameFacts DEF VmInv, WithVm, FlagInv, AtBaseInv, AtBase,
      SettledInv,
      OriginInv, Resets, vars, world, facts, history, Exists, SameSnaps
<1>1. ASSUME EnvSetup
      PROVE  SettledInv'
  BY <1>1 DEF EnvSetup
<1>2. ASSUME KeepSnapshots
      PROVE  SettledInv'
  BY <1>2 DEF KeepSnapshots
<1>3. ASSUME CleanupSnapshots
      PROVE  SettledInv'
  BY <1>3, NoSnapsFacts DEF CleanupSnapshots
<1>4. ASSUME DeployVm
      PROVE  SettledInv'
  BY <1>4, ActionFacts DEF DeployVm, Took
<1>5. ASSUME BeginTest
      PROVE  SettledInv'
  BY <1>5 DEF BeginTest
<1>6. ASSUME CheckAndRevert
      PROVE  SettledInv'
  BY <1>6 DEF CheckAndRevert, BaseFound, RevertTo
<1>7. ASSUME SetupFails
      PROVE  SettledInv'
  BY <1>7 DEF SetupFails
<1>8. ASSUME CreateBase
      PROVE  SettledInv'
  BY <1>8, ActionFacts DEF CreateBase, Took
<1>9. ASSUME CreateBaseFails
      PROVE  SettledInv'
  BY <1>9, ActionFacts DEF CreateBaseFails, Took
<1>10. ASSUME StartBody
      PROVE  SettledInv'
  BY <1>10 DEF StartBody
<1>11. ASSUME Body
      PROVE  SettledInv'
  BY <1>11, ActionFacts DEF Body, Took
<1>12. ASSUME BodyFails
      PROVE  SettledInv'
  BY <1>12 DEF BodyFails, Interrupted
<1>13. ASSUME TestEnds
      PROVE  SettledInv'
  BY <1>13 DEF TestEnds
<1>14. ASSUME Installed
      PROVE  SettledInv'
  BY <1>14 DEF Installed, Installs
<1>15. ASSUME PartlyInstalled
      PROVE  SettledInv'
  BY <1>15 DEF PartlyInstalled
<1>16. ASSUME RemoveOldBase
      PROVE  SettledInv'
  BY <1>16, ActionFacts DEF RemoveOldBase, Removed
<1>17. ASSUME RenameOldBase
      PROVE  SettledInv'
  BY <1>17, ActionFacts DEF RenameOldBase, RenameBase, RenamedTo
<1>18. ASSUME TakeNewBase
      PROVE  SettledInv'
  BY <1>18, ActionFacts DEF TakeNewBase, Took
<1>19. ASSUME SaveOldName
      PROVE  SettledInv'
  BY <1>19 DEF SaveOldName
<1>20. ASSUME Rescue
      PROVE  SettledInv'
  BY <1>20, ActionFacts DEF Rescue, Took
<1>21. ASSUME Abort
      PROVE  SettledInv'
  BY <1>21 DEF Abort, Interrupted
<1>22. ASSUME BeginCleanup
      PROVE  SettledInv'
  BY <1>22 DEF BeginCleanup
<1>23. ASSUME CleanupReverts
      PROVE  SettledInv'
  BY <1>23 DEF CleanupReverts, RevertTo
<1>24. ASSUME RemoveVm
      PROVE  SettledInv'
  BY <1>24, NoSnapsFacts DEF RemoveVm
<1>25. ASSUME RestoreReverts
      PROVE  SettledInv'
  BY <1>25 DEF RestoreReverts, RevertTo
<1>26. ASSUME RestoreRemoves
      PROVE  SettledInv'
  BY <1>26, ActionFacts DEF RestoreRemoves, Removed
<1>27. ASSUME RestoreRenames
      PROVE  SettledInv'
  <2>1. RenamedTo(oldName, Base)
    BY <1>27, ActionFacts
  <2>2. pc' \in {"ended", "aborted"} /\ UNCHANGED <<vm, adopted>>
    BY <1>27 DEF RestoreRenames
  <2>3. PICK n \in 1..MaxRenames : oldName = Old(n)
    BY <1>27, OldNameFacts DEF RestoreRenames
  <2>4. oldName # Base /\ oldName \in DOMAIN snaps
    BY <1>27, <2>3 DEF RestoreRenames
  <2>5. Base \in DOMAIN snaps' /\ snaps'[Base] = snaps[oldName]
    BY <2>1 DEF RenamedTo
  <2>6. \A k \in 1..MaxRenames : Exists(Old(k))' =>
          Exists(Old(k)) /\ snaps'[Old(k)] = snaps[Old(k)]
    BY <2>1, <2>4 DEF RenamedTo
  <2> QED
    BY <2>2, <2>3, <2>4, <2>5, <2>6
<1>28. ASSUME NextRun
      PROVE  SettledInv'
  BY <1>28 DEF NextRun
<1>29. CASE UNCHANGED vars
  BY <1>29
<1> QED
  BY <1>1, <1>2, <1>3, <1>4, <1>5, <1>6, <1>7, <1>8, <1>9,
     <1>10, <1>11, <1>12, <1>13, <1>14, <1>15, <1>16, <1>17, <1>18, <1>19,
     <1>20, <1>21, <1>22, <1>23, <1>24, <1>25, <1>26, <1>27, <1>28,
     <1>29 DEF Next

(* Every step preserves how renamed snapshots are numbered.                *)
LEMMA OldInvStep ==
    ASSUME TypeOK, VmInv, OriginInv, OldInv, [Next]_vars
    PROVE  OldInv'
<1> USE NameFacts DEF TypeOK, OriginInv, Updating, OldInv, vars, world, facts,
      history, Exists, SameSnaps
<1>1. ASSUME EnvSetup
      PROVE  OldInv'
  BY <1>1 DEF EnvSetup
<1>2. ASSUME KeepSnapshots
      PROVE  OldInv'
  BY <1>2 DEF KeepSnapshots
<1>3. ASSUME CleanupSnapshots
      PROVE  OldInv'
  BY <1>3, NoSnapsFacts DEF CleanupSnapshots
<1>4. ASSUME DeployVm
      PROVE  OldInv'
  BY <1>4, ActionFacts DEF DeployVm, Took
<1>5. ASSUME BeginTest
      PROVE  OldInv'
  BY <1>5 DEF BeginTest
<1>6. ASSUME CheckAndRevert
      PROVE  OldInv'
  BY <1>6 DEF CheckAndRevert, BaseFound, RevertTo
<1>7. ASSUME SetupFails
      PROVE  OldInv'
  BY <1>7 DEF SetupFails
<1>8. ASSUME CreateBase
      PROVE  OldInv'
  BY <1>8, ActionFacts DEF CreateBase, Took
<1>9. ASSUME CreateBaseFails
      PROVE  OldInv'
  BY <1>9, ActionFacts DEF CreateBaseFails, Took
<1>10. ASSUME StartBody
      PROVE  OldInv'
  BY <1>10 DEF StartBody
<1>11. ASSUME Body
      PROVE  OldInv'
  BY <1>11, ActionFacts DEF Body, Took
<1>12. ASSUME BodyFails
      PROVE  OldInv'
  BY <1>12 DEF BodyFails, Interrupted
<1>13. ASSUME TestEnds
      PROVE  OldInv'
  BY <1>13 DEF TestEnds
<1>14. ASSUME Installed
      PROVE  OldInv'
  BY <1>14 DEF Installed, Installs
<1>15. ASSUME PartlyInstalled
      PROVE  OldInv'
  BY <1>15 DEF PartlyInstalled
<1>16. ASSUME RemoveOldBase
      PROVE  OldInv'
  BY <1>16, ActionFacts DEF RemoveOldBase, Removed
<1>17. ASSUME RenameOldBase
      PROVE  OldInv'
  BY <1>17, ActionFacts DEF RenameOldBase, RenameBase, RenamedTo
<1>18. ASSUME TakeNewBase
      PROVE  OldInv'
  BY <1>18, ActionFacts DEF TakeNewBase, Took
<1>19. ASSUME SaveOldName
      PROVE  OldInv'
  BY <1>19 DEF SaveOldName
<1>20. ASSUME Rescue
      PROVE  OldInv'
  BY <1>20, ActionFacts DEF Rescue, Took
<1>21. ASSUME Abort
      PROVE  OldInv'
  BY <1>21 DEF Abort, Interrupted
<1>22. ASSUME BeginCleanup
      PROVE  OldInv'
  BY <1>22 DEF BeginCleanup
<1>23. ASSUME CleanupReverts
      PROVE  OldInv'
  BY <1>23 DEF CleanupReverts, RevertTo
<1>24. ASSUME RemoveVm
      PROVE  OldInv'
  BY <1>24, NoSnapsFacts DEF RemoveVm
<1>25. ASSUME RestoreReverts
      PROVE  OldInv'
  BY <1>25 DEF RestoreReverts, RevertTo
<1>26. ASSUME RestoreRemoves
      PROVE  OldInv'
  BY <1>26, ActionFacts DEF RestoreRemoves, Removed
<1>27. ASSUME RestoreRenames
      PROVE  OldInv'
  BY <1>27, ActionFacts DEF RestoreRenames, RenamedTo
<1>28. ASSUME NextRun
      PROVE  OldInv'
  BY <1>28 DEF NextRun
<1>29. CASE UNCHANGED vars
  BY <1>29
<1> QED
  BY <1>1, <1>2, <1>3, <1>4, <1>5, <1>6, <1>7, <1>8, <1>9,
     <1>10, <1>11, <1>12, <1>13, <1>14, <1>15, <1>16, <1>17, <1>18, <1>19,
     <1>20, <1>21, <1>22, <1>23, <1>24, <1>25, <1>26, <1>27, <1>28,
     <1>29 DEF Next

(* Every step preserves what the old name stands for.                      *)
LEMMA OriginInvStep ==
    ASSUME TypeOK, VmInv, FlagInv, OldInv, OriginInv, [Next]_vars
    PROVE  OriginInv'
<1> USE NameFacts DEF TypeOK, VmInv, WithVm, FlagInv, OldInv, OriginInv,
      Updating, Resets, vars, world, facts, history, Exists, SameSnaps
<1>1. ASSUME EnvSetup
      PROVE  OriginInv'
  BY <1>1 DEF EnvSetup
<1>2. ASSUME KeepSnapshots
      PROVE  OriginInv'
  BY <1>2 DEF KeepSnapshots
<1>3. ASSUME CleanupSnapshots
      PROVE  OriginInv'
  BY <1>3, NoSnapsFacts DEF CleanupSnapshots
<1>4. ASSUME DeployVm
      PROVE  OriginInv'
  BY <1>4, ActionFacts DEF DeployVm, Took
<1>5. ASSUME BeginTest
      PROVE  OriginInv'
  BY <1>5 DEF BeginTest
<1>6. ASSUME CheckAndRevert
      PROVE  OriginInv'
  BY <1>6 DEF CheckAndRevert, BaseFound, RevertTo
<1>7. ASSUME SetupFails
      PROVE  OriginInv'
  BY <1>7 DEF SetupFails
<1>8. ASSUME CreateBase
      PROVE  OriginInv'
  BY <1>8, ActionFacts DEF CreateBase, Took
<1>9. ASSUME CreateBaseFails
      PROVE  OriginInv'
  BY <1>9, ActionFacts DEF CreateBaseFails, Took
<1>10. ASSUME StartBody
      PROVE  OriginInv'
  BY <1>10 DEF StartBody
<1>11. ASSUME Body
      PROVE  OriginInv'
  BY <1>11, ActionFacts DEF Body, Took
<1>12. ASSUME BodyFails
      PROVE  OriginInv'
  BY <1>12 DEF BodyFails, Interrupted
<1>13. ASSUME TestEnds
      PROVE  OriginInv'
  BY <1>13 DEF TestEnds
<1>14. ASSUME Installed
      PROVE  OriginInv'
  BY <1>14 DEF Installed, Installs
<1>15. ASSUME PartlyInstalled
      PROVE  OriginInv'
  BY <1>15 DEF PartlyInstalled
<1>16. ASSUME RemoveOldBase
      PROVE  OriginInv'
  BY <1>16, ActionFacts DEF RemoveOldBase, Removed
<1>17. ASSUME RenameOldBase
      PROVE  OriginInv'
  <2>1. pc = "reset" /\ Resets /\ how = "rename" /\ ~ Updating /\ Exists(Base)
          /\ UNCHANGED <<oldName, kind, how>>
    BY <1>17 DEF RenameOldBase
  <2>2. RenameBase
    BY <1>17, <2>1 DEF RenameOldBase
  <2>3. RenamedTo(Base, Old(renames'))
    BY <2>2, RenamedFacts DEF RenameBase
  <2>4. renames' \in 1..MaxRenames /\ renames \in Nat /\ renames' = renames + 1
    BY <2>2, RenamesFacts, TypeParts
  <2>5. ~ Exists(Old(renames')) /\ oldName # Old(renames')
    <3>1. ~ (renames' <= renames)
      BY <2>2, RenamesFacts, TypeParts
    <3> QED
      BY <2>4, <3>1
  <2>6. snaps'[Old(renames')] = snaps[Base] /\ Old(renames') \in DOMAIN snaps'
    BY <2>3 DEF RenamedTo
  <2>7. oldName # NoName /\ oldName \in DOMAIN snaps' =>
            oldName \in DOMAIN snaps /\ snaps'[oldName] = snaps[oldName]
    BY <2>3, <2>5, OldNameFacts DEF RenamedTo
  <2>8. oldName # NoName /\ oldName \in DOMAIN snaps' => snaps'[oldName] = origin
    BY <2>1, <2>7
  <2>9. pc' \in {"take", "rescue"} /\ (kind = "update" => origin' = snaps[Base])
          /\ (kind # "update" => origin' = origin)
    BY <2>2 DEF RenameBase
  <2> QED
    BY <2>1, <2>4, <2>6, <2>8, <2>9
<1>18. ASSUME TakeNewBase
      PROVE  OriginInv'
  BY <1>18, ActionFacts DEF TakeNewBase, Took
<1>19. ASSUME SaveOldName
      PROVE  OriginInv'
  BY <1>19 DEF SaveOldName
<1>20. ASSUME Rescue
      PROVE  OriginInv'
  BY <1>20, ActionFacts DEF Rescue, Took
<1>21. ASSUME Abort
      PROVE  OriginInv'
  BY <1>21 DEF Abort, Interrupted
<1>22. ASSUME BeginCleanup
      PROVE  OriginInv'
  BY <1>22 DEF BeginCleanup
<1>23. ASSUME CleanupReverts
      PROVE  OriginInv'
  BY <1>23 DEF CleanupReverts, RevertTo
<1>24. ASSUME RemoveVm
      PROVE  OriginInv'
  BY <1>24, NoSnapsFacts DEF RemoveVm
<1>25. ASSUME RestoreReverts
      PROVE  OriginInv'
  BY <1>25 DEF RestoreReverts, RevertTo
<1>26. ASSUME RestoreRemoves
      PROVE  OriginInv'
  BY <1>26, ActionFacts DEF RestoreRemoves, Removed
<1>27. ASSUME RestoreRenames
      PROVE  OriginInv'
  BY <1>27, ActionFacts DEF RestoreRenames, RenamedTo
<1>28. ASSUME NextRun
      PROVE  OriginInv'
  BY <1>28 DEF NextRun
<1>29. CASE UNCHANGED vars
  BY <1>29
<1> QED
  BY <1>1, <1>2, <1>3, <1>4, <1>5, <1>6, <1>7, <1>8, <1>9,
     <1>10, <1>11, <1>12, <1>13, <1>14, <1>15, <1>16, <1>17, <1>18, <1>19,
     <1>20, <1>21, <1>22, <1>23, <1>24, <1>25, <1>26, <1>27, <1>28,
     <1>29 DEF Next

-----------------------------------------------------------------------------
(* The inductive invariant, next to the types.                             *)
IInv == VmInv /\ FlagInv /\ AtBaseInv /\ SettledInv /\ OldInv /\ OriginInv

(* A VM that never had a run, or none at all.                              *)
LEMMA InitFacts ==
    Init => TypeOK /\ IInv
<1> SUFFICES ASSUME Init
             PROVE  TypeOK /\ IInv
  OBVIOUS
<1> USE NameFacts, NoSnapsFacts DEF Init, Exists
<1>1. TypeOK
  <2>1. TypeSteps
    <3>1. MaxRenames \in Nat
      BY BaseSnapshotAssumption
    <3>2. 0 \in 0..MaxRenames /\ 1 \in Nat
      BY <3>1
    <3> QED
      BY <3>2 DEF TypeSteps, Steps, Kinds
  <2>2. SnapsTyped
    BY DEF SnapsTyped
  <2>3. TypeContents
    BY <2>2, ContentFacts DEF TypeContents
  <2>4. TypeNames
    BY DEF TypeNames
  <2> QED
    BY <2>1, <2>3, <2>4, TypeParts
<1>2. VmInv
  BY DEF VmInv, WithVm
<1>3. FlagInv /\ AtBaseInv
  BY DEF FlagInv, AtBaseInv
<1>4. SettledInv
  BY DEF SettledInv
<1>5. OldInv /\ OriginInv
  BY DEF OldInv, OriginInv, Updating
<1> QED
  BY <1>1, <1>2, <1>3, <1>4, <1>5 DEF IInv

(* Types are preserved by every step, as long as names stand for something.*)
LEMMA TypeOKStep ==
    ASSUME TypeOK, OriginInv, [Next]_vars
    PROVE  TypeOK'
<1>1. TypeSteps' /\ TypeContents' /\ TypeNames'
  BY TypeParts, TypeStepsStep, TypeContentsStep, TypeNamesStep
<1> QED
  BY <1>1 DEF TypeOK, TypeSteps, TypeContents, TypeNames, SnapsTyped

(* And with them the invariant.                                            *)
LEMMA IInvStep ==
    ASSUME TypeOK, IInv, [Next]_vars
    PROVE  TypeOK' /\ IInv'
<1>1. VmInv /\ FlagInv /\ AtBaseInv /\ SettledInv /\ OldInv /\ OriginInv
  BY DEF IInv
<1>2. TypeOK' /\ VmInv' /\ FlagInv'
  BY <1>1, TypeOKStep, VmInvStep, FlagInvStep
<1>3. AtBaseInv' /\ SettledInv'
  BY <1>1, AtBaseInvStep, SettledInvStep
<1>4. OldInv' /\ OriginInv'
  BY <1>1, OldInvStep, OriginInvStep
<1> QED
  BY <1>2, <1>3, <1>4 DEF IInv

(* Both hold at every step.                                                *)
LEMMA InvariantHolds == Spec => [](TypeOK /\ IInv)
<1>1. TypeOK /\ IInv /\ [Next]_vars => (TypeOK /\ IInv)'
  BY IInvStep
<1> QED
  BY <1>1, InitFacts, PTL DEF Spec

(* Types of the VM, its snapshots and the facts, over any number of runs.  *)
THEOREM TypeCorrect == Spec => []TypeOK
  BY InvariantHolds, PTL

(* No base snapshot holds the effects of a test case, however often runs   *)
(* on the VM fail or are aborted, unless the user has adopted them.        *)
THEOREM BaseStaysSettled == Spec => []BaseIsSettled
<1>1. IInv => BaseIsSettled
  BY DEF IInv, SettledInv, BaseIsSettled
<1> QED
  BY <1>1, InvariantHolds, PTL

(* base_snapshot_exists, once true, needs no further check.                *)
THEOREM FlagIsReliable == Spec => []FlagMeansSnapshot
<1>1. IInv => FlagMeansSnapshot
  BY DEF IInv, FlagInv, FlagMeansSnapshot
<1> QED
  BY <1>1, InvariantHolds, PTL

(* Every test case body starts at the base snapshot as it was taken.       *)
THEOREM BodiesStartFromBase == Spec => BodyStartsFromBase
<1>1. IInv /\ [Next]_vars
        => [(pc # "body" /\ pc' = "body") => current' = Base /\ vm' = snaps'[Base]]_vars
  <2> SUFFICES ASSUME IInv, [Next]_vars, pc # "body", pc' = "body"
               PROVE  current' = Base /\ vm' = snaps'[Base]
    OBVIOUS
  <2>1. CreateBase \/ StartBody \/ TakeNewBase
    BY DEF Next, EnvSetup, KeepSnapshots, CleanupSnapshots, DeployVm, BeginTest,
        CheckAndRevert, SetupFails, CreateBaseFails, Body, BodyFails, TestEnds,
        Installed, PartlyInstalled, RemoveOldBase, RenameOldBase, RenameBase, SaveOldName,
        Rescue, Abort,
        BeginCleanup, CleanupReverts, RemoveVm, RestoreReverts, RestoreRemoves,
        RestoreRenames, NextRun, vars
  <2>2. CASE CreateBase
    <3>1. pc = "ready" /\ ~ flag /\ vm' = vm \cup {"config"} /\ current' = Base
      BY <2>2 DEF CreateBase
    <3>2. Took(Base, vm')
      BY <2>2, ActionFacts
    <3>3. CASE Exists(Base)
      <4>1. current = Base
        BY <3>1, <3>2, <3>3 DEF Took
      <4>2. vm = snaps[Base] /\ "config" \in vm
        BY <3>1, <3>3, <4>1 DEF IInv, AtBaseInv
      <4> QED
        BY <3>1, <3>2, <3>3, <4>2 DEF Took, Exists
    <3>4. CASE ~ Exists(Base)
      BY <3>1, <3>2, <3>4 DEF Took
    <3> QED
      BY <3>3, <3>4
  <2>3. CASE StartBody
    BY <2>3 DEF StartBody, IInv, AtBaseInv, AtBase, world
  <2>4. CASE TakeNewBase
    <3>1. Took(Base, vm) /\ ~ Exists(Base) /\ vm' = vm
      BY <2>4, ActionFacts DEF TakeNewBase, IInv, FlagInv
    <3> QED
      BY <3>1 DEF Took
  <2> QED
    BY <2>1, <2>2, <2>3, <2>4
<1> QED
  BY <1>1, InvariantHolds, PTL DEF Spec, BodyStartsFromBase

(* A run comes to its end by one of two steps.                             *)
LEMMA LeftAtBaseStep ==
    ASSUME TypeOK, IInv, VmIsLeftAtBase, [Next]_vars
    PROVE  VmIsLeftAtBase'
<1> SUFFICES ASSUME pc' = "ended", vmExists', flag'
             PROVE  /\ Exists(Base)' /\ current' = Base /\ vm' = snaps'[Base]
                    /\ oldName' # NoName =>
                         snaps'[Base] = origin' /\ ~ Exists(oldName)'
  BY DEF VmIsLeftAtBase, Exists
<1>1. CASE UNCHANGED vars
  BY <1>1 DEF vars, world, facts, history, VmIsLeftAtBase, Exists
<1>2. CASE Next
  <2>1. RestoreReverts \/ RestoreRenames
    BY <1>2 DEF Next, EnvSetup, KeepSnapshots, CleanupSnapshots, DeployVm, BeginTest,
        CheckAndRevert, SetupFails, CreateBase, CreateBaseFails, StartBody, Body,
        BodyFails, TestEnds, Installed, PartlyInstalled, RemoveOldBase, RenameOldBase,
        RenameBase, TakeNewBase, SaveOldName, Rescue, Abort, BeginCleanup, CleanupReverts,
        RemoveVm, RestoreRemoves, NextRun
  <2>2. CASE RestoreReverts
    <3>1. pc = "restore" /\ oldName = NoName /\ UNCHANGED <<world, facts>>
      BY <2>2 DEF RestoreReverts, world, facts
    <3>2. AtBase
      BY <3>1 DEF IInv, AtBaseInv, world, facts
    <3> QED
      BY <3>1, <3>2 DEF AtBase, Exists, world, facts
  <2>3. CASE RestoreRenames
    <3>1. /\ pc = "rename base" /\ current = oldName /\ current' = Base
          /\ UNCHANGED <<vm, oldName, origin>>
      BY <2>3 DEF RestoreRenames, facts, history
    <3>2. /\ oldName # NoName /\ Exists(oldName)
          /\ vm = snaps[oldName] /\ snaps[oldName] = origin
      BY <3>1 DEF IInv, OriginInv, Updating
    <3>3. RenamedTo(oldName, Base) /\ oldName # Base
      BY <2>3, <3>2, ActionFacts, OldNameFacts, NameFacts
    <3> QED
      BY <3>1, <3>2, <3>3 DEF RenamedTo, Exists
  <2> QED
    BY <2>1, <2>2, <2>3
<1> QED
  BY <1>1, <1>2

(* A run that comes to its end leaves an existing VM at its base snapshot, *)
(* and that is the one before the update if the run has updated Windows.   *)
THEOREM VmReturnsToBase == Spec => []VmIsLeftAtBase
<1>1. Init => VmIsLeftAtBase
  BY DEF Init, VmIsLeftAtBase
<1>2. TypeOK /\ IInv /\ VmIsLeftAtBase /\ [Next]_vars => VmIsLeftAtBase'
  BY LeftAtBaseStep
<1> QED
  BY <1>1, <1>2, InvariantHolds, PTL DEF Spec
=============================================================================
