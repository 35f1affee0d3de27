-------------------------- MODULE GuestInfoProofs ---------------------------
(***************************************************************************)
(* Proofs about GuestInfo, for any hardware and VMware Tools versions, any *)
(* test case list and whatever the vars file has for the servers.          *)
(***************************************************************************)
EXTENDS GuestInfo, TLAPS

-----------------------------------------------------------------------------
Places ==
    {"env", "next", "vminfo", "guestinfo", "query", "read", "body", "rebase",
     "validate", "check", "always", "alwaysinfo", "dump", "summary", "done"}

TypeInv ==
    /\ {vm, base} \subseteq VmStates
    /\ {vcenter, esxi} \subseteq HostNames
    /\ facts \in Facts
    /\ todo \subseteq HwVersions
    /\ seen \subseteq VmStates
    /\ {doomed, printed} \subseteq BOOLEAN
    /\ pc \in Places
    /\ back \in {"next", "body", "rebase", "check"}

(* What vm_get_guest_info.yml is called for.                               *)
QueryFor(what) == pc \in {"query", "read"} /\ back \in what

(* The hardware version of the VM has been read, or is the one that a new  *)
(* VM was created with.                                                    *)
Known == newVm \/ facts.vm_info

InTest    == pc \in {"guestinfo", "body", "rebase"} \/ QueryFor({"body", "rebase"})
Upgrading == pc \in {"validate", "check"} \/ QueryFor({"check"})

(* The fact of the hardware version is the one of the base snapshot, which *)
(* the VM has been reverted to.  While check_os_fullname upgrades the VM   *)
(* it follows the VM, and the two facts that the always section compares   *)
(* tell that it has to be read again.                                      *)
FactsInv ==
    /\ pc \in {"env", "next", "vminfo"} /\ Known => facts.hw = base.hw
    /\ pc \in {"vminfo", "alwaysinfo"} => vm.hw = base.hw
    /\ InTest => Known /\ facts.hw = base.hw /\ vm.hw = base.hw
    /\ Upgrading =>
         /\ test = "check_os_fullname"
         /\ Known
         /\ facts.hw = vm.hw /\ facts.hw = facts.current_hw
         /\ facts.base_hw = base.hw /\ base.hw <= facts.hw
    /\ pc = "always" /\ Known =>
         facts.hw = base.hw \/ facts.current_hw > facts.base_hw
    /\ QueryFor({"next"}) => facts.hw = base.hw /\ vm.hw = base.hw

(* What is collected is filed by its versions, and is what has been read.  *)
FiledInv ==
    /\ DOMAIN collected \subseteq HwVersions \X ToolsVersions
    /\ \A k \in DOMAIN collected : k = <<collected[k].hw, collected[k].tools>>
    /\ InfoIsExact

IInv == TypeInv /\ FactsInv /\ FiledInv

-----------------------------------------------------------------------------
(* Every step leads to values of their types.                              *)
LEMMA TypeStep ==
    ASSUME TypeInv, [Next]_vars
    PROVE  TypeInv'
<1> USE GuestInfoAssumption DEF TypeInv, VmStates, Facts, Places, At, Same, run, recap
<1>1. CASE EnvSetup \/ BeginTest \/ TestsEnd
  BY <1>1 DEF EnvSetup, BeginTest, TestsEnd
<1>2. CASE GetVmInfo \/ GetGuestInfo
  <2>1. CASE GetVmInfo
    BY <2>1 DEF GetVmInfo
  <2>2. CASE GetGuestInfo
    BY <2>2 DEF GetGuestInfo
  <2> QED
    BY <1>2, <2>1, <2>2
<1>3. CASE InitializeGuestInfo \/ ReadGuestInfo
  <2>1. CASE InitializeGuestInfo
    BY <2>1 DEF InitializeGuestInfo, Forgets
  <2>2. CASE ReadGuestInfo
    <3>1. Reported(vm) \in ToolsVersions \cup {NoTools}
      BY DEF Reported
    <3> QED
      BY <2>2, <3>1 DEF ReadGuestInfo
  <2> QED
    BY <1>3, <2>1, <2>2
<1>4. CASE OtherTest \/ SkipInstall \/ InstallTools \/ ResetBase
  BY <1>4 DEF OtherTest, SkipInstall, InstallTools, ResetBase
<1>5. CASE BeginFullname \/ UpgradeHardware \/ UpgradeFails \/ ValidateAsIs \/ CheckGuestInfo
  <2>1. CASE BeginFullname
    BY <2>1 DEF BeginFullname, Compatible
  <2>2. CASE UpgradeHardware
    <3>1. PICK v \in todo : /\ vm' = [vm EXCEPT !.hw = v]
                           /\ facts' = [facts EXCEPT !.hw = v, !.current_hw = v]
                           /\ todo' = todo \ {v}
      BY <2>2 DEF UpgradeHardware
    <3>2. vm' \in VmStates /\ facts' \in Facts /\ todo' \subseteq HwVersions
      BY <3>1
    <3>3. pc' = "query" /\ back' = "check" /\ UNCHANGED <<base, vcenter, esxi, seen>>
      BY <2>2 DEF UpgradeHardware
    <3>4. doomed' = doomed /\ printed' = printed
      BY <2>2 DEF UpgradeHardware
    <3> QED
      BY <3>2, <3>3, <3>4
  <2>3. CASE UpgradeFails
    BY <2>3 DEF UpgradeFails
  <2>4. CASE ValidateAsIs \/ CheckGuestInfo
    BY <2>4 DEF ValidateAsIs, CheckGuestInfo
  <2> QED
    BY <1>5, <2>1, <2>2, <2>3, <2>4
<1>6. CASE Validated \/ AlwaysReverts \/ AlwaysUpdates \/ AlwaysEnds
  BY <1>6 DEF Validated, AlwaysReverts, AlwaysUpdates, AlwaysEnds, UpdatedVmInfo
<1>7. CASE TaskFails \/ AlwaysFails
  BY <1>7 DEF TaskFails, AlwaysFails
<1>8. CASE DumpGuestInfo \/ PrintTestResults \/ SummaryRaises
  BY <1>8 DEF DumpGuestInfo, PrintTestResults, SummaryRaises, Undisturbed
<1>9. CASE UNCHANGED vars
  BY <1>9 DEF vars, tasks
<1> QED
  BY <1>1, <1>2, <1>3, <1>4, <1>5, <1>6, <1>7, <1>8, <1>9 DEF Next

(* Every step keeps the fact of the hardware version true where guest      *)
(* information may be read.                                                *)
LEMMA FactsStep ==
    ASSUME TypeInv, FactsInv, [Next]_vars
    PROVE  FactsInv'
<1> USE GuestInfoAssumption
    DEF TypeInv, FactsInv, Facts, VmStates, Known, InTest, Upgrading, QueryFor, At, Same, run
<1>1. CASE EnvSetup \/ BeginTest \/ TestsEnd
  BY <1>1 DEF EnvSetup, BeginTest, TestsEnd
<1>2. CASE GetVmInfo
  BY <1>2 DEF GetVmInfo, GetsVmInfo
<1>3. CASE GetGuestInfo \/ OtherTest \/ SkipInstall \/ InstallTools \/ ResetBase
  BY <1>3 DEF GetGuestInfo, OtherTest, SkipInstall, InstallTools, ResetBase
<1>4. CASE InitializeGuestInfo \/ ReadGuestInfo
  <2>1. CASE InitializeGuestInfo
    BY <2>1 DEF InitializeGuestInfo, Forgets
  <2>2. CASE ReadGuestInfo
    BY <2>2 DEF ReadGuestInfo
  <2> QED
    BY <1>4, <2>1, <2>2
<1>5. CASE BeginFullname
  BY <1>5 DEF BeginFullname
<1>6. CASE UpgradeHardware \/ UpgradeFails
  <2>1. PICK v \in todo : v > facts.current_hw /\ vm' = [vm EXCEPT !.hw = v]
                         /\ (UpgradeHardware =>
                               facts' = [facts EXCEPT !.hw = v, !.current_hw = v])
    BY <1>6 DEF UpgradeHardware, UpgradeFails, NeedsUpgrade
  <2>2. /\ pc = "validate" /\ test' = test /\ base' = base /\ newVm' = newVm
        /\ v \in Nat /\ facts.hw \in Nat /\ base.hw \in Nat /\ facts.current_hw = facts.hw
    BY <1>6, <2>1 DEF UpgradeHardware, UpgradeFails
  <2>3. CASE UpgradeHardware
    <3>1. /\ facts'.hw = v /\ facts'.current_hw = v /\ facts'.base_hw = facts.base_hw
          /\ facts'.vm_info = facts.vm_info /\ vm'.hw = v
      BY <2>1, <2>3
    <3>2. pc' = "query" /\ back' = "check"
      BY <2>3 DEF UpgradeHardware
    <3>3. base.hw <= v
      BY <2>1, <2>2
    <3> QED
      BY <2>2, <3>1, <3>2, <3>3
  <2>4. CASE UpgradeFails
    <3>1. pc' = "always" /\ facts' = facts /\ back' = back
      BY <2>4 DEF UpgradeFails
    <3> QED
      BY <2>2, <3>1
  <2> QED
    BY <1>6, <2>3, <2>4
<1>7. CASE ValidateAsIs \/ CheckGuestInfo \/ Validated
  <2>1. Upgrading /\ UNCHANGED <<vm, base, newVm, test, facts>>
    BY <1>7 DEF ValidateAsIs, CheckGuestInfo, Validated
  <2>2. base.hw \in Nat /\ facts.hw \in Nat
    OBVIOUS
  <2>3. (pc' = "query" /\ back' = "check") \/ pc' = "validate" \/ pc' = "always"
    BY <1>7 DEF ValidateAsIs, CheckGuestInfo, Validated
  <2> QED
    BY <2>1, <2>2, <2>3
<1>8. CASE AlwaysReverts \/ AlwaysEnds
  BY <1>8 DEF AlwaysReverts, AlwaysEnds
<1>9. CASE AlwaysUpdates
  BY <1>9 DEF AlwaysUpdates, UpdatedVmInfo
<1>10. CASE TaskFails \/ AlwaysFails
  <2>1. CASE TaskFails
    <3>1. UNCHANGED <<vm, base, newVm, test, facts, back>>
      BY <2>1 DEF TaskFails
    <3>2. pc' = IF test = "check_os_fullname" THEN "always" ELSE "next"
      BY <2>1 DEF TaskFails
    <3>3. CASE Upgrading
      <4>1. base.hw \in Nat /\ facts.hw \in Nat
        OBVIOUS
      <4> QED
        BY <3>1, <3>2, <3>3, <4>1
    <3>4. CASE ~ Upgrading
      <4>1. pc = "vminfo" \/ InTest
        BY <2>1, <3>4 DEF TaskFails, InBlock
      <4>2. Known => facts.hw = base.hw
        BY <4>1
      <4> QED
        BY <3>1, <3>2, <4>2
    <3> QED
      BY <3>3, <3>4
  <2>2. CASE AlwaysFails
    BY <2>2 DEF AlwaysFails
  <2> QED
    BY <1>10, <2>1, <2>2
<1>11. CASE DumpGuestInfo \/ PrintTestResults \/ SummaryRaises
  BY <1>11 DEF DumpGuestInfo, PrintTestResults, SummaryRaises, Undisturbed
<1>12. CASE UNCHANGED vars
  BY <1>12 DEF vars, tasks
<1> QED
  BY <1>1, <1>2, <1>3, <1>4, <1>5, <1>6, <1>7, <1>8, <1>9, <1>10, <1>11, <1>12 DEF Next

-----------------------------------------------------------------------------
(* An entry holds the VM that it was read from.                            *)
Entry(v) == [hw |-> v.hw, tools |-> v.tools, from |-> v]
Entries == {collected[k] : k \in DOMAIN collected}

(* What vm_get_guest_info.yml reads is filed if the guest reports its      *)
(* tools, below a key that no other VM has.                                *)
LEMMA ReadIsFiled ==
    ASSUME TypeInv, FactsInv, FiledInv, ReadGuestInfo
    PROVE  FiledInv'
<1> DEFINE key == <<vm.hw, vm.tools>>
<1>1. /\ vm \in VmStates /\ facts \in Facts /\ back \in {"next", "body", "rebase", "check"}
      /\ pc = "read" /\ facts.hw = vm.hw
  BY DEF TypeInv, FactsInv, InTest, Upgrading, QueryFor, ReadGuestInfo, At
<1>2. CASE Reported(vm) = NoTools
  <2>1. facts'.tools = NoTools
    BY <1>1, <1>2 DEF ReadGuestInfo, Facts
  <2>2. collected' = collected /\ seen' = seen
    BY <1>2, <2>1 DEF ReadGuestInfo, Collect, Collects
  <2> QED
    BY <2>2 DEF FiledInv, InfoIsExact
<1>3. CASE Reported(vm) # NoTools
  <2>1. Reported(vm) = vm.tools /\ vm.tools \in ToolsVersions /\ vm.hw \in HwVersions
    BY <1>1, <1>3, GuestInfoAssumption DEF Reported, VmStates
  <2>2. /\ facts'.hw = vm.hw /\ facts'.tools = vm.tools /\ facts'.from = vm
        /\ facts'.tools # NoTools
    BY <1>1, <1>3, <2>1 DEF ReadGuestInfo, Facts
  <2>3. collected' = IF key \notin DOMAIN collected
                     THEN [k \in DOMAIN collected \cup {key} |->
                             IF k = key THEN Entry(vm) ELSE collected[k]]
                     ELSE collected
    BY <2>2 DEF ReadGuestInfo, Collect, Collects, FiledBy, Entry
  <2>4. seen' = seen \cup {vm}
    BY <1>3 DEF ReadGuestInfo
  <2>5. CASE key \in DOMAIN collected
    <3>1. PICK v \in seen : collected[key] = Entry(v)
      <4>1. collected[key] \in {Entry(v) : v \in seen}
        BY <2>5 DEF FiledInv, InfoIsExact, Entry
      <4> QED
        BY <4>1
    <3>2. v.hw = vm.hw /\ v.tools = vm.tools
      BY <2>5, <3>1 DEF FiledInv, Entry
    <3>3. v = vm
      BY <1>1, <3>2 DEF TypeInv, VmStates
    <3> QED
      BY <2>3, <2>4, <2>5, <3>3 DEF FiledInv, InfoIsExact
  <2>6. CASE key \notin DOMAIN collected
    <3>1. DOMAIN collected' = DOMAIN collected \cup {key}
      BY <2>3, <2>6
    <3>2. /\ collected'[key] = Entry(vm)
          /\ \A k \in DOMAIN collected : collected'[k] = collected[k]
      BY <2>3, <2>6
    <3>3. Entries' = Entries \cup {Entry(vm)}
      BY <3>1, <3>2 DEF Entries
    <3>4. Entries' = {Entry(v) : v \in seen'}
      BY <2>4, <3>3 DEF FiledInv, InfoIsExact, Entries, Entry
    <3>5. InfoIsExact'
      BY <3>4 DEF InfoIsExact, Entries, Entry
    <3>6. /\ DOMAIN collected' \subseteq HwVersions \X ToolsVersions
          /\ \A k \in DOMAIN collected' : k = <<collected'[k].hw, collected'[k].tools>>
      BY <2>1, <3>1, <3>2 DEF FiledInv, Entry
    <3> QED
      BY <3>5, <3>6 DEF FiledInv
  <2> QED
    BY <2>5, <2>6
<1> QED
  BY <1>2, <1>3

(* No other step changes what is collected: the tools are forgotten ahead  *)
(* of all that the guest is asked for.                                     *)
LEMMA OnlyReadCollects ==
    ASSUME TypeInv, [Next]_vars, ~ ReadGuestInfo
    PROVE  UNCHANGED <<collected, seen>>
<1>1. CASE InitializeGuestInfo
  <2>1. facts'.tools = NoTools
    BY <1>1 DEF InitializeGuestInfo, Forgets, TypeInv, Facts
  <2> QED
    BY <1>1, <2>1 DEF InitializeGuestInfo, Collect, Collects, Same
<1>2. CASE ~ InitializeGuestInfo
  BY <1>2 DEF Next, vars, Same, Undisturbed, EnvSetup, BeginTest, TestsEnd, GetVmInfo,
      GetGuestInfo, OtherTest, SkipInstall, InstallTools, ResetBase, BeginFullname,
      UpgradeHardware, UpgradeFails, ValidateAsIs, CheckGuestInfo, Validated,
      AlwaysReverts, AlwaysUpdates, AlwaysEnds, TaskFails, AlwaysFails, DumpGuestInfo,
      PrintTestResults, SummaryRaises
<1> QED
  BY <1>1, <1>2

(* So what is collected stays what has been read.                          *)
LEMMA FiledStep ==
    ASSUME TypeInv, FactsInv, FiledInv, [Next]_vars
    PROVE  FiledInv'
<1>1. CASE ReadGuestInfo
  BY <1>1, ReadIsFiled
<1>2. CASE ~ ReadGuestInfo
  <2>1. UNCHANGED <<collected, seen>>
    BY <1>2, OnlyReadCollects
  <2> QED
    BY <2>1 DEF FiledInv, InfoIsExact
<1> QED
  BY <1>1, <1>2

-----------------------------------------------------------------------------
(* The invariant holds at the start of a run and throughout.               *)
LEMMA Inductive == Spec => []IInv
<1>1. Init => IInv
  <2> SUFFICES ASSUME Init
               PROVE  IInv
    OBVIOUS
  <2>1. TypeInv
    BY DEF Init, TypeInv, VmStates, Facts, Places
  <2>2. FactsInv
    BY DEF Init, FactsInv, Known, InTest, Upgrading, QueryFor, VmStates
  <2>3. FiledInv
    BY DEF Init, FiledInv, InfoIsExact
  <2> QED
    BY <2>1, <2>2, <2>3 DEF IInv
<1>2. IInv /\ [Next]_vars => IInv'
  BY TypeStep, FactsStep, FiledStep DEF IInv
<1> QED
  BY <1>1, <1>2, PTL DEF Spec

-----------------------------------------------------------------------------
(* Types; every entry is filed below its own versions.                     *)
THEOREM TypeCorrect == Spec => []TypeOK
<1>1. IInv => TypeOK
  BY DEF IInv, TypeInv, FiledInv, TypeOK
<1> QED
  BY <1>1, Inductive, PTL

(* guest_info.json gets what guest information was read with, and all of   *)
(* it, whatever upgrades, reverts, installations and failures lie between. *)
THEOREM InfoCorrect == Spec => []InfoIsExact
<1>1. IInv => InfoIsExact
  BY DEF IInv, FiledInv
<1> QED
  BY <1>1, Inductive, PTL
=============================================================================
