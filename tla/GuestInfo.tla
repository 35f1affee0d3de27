----------------------------- MODULE GuestInfo ------------------------------
(***************************************************************************)
(* What a run reports of the guest.  Test cases set facts of the VM; the   *)
(* log plugin sees them go by, keeps an entry for every combination of     *)
(* hardware version and VMware Tools version that guest information was    *)
(* gathered with, and at the end of the run puts its collection into       *)
(* guest_info.json, and the servers ahead of the test results.             *)
(*                                                                         *)
(* Facts outlive what they describe: check_os_fullname upgrades the VM     *)
(* hardware and the next test case reverts it, open-vm-tools are installed *)
(* and become part of the base snapshot.  Tasks that call vSphere or the   *)
(* guest may fail, those that set a fact do not.                           *)
(***************************************************************************)
EXTENDS Integers, FiniteSets, Sequences

CONSTANTS
    HwVersions,    \* hardware versions that the ESXi host supports
    ToolsVersions, \* of VMware Tools, positive numbers
    Reporting,     \* those of them that give their version in the VM's extra config
    TestLists      \* test case lists

NoTools == 0       \* also: a fact that is the empty string

TestCases == {"ovt_verify_pkg_install", "check_os_fullname", "other"}

ASSUME GuestInfoAssumption ==
    /\ IsFiniteSet(HwVersions)
    /\ HwVersions \subseteq Nat
    /\ ToolsVersions \subseteq Nat \ {NoTools}
    /\ Reporting \subseteq ToolsVersions
    /\ TestLists \subseteq Seq(TestCases)

VmStates == [hw : HwVersions, tools : ToolsVersions \cup {NoTools}]
NoVm == [hw |-> -1, tools |-> NoTools]

(* What the vars file has for the name of a server; "null" is a key        *)
(* without a value, None in Python.                                        *)
HostNames == {"name", "empty", "null"}
Truthy(name) == name = "name"

VARIABLES
    vm, base,     \* the VM, and what its base snapshot holds
    newVm,
    vcenter, esxi,    \* testing_vars['vcenter_hostname'], ['esxi_hostname']
    list, tests,  \* the test case list, and what is left of it
    test, pc,     \* the current test case and its next task
    back,         \* what follows vm_get_guest_info.yml
    todo,         \* hardware versions still to be validated
    doomed,       \* the run ends behind the current test case
    facts,        \* Ansible's facts, as _ansible_gosv_facts has them
    collected,    \* collected_guest_info
    dumped,       \* entries of guest_info.json
    printed,      \* the test results are in results.log
    seen          \* history: the VM as it was when guest information was read

run == <<newVm, vcenter, esxi, list>>
tasks == <<tests, test, pc, back, todo, doomed>>
recap == <<dumped, printed>>
vars == <<vm, base, run, tasks, facts, recap, collected, seen>>

Facts ==
    [hw : HwVersions,                            \* vm_hardware_version
     base_hw : HwVersions \cup {-1},             \* vm_base_hw_version
     current_hw : HwVersions \cup {-1},          \* vm_current_hw_version
     tools : ToolsVersions \cup {NoTools},       \* guestinfo_vmtools_info
     from : VmStates \cup {NoVm},                \* guestinfo_guest_id and the like
     gathered : BOOLEAN,                         \* guestinfo_gathered
     vm_info : BOOLEAN]                          \* vm_info_retrieved

Init ==
    /\ vm \in VmStates /\ base \in VmStates
    /\ newVm \in BOOLEAN /\ (newVm => vm = base)
    /\ vcenter \in HostNames /\ esxi \in HostNames
    /\ list \in TestLists /\ tests = list
    /\ test = "other" /\ pc = "env" /\ back = "next" /\ todo = {} /\ doomed = FALSE
    /\ facts = [hw |-> vm.hw, base_hw |-> -1, current_hw |-> -1, tools |-> NoTools,
                from |-> NoVm, gathered |-> FALSE, vm_info |-> FALSE]
    /\ collected = <<>>
    /\ dumped = {}
    /\ printed = FALSE
    /\ seen = {}

At(here, next) == pc = here /\ pc' = next
Same(changed) == UNCHANGED <<run, recap, changed>>

-----------------------------------------------------------------------------
(* Mutant: an entry is filed without the hardware version.                 *)
FiledByTools(f) == <<-1, f.tools>>

FiledBy(f) == <<f.hw, f.tools>>

(* The plugin: _collect_ansible_gosv_facts for a task of                   *)
(* vm_get_guest_info.yml.  The first entry for a key is the one that stays. *)
Collects(f) == f.tools # NoTools

Collect(f) ==
    LET key == FiledBy(f)
    IN  IF Collects(f) /\ key \notin DOMAIN collected
        THEN [k \in DOMAIN collected \cup {key} |->
                IF k = key THEN [hw |-> f.hw, tools |-> f.tools, from |-> f.from] ELSE collected[k]]
        ELSE collected

Forgets(f) == [f EXCEPT !.tools = NoTools, !.from = NoVm, !.gathered = FALSE]

Reported(v) == IF v.tools \in Reporting THEN v.tools ELSE NoTools

(* vm_get_guest_info.yml: wait for the tools, forget the old, set the new. *)
InitializeGuestInfo ==
    /\ At("query", "read")
    /\ vm.tools # NoTools
    /\ facts' = Forgets(facts)
    /\ collected' = Collect(facts')
    /\ Same(<<vm, base, tests, test, back, todo, doomed, seen>>)

ReadGuestInfo ==
    /\ At("read", back)
    /\ facts' = [facts EXCEPT !.tools = Reported(vm), !.from = vm, !.gathered = TRUE]
    /\ collected' = Collect(facts')
    /\ seen' = IF Reported(vm) # NoTools THEN seen \cup {vm} ELSE seen
    /\ Same(<<vm, base, tests, test, back, todo, doomed>>)

-----------------------------------------------------------------------------
(* env_setup.yml requires an ESXi host and reads the VM.                   *)
EnvSetup ==
    /\ pc = "env"
    /\ pc' = IF Truthy(esxi) THEN "next" ELSE "dump"
    /\ Same(<<vm, base, tests, test, back, todo, doomed, facts, collected, seen>>)

(* test_setup.yml: back to the base snapshot.                              *)
BeginTest ==
    /\ At("next", "vminfo")
    /\ tests # <<>> /\ ~ doomed
    /\ test' = Head(tests)
    /\ tests' = Tail(tests)
    /\ vm' = base
    /\ Same(<<base, back, todo, doomed, facts, collected, seen>>)

TestsEnd ==
    /\ At("next", "dump")
    /\ tests = <<>> \/ doomed
    /\ Same(<<vm, base, tests, test, back, todo, doomed, facts, collected, seen>>)

GetsVmInfo == ~ newVm /\ ~ facts.vm_info

GetVmInfo ==
    /\ At("vminfo", "guestinfo")
    /\ facts' = IF GetsVmInfo THEN [facts EXCEPT !.hw = vm.hw, !.vm_info = TRUE] ELSE facts
    /\ Same(<<vm, base, tests, test, back, todo, doomed, collected, seen>>)

(* Guest information is asked for once, and again behind an installation.  *)
GetGuestInfo ==
    /\ pc = "guestinfo"
    /\ pc' = IF vm.tools # NoTools /\ ~ facts.gathered THEN "query" ELSE "body"
    /\ back' = "body"
    /\ Same(<<vm, base, tests, test, todo, doomed, facts, collected, seen>>)

OtherTest ==
    /\ At("body", "next")
    /\ test = "other"
    /\ Same(<<vm, base, tests, test, back, todo, doomed, facts, collected, seen>>)

(* ovt_verify_pkg_install.yml.                                             *)
SkipInstall ==
    /\ At("body", "next")
    /\ test = "ovt_verify_pkg_install"
    /\ vm.tools # NoTools
    /\ Same(<<vm, base, tests, test, back, todo, doomed, facts, collected, seen>>)

InstallTools ==
    /\ At("body", "query")
    /\ test = "ovt_verify_pkg_install"
    /\ \E version \in ToolsVersions : vm' = [vm EXCEPT !.tools = version]
    /\ back' = "rebase"
    /\ Same(<<base, tests, test, todo, doomed, facts, collected, seen>>)

ResetBase ==
    /\ At("rebase", "next")
    /\ base' = vm
    /\ Same(<<vm, tests, test, back, todo, doomed, facts, collected, seen>>)

-----------------------------------------------------------------------------
(* check_os_fullname.yml: guest information with every hardware version    *)
(* that the VM is compatible with, in the order that the host has them in. *)
Compatible(hw) == {v \in HwVersions : v >= hw}

BeginFullname ==
    /\ At("body", "validate")
    /\ test = "check_os_fullname"
    /\ facts' = [facts EXCEPT !.base_hw = facts.hw, !.current_hw = facts.hw]
    /\ todo' = Compatible(facts.hw)
    /\ Same(<<vm, base, tests, test, back, doomed, collected, seen>>)

NeedsUpgrade(v) == v > facts.current_hw

UpgradeHardware ==
    /\ At("validate", "query")
    /\ \E v \in todo :
         /\ NeedsUpgrade(v)
         /\ vm' = [vm EXCEPT !.hw = v]
         /\ facts' = [facts EXCEPT !.hw = v, !.current_hw = v]
         /\ todo' = todo \ {v}
    /\ back' = "check"
    /\ Same(<<base, tests, test, doomed, collected, seen>>)

(* The answer of vmware_guest is lost.                                     *)
UpgradeFails ==
    /\ At("validate", "always")
    /\ \E v \in todo :
         /\ NeedsUpgrade(v)
         /\ vm' = [vm EXCEPT !.hw = v]
    /\ doomed' \in BOOLEAN
    /\ Same(<<base, tests, test, back, todo, facts, collected, seen>>)

ValidateAsIs ==
    /\ At("validate", "query")
    /\ \E v \in todo : ~ NeedsUpgrade(v) /\ todo' = todo \ {v}
    /\ back' = "check"
    /\ Same(<<vm, base, tests, test, doomed, facts, collected, seen>>)

CheckGuestInfo ==
    /\ At("check", "validate")
    /\ Same(<<vm, base, tests, test, back, todo, doomed, facts, collected, seen>>)

Validated ==
    /\ At("validate", "always")
    /\ todo = {}
    /\ Same(<<vm, base, tests, test, back, todo, doomed, facts, collected, seen>>)

(* The always section: back to the base snapshot's hardware.               *)
AlwaysReverts ==
    /\ At("always", "alwaysinfo")
    /\ facts.current_hw > facts.base_hw
    /\ vm' = base
    /\ Same(<<base, tests, test, back, todo, doomed, facts, collected, seen>>)

(* Mutant: the VM is reverted and its facts are not.                       *)
KeepsVmInfo(f) == f

UpdatedVmInfo(f) == [f EXCEPT !.hw = vm.hw]

AlwaysUpdates ==
    /\ At("alwaysinfo", "query")
    /\ facts' = UpdatedVmInfo(facts)
    /\ back' = "next"
    /\ Same(<<vm, base, tests, test, todo, doomed, collected, seen>>)

AlwaysEnds ==
    /\ At("always", "next")
    /\ ~ facts.current_hw > facts.base_hw
    /\ Same(<<vm, base, tests, test, back, todo, doomed, facts, collected, seen>>)

-----------------------------------------------------------------------------
(* A task fails: behind the rescue section the test case is over, and the  *)
(* run if exit_testing_when_fail is set, as ovt_verify_pkg_install does.   *)
InBlock ==
    \/ pc \in {"vminfo", "guestinfo", "body", "rebase", "validate", "check"}
    \/ pc \in {"query", "read"} /\ back # "next"

TaskFails ==
    /\ InBlock
    /\ pc' = IF test = "check_os_fullname" THEN "always" ELSE "next"
    /\ doomed' \in IF test = "ovt_verify_pkg_install" THEN {TRUE} ELSE BOOLEAN
    /\ Same(<<vm, base, tests, test, back, todo, facts, collected, seen>>)

(* In the always section: localhost has failed, and the run is over.       *)
AlwaysFails ==
    /\ \/ pc \in {"always", "alwaysinfo"}
       \/ pc \in {"query", "read"} /\ back = "next"
    /\ pc' = "dump"
    /\ Same(<<vm, base, tests, test, back, todo, doomed, facts, collected, seen>>)

-----------------------------------------------------------------------------
(* v2_playbook_on_stats.                                                   *)
Undisturbed == UNCHANGED <<vm, base, run, tests, test, back, todo, doomed, facts, collected, seen>>

DumpGuestInfo ==
    /\ pc = "dump"
    /\ dumped' = {collected[k] : k \in DOMAIN collected}
    /\ pc' = IF list # <<>> THEN "summary" ELSE "done"
    /\ UNCHANGED printed
    /\ Undisturbed

(* str(TestbedInfo): nothing to show, or the widths of what there is; None *)
(* has no length.                                                          *)
TestbedIsPrinted ==
    \/ ~ Truthy(vcenter) /\ ~ Truthy(esxi)
    \/ vcenter # "null" /\ esxi # "null"

PrintTestResults ==
    /\ At("summary", "done")
    /\ TestbedIsPrinted
    /\ printed' = TRUE
    /\ UNCHANGED dumped
    /\ Undisturbed

SummaryRaises ==
    /\ At("summary", "done")
    /\ ~ TestbedIsPrinted
    /\ UNCHANGED recap
    /\ Undisturbed

Next ==
    \/ EnvSetup \/ BeginTest \/ TestsEnd
    \/ GetVmInfo \/ GetGuestInfo \/ InitializeGuestInfo \/ ReadGuestInfo
    \/ OtherTest \/ SkipInstall \/ InstallTools \/ ResetBase
    \/ BeginFullname \/ UpgradeHardware \/ UpgradeFails \/ ValidateAsIs \/ CheckGuestInfo
    \/ Validated \/ AlwaysReverts \/ AlwaysUpdates \/ AlwaysEnds
    \/ TaskFails \/ AlwaysFails
    \/ DumpGuestInfo \/ PrintTestResults \/ SummaryRaises

Spec == Init /\ [][Next]_vars

-----------------------------------------------------------------------------
(* Types; an entry is filed below its own versions.                        *)
TypeOK ==
    /\ {vm, base} \subseteq VmStates
    /\ facts \in Facts
    /\ DOMAIN collected \subseteq HwVersions \X ToolsVersions
    /\ \A k \in DOMAIN collected : k = <<collected[k].hw, collected[k].tools>>
    /\ seen \subseteq VmStates
    /\ {doomed, printed} \subseteq BOOLEAN

(* The entries for guest_info.json are the combinations that guest         *)
(* information was read with, each with what the guest reported then: no   *)
(* entry is put together from facts of before and after an upgrade, a      *)
(* revert, an installation or a failure between them, and none is missed.  *)
InfoIsExact ==
    {collected[k] : k \in DOMAIN collected} =
      {[hw |-> v.hw, tools |-> v.tools, from |-> v] : v \in seen}

=============================================================================
