---------------------------- MODULE GuestAddress ----------------------------
(***************************************************************************)
(* common/update_inventory.yml, with which every test case and every       *)
(* reboot finds the VM under test: it powers the VM on, gets its address   *)
(* from VMware Tools or, without them, from the ESXi host, waits until the *)
(* address answers, and puts it into the group target_vm.                  *)
(*                                                                         *)
(* What VMware Tools have reported and the ESXi host has seen on the wire  *)
(* lags behind the guest: after a reboot, behind a snapshot or at a new    *)
(* lease it is an address that the VM no longer has and another machine    *)
(* may have taken.  Every wait has a number of retries, every module may   *)
(* fail.  The VM, its guest and the other machines are external.           *)
(***************************************************************************)
EXTENDS Naturals

CONSTANTS
    Leases,      \* addresses that the DHCP server gives away
    Private,     \* address of the VM's other adapter, on a network of its own
    LinkLocal,   \* an address of 169.254.
    NoIp,        \* none; also 0.0.0.0
    MaxTries,    \* bound: retries of a wait
    MaxCalls,    \* bound: calls of update_inventory.yml
    MaxChanges   \* bound: changes of the VM's guest, of reports and other machines

Ips == Leases \cup {Private, LinkLocal, NoIp}

ASSUME GuestAddressAssumption ==
    /\ Private \notin Leases \cup {LinkLocal, NoIp}
    /\ LinkLocal \notin Leases \cup {NoIp}
    /\ NoIp \notin Leases
    /\ MaxTries \in Nat \ {0}
    /\ {MaxCalls, MaxChanges} \subseteq Nat

VARIABLES
    vm,         \* the VM and the address of its primary adapter
    base,       \* what its base snapshot holds of them and of the reports
    report,     \* what vSphere shows of VMware Tools and of the VM's ports
    second,     \* the VM has another adapter
    installed,  \* VMware Tools are
    others,     \* addresses at which other machines answer
    pc, tries,  \* the current task and its retries
    calls, changes,
    vm_guest_ip,
    inventory,  \* groups['target_vm']
    result,
    steady      \* history: the VM has been as it is since the call began

world == <<base, second, installed>>
facts == <<vm_guest_ip, inventory>>
vars == <<vm, world, report, others, pc, tries, calls, changes, facts, result, steady>>

-----------------------------------------------------------------------------
Vms == [on : BOOLEAN, up : BOOLEAN, ip : Leases \cup {LinkLocal, NoIp}]
Reports ==
    [running : BOOLEAN,      \* guest.toolsRunningStatus
     ip : Ips,               \* guest.ipAddress
     primary : Ips,          \* guest.net: of the primary adapter
     second : {Private, NoIp},
     port : Ips]             \* esxcli network vm port list

NoReport == [running |-> FALSE, ip |-> NoIp, primary |-> NoIp, second |-> NoIp, port |-> NoIp]
Off == [on |-> FALSE, up |-> FALSE, ip |-> NoIp]

SecondIp == IF second THEN Private ELSE NoIp
IsUp == vm.on /\ vm.up /\ vm.ip \in Leases

(* Reports that are those of the VM as it is.                              *)
Current(v, r) ==
    /\ r.port = v.ip
    /\ r.running => r.primary = v.ip /\ r.ip \in {v.ip, SecondIp} \ {NoIp} /\ r.second = SecondIp

ToolsReports(v) ==
    {r \in Reports : r.running /\ r.primary = v.ip /\ r.second = SecondIp
                     /\ r.ip \in {v.ip, SecondIp} \ {NoIp} /\ r.port = v.ip}

Init ==
    /\ second \in BOOLEAN /\ installed \in BOOLEAN
    /\ base \in {[vm |-> Off, report |-> NoReport]}
         \cup {[vm |-> v, report |-> r] :
                 v \in {[on |-> TRUE, up |-> TRUE, ip |-> a] : a \in Leases},
                 r \in IF installed
                       THEN UNION {ToolsReports([on |-> TRUE, up |-> TRUE, ip |-> a])
                                     : a \in Leases}
                       ELSE {[NoReport EXCEPT !.port = a] : a \in Leases}}
    /\ base.vm.on => Current(base.vm, base.report)
    /\ vm = Off /\ report = NoReport
    /\ others = {}
    /\ pc = "done" /\ tries = 0 /\ calls = 0 /\ changes = 0
    /\ vm_guest_ip = NoIp /\ inventory = {}
    /\ result = "none"
    /\ steady = FALSE

-----------------------------------------------------------------------------
(* Callers of update_inventory.yml: test_setup.yml behind a revert to the  *)
(* base snapshot, reboot.yml, and those that have changed nothing.         *)
Begin(v, r) ==
    /\ pc = "done"
    /\ calls < MaxCalls
    /\ calls' = calls + 1
    /\ vm' = v
    /\ report' = r
    /\ pc' = "power"
    /\ tries' = 0
    /\ vm_guest_ip' = NoIp
    /\ result' = "none"
    /\ steady' = (v.on /\ v.up /\ v.ip \in Leases /\ Current(v, r))
    /\ UNCHANGED <<world, others, changes, inventory>>

BehindRevert == Begin(base.vm, base.report)
BehindShutdown == Begin(Off, NoReport)
AsItIs == Begin(vm, report)

Goes(here, next) == pc = here /\ pc' = next /\ tries' = 0
Same == UNCHANGED <<world, others, calls, changes>>
StillWaits == UNCHANGED <<vm, report, facts, result, steady>> /\ Same

(* What a wait does when the answer is not what it waits for.              *)
Retry(here) == pc = here /\ tries < MaxTries /\ tries' = tries + 1 /\ pc' = pc /\ StillWaits

Ends(outcome) == pc' = "done" /\ tries' = 0 /\ result' = outcome

GivesUp(here) ==
    /\ pc = here
    /\ tries = MaxTries
    /\ Ends("failed")
    /\ UNCHANGED <<vm, report, facts, steady>> /\ Same

-----------------------------------------------------------------------------
(* vm_get_ip.yml.                                                          *)
PowerOn ==
    /\ Goes("power", "tools")
    /\ vm' = [vm EXCEPT !.on = TRUE]
    /\ UNCHANGED <<report, facts, result, steady>> /\ Same

(* vm_get_vmtools_status.yml: if they are installed, wait until they run.  *)
ToolsRun ==
    /\ Goes("tools", "guestip")
    /\ installed /\ report.running
    /\ StillWaits

(* Mutant: the host is asked only if there are no tools at all.            *)
OnlyWithoutTools ==
    \/ /\ Goes("tools", "world")
       /\ ~ installed
       /\ StillWaits
    \/ /\ pc = "tools"
       /\ installed /\ tries = MaxTries
       /\ Goes("tools", "check")
       /\ StillWaits

NoTools ==
    /\ Goes("tools", "world")
    /\ ~ installed \/ (~ report.running /\ tries = MaxTries)
    /\ StillWaits

(* The status cannot be read, and the failure is ignored: not at once, or  *)
(* not with the last try.  For all the tasks know there are no tools.      *)
ToolsUnknown ==
    /\ Goes("tools", "world")
    /\ tries \in {0, MaxTries}
    /\ steady' = FALSE
    /\ UNCHANGED <<vm, report, facts, result>> /\ Same

WaitForTools == installed /\ ~ report.running /\ Retry("tools")

(* vm_wait_guest_ip.yml; the primary adapter's address is preferred.       *)
Reported ==
    /\ report.running
    /\ report.ip # NoIp
    /\ report.ip \in {report.primary, report.second}

GetIpFromTools ==
    /\ Goes("guestip", "check")
    /\ Reported
    /\ vm_guest_ip' = IF report.primary # NoIp THEN report.primary ELSE report.ip
    /\ UNCHANGED <<vm, report, inventory, result, steady>> /\ Same

WaitForIp == ~ Reported /\ Retry("guestip")
NoIpReported == ~ Reported /\ GivesUp("guestip")

(* vm_get_world_id.yml.  The VM has one when it is on, else a task fails:  *)
(* it is never reset, as the task that looks for the number fails without. *)
GetWorldId == Goes("world", "esxcli") /\ StillWaits

(* vm_get_ip_esxcli.yml.                                                   *)
OnPort == report.port \notin {NoIp, LinkLocal}

GetIpFromHost ==
    /\ Goes("esxcli", "check")
    /\ OnPort
    /\ vm_guest_ip' = report.port
    /\ UNCHANGED <<vm, report, inventory, result, steady>> /\ Same

WaitForHost == ~ OnPort /\ Retry("esxcli")

(* The wait has failed, which is ignored, and no address is taken from it. *)
NoIpOnPort ==
    /\ Goes("esxcli", "check")
    /\ ~ OnPort /\ tries = MaxTries
    /\ vm_guest_ip' = NoIp
    /\ UNCHANGED <<vm, report, inventory, result, steady>> /\ Same

IsUsable(ip) == ip \notin {NoIp, LinkLocal}

(* Mutant: an address that the guest has given itself is taken.            *)
TakesAnyIp ==
    /\ Goes("check", "ping")
    /\ vm_guest_ip # NoIp
    /\ StillWaits

CheckIp ==
    /\ Goes("check", "ping")
    /\ IsUsable(vm_guest_ip)
    /\ StillWaits

CheckFails ==
    /\ pc = "check"
    /\ ~ IsUsable(vm_guest_ip)
    /\ Ends("failed")
    /\ UNCHANGED <<vm, report, facts, steady>> /\ Same

-----------------------------------------------------------------------------
(* vm_wait_connection.yml: ping, then ssh.                                 *)
IsVms(ip) == IsUp /\ ip = vm.ip
Answers(ip) == IsVms(ip) \/ ip \in others

PingAnswers == Answers(vm_guest_ip) /\ Goes("ping", "ssh") /\ StillWaits
WaitForPing == ~ Answers(vm_guest_ip) /\ Retry("ping")
NoPing == ~ Answers(vm_guest_ip) /\ GivesUp("ping")

SshAnswers == Answers(vm_guest_ip) /\ Goes("ssh", "inventory") /\ StillWaits
WaitForSsh == ~ Answers(vm_guest_ip) /\ Retry("ssh")
NoSsh == ~ Answers(vm_guest_ip) /\ GivesUp("ssh")

(* An address that the group has is not added again.                       *)
UpdateInventory ==
    /\ pc = "inventory"
    /\ inventory' = inventory \cup {vm_guest_ip}
    /\ Ends("ok")
    /\ UNCHANGED <<vm, report, vm_guest_ip, steady>> /\ Same

(* A task fails that is not retried.                                       *)
TaskFails ==
    /\ pc # "done"
    /\ Ends("failed")
    /\ steady' = FALSE
    /\ UNCHANGED <<vm, report, facts>> /\ Same

Task ==
    \/ PowerOn \/ ToolsRun \/ NoTools \/ WaitForTools
    \/ GetIpFromTools \/ WaitForIp \/ NoIpReported
    \/ GetWorldId \/ GetIpFromHost \/ WaitForHost \/ NoIpOnPort \/ CheckIp \/ CheckFails
    \/ PingAnswers \/ WaitForPing \/ NoPing \/ SshAnswers \/ WaitForSsh \/ NoSsh
    \/ UpdateInventory
-----------------------------------------------------------------------------
(* The guest boots, or its lease changes: to an address that nobody has,   *)
(* or to none.                                                             *)
Disturbs ==
    /\ changes < MaxChanges
    /\ changes' = changes + 1
    /\ steady' = FALSE
    /\ UNCHANGED <<world, pc, tries, calls, facts, result>>

GetsAddress ==
    /\ vm.on
    /\ \E a \in (Leases \ others) \cup {LinkLocal, NoIp} : vm' = [vm EXCEPT !.up = TRUE, !.ip = a]
    /\ UNCHANGED <<report, others>>
    /\ Disturbs

(* VMware Tools report addresses and adapters one after the other.         *)
ToolsReport ==
    /\ vm.on /\ vm.up /\ installed
    /\ \E ip \in {report.ip, vm.ip, SecondIp} :
         report' = [report EXCEPT !.running = TRUE, !.ip = ip,
                                   !.primary = vm.ip, !.second = SecondIp]
    /\ UNCHANGED <<vm, others>>
    /\ Disturbs

ToolsStop ==
    /\ report' = [report EXCEPT !.running = FALSE]
    /\ UNCHANGED <<vm, others>>
    /\ Disturbs

HostSeesAddress ==
    /\ report' = [report EXCEPT !.port = vm.ip]
    /\ UNCHANGED <<vm, others>>
    /\ Disturbs

(* Another machine gets an address that the VM does not have, or leaves.   *)
OtherMachine ==
    /\ \E a \in Leases \ {vm.ip} : others' \in {others \cup {a}, others \ {a}}
    /\ UNCHANGED <<vm, report>>
    /\ Disturbs

World == GetsAddress \/ ToolsReport \/ ToolsStop \/ HostSeesAddress \/ OtherMachine

Next == BehindRevert \/ BehindShutdown \/ AsItIs \/ Task \/ ToolsUnknown \/ TaskFails \/ World

(* The next task, or the next try, is run as soon as the last is over.     *)
Spec == Init /\ [][Next]_vars /\ WF_vars(Task)

-----------------------------------------------------------------------------
(* Types; an address that is tried is one that could be the VM's.          *)
TypeOK ==
    /\ vm \in Vms
    /\ report \in Reports
    /\ others \subseteq Leases
    /\ pc \in {"done", "power", "tools", "guestip", "world", "esxcli", "check", "ping", "ssh",
               "inventory"}
    /\ tries \in 0..MaxTries /\ calls \in 0..MaxCalls /\ changes \in 0..MaxChanges
    /\ vm_guest_ip \in Ips
    /\ pc \in {"ping", "ssh", "inventory"} => IsUsable(vm_guest_ip)
    /\ inventory \subseteq Leases
    /\ result \in {"none", "ok", "failed"}

(* Every call comes to its end, however long the VM does not answer; of a  *)
(* VM that is up and stays as it is it finds the primary adapter's address *)
(* with tools, without, and with tools that do not run, whichever address  *)
(* VMware Tools name as the guest's, and has it in the group target_vm.    *)
CallEnds ==
    pc # "done" ~>
      /\ pc = "done"
      /\ steady => result = "ok" /\ vm_guest_ip = vm.ip /\ vm.ip \in inventory

=============================================================================
