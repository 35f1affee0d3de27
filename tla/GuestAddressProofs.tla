------------------------- MODULE GuestAddressProofs -------------------------
(***************************************************************************)
(* Proofs about GuestAddress, for any addresses, retries and changes of    *)
(* the VM, of what is reported of it and of the other machines.            *)
(***************************************************************************)
EXTENDS GuestAddress, TLAPS

Places == {"done", "power", "tools", "guestip", "world", "esxcli", "check", "ping", "ssh",
           "inventory"}
Counts == tries \in 0..MaxTries /\ calls \in 0..MaxCalls /\ changes \in 0..MaxChanges

(* The VM and its base snapshot, its reports, and the other machines.      *)
WorldInv ==
    /\ vm \in Vms /\ report \in Reports
    /\ base.vm \in Vms /\ base.report \in Reports
    /\ others \subseteq Leases

(* Where a call is: an address is usable from the check on, and one that   *)
(* has answered was given away by the DHCP server.                         *)
CallInv ==
    /\ pc \in Places
    /\ result \in {"none", "ok", "failed"}
    /\ result = "ok" => pc = "done"
    /\ vm_guest_ip \in Ips
    /\ pc \in {"ping", "ssh", "inventory"} => IsUsable(vm_guest_ip)
    /\ pc = "inventory" => vm_guest_ip \in Leases
    /\ inventory \subseteq Leases

IInv == Counts /\ WorldInv /\ CallInv

-----------------------------------------------------------------------------
(* Addresses by their kind.                                                *)
LEMMA IpFacts ==
    /\ Leases \subseteq Ips /\ {Private, LinkLocal, NoIp} \subseteq Ips
    /\ \A ip \in Leases : IsUsable(ip)
    /\ SecondIp \in {Private, NoIp}
  BY GuestAddressAssumption DEF Ips, IsUsable, SecondIp

(* Who answers has an address of the DHCP server.                          *)
LEMMA WhoAnswers ==
    ASSUME WorldInv, Answers(vm_guest_ip)
    PROVE  vm_guest_ip \in Leases
  BY DEF WorldInv, Answers, IsVms, IsUp

(* Before the first call nothing is known of the VM.                       *)
LEMMA InitOK == Init => IInv
<1> SUFFICES ASSUME Init PROVE IInv
  OBVIOUS
<1>1. Off \in Vms /\ NoReport \in Reports
  BY IpFacts DEF Off, Vms, NoReport, Reports
<1>2. base.vm \in Vms /\ base.report \in Reports
  <2>1. CASE base = [vm |-> Off, report |-> NoReport]
    BY <2>1, <1>1
  <2>2. ASSUME NEW a \in Leases, NEW r \in Reports,
               base = [vm |-> [on |-> TRUE, up |-> TRUE, ip |-> a], report |-> r]
        PROVE  base.vm \in Vms /\ base.report \in Reports
    BY <2>2 DEF Vms
  <2>3. ASSUME base # [vm |-> Off, report |-> NoReport]
        PROVE  \E a \in Leases : \E r \in Reports :
                 base = [vm |-> [on |-> TRUE, up |-> TRUE, ip |-> a], report |-> r]
    <3>1. PICK v \in {[on |-> TRUE, up |-> TRUE, ip |-> a] : a \in Leases},
               r \in IF installed
                     THEN UNION {ToolsReports([on |-> TRUE, up |-> TRUE, ip |-> a])
                                   : a \in Leases}
                     ELSE {[NoReport EXCEPT !.port = a] : a \in Leases} :
                 base = [vm |-> v, report |-> r]
      BY <2>3 DEF Init
    <3>2. PICK a \in Leases : v = [on |-> TRUE, up |-> TRUE, ip |-> a]
      BY <3>1
    <3>3. ASSUME installed
          PROVE  r \in Reports
      <4>1. r \in UNION {ToolsReports([on |-> TRUE, up |-> TRUE, ip |-> b]) : b \in Leases}
        BY <3>1, <3>3
      <4>2. PICK b \in Leases : r \in ToolsReports([on |-> TRUE, up |-> TRUE, ip |-> b])
        BY <4>1
      <4> QED
        BY <4>2 DEF ToolsReports
    <3>4. ASSUME ~ installed
          PROVE  r \in Reports
      <4>1. r \in {[NoReport EXCEPT !.port = b] : b \in Leases}
        BY <3>1, <3>4
      <4>2. PICK b \in Leases : r = [NoReport EXCEPT !.port = b]
        BY <4>1
      <4> QED
        BY <4>2, <1>1, IpFacts DEF Reports
    <3> QED
      BY <3>1, <3>2, <3>3, <3>4
  <2> QED
    BY <2>1, <2>2, <2>3, <1>1
<1> QED
  BY <1>1, <1>2, IpFacts, GuestAddressAssumption DEF Init, IInv, Counts, WorldInv,
      CallInv, Places

(* Every step stays within the bounds.                                     *)
LEMMA CountsStep ==
    ASSUME Counts, [Next]_vars
    PROVE  Counts'
<1> USE GuestAddressAssumption DEF Counts, Same
<1>1. ASSUME NEW v, NEW r, Begin(v, r)
      PROVE  Counts'
  BY <1>1 DEF Begin
<1>2. CASE BehindRevert \/ BehindShutdown \/ AsItIs
  BY <1>1, <1>2 DEF BehindRevert, BehindShutdown, AsItIs
<1>3. CASE Task
  <2>1. ASSUME NEW p, Retry(p)
        PROVE  Counts'
    BY <2>1 DEF Retry, StillWaits
  <2>2. CASE WaitForTools \/ WaitForIp \/ WaitForHost \/ WaitForPing \/ WaitForSsh
    BY <2>1, <2>2 DEF WaitForTools, WaitForIp, WaitForHost, WaitForPing, WaitForSsh
  <2>3. CASE \/ PowerOn \/ ToolsRun \/ NoTools \/ GetIpFromTools \/ GetWorldId
             \/ GetIpFromHost \/ NoIpOnPort \/ CheckIp \/ PingAnswers \/ SshAnswers
    BY <2>3 DEF PowerOn, ToolsRun, NoTools, GetIpFromTools, GetWorldId, GetIpFromHost,
        NoIpOnPort, CheckIp, PingAnswers, SshAnswers, Goes, StillWaits
  <2>4. CASE NoIpReported \/ NoPing \/ NoSsh \/ CheckFails \/ UpdateInventory
    BY <2>4 DEF NoIpReported, NoPing, NoSsh, GivesUp, CheckFails, UpdateInventory, Ends
  <2> QED
    BY <1>3, <2>2, <2>3, <2>4 DEF Task
<1>4. CASE TaskFails \/ ToolsUnknown
  BY <1>4 DEF TaskFails, ToolsUnknown, Ends, Goes
<1>5. CASE World
  <2>1. Disturbs
    BY <1>5 DEF World, GetsAddress, ToolsReport, ToolsStop, HostSeesAddress, OtherMachine
  <2> QED
    BY <2>1 DEF Disturbs
<1>6. CASE UNCHANGED vars
  BY <1>6 DEF vars
<1> QED
  BY <1>2, <1>3, <1>4, <1>5, <1>6 DEF Next

(* Every step keeps the VM, its reports and the other machines of their    *)
(* types: only calls and the world itself change them.                     *)
LEMMA WorldStep ==
    ASSUME WorldInv, [Next]_vars
    PROVE  WorldInv'
<1> USE DEF WorldInv
<1>1. Off \in Vms /\ NoReport \in Reports
  BY IpFacts DEF Off, Vms, NoReport, Reports
<1>2. ASSUME NEW v \in Vms, NEW r \in Reports, Begin(v, r)
      PROVE  WorldInv'
  BY <1>2 DEF Begin, world
<1>3. CASE BehindRevert \/ BehindShutdown \/ AsItIs
  BY <1>1, <1>2, <1>3 DEF BehindRevert, BehindShutdown, AsItIs
<1>4. CASE PowerOn
  BY <1>4 DEF PowerOn, Vms, Same, world
<1>5. CASE Task /\ ~ PowerOn
  BY <1>5 DEF Task, ToolsRun, NoTools, WaitForTools, GetIpFromTools, WaitForIp,
      NoIpReported, GetWorldId, GetIpFromHost, WaitForHost, NoIpOnPort, CheckIp,
      CheckFails, PingAnswers, WaitForPing, NoPing, SshAnswers, WaitForSsh, NoSsh,
      UpdateInventory, Retry, GivesUp, StillWaits, Same, world
<1>6. CASE TaskFails \/ ToolsUnknown
  BY <1>6 DEF TaskFails, ToolsUnknown, Same, world
<1>7. CASE GetsAddress
  BY <1>7, IpFacts DEF GetsAddress, Disturbs, Vms, world
<1>8. CASE ToolsReport
  <2>1. PICK ip \in {report.ip, vm.ip, SecondIp} :
          report' = [report EXCEPT !.running = TRUE, !.ip = ip,
                                    !.primary = vm.ip, !.second = SecondIp]
    BY <1>8 DEF ToolsReport
  <2>2. ip \in Ips /\ vm.ip \in Ips /\ SecondIp \in {Private, NoIp}
    BY IpFacts DEF Vms, Reports
  <2> QED
    BY <1>8, <2>1, <2>2 DEF ToolsReport, Disturbs, Reports, world
<1>9. CASE ToolsStop
  BY <1>9 DEF ToolsStop, Disturbs, Reports, world
<1>10. CASE HostSeesAddress
  <2>1. vm.ip \in Ips
    BY IpFacts DEF Vms
  <2> QED
    BY <1>10, <2>1 DEF HostSeesAddress, Disturbs, Reports, world
<1>11. CASE OtherMachine
  BY <1>11 DEF OtherMachine, Disturbs, world
<1>12. CASE UNCHANGED vars
  BY <1>12 DEF vars, world
<1> QED
  BY <1>3, <1>4, <1>5, <1>6, <1>7, <1>8, <1>9, <1>10, <1>11, <1>12 DEF Next, World

(* Every step keeps what is known of the address a call has found.         *)
LEMMA CallStep ==
    ASSUME WorldInv, CallInv, [Next]_vars
    PROVE  CallInv'
<1> USE DEF CallInv, Places, facts, Same, Ends, Goes
<1>1. ASSUME NEW v, NEW r, Begin(v, r)
      PROVE  CallInv'
  BY <1>1, IpFacts DEF Begin, IsUsable
<1>2. CASE BehindRevert \/ BehindShutdown \/ AsItIs
  BY <1>1, <1>2 DEF BehindRevert, BehindShutdown, AsItIs
<1>3. ASSUME NEW p \in Places \ {"done", "inventory"}, Retry(p) \/ GivesUp(p)
      PROVE  CallInv'
  BY <1>3 DEF Retry, GivesUp, StillWaits, IsUsable
<1>4. CASE \/ WaitForTools \/ WaitForIp \/ WaitForHost \/ WaitForPing \/ WaitForSsh
           \/ NoIpReported \/ NoPing \/ NoSsh
  BY <1>3, <1>4 DEF WaitForTools, WaitForIp, WaitForHost, WaitForPing, WaitForSsh,
      NoIpReported, NoPing, NoSsh
<1>5. CASE PowerOn \/ ToolsRun \/ NoTools \/ ToolsUnknown \/ GetWorldId \/ NoIpOnPort
  BY <1>5, IpFacts DEF PowerOn, ToolsRun, NoTools, ToolsUnknown, GetWorldId, NoIpOnPort,
      StillWaits
<1>6. CASE GetIpFromTools
  BY <1>6 DEF GetIpFromTools, WorldInv, Reports
<1>7. CASE GetIpFromHost
  BY <1>7 DEF GetIpFromHost, WorldInv, Reports
<1>8. CASE CheckIp
  BY <1>8 DEF CheckIp, StillWaits, IsUsable
<1>9. CASE CheckFails \/ TaskFails
  BY <1>9 DEF CheckFails, TaskFails
<1>10. CASE PingAnswers
  BY <1>10 DEF PingAnswers, StillWaits, IsUsable
<1>11. CASE SshAnswers
  BY <1>11, WhoAnswers DEF SshAnswers, StillWaits, IsUsable
<1>12. CASE UpdateInventory
  BY <1>12 DEF UpdateInventory
<1>13. CASE World
  BY <1>13 DEF World, GetsAddress, ToolsReport, ToolsStop, HostSeesAddress, OtherMachine,
      Disturbs, IsUsable
<1>14. CASE UNCHANGED vars
  BY <1>14 DEF vars, IsUsable
<1> QED
  BY <1>2, <1>4, <1>5, <1>6, <1>7, <1>8, <1>9, <1>10, <1>11, <1>12, <1>13, <1>14 DEF
      Next, Task

(* They hold throughout.                                                   *)
LEMMA Inductive == Spec => []IInv
<1>1. IInv /\ [Next]_vars => IInv'
  BY CountsStep, WorldStep, CallStep DEF IInv
<1> QED
  BY <1>1, InitOK, PTL DEF Spec

-----------------------------------------------------------------------------
(* Types: in particular an address that is tried could be the VM's, and    *)
(* only such are put into the inventory.                                   *)
THEOREM TypeCorrect == Spec => []TypeOK
<1>1. IInv => TypeOK
  BY DEF IInv, Counts, WorldInv, CallInv, Places, TypeOK
<1> QED
  BY <1>1, Inductive, PTL

-----------------------------------------------------------------------------
(* CallEnds is a liveness property; what follows are the two facts about   *)
(* steps and states it rests on, next to the fairness of Task.             *)

(* As long as the VM and its reports stay as they are, each task finds     *)
(* what it waits for: the port's address on the host, the primary          *)
(* adapter's with tools that run.                                          *)
SteadyInv ==
    steady =>
      /\ IsUp
      /\ Current(vm, report)
      /\ pc = "guestip" => report.running
      /\ pc \in {"check", "ping", "ssh", "inventory"} => vm_guest_ip = vm.ip
      /\ pc = "done" => result = "ok" /\ vm_guest_ip = vm.ip /\ vm.ip \in inventory

(* What is known of a VM that is steady.                                   *)
LEMMA SteadyFacts ==
    ASSUME WorldInv, SteadyInv, steady
    PROVE  /\ vm \in Vms /\ vm.on /\ vm.ip \in Leases /\ vm.ip # NoIp
           /\ IsUsable(vm.ip) /\ Answers(vm.ip)
           /\ OnPort /\ report.port = vm.ip
           /\ report.running => Reported /\ report.primary = vm.ip
<1>1. /\ vm \in Vms /\ vm.on /\ vm.ip \in Leases /\ vm.ip # NoIp
      /\ IsUsable(vm.ip) /\ Answers(vm.ip)
  BY IpFacts, GuestAddressAssumption DEF WorldInv, SteadyInv, IsUp, Answers, IsVms
<1>2. OnPort /\ report.port = vm.ip
  BY <1>1 DEF SteadyInv, Current, OnPort, IsUsable
<1>3. report.running => Reported /\ report.primary = vm.ip
  BY <1>1 DEF SteadyInv, Current, Reported
<1> QED
  BY <1>1, <1>2, <1>3

(* Every step keeps it.                                                    *)
LEMMA SteadyStep ==
    ASSUME WorldInv, SteadyInv, [Next]_vars
    PROVE  SteadyInv'
<1>0. SUFFICES ASSUME steady'
               PROVE  SteadyInv'
  BY DEF SteadyInv
<1>1. ASSUME NEW v, NEW r, Begin(v, r)
      PROVE  SteadyInv'
  BY <1>0, <1>1 DEF Begin, SteadyInv, IsUp, Current, SecondIp, world
<1>2. CASE BehindRevert \/ BehindShutdown \/ AsItIs
  BY <1>1, <1>2 DEF BehindRevert, BehindShutdown, AsItIs
<1>3. CASE TaskFails \/ ToolsUnknown \/ World
  BY <1>0, <1>3 DEF TaskFails, ToolsUnknown, World, GetsAddress, ToolsReport, ToolsStop,
      HostSeesAddress, OtherMachine, Disturbs
<1>4. CASE Task
  <2>1. steady
    BY <1>0, <1>4 DEF Task, PowerOn, ToolsRun, NoTools, WaitForTools, GetIpFromTools,
        WaitForIp, NoIpReported, GetWorldId, GetIpFromHost, WaitForHost, NoIpOnPort,
        CheckIp, CheckFails, PingAnswers, WaitForPing, NoPing, SshAnswers, WaitForSsh,
        NoSsh, UpdateInventory, Retry, GivesUp, StillWaits
  <2>2. /\ vm \in Vms /\ vm.on /\ IsUsable(vm.ip) /\ Answers(vm.ip) /\ vm.ip # NoIp
        /\ OnPort /\ report.port = vm.ip
        /\ report.running => Reported /\ report.primary = vm.ip
    BY <2>1, SteadyFacts
  <2>3. /\ IsUp /\ Current(vm, report)
        /\ pc = "guestip" => report.running
        /\ pc \in {"check", "ping", "ssh", "inventory"} => vm_guest_ip = vm.ip
    BY <2>1 DEF SteadyInv
  <2>4. vm' = vm /\ report' = report /\ second' = second
    BY <1>4, <2>2 DEF Task, PowerOn, ToolsRun, NoTools, WaitForTools, GetIpFromTools,
        WaitForIp, NoIpReported, GetWorldId, GetIpFromHost, WaitForHost, NoIpOnPort,
        CheckIp, CheckFails, PingAnswers, WaitForPing, NoPing, SshAnswers, WaitForSsh,
        NoSsh, UpdateInventory, Retry, GivesUp, StillWaits, Same, world, Vms
  <2>5. IsUp' /\ Current(vm, report)'
    BY <2>3, <2>4 DEF IsUp, Current, SecondIp
  <2>6. CASE PowerOn \/ NoTools \/ WaitForTools \/ GetWorldId
    BY <2>5, <2>6 DEF SteadyInv, PowerOn, NoTools, WaitForTools, GetWorldId, Goes, Retry
  <2>7. CASE ToolsRun
    BY <2>4, <2>5, <2>7 DEF SteadyInv, ToolsRun, Goes
  <2>8. CASE GetIpFromTools
    BY <2>2, <2>3, <2>4, <2>5, <2>8 DEF SteadyInv, GetIpFromTools, Goes
  <2>9. CASE GetIpFromHost
    BY <2>2, <2>4, <2>5, <2>9 DEF SteadyInv, GetIpFromHost, Goes
  <2>10. CASE CheckIp \/ PingAnswers
    BY <2>3, <2>4, <2>5, <2>10 DEF SteadyInv, CheckIp, PingAnswers, Goes, StillWaits, facts
  <2>11. CASE SshAnswers
    BY <2>3, <2>4, <2>5, <2>11 DEF SteadyInv, SshAnswers, Goes, StillWaits, facts
  <2>12. CASE UpdateInventory
    BY <2>3, <2>4, <2>5, <2>12 DEF SteadyInv, UpdateInventory, Ends
  <2>13. CASE \/ WaitForIp \/ NoIpReported \/ WaitForHost \/ NoIpOnPort \/ CheckFails
              \/ WaitForPing \/ NoPing \/ WaitForSsh \/ NoSsh
    BY <2>2, <2>3, <2>13 DEF WaitForIp, NoIpReported, WaitForHost, NoIpOnPort, CheckFails,
        WaitForPing, NoPing, WaitForSsh, NoSsh, Retry, GivesUp
  <2> QED
    BY <1>4, <2>6, <2>7, <2>8, <2>9, <2>10, <2>11, <2>12, <2>13 DEF Task
<1>5. CASE UNCHANGED vars
  BY <1>5 DEF vars, SteadyInv, IsUp, Current, SecondIp, world, facts
<1> QED
  BY <1>2, <1>3, <1>4, <1>5 DEF Next

(* A call during which the VM has stayed as it is, up and reported as it   *)
(* is, has not failed: it has found the address of the primary adapter.    *)
(* With CallMakesProgress this is what CallEnds promises of such a call.   *)
THEOREM SteadyVmIsFound ==
    Spec => [](pc = "done" /\ steady =>
                 result = "ok" /\ vm_guest_ip = vm.ip /\ vm.ip \in inventory)
<1>1. Init => SteadyInv
  BY DEF Init, SteadyInv
<1>2. IInv /\ SteadyInv /\ [Next]_vars => SteadyInv'
  BY SteadyStep DEF IInv
<1>3. SteadyInv => (pc = "done" /\ steady =>
                      result = "ok" /\ vm_guest_ip = vm.ip /\ vm.ip \in inventory)
  BY DEF SteadyInv
<1> QED
  BY <1>1, <1>2, <1>3, Inductive, PTL DEF Spec

(* Tasks that are left, with the retries of each.                          *)
TasksLeft ==
    CASE pc = "done"      -> 0
      [] pc = "inventory" -> 1
      [] pc = "ssh"       -> 2
      [] pc = "ping"      -> 3
      [] pc = "check"     -> 4
      [] pc = "esxcli"    -> 5
      [] pc = "world"     -> 6
      [] pc = "guestip"   -> 6
      [] pc = "tools"     -> 7
      [] pc = "power"     -> 8

TriesLeft == TasksLeft * (MaxTries + 1) + (MaxTries - tries)

(* Products of numbers are numbers.                                        *)
LEMMA ProductIsNumber ==
    \A a, b \in Nat : a * b \in Nat
  OBVIOUS

(* A number of tasks times the tries of each.                              *)
LEMMA Products ==
    ASSUME NEW a \in Nat, NEW b \in Nat, NEW t \in 0..MaxTries, NEW u \in 0..MaxTries,
           b < a
    PROVE  /\ b * (MaxTries + 1) + (MaxTries - u) \in Nat
           /\ b * (MaxTries + 1) + (MaxTries - u) < a * (MaxTries + 1) + (MaxTries - t)
<1>1. MaxTries \in Nat
  BY GuestAddressAssumption
<1>2. PICK d \in Nat : a = b + 1 + d
  <2>1. a - b - 1 \in Nat /\ a = b + 1 + (a - b - 1)
    OBVIOUS
  <2> QED
    BY <2>1
<1> DEFINE w == MaxTries + 1
<1>3. w \in Nat /\ b * w \in Nat /\ d * w \in Nat /\ a * w \in Nat
  BY <1>1, <1>2
<1>4. a * w = b * w + w + d * w
  BY <1>1, <1>2, <1>3
<1> QED
  BY <1>1, <1>3, <1>4

(* Each task and each try of one brings the call nearer to its end; what   *)
(* happens to the VM, its reports and the other machines does not keep it. *)
THEOREM CallMakesProgress ==
    Spec => [][/\ Task => TriesLeft' \in Nat /\ TriesLeft' < TriesLeft
               /\ World => TriesLeft' = TriesLeft]_vars
<1>1. ASSUME IInv, IInv', [Next]_vars
      PROVE  [/\ Task => TriesLeft' \in Nat /\ TriesLeft' < TriesLeft
              /\ World => TriesLeft' = TriesLeft]_vars
  <2>1. /\ MaxTries \in Nat /\ tries \in 0..MaxTries /\ tries' \in 0..MaxTries
        /\ pc \in Places /\ pc' \in Places
    BY <1>1, GuestAddressAssumption DEF IInv, Counts, CallInv
  <2>2. TasksLeft \in Nat /\ TasksLeft' \in Nat
    BY <2>1 DEF TasksLeft, Places
  <2>3. ASSUME Task
        PROVE  TriesLeft' \in Nat /\ TriesLeft' < TriesLeft
    <3>1. CASE TasksLeft' < TasksLeft
      BY <2>1, <2>2, <3>1, Products DEF TriesLeft
    <3>2. CASE pc' = pc /\ tries' = tries + 1
      <4>1. TasksLeft' = TasksLeft
        BY <3>2 DEF TasksLeft
      <4>2. TasksLeft * (MaxTries + 1) \in Nat
        BY <2>1, <2>2, ProductIsNumber
      <4> QED
        BY <2>1, <3>2, <4>1, <4>2 DEF TriesLeft
    <3>3. \A p : Retry(p) => pc' = pc /\ tries' = tries + 1
      BY DEF Retry
    <3>4. CASE WaitForTools \/ WaitForIp \/ WaitForHost \/ WaitForPing \/ WaitForSsh
      BY <3>2, <3>3, <3>4 DEF WaitForTools, WaitForIp, WaitForHost, WaitForPing, WaitForSsh
    <3>5. CASE NoIpReported \/ CheckFails \/ NoPing \/ NoSsh \/ UpdateInventory
      <4>1. pc \in Places \ {"done"} /\ pc' = "done"
        BY <2>1, <3>5 DEF NoIpReported, CheckFails, NoPing, NoSsh, UpdateInventory,
            GivesUp, Ends, Places
      <4>2. TasksLeft' = 0 /\ TasksLeft > 0
        BY <4>1 DEF TasksLeft, Places
      <4> QED
        BY <3>1, <4>2
    <3>6. CASE PowerOn \/ ToolsRun \/ NoTools \/ GetIpFromTools \/ GetWorldId
      BY <3>1, <3>6 DEF PowerOn, ToolsRun, NoTools, GetIpFromTools, GetWorldId, Goes,
          TasksLeft
    <3>7. CASE GetIpFromHost \/ NoIpOnPort \/ CheckIp \/ PingAnswers \/ SshAnswers
      BY <3>1, <3>7 DEF GetIpFromHost, NoIpOnPort, CheckIp, PingAnswers, SshAnswers, Goes,
          TasksLeft
    <3> QED
      BY <2>3, <3>4, <3>5, <3>6, <3>7 DEF Task
  <2>4. ASSUME World
        PROVE  TriesLeft' = TriesLeft
    <3>1. pc' = pc /\ tries' = tries
      BY <2>4 DEF World, GetsAddress, ToolsReport, ToolsStop, HostSeesAddress,
          OtherMachine, Disturbs
    <3> QED
      BY <3>1 DEF TriesLeft, TasksLeft
  <2> QED
    BY <2>3, <2>4
<1> QED
  BY <1>1, Inductive, PTL DEF Spec
=============================================================================
