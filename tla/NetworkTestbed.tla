--------------------------- MODULE NetworkTestbed ---------------------------
(***************************************************************************)
(* The networks that network device tests and guest customization with a   *)
(* static address need: common/network_testbed_setup.yml makes one, on a   *)
(* standard switch with a router VM (vss) or on a distributed switch with  *)
(* a VMkernel adapter (vds), the tests that follow use it, and             *)
(* env_cleanup.yml has it removed (common/network_testbed_cleanup.yml).    *)
(*                                                                         *)
(* Several runs may use one ESXi host.  Switches, port groups and the      *)
(* router VM bear the time of their run in their names; VMkernel adapters  *)
(* are numbered by the host, and every run takes the next number itself.   *)
(* Every task may fail, before or after it has done its work, and a run    *)
(* may be over at any moment.                                              *)
(***************************************************************************)
EXTENDS FiniteSets, Naturals, Sequences

CONSTANTS
    Runs,       \* runs on the host
    Lists,      \* what the network tests of a test case list ask for, in order
    Taken,      \* VMkernel adapters that the host has of its own: sets of indices
    Others,     \* numbers of distributed switches that it has
    MaxIndex,   \* bound of the index, 255
    MaxVds,     \* most distributed switches of a host, 16
    NoRun       \* owner of an adapter that is not there

Nets == {"vss", "vds"}

ASSUME NetworkTestbedAssumption ==
    /\ NoRun \notin Runs
    /\ "host" \notin Runs \cup {NoRun}
    /\ Lists \subseteq Seq(Nets)
    /\ MaxIndex \in Nat
    /\ Taken \subseteq SUBSET (0..MaxIndex)
    /\ MaxVds \in Nat
    /\ Others \subseteq Nat

VARIABLES
    arm,        \* esxi_cpu_vendor is "arm"
    vcenter,    \* vcenter_is_defined
    taken, others,
    run,        \* of each run: what it has come to, and its facts
    parts,      \* what there is in the names of each run
    vmks,       \* owner of each VMkernel adapter
    stale,      \* history: another run has added an adapter since it took its index
    raced       \* history: took an adapter that was no longer free, or lost it so,
                \* or to a run that holds the adapter for its own by such a race

host == <<arm, vcenter, taken, others>>
vars == <<host, run, parts, vmks, stale, raced>>

-----------------------------------------------------------------------------
VssSetup == <<"vswitch", "portgroup", "router", "nic", "poweron">>
VdsSetup == <<"count", "dvswitch", "dportgroup", "esxi", "index", "vmk">>
VssCleanup == <<"poweron", "router", "portgroup", "vswitch">>
VdsCleanup == <<"vmk", "esxi", "dportgroup", "dvswitch">>

Parts ==
    [vss |-> {"vswitch", "portgroup", "router", "nic", "poweron"},
     vds |-> {"dvswitch", "dportgroup", "esxi", "vmk"}]

TaskNames == Parts.vss \cup Parts.vds \cup {"count", "index"}

PortGroupOf == [vss |-> "portgroup", vds |-> "dportgroup"]

Places == {"start", "setup", "build", "ready", "test", "cleanup", "remove", "ended"}
NoNet == "none"
NoIndex == MaxIndex + 1

Run ==
    [pc : Places,
     tests : Seq(Nets),                   \* network tests still to come
     type : Nets,                         \* network_testbed_type of the current one
     net : Nets \cup {NoNet},             \* being set up or removed
     left : Seq(TaskNames),               \* the tasks of that which are left
     vss : BOOLEAN, vds : BOOLEAN,        \* vss_network_is_setup, vds_network_is_setup
     index : 0..NoIndex,                  \* vds_vmk_device_index
     name : Nets \cup {NoNet},            \* network_env_net_name
     attached : SUBSET Nets,              \* networks of the VM's adapters
     list : Seq(Nets),                    \* history: all the tests
     failed : BOOLEAN]                    \* history: a set-up, cleanup or the run has failed

Init ==
    /\ arm \in BOOLEAN
    /\ vcenter \in BOOLEAN
    /\ taken \in Taken
    /\ others \in Others
    /\ \E list \in [Runs -> Lists] :
         run = [r \in Runs |->
                  [pc |-> "start", tests |-> list[r], type |-> "vss", net |-> NoNet,
                   left |-> <<>>, vss |-> FALSE, vds |-> FALSE, index |-> NoIndex,
                   name |-> NoNet, attached |-> {}, list |-> list[r], failed |-> FALSE]]
    /\ parts = [r \in Runs |-> {}]
    /\ vmks = [i \in 0..MaxIndex |-> IF i \in taken THEN "host" ELSE NoRun]
    /\ stale = {}
    /\ raced = {}

At(r, place) == run[r].pc = place
Task(r) == Head(run[r].left)

(* The distributed switches the host is connected to.                      *)
Vds == others + Cardinality({r \in Runs : "esxi" \in parts[r]})

-----------------------------------------------------------------------------
(* A network test: test_setup.yml reverts the VM to its base snapshot,     *)
(* network_testbed_setup.yml decides what has to be set up.                *)
BeginTest(r) ==
    /\ At(r, "start")
    /\ run[r].tests # <<>>
    /\ run' = [run EXCEPT ![r].pc = "setup", ![r].type = Head(run[r].tests),
                          ![r].tests = Tail(@), ![r].attached = {}]
    /\ UNCHANGED <<host, parts, vmks, stale, raced>>

NeedsVss(r) ==
    ~ arm /\ run[r].type = "vss" /\ ~ run[r].vss /\ ~ run[r].vds

NeedsVds(r) ==
    ~ run[r].vds /\ (arm \/ run[r].type = "vds")

SetupVss(r) ==
    /\ At(r, "setup")
    /\ NeedsVss(r)
    /\ run' = [run EXCEPT ![r].pc = "build", ![r].net = "vss", ![r].left = VssSetup]
    /\ UNCHANGED <<host, parts, vmks, stale, raced>>

(* Mutant: vds_network_is_setup is set ahead of the tasks.                 *)
SetupVdsFactFirst(r) ==
    /\ At(r, "setup")
    /\ NeedsVds(r)
    /\ vcenter
    /\ run' = [run EXCEPT ![r].pc = "build", ![r].net = "vds", ![r].left = VdsSetup,
                          ![r].vds = TRUE]
    /\ UNCHANGED <<host, parts, vmks, stale, raced>>

SetupVds(r) ==
    /\ At(r, "setup")
    /\ NeedsVds(r)
    /\ vcenter
    /\ run' = [run EXCEPT ![r].pc = "build", ![r].net = "vds", ![r].left = VdsSetup]
    /\ UNCHANGED <<host, parts, vmks, stale, raced>>

(* skip_test_case.yml without a vCenter Server.                            *)
SkipTest(r) ==
    /\ At(r, "setup")
    /\ NeedsVds(r)
    /\ ~ vcenter
    /\ run' = [run EXCEPT ![r].pc = "start"]
    /\ UNCHANGED <<host, parts, vmks, stale, raced>>

IsSetUp(r) ==
    /\ At(r, "setup")
    /\ ~ NeedsVss(r) /\ ~ NeedsVds(r)
    /\ run' = [run EXCEPT ![r].pc = "test"]
    /\ UNCHANGED <<host, parts, vmks, stale, raced>>

-----------------------------------------------------------------------------
(* vss_network_setup.yml, vds_network_setup.yml.                           *)
TaskDone(r) == run' = [run EXCEPT ![r].left = Tail(@)]

(* Mutant: as many as there may be.                                        *)
RoomForOne == Vds < MaxVds

(* Less than 15, for a maximum of 16.                                      *)
RoomForVds == Vds < MaxVds - 1

CountVds(r) ==
    /\ At(r, "build")
    /\ run[r].left # <<>> /\ Task(r) = "count"
    /\ RoomForVds
    /\ TaskDone(r)
    /\ UNCHANGED <<host, parts, vmks, stale, raced>>

(* Of the distributed switch and its port group it is asserted that the    *)
(* task has changed something, the other tasks find what they make.        *)
MustChange == {"dvswitch", "dportgroup"}

MakePart(r) ==
    /\ At(r, "build")
    /\ run[r].left # <<>> /\ Task(r) \notin {"count", "index", "vmk"}
    /\ Task(r) \in MustChange => Task(r) \notin parts[r]
    /\ parts' = [parts EXCEPT ![r] = @ \cup {Task(r)}]
    /\ TaskDone(r)
    /\ UNCHANGED <<host, vmks, stale, raced>>

Indices == {i \in DOMAIN vmks : vmks[i] # NoRun}

(* Mutant: the number of adapters is the index, also where there is a gap. *)
CountIsIndex(used) == Cardinality(used)

(* esxi_get_new_vmkernel_adapter.yml: the number of adapters if that is    *)
(* next to the last index, else the first gap.                             *)
NewIndex(used) ==
    LET n == Cardinality(used)
    IN  IF used = {} \/ (n - 1 \in used /\ \A i \in used : i <= n - 1)
        THEN n
        ELSE CHOOSE i \in (0..(n - 1)) \ used : \A j \in (0..(n - 1)) \ used : i <= j

(* Mutant: the range is not checked.                                       *)
GetAnyIndex(r) ==
    /\ At(r, "build")
    /\ run[r].left # <<>> /\ Task(r) = "index"
    /\ run' = [run EXCEPT ![r].index = NewIndex(Indices), ![r].left = Tail(@)]
    /\ stale' = stale \ {r}
    /\ UNCHANGED <<host, parts, vmks, raced>>

GetIndex(r) ==
    /\ At(r, "build")
    /\ run[r].left # <<>> /\ Task(r) = "index"
    /\ NewIndex(Indices) \in 0..MaxIndex
    /\ run' = [run EXCEPT ![r].index = NewIndex(Indices), ![r].left = Tail(@)]
    /\ stale' = stale \ {r}
    /\ UNCHANGED <<host, parts, vmks, raced>>

(* Runs that have taken an index and not yet added the adapter.            *)
InBetween(r) == At(r, "build") /\ run[r].left # <<>> /\ Task(r) = "vmk"

(* vmware_vmkernel changes an adapter that has the index already, and      *)
(* reports that as a change of the device asked for.                       *)
AddVmk(r) ==
    LET i == run[r].index IN
    /\ InBetween(r)
    /\ vmks' = [vmks EXCEPT ![i] = r]
    /\ parts' = [parts EXCEPT ![r] = @ \cup {"vmk"}]
    /\ TaskDone(r)
    /\ stale' = stale \cup {s \in Runs \ {r} : InBetween(s)}
    /\ raced' = IF r \in stale /\ vmks[i] # NoRun THEN raced \cup {r, vmks[i]} ELSE raced
    /\ UNCHANGED host

(* The facts are set at the end of the set-up, and the conditions behind   *)
(* it are looked at.                                                       *)
SetFacts(r) ==
    /\ At(r, "build")
    /\ run[r].left = <<>>
    /\ run' = [run EXCEPT ![r].pc = "setup", ![r].net = NoNet, ![r].name = run[r].net,
                          ![r].vss = @ \/ run[r].net = "vss",
                          ![r].vds = @ \/ run[r].net = "vds"]
    /\ UNCHANGED <<host, parts, vmks, stale, raced>>

(* A set-up task fails, and with it the test; what a switch, a port group  *)
(* or a VM was made by it may be there.                                    *)
SetupFails(r) ==
    /\ At(r, "build")
    /\ run' = [run EXCEPT ![r].pc = "start", ![r].net = NoNet, ![r].left = <<>>,
                          ![r].failed = TRUE]
    /\ \/ UNCHANGED parts
       \/ /\ run[r].left # <<>> /\ Task(r) \notin {"count", "index", "vmk"}
          /\ parts' = [parts EXCEPT ![r] = @ \cup {Task(r)}]
    /\ UNCHANGED <<host, vmks, stale, raced>>

-----------------------------------------------------------------------------
(* network_device_test.yml: how the new adapter gets its address.          *)
Method(r) == IF run[r].vss THEN "dhcp" ELSE "static"

(* The VM gets an adapter on the network, and may keep it when the test    *)
(* fails.                                                                  *)
UseNetwork(r) ==
    /\ At(r, "test")
    /\ run' = [run EXCEPT ![r].pc = "start", ![r].attached = {run[r].name}]
    /\ UNCHANGED <<host, parts, vmks, stale, raced>>

TestEnds(r) ==
    /\ At(r, "test")
    /\ run' = [run EXCEPT ![r].pc = "start"]
    /\ UNCHANGED <<host, parts, vmks, stale, raced>>

-----------------------------------------------------------------------------
(* Mutant: env_cleanup.yml leaves the VM as the last test has left it.     *)
CleanupKeepsVm(r) ==
    /\ At(r, "start")
    /\ run' = [run EXCEPT ![r].pc = "cleanup"]
    /\ UNCHANGED <<host, parts, vmks, stale, raced>>

(* env_cleanup.yml: back to the base snapshot.                             *)
BeginCleanup(r) ==
    /\ At(r, "start")
    /\ run' = [run EXCEPT ![r].pc = "cleanup", ![r].attached = {}]
    /\ UNCHANGED <<host, parts, vmks, stale, raced>>

CleanupVss(r) ==
    /\ At(r, "cleanup")
    /\ run[r].vss
    /\ run' = [run EXCEPT ![r].pc = "remove", ![r].net = "vss", ![r].left = VssCleanup]
    /\ UNCHANGED <<host, parts, vmks, stale, raced>>

CleanupVds(r) ==
    /\ At(r, "cleanup")
    /\ ~ run[r].vss /\ run[r].vds
    /\ run' = [run EXCEPT ![r].pc = "remove", ![r].net = "vds", ![r].left = VdsCleanup]
    /\ UNCHANGED <<host, parts, vmks, stale, raced>>

(* The router VM takes its adapter with it.                                *)
Gone(task) == IF task = "router" THEN {"router", "nic"} ELSE {task}

(* A port group with an adapter of the VM cannot be removed.               *)
InUse(r) == Task(r) = PortGroupOf[run[r].net] /\ run[r].net \in run[r].attached

(* Whoever's the adapter with the index is; that there was one is asserted. *)
RemoveVmk(r) ==
    LET i == run[r].index IN
    /\ vmks[i] # NoRun
    /\ vmks' = [vmks EXCEPT ![i] = NoRun]
    /\ raced' = IF r \in raced THEN raced \cup {vmks[i]} ELSE raced

RemovePart(r) ==
    /\ At(r, "remove")
    /\ run[r].left # <<>>
    /\ Task(r) \in parts[r]
    /\ ~ InUse(r)
    /\ parts' = [parts EXCEPT ![r] = @ \ Gone(Task(r))]
    /\ IF Task(r) = "vmk" THEN RemoveVmk(r) ELSE UNCHANGED <<vmks, raced>>
    /\ TaskDone(r)
    /\ UNCHANGED <<host, stale>>

ClearFact(r) ==
    /\ At(r, "remove")
    /\ run[r].left = <<>>
    /\ run' = [run EXCEPT ![r].pc = "cleanup", ![r].net = NoNet,
                          ![r].vss = @ /\ run[r].net # "vss",
                          ![r].vds = @ /\ run[r].net # "vds"]
    /\ UNCHANGED <<host, parts, vmks, stale, raced>>

CleanupEnds(r) ==
    /\ At(r, "cleanup")
    /\ ~ run[r].vss /\ ~ run[r].vds
    /\ run' = [run EXCEPT ![r].pc = "ended"]
    /\ UNCHANGED <<host, parts, vmks, stale, raced>>

Blocked(r) == At(r, "remove") /\ run[r].left # <<>> /\ InUse(r)

(* A failed task ends env_cleanup.yml; exit_testing_when_fail, an          *)
(* unreachable host or the user end the run without it.  That the port     *)
(* group is in use is not counted as a failure of its own.                 *)
RunFails(r) ==
    /\ ~ At(r, "ended")
    /\ run' = [run EXCEPT ![r].pc = "ended", ![r].net = NoNet, ![r].left = <<>>,
                          ![r].failed = @ \/ ~ Blocked(r)]
    /\ UNCHANGED <<host, parts, vmks, stale, raced>>

Step(r) ==
    \/ BeginTest(r) \/ SetupVss(r) \/ SetupVds(r) \/ SkipTest(r) \/ IsSetUp(r)
    \/ CountVds(r) \/ MakePart(r) \/ GetIndex(r) \/ AddVmk(r) \/ SetFacts(r) \/ SetupFails(r)
    \/ UseNetwork(r) \/ TestEnds(r)
    \/ BeginCleanup(r) \/ CleanupVss(r) \/ CleanupVds(r) \/ RemovePart(r) \/ ClearFact(r)
    \/ CleanupEnds(r) \/ RunFails(r)

Next == \E r \in Runs : Step(r)

Spec == Init /\ [][Next]_vars

-----------------------------------------------------------------------------
(* Types; an index that an adapter is added with is one that it may have.  *)
TypeOK ==
    /\ arm \in BOOLEAN /\ vcenter \in BOOLEAN
    /\ taken \in Taken /\ others \in Others
    /\ \A r \in Runs :
         /\ run[r].pc \in Places /\ run[r].type \in Nets
         /\ run[r].index \in 0..NoIndex
         /\ InBetween(r) => run[r].index \in DOMAIN vmks
         /\ {run[r].net, run[r].name} \subseteq Nets \cup {NoNet}
         /\ run[r].attached \subseteq Nets
         /\ run[r].pc \in {"build", "remove"} <=> run[r].net # NoNet
    /\ parts \in [Runs -> SUBSET (Parts.vss \cup Parts.vds)]
    /\ vmks \in [0..MaxIndex -> Runs \cup {NoRun, "host"}]

(* Tests on the distributed switch come first.                             *)
VdsFirst(tests) ==
    \A i, j \in DOMAIN tests : i < j /\ tests[i] = "vss" => tests[j] = "vss"

(* A test that goes on behind network_testbed_setup.yml has a network with *)
(* all its parts, whatever earlier set-ups of the run have come to, and    *)
(* the name is the one of that network.  network_device_test.yml asks for  *)
(* an address by DHCP only on the network that has a router VM to give it  *)
(* one, provided that the test case list has its tests for the distributed *)
(* switch ahead of the others, as linux/gosv_testcase_list.yml has.        *)
TestHasNetwork ==
    \A r \in Runs :
      At(r, "test") =>
        /\ run[r].name \in Nets
        /\ Parts[run[r].name] \subseteq parts[r]
        /\ run[r].type = "vss" /\ VdsFirst(run[r].list) =>
             (Method(r) = "dhcp") = (run[r].name = "vss")

(* What a run has made it has removed at its end, unless a set-up, the     *)
(* cleanup or the run itself has failed, and the cleanup does not fail for *)
(* an adapter of the VM that is still on the network (the VM is reverted   *)
(* first, see the comment in env_cleanup.yml).                             *)
NothingIsLeft ==
    \A r \in Runs :
      At(r, "ended") /\ ~ run[r].failed =>
        parts[r] = {} /\ (r \in raced \/ \A i \in DOMAIN vmks : vmks[i] # r)

(* A VMkernel adapter that is not a run's own is left alone, and a run     *)
(* keeps its own, unless two runs took the same index at the same time,    *)
(* or one that lost its adapter so has removed this one by its index.      *)
VmksAreKept ==
    /\ \A i \in taken : vmks[i] = "host"
    /\ \A r \in Runs :
         run[r].vds /\ "vmk" \in parts[r] /\ r \notin raced => vmks[run[r].index] = r

(* The host is connected to no more distributed switches than it may be,   *)
(* also when two runs set up theirs at the same time (vds_network_setup).  *)
VdsWithinMaximum ==
    others <= MaxVds => Vds <= MaxVds

=============================================================================
