------------------------ MODULE NetworkTestbedProofs ------------------------
(***************************************************************************)
(* Proofs about NetworkTestbed, for any runs on a host, any lists of their *)
(* network tests, and whatever the host has of its own.                    *)
(***************************************************************************)
EXTENDS NetworkTestbed, FiniteSetTheorems, SequenceTheorems, WellFoundedInduction, TLAPS

Tasks(left) == {left[i] : i \in DOMAIN left}

(* What may be left of the tasks of a plan.                                *)
From(plan) == {SubSeq(plan, k, Len(plan)) : k \in 1..(Len(plan) + 1)}

SetupOf   == [vss |-> VssSetup, vds |-> VdsSetup]
CleanupOf == [vss |-> VssCleanup, vds |-> VdsCleanup]

AllParts == Parts.vss \cup Parts.vds

-----------------------------------------------------------------------------
TypeInv ==
    /\ arm \in BOOLEAN /\ vcenter \in BOOLEAN
    /\ taken \in Taken /\ others \in Others
    /\ run \in [Runs -> Run]
    /\ parts \in [Runs -> SUBSET AllParts]
    /\ vmks \in [0..MaxIndex -> Runs \cup {NoRun, "host"}]

(* What a run c is at, and why.                                            *)
IsUp(c, n) == IF n = "vss" THEN c.vss ELSE c.vds

PlaceOK(c) ==
    /\ c.pc \in {"build", "remove"} <=> c.net # NoNet
    /\ c.pc = "build" =>
         /\ c.left \in From(SetupOf[c.net])
         /\ ~ IsUp(c, c.net)
         /\ c.net = "vss" => ~ arm /\ c.type = "vss"
         /\ c.net = "vds" => arm \/ c.type = "vds"
    /\ c.pc = "remove" => c.left \in From(CleanupOf[c.net]) /\ IsUp(c, c.net)
    /\ c.pc \in {"cleanup", "remove"} => c.attached = {}

(* The parts of a network that a run c must have, which are all that it    *)
(* has unless it has failed.                                               *)
Standing(c, n) ==
    IF c.net = n
    THEN IF c.pc = "build" THEN Parts[n] \ Tasks(c.left)
         ELSE Parts[n] \cap UNION {Gone(t) : t \in Tasks(c.left)}
    ELSE IF IsUp(c, n) THEN Parts[n] ELSE {}

PartsOK(c, p) ==
    /\ c.pc # "ended" =>
         \A n \in Nets : Standing(c, n) \subseteq p
                         /\ (~ c.failed => p \cap Parts[n] \subseteq Standing(c, n))
    /\ c.pc = "ended" /\ ~ c.failed => p = {}

(* The name is the one of the network that was set up last, until the      *)
(* cleanup; with the tests for the distributed switch first, a standard    *)
(* switch is set up only when there are none left.                         *)
AllVss(tests) == \A i \in DOMAIN tests : tests[i] = "vss"
Cleaning == {"cleanup", "remove", "ended"}

NameOK(c) ==
    c.pc \notin Cleaning =>
      /\ c.name = NoNet => ~ c.vss /\ ~ c.vds
      /\ c.name # NoNet => IsUp(c, c.name)
      /\ arm => ~ c.vss
      /\ c.pc = "test" =>
           /\ arm \/ c.type = "vds" => c.vds
           /\ c.vss \/ c.vds
      /\ VdsFirst(c.list) =>
           /\ VdsFirst(c.tests)
           /\ c.pc # "start" /\ c.type = "vss" => AllVss(c.tests)
           /\ c.vss => c.name = "vss" /\ c.type = "vss" /\ AllVss(c.tests)

(* The index a run has got is none of the host's own adapters, and it is   *)
(* the one of its adapter: a second set-up does not come to another index, *)
(* as it fails at the switch that is there.                                *)
IndexOK(c, p) ==
    /\ c.index # NoIndex => c.index \notin taken
    /\ "vmk" \in p => c.index # NoIndex /\ "dvswitch" \in p
    /\ c.net = "vds" /\ c.pc = "build" =>
         /\ "index" \notin Tasks(c.left) => c.index # NoIndex
         /\ "dvswitch" \notin Tasks(c.left) /\ "vmk" \in Tasks(c.left) => "vmk" \notin p
    /\ c.net = "vds" /\ c.pc = "remove" /\ "vmk" \notin Tasks(c.left) => "vmk" \notin p

RunOK(c, p) == PlaceOK(c) /\ PartsOK(c, p) /\ NameOK(c) /\ IndexOK(c, p)
RunInv == \A r \in Runs : RunOK(run[r], parts[r])

(* Whose the VMkernel adapters are.  An index that no other run has used   *)
(* since is still free.                                                    *)
VmkInv ==
    /\ \A i \in 0..MaxIndex : vmks[i] = "host" <=> i \in taken
    /\ \A r \in Runs : InBetween(r) /\ r \notin stale => vmks[run[r].index] = NoRun
    /\ \A r \in Runs \ raced :
         /\ "vmk" \in parts[r] => vmks[run[r].index] = r
         /\ \A i \in 0..MaxIndex : vmks[i] = r => i = run[r].index /\ "vmk" \in parts[r]

IInv == TypeInv /\ RunInv /\ VmkInv

(* A run that has counted the distributed switches has found room for two. *)
HasCounted(c, p) ==
    "esxi" \in p \/ (c.net = "vds" /\ c.pc = "build" /\ "count" \notin Tasks(c.left))
CountInv == \A r \in Runs : HasCounted(run[r], parts[r]) => others + 2 <= MaxVds

-----------------------------------------------------------------------------
(* A sequence of tasks without its first.                                  *)
LEMMA TasksOfTail ==
    ASSUME NEW S, NEW left \in Seq(S), left # << >>
    PROVE  /\ Head(left) \in S /\ Tail(left) \in Seq(S)
           /\ Tasks(left) = {Head(left)} \cup Tasks(Tail(left))
<1>1. /\ Len(left) \in Nat /\ Len(left) > 0 /\ DOMAIN left = 1..Len(left)
      /\ \A i \in 1..Len(left) : left[i] \in S
  BY EmptySeq, LenProperties
<1>2. /\ Head(left) = left[1]
      /\ Tail(left) \in Seq(S) /\ Len(Tail(left)) = Len(left) - 1
      /\ DOMAIN Tail(left) = 1..(Len(left) - 1)
      /\ \A i \in 1..(Len(left) - 1) : Tail(left)[i] = left[i + 1]
  BY HeadTailProperties, <1>1
<1>3. Tasks(left) \subseteq {Head(left)} \cup Tasks(Tail(left))
  <2> SUFFICES ASSUME NEW i \in 1..Len(left), i # 1
               PROVE  left[i] \in Tasks(Tail(left))
    BY <1>1, <1>2 DEF Tasks
  <2>1. i - 1 \in 1..(Len(left) - 1) /\ Tail(left)[i - 1] = left[i]
    BY <1>1, <1>2
  <2> QED
    BY <2>1, <1>2 DEF Tasks
<1>4. {Head(left)} \cup Tasks(Tail(left)) \subseteq Tasks(left)
  <2>1. Head(left) \in Tasks(left)
    BY <1>1, <1>2 DEF Tasks
  <2>2. ASSUME NEW i \in 1..(Len(left) - 1)
        PROVE  Tail(left)[i] \in Tasks(left)
    <3>1. i + 1 \in 1..Len(left)
      BY <1>1
    <3> QED
      BY <1>2, <1>1, <3>1 DEF Tasks
  <2> QED
    BY <2>1, <2>2, <1>2 DEF Tasks
<1> QED
  BY <1>1, <1>2, <1>3, <1>4

Plans == {VssSetup, VdsSetup, VssCleanup, VdsCleanup}

(* The plans name each task once.                                          *)
LEMMA PlanFacts ==
    ASSUME NEW plan \in Plans
    PROVE  /\ plan \in Seq(TaskNames)
           /\ \A i, j \in 1..Len(plan) : plan[i] = plan[j] => i = j
           /\ plan \in From(plan)
<1>1. plan \in Seq(TaskNames)
  <2>1. VssSetup \in Seq(TaskNames)
    BY DEF VssSetup, TaskNames, Parts
  <2>2. VdsSetup \in Seq(TaskNames)
    BY DEF VdsSetup, TaskNames, Parts
  <2>3. VssCleanup \in Seq(TaskNames)
    BY DEF VssCleanup, TaskNames, Parts
  <2>4. VdsCleanup \in Seq(TaskNames)
    BY DEF VdsCleanup, TaskNames, Parts
  <2> QED
    BY <2>1, <2>2, <2>3, <2>4 DEF Plans
<1>2. \A i, j \in 1..Len(plan) : plan[i] = plan[j] => i = j
  <2>1. CASE plan = VssSetup
    BY <2>1 DEF VssSetup
  <2>2. CASE plan = VdsSetup
    BY <2>2 DEF VdsSetup
  <2>3. CASE plan = VssCleanup
    BY <2>3 DEF VssCleanup
  <2>4. CASE plan = VdsCleanup
    BY <2>4 DEF VdsCleanup
  <2> QED
    BY <2>1, <2>2, <2>3, <2>4 DEF Plans
<1>3. plan = SubSeq(plan, 1, Len(plan))
  BY <1>1, SubSeqFull, LenProperties
<1> QED
  BY <1>1, <1>2, <1>3, LenProperties DEF From

(* What is left of a plan: the tasks from the k-th on.                     *)
LEMMA LeftOfPlan ==
    ASSUME NEW plan \in Plans, NEW left \in From(plan), left # << >>
    PROVE  /\ Tail(left) \in From(plan)
           /\ Head(left) \notin Tasks(Tail(left))
           /\ Tasks(left) = {Head(left)} \cup Tasks(Tail(left))
           /\ \E k \in 1..Len(plan) :
                /\ Head(left) = plan[k]
                /\ Tasks(left) = {plan[i] : i \in k..Len(plan)}
                /\ Tasks(Tail(left)) = {plan[i] : i \in (k + 1)..Len(plan)}
<1>0. /\ plan \in Seq(TaskNames)
      /\ \A i, j \in 1..Len(plan) : plan[i] = plan[j] => i = j
  BY PlanFacts
<1> DEFINE n == Len(plan)
<1>1. n \in Nat /\ \A i \in 1..n : plan[i] \in TaskNames
  BY <1>0, LenProperties
<1>2. PICK k \in 1..(n + 1) : left = SubSeq(plan, k, n)
  BY DEF From
<1>3. k \in 1..n
  BY <1>1, <1>2, SubSeqEmpty
<1> HIDE DEF n
<1>4. ASSUME NEW j \in 1..(n + 1)
      PROVE  /\ SubSeq(plan, j, n) \in Seq(TaskNames)
             /\ Tasks(SubSeq(plan, j, n)) = {plan[i] : i \in j..n}
  <2> DEFINE s == SubSeq(plan, j, n)
  <2>1. /\ s \in Seq(TaskNames) /\ Len(s) = n - j + 1
        /\ \A i \in 1..(n - j + 1) : s[i] = plan[j + i - 1]
    BY <1>1, SubSeqProperties
  <2>2. DOMAIN s = 1..(n - j + 1)
    BY <2>1, LenProperties
  <2> HIDE DEF s
  <2>3. \A i \in 1..(n - j + 1) : j + i - 1 \in j..n /\ s[i] = plan[j + i - 1]
    BY <1>1, <2>1
  <2>4. \A i \in j..n : i - j + 1 \in 1..(n - j + 1) /\ s[i - j + 1] = plan[i]
    <3> TAKE i \in j..n
    <3>1. i - j + 1 \in 1..(n - j + 1) /\ j + (i - j + 1) - 1 = i
      BY <1>1
    <3> QED
      BY <2>1, <3>1
  <2>5. Tasks(s) = {plan[i] : i \in j..n}
    <3>1. \A t \in Tasks(s) : t \in {plan[i] : i \in j..n}
      BY <2>2, <2>3 DEF Tasks
    <3>2. \A i \in j..n : plan[i] \in Tasks(s)
      BY <2>2, <2>4 DEF Tasks
    <3> QED
      BY <3>1, <3>2
  <2> QED
    BY <2>1, <2>5 DEF s
<1>5. Head(left) = plan[k] /\ Tail(left) = SubSeq(plan, k + 1, n)
  BY <1>0, <1>1, <1>2, <1>3, HeadTailOfSubSeq DEF n
<1>6. k + 1 \in 1..(n + 1)
  BY <1>1, <1>3
<1>7. left \in Seq(TaskNames) /\ Tail(left) = SubSeq(plan, k + 1, n)
  BY <1>1, <1>2, <1>3, <1>4, <1>5
<1>8. /\ Tasks(left) = {plan[i] : i \in k..n}
      /\ Tasks(Tail(left)) = {plan[i] : i \in (k + 1)..n}
  BY <1>2, <1>3, <1>4, <1>5, <1>6
<1>9. Head(left) \notin Tasks(Tail(left))
  BY <1>0, <1>1, <1>5, <1>8 DEF n
<1>10. Tasks(left) = {Head(left)} \cup Tasks(Tail(left))
  BY <1>7, TasksOfTail
<1> QED
  BY <1>3, <1>5, <1>6, <1>8, <1>9, <1>10 DEF n, From

(* What is left of a set-up, and the order of its tasks.                   *)
LEMMA VssSetupLeft ==
    ASSUME NEW left \in From(VssSetup), left # << >>
    PROVE  Head(left) \in Parts.vss
<1>1. PICK k \in 1..Len(VssSetup) : Head(left) = VssSetup[k]
  BY LeftOfPlan DEF Plans
<1> QED
  BY <1>1 DEF VssSetup, Parts

(* The same of the set-up of a distributed switch.                         *)
LEMMA VdsSetupLeft ==
    ASSUME NEW left \in From(VdsSetup), left # << >>
    PROVE  /\ Head(left) \in Parts.vds \cup {"count", "index"}
           /\ Head(left) = "vmk" <=> "index" \notin Tasks(left)
           /\ Head(left) \in {"index", "vmk"} => "dvswitch" \notin Tasks(left)
           /\ "vmk" \in Tasks(left)
           /\ Head(left) = "esxi" => "count" \notin Tasks(left)
<1>1. PICK k \in 1..Len(VdsSetup) :
        /\ Head(left) = VdsSetup[k]
        /\ Tasks(left) = {VdsSetup[i] : i \in k..Len(VdsSetup)}
  BY LeftOfPlan DEF Plans
<1>2. /\ Len(VdsSetup) = 6 /\ VdsSetup[1] = "count" /\ VdsSetup[2] = "dvswitch"
      /\ VdsSetup[3] = "dportgroup" /\ VdsSetup[4] = "esxi" /\ VdsSetup[5] = "index"
      /\ VdsSetup[6] = "vmk"
  BY DEF VdsSetup
<1>3. Head(left) \in Parts.vds \cup {"count", "index"}
  BY <1>1, <1>2 DEF Parts
<1>4. /\ Head(left) = "vmk" <=> k = 6
      /\ Head(left) = "index" => k = 5
      /\ Head(left) = "esxi" => k = 4
  BY <1>1, <1>2
<1>5. /\ k = 6 <=> "index" \notin Tasks(left)
      /\ k > 2 => "dvswitch" \notin Tasks(left)
      /\ k > 1 => "count" \notin Tasks(left)
      /\ "vmk" \in Tasks(left)
  BY <1>1, <1>2
<1> QED
  BY <1>3, <1>4, <1>5

(* What is left of a cleanup: the adapter goes ahead of the switch.        *)
LEMMA VssCleanupLeft ==
    ASSUME NEW left \in From(VssCleanup), left # << >>
    PROVE  Head(left) \in Parts.vss /\ "nic" \notin Tasks(left)
<1>1. PICK k \in 1..Len(VssCleanup) :
        /\ Head(left) = VssCleanup[k]
        /\ Tasks(left) = {VssCleanup[i] : i \in k..Len(VssCleanup)}
  BY LeftOfPlan DEF Plans
<1>2. \A i \in 1..Len(VssCleanup) : VssCleanup[i] \in Parts.vss \ {"nic"}
  BY DEF VssCleanup, Parts
<1> QED
  BY <1>1, <1>2

(* The same of its cleanup.                                                *)
LEMMA VdsCleanupLeft ==
    ASSUME NEW left \in From(VdsCleanup), left # << >>
    PROVE  /\ Head(left) \in Parts.vds
           /\ Tasks(left) \subseteq Parts.vds
           /\ Head(left) = "dvswitch" => "vmk" \notin Tasks(left)
<1>1. PICK k \in 1..Len(VdsCleanup) :
        /\ Head(left) = VdsCleanup[k]
        /\ Tasks(left) = {VdsCleanup[i] : i \in k..Len(VdsCleanup)}
  BY LeftOfPlan DEF Plans
<1>2. /\ Len(VdsCleanup) = 4 /\ VdsCleanup[1] = "vmk" /\ VdsCleanup[2] = "esxi"
      /\ VdsCleanup[3] = "dportgroup" /\ VdsCleanup[4] = "dvswitch"
  BY DEF VdsCleanup
<1>3. Head(left) \in Parts.vds /\ Tasks(left) \subseteq Parts.vds
  BY <1>1, <1>2 DEF Parts
<1>4. Head(left) = "dvswitch" => k = 4
  BY <1>1, <1>2
<1>5. k > 1 => "vmk" \notin Tasks(left)
  BY <1>1, <1>2
<1> QED
  BY <1>3, <1>4, <1>5

(* All tasks of a plan, and none.                                          *)
LEMMA TasksOfPlans ==
    /\ Tasks(<< >>) = {}
    /\ Tasks(VssSetup) = Parts.vss
    /\ Tasks(VdsSetup) = Parts.vds \cup {"count", "index"}
    /\ Tasks(VssCleanup) = Parts.vss \ {"nic"}
    /\ Tasks(VdsCleanup) = Parts.vds
<1>1. Tasks(<< >>) = {}
  BY DEF Tasks
<1>2. Tasks(VssSetup) = Parts.vss
  BY DEF Tasks, VssSetup, Parts
<1>3. Tasks(VdsSetup) = Parts.vds \cup {"count", "index"}
  BY DEF Tasks, VdsSetup, Parts
<1>4. Tasks(VssCleanup) = Parts.vss \ {"nic"}
  BY DEF Tasks, VssCleanup, Parts
<1>5. Tasks(VdsCleanup) = Parts.vds
  BY DEF Tasks, VdsCleanup, Parts
<1> QED
  BY <1>1, <1>2, <1>3, <1>4, <1>5

(* A new adapter gets an index that none has: the next one, or that of the *)
(* first gap, which is there when the last adapter is not the last of as   *)
(* many as there are.                                                      *)
LEMMA NewIndexIsFree ==
    ASSUME NEW used \in SUBSET (0..MaxIndex)
    PROVE  NewIndex(used) \in Nat \ used
<1> DEFINE n == Cardinality(used)
           gaps == (0..(n - 1)) \ used
<1>1. MaxIndex \in Nat
  BY NetworkTestbedAssumption
<1>2. IsFiniteSet(used) /\ n \in Nat /\ (n = 0 <=> used = {})
  <2>1. IsFiniteSet(0..MaxIndex)
    BY <1>1, FS_Interval
  <2>2. IsFiniteSet(used)
    BY <2>1, FS_Subset
  <2> QED
    BY <2>2, FS_CardinalityType, FS_EmptySet
<1>3. \A i \in used : i \in Nat
  BY <1>1
<1> HIDE DEF n
<1>4. CASE used = {} \/ (n - 1 \in used /\ \A i \in used : i <= n - 1)
  BY <1>2, <1>3, <1>4 DEF NewIndex, n
<1>5. CASE ~ (used = {} \/ (n - 1 \in used /\ \A i \in used : i <= n - 1))
  <2>1. gaps # {}
    <3> SUFFICES ASSUME 0..(n - 1) \subseteq used
                 PROVE  FALSE
      OBVIOUS
    <3>1. Cardinality(0..(n - 1)) = n
      BY <1>2, FS_Interval
    <3>2. 0..(n - 1) = used
      BY <1>2, <3>1, FS_Subset DEF n
    <3> QED
      BY <1>2, <1>5, <3>2
  <2>2. \E i \in gaps : \A j \in gaps : i <= j
    <3> DEFINE upto == {0..i : i \in gaps}
    <3>1. \A i \in Nat : IsFiniteSet(0..i)
      BY FS_Interval
    <3>2. IsWellFoundedOn(StrictSubsetOrdering(Nat), FiniteSubsetsOf(Nat))
      BY FS_StrictSubsetOrderingWellFounded
    <3>3. upto \subseteq FiniteSubsetsOf(Nat) /\ upto # {}
      BY <1>2, <2>1, <3>1 DEF FiniteSubsetsOf
    <3>4. PICK x \in upto : \A y \in upto : <<y, x>> \notin StrictSubsetOrdering(Nat)
      <4> HIDE DEF upto
      <4> QED
        BY <3>2, <3>3, WFMin
    <3>5. PICK i \in gaps : x = 0..i
      OBVIOUS
    <3>6. ASSUME NEW j \in gaps, ~ (i <= j)
          PROVE  FALSE
      <4>1. i \in Nat /\ j \in Nat /\ j < i
        BY <1>2, <3>6
      <4>2. 0..j \in upto /\ 0..j \subseteq 0..i /\ i \in 0..i /\ i \notin 0..j
        BY <4>1
      <4>3. <<0..j, 0..i>> \in StrictSubsetOrdering(Nat)
        BY <4>1, <4>2 DEF StrictSubsetOrdering
      <4> QED
        BY <4>2, <4>3, <3>4, <3>5
    <3> QED
      BY <3>6
  <2>3. NewIndex(used) = CHOOSE i \in gaps : \A j \in gaps : i <= j
    BY <1>5 DEF NewIndex, n
  <2>4. NewIndex(used) \in gaps
    <3> HIDE DEF gaps
    <3> QED
      BY <2>2, <2>3
  <2> QED
    BY <2>4, <1>2
<1> QED
  BY <1>4, <1>5

------------------------------------------------------------------------------
(* The parts of the two networks are different ones.                       *)
LEMMA PartFacts ==
    /\ Parts["vss"] \cap Parts["vds"] = {}
    /\ AllParts = Parts["vss"] \cup Parts["vds"]
    /\ {"vmk", "dvswitch", "esxi"} \subseteq Parts["vds"]
    /\ {"count", "index"} \cap AllParts = {}
    /\ TaskNames = AllParts \cup {"count", "index"}
  BY DEF Parts, AllParts, TaskNames

(* What is left of building or removing a network.                         *)
BuildOrder(c) ==
    /\ c.net \in Nets
    /\ Tail(c.left) \in From(SetupOf[c.net]) /\ Tail(c.left) \in Seq(TaskNames)
    /\ Head(c.left) \notin Tasks(Tail(c.left))
    /\ Tasks(c.left) = {Head(c.left)} \cup Tasks(Tail(c.left))
    /\ c.net = "vss" => Head(c.left) \in Parts["vss"]
    /\ c.net = "vds" =>
         /\ Head(c.left) \in Parts["vds"] \cup {"count", "index"}
         /\ Head(c.left) = "vmk" <=> "index" \notin Tasks(c.left)
         /\ Head(c.left) \in {"index", "vmk"} => "dvswitch" \notin Tasks(c.left)
         /\ "vmk" \in Tasks(c.left)
         /\ Head(c.left) = "esxi" => "count" \notin Tasks(c.left)

RemoveOrder(c) ==
    /\ c.net \in Nets
    /\ Tail(c.left) \in From(CleanupOf[c.net]) /\ Tail(c.left) \in Seq(TaskNames)
    /\ Head(c.left) \notin Tasks(Tail(c.left))
    /\ Tasks(c.left) = {Head(c.left)} \cup Tasks(Tail(c.left))
    /\ Head(c.left) \in Parts[c.net]
    /\ "nic" \notin Tasks(c.left)
    /\ c.net = "vds" /\ Head(c.left) = "dvswitch" => "vmk" \notin Tasks(c.left)

(* A set-up that has tasks left is at one of its network, in that order.   *)
LEMMA BuildLeft ==
    ASSUME NEW c \in Run, PlaceOK(c), c.pc = "build", c.left # << >>
    PROVE  BuildOrder(c)
<1>1. c.net \in Nets /\ c.left \in From(SetupOf[c.net]) /\ c.left \in Seq(TaskNames)
  BY DEF PlaceOK, Run, Nets, NoNet
<1>2. /\ SetupOf[c.net] \in Plans
      /\ SetupOf["vss"] = VssSetup /\ SetupOf["vds"] = VdsSetup
  BY <1>1 DEF SetupOf, Plans, Nets
<1>3. /\ Tail(c.left) \in From(SetupOf[c.net])
      /\ Head(c.left) \notin Tasks(Tail(c.left))
      /\ Tasks(c.left) = {Head(c.left)} \cup Tasks(Tail(c.left))
  BY <1>1, <1>2, LeftOfPlan
<1>4. Tail(c.left) \in Seq(TaskNames)
  BY <1>1, HeadTailProperties
<1>5. CASE c.net = "vss"
  BY <1>1, <1>2, <1>3, <1>4, <1>5, VssSetupLeft DEF BuildOrder
<1>6. CASE c.net = "vds"
  BY <1>1, <1>2, <1>3, <1>4, <1>6, VdsSetupLeft DEF BuildOrder
<1> QED
  BY <1>1, <1>5, <1>6 DEF Nets

(* A cleanup that has tasks left, likewise.                                *)
LEMMA RemoveLeft ==
    ASSUME NEW c \in Run, PlaceOK(c), c.pc = "remove", c.left # << >>
    PROVE  RemoveOrder(c)
<1>1. c.net \in Nets /\ c.left \in From(CleanupOf[c.net]) /\ c.left \in Seq(TaskNames)
  BY DEF PlaceOK, Run, Nets, NoNet
<1>2. /\ CleanupOf[c.net] \in Plans
      /\ CleanupOf["vss"] = VssCleanup /\ CleanupOf["vds"] = VdsCleanup
  BY <1>1 DEF CleanupOf, Plans, Nets
<1>3. /\ Tail(c.left) \in From(CleanupOf[c.net])
      /\ Head(c.left) \notin Tasks(Tail(c.left))
      /\ Tasks(c.left) = {Head(c.left)} \cup Tasks(Tail(c.left))
  BY <1>1, <1>2, LeftOfPlan
<1>4. Tail(c.left) \in Seq(TaskNames)
  BY <1>1, HeadTailProperties
<1>5. CASE c.net = "vss"
  BY <1>1, <1>2, <1>3, <1>4, <1>5, VssCleanupLeft DEF RemoveOrder
<1>6. CASE c.net = "vds"
  <2>1. "nic" \notin Parts["vds"]
    BY DEF Parts
  <2> QED
    BY <1>1, <1>2, <1>3, <1>4, <1>6, <2>1, VdsCleanupLeft DEF RemoveOrder
<1> QED
  BY <1>1, <1>5, <1>6 DEF Nets

(* What a task that is over adds to a network, or takes from it.           *)
LEMMA BuildStanding ==
    ASSUME NEW c \in Run, PlaceOK(c), c.pc = "build", c.left # << >>,
           NEW d \in Run, d.pc = c.pc, d.net = c.net, d.vss = c.vss, d.vds = c.vds,
           d.left = Tail(c.left), NEW n \in Nets
    PROVE  Standing(d, n) = IF n = c.net THEN Standing(c, n) \cup ({Head(c.left)} \cap Parts[n])
                            ELSE Standing(c, n)
<1>1. /\ Head(c.left) \notin Tasks(Tail(c.left))
      /\ Tasks(c.left) = {Head(c.left)} \cup Tasks(Tail(c.left))
  BY BuildLeft DEF BuildOrder
<1> QED
  BY <1>1 DEF Standing, IsUp

(* A task of a cleanup takes away what goes with its part, and nothing of  *)
(* the other network.                                                      *)
LEMMA RemoveStanding ==
    ASSUME NEW c \in Run, PlaceOK(c), c.pc = "remove", c.left # << >>,
           NEW d \in Run, d.pc = c.pc, d.net = c.net, d.vss = c.vss, d.vds = c.vds,
           d.left = Tail(c.left), NEW n \in Nets
    PROVE  /\ Standing(d, n) = IF n = c.net THEN Standing(c, n) \ Gone(Head(c.left))
                               ELSE Standing(c, n)
           /\ Gone(Head(c.left)) \subseteq Parts[c.net]
<1>1. /\ Head(c.left) \notin Tasks(Tail(c.left))
      /\ Tasks(c.left) = {Head(c.left)} \cup Tasks(Tail(c.left))
      /\ "nic" \notin Tasks(c.left) /\ Head(c.left) \in Parts[c.net] /\ c.net \in Nets
  BY RemoveLeft DEF RemoveOrder
<1>2. \A t \in Tasks(Tail(c.left)) : Gone(t) \cap Gone(Head(c.left)) = {}
  BY <1>1 DEF Gone
<1>3. UNION {Gone(t) : t \in Tasks(c.left)}
        = Gone(Head(c.left)) \cup UNION {Gone(t) : t \in Tasks(Tail(c.left))}
  BY <1>1
<1>4. Gone(Head(c.left)) \subseteq Parts[c.net]
  BY <1>1 DEF Gone, Parts, Nets
<1>5. CASE n = c.net
  <2>1. Standing(c, n) = Parts[n] \cap UNION {Gone(t) : t \in Tasks(c.left)}
    BY <1>5 DEF Standing
  <2>2. Standing(d, n) = Parts[n] \cap UNION {Gone(t) : t \in Tasks(Tail(c.left))}
    BY <1>5 DEF Standing
  <2> QED
    BY <1>2, <1>3, <1>4, <1>5, <2>1, <2>2
<1>6. CASE n # c.net
  BY <1>4, <1>6 DEF Standing, IsUp
<1> QED
  BY <1>5, <1>6

(* A cleanup takes all there is of a network.                              *)
LEMMA CleanupStanding ==
    /\ UNION {Gone(t) : t \in Tasks(VssCleanup)} = Parts["vss"]
    /\ UNION {Gone(t) : t \in Tasks(VdsCleanup)} = Parts["vds"]
    /\ UNION {Gone(t) : t \in Tasks(<< >>)} = {}
  BY TasksOfPlans DEF Gone, Parts

(* The lists of a run's tests: a test for the standard switch comes ahead  *)
(* of such tests only if those for the distributed switch come first.      *)
LEMMA ListFacts ==
    ASSUME NEW tests \in Seq(Nets), tests # << >>
    PROVE  /\ Head(tests) \in Nets /\ Tail(tests) \in Seq(Nets)
           /\ VdsFirst(tests) => VdsFirst(Tail(tests))
           /\ VdsFirst(tests) /\ Head(tests) = "vss" => AllVss(Tail(tests))
           /\ AllVss(tests) => Head(tests) = "vss" /\ AllVss(Tail(tests))
<1>1. /\ Head(tests) = tests[1] /\ Tail(tests) \in Seq(Nets)
      /\ Len(tests) \in Nat /\ Len(tests) > 0 /\ DOMAIN tests = 1..Len(tests)
      /\ DOMAIN Tail(tests) = 1..(Len(tests) - 1)
      /\ \A i \in 1..(Len(tests) - 1) : Tail(tests)[i] = tests[i + 1]
  BY HeadTailProperties, LenProperties, EmptySeq
<1>2. \A i \in 1..(Len(tests) - 1) : i + 1 \in 1..Len(tests) /\ 1 < i + 1
  BY <1>1
<1>3. VdsFirst(tests) => VdsFirst(Tail(tests))
  <2> SUFFICES ASSUME VdsFirst(tests),
                      NEW i \in DOMAIN Tail(tests), NEW k \in DOMAIN Tail(tests),
                      i < k, Tail(tests)[i] = "vss"
               PROVE  Tail(tests)[k] = "vss"
    BY DEF VdsFirst
  <2>1. i + 1 \in DOMAIN tests /\ k + 1 \in DOMAIN tests /\ i + 1 < k + 1
    BY <1>1, <1>2
  <2> QED
    BY <2>1, <1>1 DEF VdsFirst
<1>4. VdsFirst(tests) /\ Head(tests) = "vss" => AllVss(Tail(tests))
  BY <1>1, <1>2 DEF VdsFirst, AllVss
<1>5. AllVss(tests) => Head(tests) = "vss" /\ AllVss(Tail(tests))
  BY <1>1, <1>2 DEF AllVss
<1> QED
  BY <1>1, <1>3, <1>4, <1>5, HeadTailProperties

(* An index that is found is none of the host's own adapters.              *)
LEMMA IndexNotTaken ==
    ASSUME TypeInv, VmkInv
    PROVE  /\ NewIndex(Indices) \notin taken
           /\ NewIndex(Indices) \in 0..MaxIndex => vmks[NewIndex(Indices)] = NoRun
<1>1. DOMAIN vmks = 0..MaxIndex /\ taken \subseteq 0..MaxIndex
  BY NetworkTestbedAssumption DEF TypeInv
<1>2. /\ Indices \in SUBSET (0..MaxIndex)
      /\ \A i \in 0..MaxIndex : i \in Indices <=> vmks[i] # NoRun
  BY <1>1 DEF Indices
<1>3. taken \subseteq Indices
  BY <1>1, <1>2, NetworkTestbedAssumption DEF VmkInv
<1> QED
  BY <1>2, <1>3, NewIndexIsFree

(* Every step of a run takes it, and what there is in its names, to where  *)
(* its invariant holds.                                                    *)
MovesTo(r, d, q) ==
    /\ run' = [run EXCEPT ![r] = d] /\ parts' = [parts EXCEPT ![r] = q]
    /\ d \in Run /\ q \in SUBSET AllParts
    /\ RunOK(d, q)

(* A step of a run leaves its facts, its tasks and its parts consistent.   *)
LEMMA RunStep ==
    ASSUME TypeInv, RunInv, VmkInv, NEW r \in Runs, Step(r)
    PROVE  \E d, q : MovesTo(r, d, q)
<1> DEFINE c == run[r]
           p == parts[r]
<1>0. /\ c \in Run /\ p \in SUBSET AllParts
      /\ PlaceOK(c) /\ PartsOK(c, p) /\ NameOK(c) /\ IndexOK(c, p)
  BY DEF TypeInv, RunInv, RunOK
<1>1. CASE BeginTest(r)
  <2> DEFINE d == [c EXCEPT !.pc = "setup", !.type = Head(c.tests),
                           !.tests = Tail(@), !.attached = {}]
  <2>1. c.pc = "start" /\ c.tests # << >>
    BY <1>1 DEF BeginTest, At
  <2>2. run' = [run EXCEPT ![r] = d] /\ parts' = [parts EXCEPT ![r] = p]
    BY <1>1, <2>1 DEF BeginTest, TypeInv, Run
  <2>3. d \in Run /\ p \in SUBSET AllParts
    BY <1>0, <2>1, HeadTailProperties DEF Run, Places, Nets, NoNet, NoIndex, Plans
  <2>4. PlaceOK(d)
    BY <1>0, <2>1 DEF PlaceOK, IsUp, SetupOf, CleanupOf, Plans, Run, Nets, NoNet
  <2>5. PartsOK(d, p)
    BY <1>0, <2>1, PartFacts DEF PartsOK, Standing, PlaceOK, IsUp, Run, Nets, NoNet
  <2>6. NameOK(d)
    BY <1>0, <2>1, ListFacts DEF NameOK, Cleaning, PlaceOK, IsUp, Run, Nets, NoNet
  <2>7. IndexOK(d, p)
    BY <1>0, <2>1, PartFacts DEF IndexOK, PlaceOK, Run, Nets, NoNet
  <2> QED
    BY <2>2, <2>3, <2>4, <2>5, <2>6, <2>7 DEF RunOK, MovesTo
<1>2. CASE SetupVss(r)
  <2> DEFINE d == [c EXCEPT !.pc = "build", !.net = "vss", !.left = VssSetup]
  <2>1. c.pc = "setup" /\ ~ arm /\ c.type = "vss" /\ ~ c.vss /\ ~ c.vds
    BY <1>2 DEF SetupVss, NeedsVss, At
  <2>2. run' = [run EXCEPT ![r] = d] /\ parts' = [parts EXCEPT ![r] = p]
    BY <1>2, <2>1 DEF SetupVss, TypeInv, Run
  <2>3. d \in Run /\ p \in SUBSET AllParts
    BY <1>0, <2>1, PlanFacts, NetworkTestbedAssumption DEF Run, Places, Nets, NoNet,
        NoIndex, Plans
  <2>4. PlaceOK(d)
    BY <1>0, <2>1, PlanFacts DEF PlaceOK, IsUp, SetupOf, CleanupOf, Plans, Run, Nets,
        NoNet
  <2>5. PartsOK(d, p)
    BY <1>0, <2>1, PartFacts, TasksOfPlans, CleanupStanding DEF PartsOK, Standing,
        PlaceOK, IsUp, Run, Nets, NoNet
  <2>6. NameOK(d)
    BY <1>0, <2>1 DEF NameOK, Cleaning, PlaceOK, IsUp, Run, Nets, NoNet
  <2>7. IndexOK(d, p)
    BY <1>0, <2>1, PartFacts, TasksOfPlans DEF IndexOK, PlaceOK, Run, Nets, NoNet
  <2> QED
    BY <2>2, <2>3, <2>4, <2>5, <2>6, <2>7 DEF RunOK, MovesTo
<1>3. CASE SetupVds(r)
  <2> DEFINE d == [c EXCEPT !.pc = "build", !.net = "vds", !.left = VdsSetup]
  <2>1. c.pc = "setup" /\ ~ c.vds /\ (arm \/ c.type = "vds")
    BY <1>3 DEF SetupVds, NeedsVds, At
  <2>2. run' = [run EXCEPT ![r] = d] /\ parts' = [parts EXCEPT ![r] = p]
    BY <1>3, <2>1 DEF SetupVds, TypeInv, Run
  <2>3. d \in Run /\ p \in SUBSET AllParts
    BY <1>0, <2>1, PlanFacts, NetworkTestbedAssumption DEF Run, Places, Nets, NoNet,
        NoIndex, Plans
  <2>4. PlaceOK(d)
    BY <1>0, <2>1, PlanFacts DEF PlaceOK, IsUp, SetupOf, CleanupOf, Plans, Run, Nets,
        NoNet
  <2>5. PartsOK(d, p)
    BY <1>0, <2>1, PartFacts, TasksOfPlans, CleanupStanding DEF PartsOK, Standing,
        PlaceOK, IsUp, Run, Nets, NoNet
  <2>6. NameOK(d)
    BY <1>0, <2>1 DEF NameOK, Cleaning, PlaceOK, IsUp, Run, Nets, NoNet
  <2>7. IndexOK(d, p)
    BY <1>0, <2>1, PartFacts, TasksOfPlans DEF IndexOK, PlaceOK, Run, Nets, NoNet
  <2> QED
    BY <2>2, <2>3, <2>4, <2>5, <2>6, <2>7 DEF RunOK, MovesTo
<1>4. CASE SkipTest(r)
  <2> DEFINE d == [c EXCEPT !.pc = "start"]
  <2>1. c.pc = "setup"
    BY <1>4 DEF SkipTest, At
  <2>2. run' = [run EXCEPT ![r] = d] /\ parts' = [parts EXCEPT ![r] = p]
    BY <1>4, <2>1 DEF SkipTest, TypeInv, Run
  <2>3. d \in Run /\ p \in SUBSET AllParts
    BY <1>0, <2>1 DEF Run, Places, Nets, NoNet, NoIndex, Plans
  <2>4. PlaceOK(d)
    BY <1>0, <2>1 DEF PlaceOK, IsUp, SetupOf, CleanupOf, Plans, Run, Nets, NoNet
  <2>5. PartsOK(d, p)
    BY <1>0, <2>1, PartFacts DEF PartsOK, Standing, PlaceOK, IsUp, Run, Nets, NoNet
  <2>6. NameOK(d)
    BY <1>0, <2>1 DEF NameOK, Cleaning, PlaceOK, IsUp, Run, Nets, NoNet
  <2>7. IndexOK(d, p)
    BY <1>0, <2>1, PartFacts DEF IndexOK, PlaceOK, Run, Nets, NoNet
  <2> QED
    BY <2>2, <2>3, <2>4, <2>5, <2>6, <2>7 DEF RunOK, MovesTo
<1>5. CASE IsSetUp(r)
  <2> DEFINE d == [c EXCEPT !.pc = "test"]
  <2>1. /\ c.pc = "setup"
        /\ (arm \/ c.type = "vds" => c.vds) /\ (c.vss \/ c.vds)
    BY <1>5, <1>0 DEF IsSetUp, NeedsVss, NeedsVds, Nets, At, PlaceOK, NameOK, Cleaning,
        Run
  <2>2. run' = [run EXCEPT ![r] = d] /\ parts' = [parts EXCEPT ![r] = p]
    BY <1>5, <2>1 DEF IsSetUp, TypeInv, Run
  <2>3. d \in Run /\ p \in SUBSET AllParts
    BY <1>0, <2>1 DEF Run, Places, Nets, NoNet, NoIndex, Plans
  <2>4. PlaceOK(d)
    BY <1>0, <2>1 DEF PlaceOK, IsUp, SetupOf, CleanupOf, Plans, Run, Nets, NoNet
  <2>5. PartsOK(d, p)
    BY <1>0, <2>1, PartFacts DEF PartsOK, Standing, PlaceOK, IsUp, Run, Nets, NoNet
  <2>6. NameOK(d)
    BY <1>0, <2>1 DEF NameOK, Cleaning, PlaceOK, IsUp, Run, Nets, NoNet
  <2>7. IndexOK(d, p)
    BY <1>0, <2>1, PartFacts DEF IndexOK, PlaceOK, Run, Nets, NoNet
  <2> QED
    BY <2>2, <2>3, <2>4, <2>5, <2>6, <2>7 DEF RunOK, MovesTo
<1>6. CASE CountVds(r)
  <2> DEFINE d == [c EXCEPT !.left = Tail(@)]
  <2>1. c.pc = "build" /\ c.left # << >> /\ Head(c.left) = "count"
    BY <1>6 DEF CountVds, Task, At
  <2>2. run' = [run EXCEPT ![r] = d] /\ parts' = [parts EXCEPT ![r] = p]
    BY <1>6, <2>1 DEF CountVds, TaskDone, TypeInv, Run
  <2>3. BuildOrder(c)
    BY <1>0, <2>1, BuildLeft
  <2>4. d \in Run /\ p \in SUBSET AllParts
    BY <1>0, <2>1, <2>3, PartFacts DEF Run, BuildOrder
  <2>5. d = [c EXCEPT !.left = Tail(c.left), !.index = d.index]
        /\ d.index = c.index
    BY <1>0 DEF Run
  <2> HIDE DEF d
  <2>6. /\ d.pc = c.pc /\ d.net = c.net /\ d.type = c.type /\ d.vss = c.vss /\ d.vds = c.vds
        /\ d.left = Tail(c.left) /\ d.failed = c.failed /\ d.attached = c.attached
        /\ d.name = c.name /\ d.list = c.list /\ d.tests = c.tests
    BY <1>0, <2>5 DEF Run
  <2>7. PlaceOK(d)
    BY <1>0, <2>1, <2>3, <2>6 DEF PlaceOK, IsUp, BuildOrder
  <2>8. PartsOK(d, p)
    <3>1. \A n \in Nets :
            Standing(d, n) = IF n = c.net THEN Standing(c, n) \cup ({Head(c.left)} \cap Parts[n])
                             ELSE Standing(c, n)
      BY <1>0, <2>1, <2>4, <2>6, BuildStanding
    <3> QED
      BY <1>0, <2>1, <2>3, <2>6, <3>1, PartFacts DEF PartsOK, Nets, BuildOrder
  <2>9. NameOK(d)
    BY <1>0, <2>1, <2>6 DEF NameOK, IsUp
  <2>10. IndexOK(d, p)
    BY <1>0, <2>1, <2>3, <2>5, <2>6, PartFacts DEF IndexOK, BuildOrder, Nets
  <2> QED
    BY <2>2, <2>4, <2>7, <2>8, <2>9, <2>10 DEF RunOK, MovesTo
<1>7. CASE MakePart(r)
  <2> DEFINE d == [c EXCEPT !.left = Tail(@)]
             q == p \cup {Head(c.left)}
  <2>1. /\ c.pc = "build" /\ c.left # << >>
        /\ Head(c.left) \notin {"count", "index", "vmk"}
        /\ Head(c.left) = "dvswitch" => Head(c.left) \notin p
    BY <1>7 DEF MakePart, Task, MustChange, At
  <2>2. run' = [run EXCEPT ![r] = d] /\ parts' = [parts EXCEPT ![r] = q]
    BY <1>7, <2>1 DEF MakePart, TaskDone, Task, TypeInv, Run
  <2>3. BuildOrder(c)
    BY <1>0, <2>1, BuildLeft
  <2>4. d \in Run /\ q \in SUBSET AllParts
    <3>1. Head(c.left) \in AllParts
      BY <2>1, <2>3, PartFacts DEF BuildOrder, Nets
    <3> QED
      BY <1>0, <2>3, <3>1 DEF Run, BuildOrder
  <2>5. d = [c EXCEPT !.left = Tail(c.left), !.index = d.index]
        /\ d.index = c.index
    BY <1>0 DEF Run
  <2> HIDE DEF d
  <2>6. /\ d.pc = c.pc /\ d.net = c.net /\ d.type = c.type /\ d.vss = c.vss /\ d.vds = c.vds
        /\ d.left = Tail(c.left) /\ d.failed = c.failed /\ d.attached = c.attached
        /\ d.name = c.name /\ d.list = c.list /\ d.tests = c.tests
    BY <1>0, <2>5 DEF Run
  <2>7. PlaceOK(d)
    BY <1>0, <2>1, <2>3, <2>6 DEF PlaceOK, IsUp, BuildOrder
  <2>8. PartsOK(d, q)
    <3>1. \A n \in Nets :
            Standing(d, n) = IF n = c.net THEN Standing(c, n) \cup ({Head(c.left)} \cap Parts[n])
                             ELSE Standing(c, n)
      BY <1>0, <2>1, <2>4, <2>6, BuildStanding
    <3> QED
      BY <1>0, <2>1, <2>3, <2>6, <3>1, PartFacts DEF PartsOK, Nets, BuildOrder
  <2>9. NameOK(d)
    BY <1>0, <2>1, <2>6 DEF NameOK, IsUp
  <2>10. IndexOK(d, q)
    BY <1>0, <2>1, <2>3, <2>5, <2>6, PartFacts DEF IndexOK, BuildOrder, Nets
  <2> QED
    BY <2>2, <2>4, <2>7, <2>8, <2>9, <2>10 DEF RunOK, MovesTo
<1>8. CASE GetIndex(r)
  <2> DEFINE d == [c EXCEPT !.index = NewIndex(Indices), !.left = Tail(@)]
  <2>1. /\ c.pc = "build" /\ c.left # << >> /\ Head(c.left) = "index"
        /\ NewIndex(Indices) \in 0..MaxIndex /\ NewIndex(Indices) \notin taken
    BY <1>8, IndexNotTaken DEF GetIndex, Task, At
  <2>2. run' = [run EXCEPT ![r] = d] /\ parts' = [parts EXCEPT ![r] = p]
    BY <1>8, <2>1 DEF GetIndex, TypeInv, Run
  <2>3. BuildOrder(c)
    BY <1>0, <2>1, BuildLeft
  <2>4. d \in Run /\ p \in SUBSET AllParts
    <3>1. NewIndex(Indices) \in 0..NoIndex
      BY <2>1, NetworkTestbedAssumption DEF NoIndex
    <3> QED
      BY <1>0, <2>3, <3>1 DEF Run, BuildOrder
  <2>5. d = [c EXCEPT !.left = Tail(c.left), !.index = d.index]
        /\ d.index = NewIndex(Indices)
    BY <1>0 DEF Run
  <2> HIDE DEF d
  <2>6. /\ d.pc = c.pc /\ d.net = c.net /\ d.type = c.type /\ d.vss = c.vss /\ d.vds = c.vds
        /\ d.left = Tail(c.left) /\ d.failed = c.failed /\ d.attached = c.attached
        /\ d.name = c.name /\ d.list = c.list /\ d.tests = c.tests
    BY <1>0, <2>5 DEF Run
  <2>7. PlaceOK(d)
    BY <1>0, <2>1, <2>3, <2>6 DEF PlaceOK, IsUp, BuildOrder
  <2>8. PartsOK(d, p)
    <3>1. \A n \in Nets :
            Standing(d, n) = IF n = c.net THEN Standing(c, n) \cup ({Head(c.left)} \cap Parts[n])
                             ELSE Standing(c, n)
      BY <1>0, <2>1, <2>4, <2>6, BuildStanding
    <3> QED
      BY <1>0, <2>1, <2>3, <2>6, <3>1, PartFacts DEF PartsOK, Nets, BuildOrder
  <2>9. NameOK(d)
    BY <1>0, <2>1, <2>6 DEF NameOK, IsUp
  <2>10. IndexOK(d, p)
    BY <1>0, <2>1, <2>3, <2>5, <2>6, PartFacts, NetworkTestbedAssumption DEF IndexOK,
        BuildOrder, NoIndex, Nets
  <2> QED
    BY <2>2, <2>4, <2>7, <2>8, <2>9, <2>10 DEF RunOK, MovesTo
<1>9. CASE AddVmk(r)
  <2> DEFINE d == [c EXCEPT !.left = Tail(@)]
             q == p \cup {"vmk"}
  <2>1. c.pc = "build" /\ c.left # << >> /\ Head(c.left) = "vmk"
    BY <1>9 DEF AddVmk, InBetween, Task, At
  <2>2. run' = [run EXCEPT ![r] = d] /\ parts' = [parts EXCEPT ![r] = q]
    BY <1>9, <2>1 DEF AddVmk, TaskDone, TypeInv, Run
  <2>3. BuildOrder(c)
    BY <1>0, <2>1, BuildLeft
  <2>4. d \in Run /\ q \in SUBSET AllParts
    BY <1>0, <2>1, <2>3, PartFacts DEF Run, BuildOrder
  <2>5. d = [c EXCEPT !.left = Tail(c.left), !.index = d.index]
        /\ d.index = c.index
    BY <1>0 DEF Run
  <2> HIDE DEF d
  <2>6. /\ d.pc = c.pc /\ d.net = c.net /\ d.type = c.type /\ d.vss = c.vss /\ d.vds = c.vds
        /\ d.left = Tail(c.left) /\ d.failed = c.failed /\ d.attached = c.attached
        /\ d.name = c.name /\ d.list = c.list /\ d.tests = c.tests
    BY <1>0, <2>5 DEF Run
  <2>7. PlaceOK(d)
    BY <1>0, <2>1, <2>3, <2>6 DEF PlaceOK, IsUp, BuildOrder
  <2>8. PartsOK(d, q)
    <3>1. \A n \in Nets :
            Standing(d, n) = IF n = c.net THEN Standing(c, n) \cup ({Head(c.left)} \cap Parts[n])
                             ELSE Standing(c, n)
      BY <1>0, <2>1, <2>4, <2>6, BuildStanding
    <3> QED
      BY <1>0, <2>1, <2>3, <2>6, <3>1, PartFacts DEF PartsOK, Nets, BuildOrder
  <2>9. NameOK(d)
    BY <1>0, <2>1, <2>6 DEF NameOK, IsUp
  <2>10. IndexOK(d, q)
    <3>1. c.net = "vds" /\ "dvswitch" \in Standing(c, c.net)
      BY <1>0, <2>1, <2>3, PartFacts DEF BuildOrder, Standing, Nets
    <3>2. "dvswitch" \in p
      BY <1>0, <2>1, <2>3, <3>1 DEF PartsOK, BuildOrder
    <3> QED
      BY <1>0, <2>1, <2>3, <2>5, <2>6, <3>1, <3>2 DEF IndexOK, BuildOrder
  <2> QED
    BY <2>2, <2>4, <2>7, <2>8, <2>9, <2>10 DEF RunOK, MovesTo
<1>10. CASE SetFacts(r)
  <2> DEFINE d == [c EXCEPT !.pc = "setup", !.net = NoNet, !.name = c.net,
                           !.vss = @ \/ c.net = "vss", !.vds = @ \/ c.net = "vds"]
  <2>1. c.pc = "build" /\ c.left = << >>
    BY <1>10 DEF SetFacts, At
  <2>2. run' = [run EXCEPT ![r] = d] /\ parts' = [parts EXCEPT ![r] = p]
    BY <1>10, <2>1 DEF SetFacts, TypeInv, Run
  <2>3. d \in Run /\ p \in SUBSET AllParts
    BY <1>0, <2>1, ZenonT(30) DEF Run, Places, Nets, NoNet, NoIndex, Plans
  <2>4. PlaceOK(d)
    BY <1>0, <2>1 DEF PlaceOK, IsUp, SetupOf, CleanupOf, Plans, Run, Nets, NoNet
  <2>5. PartsOK(d, p)
    <3>1. Parts[c.net] \ Tasks(c.left) = Parts[c.net] /\ c.net \in Nets
      BY <1>0, <2>1, TasksOfPlans DEF PlaceOK, Run, NoNet, Nets
    <3>2. \A n \in Nets : Standing(d, n) = Standing(c, n)
      BY <1>0, <2>1, <3>1 DEF Standing, PlaceOK, IsUp, Run, Nets, NoNet
    <3> QED
      BY <1>0, <2>1, <3>2 DEF PartsOK, Run
  <2>6. NameOK(d)
    BY <1>0, <2>1 DEF NameOK, Cleaning, PlaceOK, IsUp, Run, Nets, NoNet
  <2>7. IndexOK(d, p)
    BY <1>0, <2>1, PartFacts, TasksOfPlans DEF IndexOK, PlaceOK, Run, Nets, NoNet
  <2> QED
    BY <2>2, <2>3, <2>4, <2>5, <2>6, <2>7 DEF RunOK, MovesTo
<1>11. CASE SetupFails(r)
  <2> DEFINE d == [c EXCEPT !.pc = "start", !.net = NoNet, !.left = << >>, !.failed = TRUE]
             q == parts'[r]
  <2>1. /\ c.pc = "build"
        /\ q = p \/ (q = p \cup {Head(c.left)} /\ c.left # << >>
                     /\ Head(c.left) \notin {"count", "index", "vmk"})
    BY <1>11 DEF SetupFails, Task, TypeInv, At
  <2>2. run' = [run EXCEPT ![r] = d] /\ parts' = [parts EXCEPT ![r] = q]
    BY <1>11, <2>1 DEF SetupFails, TypeInv, Run
  <2>3. d \in Run /\ q \in SUBSET AllParts
    <3>1. c.left # << >> => Head(c.left) \in AllParts \cup {"count", "index"}
      BY <1>0, <2>1, BuildLeft, PartFacts DEF BuildOrder, Nets
    <3>2. q \in SUBSET AllParts
      BY <1>0, <2>1, <3>1
    <3>3. d \in Run
      BY <1>0, EmptySeq DEF Run, Places, NoNet
    <3> QED
      BY <3>2, <3>3
  <2>4. PlaceOK(d)
    BY <1>0, <2>1 DEF PlaceOK, IsUp, SetupOf, CleanupOf, Plans, Run, Nets, NoNet
  <2>5. PartsOK(d, q)
    BY <1>0, <2>1, PartFacts, BuildLeft DEF PartsOK, Standing, PlaceOK, IsUp, Run, Nets,
        NoNet
  <2>6. NameOK(d)
    BY <1>0, <2>1 DEF NameOK, Cleaning, PlaceOK, IsUp, Run, Nets, NoNet
  <2>7. IndexOK(d, q)
    BY <1>0, <2>1, PartFacts, BuildLeft DEF IndexOK, PlaceOK, Run, Nets, NoNet
  <2> QED
    BY <2>2, <2>3, <2>4, <2>5, <2>6, <2>7 DEF RunOK, MovesTo
<1>12. CASE UseNetwork(r)
  <2> DEFINE d == [c EXCEPT !.pc = "start", !.attached = {c.name}]
  <2>1. c.pc = "test" /\ c.name \in Nets
    BY <1>12, <1>0 DEF UseNetwork, At, PlaceOK, NameOK, Cleaning, Run
  <2>2. run' = [run EXCEPT ![r] = d] /\ parts' = [parts EXCEPT ![r] = p]
    BY <1>12, <2>1 DEF UseNetwork, TypeInv, Run
  <2>3. d \in Run /\ p \in SUBSET AllParts
    BY <1>0, <2>1 DEF Run, Places, Nets, NoNet, NoIndex, Plans
  <2>4. PlaceOK(d)
    BY <1>0, <2>1 DEF PlaceOK, IsUp, SetupOf, CleanupOf, Plans, Run, Nets, NoNet
  <2>5. PartsOK(d, p)
    BY <1>0, <2>1, PartFacts DEF PartsOK, Standing, PlaceOK, IsUp, Run, Nets, NoNet
  <2>6. NameOK(d)
    BY <1>0, <2>1 DEF NameOK, Cleaning, PlaceOK, IsUp, Run, Nets, NoNet
  <2>7. IndexOK(d, p)
    BY <1>0, <2>1, PartFacts DEF IndexOK, PlaceOK, Run, Nets, NoNet
  <2> QED
    BY <2>2, <2>3, <2>4, <2>5, <2>6, <2>7 DEF RunOK, MovesTo
<1>13. CASE TestEnds(r)
  <2> DEFINE d == [c EXCEPT !.pc = "start"]
  <2>1. c.pc = "test"
    BY <1>13 DEF TestEnds, At
  <2>2. run' = [run EXCEPT ![r] = d] /\ parts' = [parts EXCEPT ![r] = p]
    BY <1>13, <2>1 DEF TestEnds, TypeInv, Run
  <2>3. d \in Run /\ p \in SUBSET AllParts
    BY <1>0, <2>1 DEF Run, Places, Nets, NoNet, NoIndex, Plans
  <2>4. PlaceOK(d)
    BY <1>0, <2>1 DEF PlaceOK, IsUp, SetupOf, CleanupOf, Plans, Run, Nets, NoNet
  <2>5. PartsOK(d, p)
    BY <1>0, <2>1, PartFacts DEF PartsOK, Standing, PlaceOK, IsUp, Run, Nets, NoNet
  <2>6. NameOK(d)
    BY <1>0, <2>1 DEF NameOK, Cleaning, PlaceOK, IsUp, Run, Nets, NoNet
  <2>7. IndexOK(d, p)
    BY <1>0, <2>1, PartFacts DEF IndexOK, PlaceOK, Run, Nets, NoNet
  <2> QED
    BY <2>2, <2>3, <2>4, <2>5, <2>6, <2>7 DEF RunOK, MovesTo
<1>14. CASE BeginCleanup(r)
  <2> DEFINE d == [c EXCEPT !.pc = "cleanup", !.attached = {}]
  <2>1. c.pc = "start"
    BY <1>14 DEF BeginCleanup, At
  <2>2. run' = [run EXCEPT ![r] = d] /\ parts' = [parts EXCEPT ![r] = p]
    BY <1>14, <2>1 DEF BeginCleanup, TypeInv, Run
  <2>3. d \in Run /\ p \in SUBSET AllParts
    BY <1>0, <2>1 DEF Run, Places, Nets, NoNet, NoIndex, Plans
  <2>4. PlaceOK(d)
    BY <1>0, <2>1 DEF PlaceOK, IsUp, SetupOf, CleanupOf, Plans, Run, Nets, NoNet
  <2>5. PartsOK(d, p)
    BY <1>0, <2>1, PartFacts DEF PartsOK, Standing, PlaceOK, IsUp, Run, Nets, NoNet
  <2>6. NameOK(d)
    BY <1>0, <2>1 DEF NameOK, Cleaning, PlaceOK, IsUp, Run, Nets, NoNet
  <2>7. IndexOK(d, p)
    BY <1>0, <2>1, PartFacts DEF IndexOK, PlaceOK, Run, Nets, NoNet
  <2> QED
    BY <2>2, <2>3, <2>4, <2>5, <2>6, <2>7 DEF RunOK, MovesTo
<1>15. CASE CleanupVss(r)
  <2> DEFINE d == [c EXCEPT !.pc = "remove", !.net = "vss", !.left = VssCleanup]
  <2>1. c.pc = "cleanup" /\ c.vss
    BY <1>15 DEF CleanupVss, At
  <2>2. run' = [run EXCEPT ![r] = d] /\ parts' = [parts EXCEPT ![r] = p]
    BY <1>15, <2>1 DEF CleanupVss, TypeInv, Run
  <2>3. d \in Run /\ p \in SUBSET AllParts
    BY <1>0, <2>1, PlanFacts, NetworkTestbedAssumption DEF Run, Places, Nets, NoNet,
        NoIndex, Plans
  <2>4. PlaceOK(d)
    BY <1>0, <2>1, PlanFacts DEF PlaceOK, IsUp, SetupOf, CleanupOf, Plans, Run, Nets,
        NoNet
  <2>5. PartsOK(d, p)
    BY <1>0, <2>1, PartFacts, TasksOfPlans, CleanupStanding DEF PartsOK, Standing,
        PlaceOK, IsUp, Run, Nets, NoNet
  <2>6. NameOK(d)
    BY <1>0, <2>1 DEF NameOK, Cleaning, PlaceOK, IsUp, Run, Nets, NoNet
  <2>7. IndexOK(d, p)
    BY <1>0, <2>1, PartFacts, TasksOfPlans DEF IndexOK, PlaceOK, Run, Nets, NoNet
  <2> QED
    BY <2>2, <2>3, <2>4, <2>5, <2>6, <2>7 DEF RunOK, MovesTo
<1>16. CASE CleanupVds(r)
  <2> DEFINE d == [c EXCEPT !.pc = "remove", !.net = "vds", !.left = VdsCleanup]
  <2>1. c.pc = "cleanup" /\ ~ c.vss /\ c.vds
    BY <1>16 DEF CleanupVds, At
  <2>2. run' = [run EXCEPT ![r] = d] /\ parts' = [parts EXCEPT ![r] = p]
    BY <1>16, <2>1 DEF CleanupVds, TypeInv, Run
  <2>3. d \in Run /\ p \in SUBSET AllParts
    BY <1>0, <2>1, PlanFacts, NetworkTestbedAssumption DEF Run, Places, Nets, NoNet,
        NoIndex, Plans
  <2>4. PlaceOK(d)
    BY <1>0, <2>1, PlanFacts DEF PlaceOK, IsUp, SetupOf, CleanupOf, Plans, Run, Nets,
        NoNet
  <2>5. PartsOK(d, p)
    BY <1>0, <2>1, PartFacts, TasksOfPlans, CleanupStanding DEF PartsOK, Standing,
        PlaceOK, IsUp, Run, Nets, NoNet
  <2>6. NameOK(d)
    BY <1>0, <2>1 DEF NameOK, Cleaning, PlaceOK, IsUp, Run, Nets, NoNet
  <2>7. IndexOK(d, p)
    BY <1>0, <2>1, PartFacts, TasksOfPlans DEF IndexOK, PlaceOK, Run, Nets, NoNet
  <2> QED
    BY <2>2, <2>3, <2>4, <2>5, <2>6, <2>7 DEF RunOK, MovesTo
<1>17. CASE RemovePart(r)
  <2> DEFINE d == [c EXCEPT !.left = Tail(@)]
             q == p \ Gone(Head(c.left))
  <2>1. c.pc = "remove" /\ c.left # << >> /\ Head(c.left) \in p
    BY <1>17 DEF RemovePart, Task, At
  <2>2. run' = [run EXCEPT ![r] = d] /\ parts' = [parts EXCEPT ![r] = q]
    BY <1>17, <2>1 DEF RemovePart, TaskDone, Task, TypeInv, Run
  <2>3. RemoveOrder(c)
    BY <1>0, <2>1, RemoveLeft
  <2>4. d \in Run /\ q \in SUBSET AllParts
    BY <1>0, <2>1, <2>3, PartFacts DEF Run, RemoveOrder
  <2>5. d = [c EXCEPT !.left = Tail(c.left), !.index = d.index]
        /\ d.index = c.index
    BY <1>0 DEF Run
  <2> HIDE DEF d
  <2>6. /\ d.pc = c.pc /\ d.net = c.net /\ d.type = c.type /\ d.vss = c.vss /\ d.vds = c.vds
        /\ d.left = Tail(c.left) /\ d.failed = c.failed /\ d.attached = c.attached
        /\ d.name = c.name /\ d.list = c.list /\ d.tests = c.tests
    BY <1>0, <2>5 DEF Run
  <2>7. PlaceOK(d)
    BY <1>0, <2>1, <2>3, <2>6 DEF PlaceOK, IsUp, RemoveOrder
  <2>8. PartsOK(d, q)
    <3>1. \A n \in Nets :
            Standing(d, n) = IF n = c.net THEN Standing(c, n) \ Gone(Head(c.left))
                             ELSE Standing(c, n)
      BY <1>0, <2>1, <2>4, <2>6, RemoveStanding
    <3>4. \A n \in Nets : Standing(c, n) \subseteq Parts[n]
      BY DEF Standing
    <3>3. Parts["vss"] \cap Parts["vds"] = {}
      BY PartFacts
    <3>2. Gone(Head(c.left)) \subseteq Parts[c.net]
      BY <1>0, <2>1, <2>3, <2>4, <2>6, RemoveStanding DEF RemoveOrder
    <3> QED
      BY <1>0, <2>1, <2>3, <2>6, <3>1, <3>2, <3>3, <3>4 DEF PartsOK, Nets, RemoveOrder
  <2>9. NameOK(d)
    BY <1>0, <2>1, <2>6 DEF NameOK, IsUp
  <2>10. IndexOK(d, q)
    BY <1>0, <2>1, <2>3, <2>5, <2>6, PartFacts DEF IndexOK, RemoveOrder, Gone, Nets
  <2> QED
    BY <2>2, <2>4, <2>7, <2>8, <2>9, <2>10 DEF RunOK, MovesTo
<1>18. CASE ClearFact(r)
  <2> DEFINE d == [c EXCEPT !.pc = "cleanup", !.net = NoNet,
                           !.vss = @ /\ c.net # "vss", !.vds = @ /\ c.net # "vds"]
  <2>1. c.pc = "remove" /\ c.left = << >>
    BY <1>18 DEF ClearFact, At
  <2>2. run' = [run EXCEPT ![r] = d] /\ parts' = [parts EXCEPT ![r] = p]
    BY <1>18, <2>1 DEF ClearFact, TypeInv, Run
  <2>3. d \in Run /\ p \in SUBSET AllParts
    BY <1>0, <2>1, ZenonT(30) DEF Run, Places, Nets, NoNet, NoIndex, Plans
  <2>4. PlaceOK(d)
    BY <1>0, <2>1 DEF PlaceOK, IsUp, SetupOf, CleanupOf, Plans, Run, Nets, NoNet
  <2>5. PartsOK(d, p)
    BY <1>0, <2>1, PartFacts, TasksOfPlans, CleanupStanding, ZenonT(30) DEF PartsOK,
        Standing, PlaceOK, IsUp, Run, Nets, NoNet
  <2>6. NameOK(d)
    BY <1>0, <2>1 DEF NameOK, Cleaning, PlaceOK, IsUp, Run, Nets, NoNet
  <2>7. IndexOK(d, p)
    BY <1>0, <2>1, PartFacts, TasksOfPlans DEF IndexOK, PlaceOK, Run, Nets, NoNet
  <2> QED
    BY <2>2, <2>3, <2>4, <2>5, <2>6, <2>7 DEF RunOK, MovesTo
<1>19. CASE CleanupEnds(r)
  <2> DEFINE d == [c EXCEPT !.pc = "ended"]
  <2>1. c.pc = "cleanup" /\ ~ c.vss /\ ~ c.vds
    BY <1>19 DEF CleanupEnds, At
  <2>2. run' = [run EXCEPT ![r] = d] /\ parts' = [parts EXCEPT ![r] = p]
    BY <1>19, <2>1 DEF CleanupEnds, TypeInv, Run
  <2>3. d \in Run /\ p \in SUBSET AllParts
    BY <1>0, <2>1 DEF Run, Places, Nets, NoNet, NoIndex, Plans
  <2>4. PlaceOK(d)
    BY <1>0, <2>1 DEF PlaceOK, IsUp, SetupOf, CleanupOf, Plans, Run, Nets, NoNet
  <2>5. PartsOK(d, p)
    BY <1>0, <2>1, PartFacts DEF PartsOK, Standing, PlaceOK, IsUp, Run, Nets, NoNet
  <2>6. NameOK(d)
    BY <1>0, <2>1 DEF NameOK, Cleaning, PlaceOK, IsUp, Run, Nets, NoNet
  <2>7. IndexOK(d, p)
    BY <1>0, <2>1, PartFacts DEF IndexOK, PlaceOK, Run, Nets, NoNet
  <2> QED
    BY <2>2, <2>3, <2>4, <2>5, <2>6, <2>7 DEF RunOK, MovesTo
<1>20. CASE RunFails(r)
  <2> DEFINE d == [c EXCEPT !.pc = "ended", !.net = NoNet, !.left = << >>,
                           !.failed = TRUE]
  <2>1. c.pc # "ended" /\ ~ Blocked(r)
    BY <1>20, <1>0 DEF RunFails, Blocked, InUse, At, PlaceOK, NameOK, Cleaning, Run
  <2>2. run' = [run EXCEPT ![r] = d] /\ parts' = [parts EXCEPT ![r] = p]
    BY <1>20, <2>1 DEF RunFails, TypeInv, Run
  <2>3. d \in Run /\ p \in SUBSET AllParts
    BY <1>0, <2>1, EmptySeq DEF Run, Places, Nets, NoNet, NoIndex, Plans
  <2>4. PlaceOK(d)
    BY <1>0, <2>1 DEF PlaceOK, IsUp, SetupOf, CleanupOf, Plans, Run, Nets, NoNet
  <2>5. PartsOK(d, p)
    BY <1>0, <2>1, PartFacts DEF PartsOK, Standing, PlaceOK, IsUp, Run, Nets, NoNet
  <2>6. NameOK(d)
    BY <1>0, <2>1 DEF NameOK, Cleaning, PlaceOK, IsUp, Run, Nets, NoNet
  <2>7. IndexOK(d, p)
    BY <1>0, <2>1, PartFacts DEF IndexOK, PlaceOK, Run, Nets, NoNet
  <2> QED
    BY <2>2, <2>3, <2>4, <2>5, <2>6, <2>7 DEF RunOK, MovesTo
<1> QED
  BY <1>1, <1>2, <1>3, <1>4, <1>5, <1>6, <1>7, <1>8, <1>9,
     <1>10, <1>11, <1>12, <1>13, <1>14, <1>15, <1>16, <1>17, <1>18,
     <1>19, <1>20
  DEF Step

(* The other runs stay as they are, and so does the host.                  *)
LEMMA OtherRuns ==
    ASSUME TypeInv, NEW r \in Runs, Step(r)
    PROVE  /\ \A s \in Runs \ {r} : run'[s] = run[s] /\ parts'[s] = parts[s]
           /\ UNCHANGED host
<1> USE DEF TypeInv
<1>1. CASE \/ BeginTest(r) \/ SetupVss(r) \/ SetupVds(r) \/ SkipTest(r) \/ IsSetUp(r)
           \/ CountVds(r) \/ GetIndex(r) \/ SetFacts(r) \/ UseNetwork(r) \/ TestEnds(r)
           \/ BeginCleanup(r) \/ CleanupVss(r) \/ CleanupVds(r) \/ ClearFact(r)
           \/ CleanupEnds(r) \/ RunFails(r)
  BY <1>1 DEF BeginTest, SetupVss, SetupVds, SkipTest, IsSetUp, CountVds, TaskDone,
      GetIndex, SetFacts, UseNetwork, TestEnds, BeginCleanup, CleanupVss, CleanupVds,
      ClearFact, CleanupEnds, RunFails
<1>2. CASE MakePart(r) \/ AddVmk(r) \/ RemovePart(r)
  BY <1>2 DEF MakePart, AddVmk, RemovePart, TaskDone
<1>3. CASE SetupFails(r)
  BY <1>3 DEF SetupFails
<1> QED
  BY <1>1, <1>2, <1>3 DEF Step

(* Every step preserves the invariant of every run.                        *)
LEMMA RunInvStep ==
    ASSUME TypeInv, RunInv, VmkInv, NEW r \in Runs, Step(r)
    PROVE  RunInv'
<1>1. ASSUME NEW s \in Runs
      PROVE  RunOK(run'[s], parts'[s])
  <2>1. CASE s = r
    BY <2>1, RunStep DEF MovesTo, TypeInv
  <2>2. CASE s # r
    BY <2>2, OtherRuns DEF RunInv
  <2> QED
    BY <2>1, <2>2
<1>2. arm' = arm /\ taken' = taken
  BY OtherRuns DEF host
<1> QED
  BY <1>1, <1>2 DEF RunInv, RunOK, PlaceOK, PartsOK, NameOK, IndexOK

-----------------------------------------------------------------------------
(* A run that is about to add its adapter has found an index, and has no   *)
(* adapter as yet.                                                         *)
LEMMA BetweenFacts ==
    ASSUME NEW c \in Run, NEW p, PlaceOK(c), IndexOK(c, p),
           c.pc = "build", c.left # << >>, Head(c.left) = "vmk"
    PROVE  /\ c.net = "vds" /\ "vmk" \notin p /\ "index" \notin Tasks(c.left)
           /\ c.index # NoIndex /\ c.index \in 0..MaxIndex /\ c.index \notin taken
<1>1. BuildOrder(c)
  BY BuildLeft
<1>2. c.net = "vds"
  BY <1>1, PartFacts DEF BuildOrder, Nets
<1>3. "index" \notin Tasks(c.left) /\ "dvswitch" \notin Tasks(c.left) /\ "vmk" \in Tasks(c.left)
  BY <1>1, <1>2 DEF BuildOrder
<1>4. c.index # NoIndex /\ c.index \notin taken /\ "vmk" \notin p
  BY <1>2, <1>3 DEF IndexOK
<1>5. c.index \in 0..MaxIndex
  BY <1>4, NetworkTestbedAssumption DEF Run, NoIndex
<1> QED
  BY <1>2, <1>3, <1>4, <1>5

(* It gets there by taking an index only.                                  *)
LEMMA OnlyIndexIsBetween ==
    ASSUME TypeInv, RunInv, VmkInv, NEW r \in Runs, Step(r), ~ GetIndex(r)
    PROVE  ~ InBetween(r)'
<1> SUFFICES ASSUME InBetween(r)'
             PROVE  FALSE
  OBVIOUS
<1> DEFINE c == run[r]
           d == run'[r]
<1>1. c \in Run /\ PlaceOK(c) /\ r \in DOMAIN run
  BY DEF TypeInv, RunInv, RunOK
<1>2. d \in Run /\ PlaceOK(d) /\ IndexOK(d, parts'[r])
  BY RunStep DEF MovesTo, TypeInv, RunOK
<1>3. d.pc = "build" /\ d.left # << >> /\ Head(d.left) = "vmk"
  BY DEF InBetween, At, Task
<1>4. d.net = "vds" /\ "index" \notin Tasks(d.left) /\ "vmk" \in Tasks(d.left)
  BY <1>2, <1>3, BetweenFacts, BuildLeft DEF BuildOrder
<1>5. CASE SetupVss(r)
  <2>1. d.net = "vss"
    BY <1>1, <1>5 DEF SetupVss, TypeInv, Run
  <2> QED
    BY <1>4, <2>1
<1>6. CASE SetupVds(r)
  <2>1. d.left = VdsSetup
    BY <1>1, <1>6 DEF SetupVds, TypeInv, Run
  <2> QED
    BY <1>4, <2>1, TasksOfPlans
<1>7. CASE CountVds(r) \/ MakePart(r) \/ AddVmk(r)
  <2>1. /\ c.pc = "build" /\ c.left # << >> /\ Head(c.left) # "index"
        /\ Head(c.left) = "vmk" <=> AddVmk(r)
    BY <1>7 DEF CountVds, MakePart, AddVmk, InBetween, At, Task
  <2>2. d.left = Tail(c.left) /\ d.net = c.net
    BY <1>1, <1>7 DEF CountVds, MakePart, AddVmk, TaskDone, TypeInv, Run
  <2>3. BuildOrder(c)
    BY <1>1, <2>1, BuildLeft
  <2> QED
    BY <1>4, <2>1, <2>2, <2>3 DEF BuildOrder
<1>8. CASE /\ ~ SetupVss(r) /\ ~ SetupVds(r)
           /\ ~ CountVds(r) /\ ~ MakePart(r) /\ ~ AddVmk(r)
  <2>1. d.pc # "build"
    BY <1>1, <1>8 DEF Step, BeginTest, SkipTest, IsSetUp, SetFacts, SetupFails,
        UseNetwork, TestEnds, BeginCleanup, CleanupVss, CleanupVds, RemovePart, TaskDone,
        ClearFact, CleanupEnds, RunFails, TypeInv, Run, At
  <2> QED
    BY <1>3, <2>1
<1> QED
  BY <1>5, <1>6, <1>7, <1>8

(* A step that leaves adapters, indices and histories alone.               *)
LEMMA QuietStep ==
    ASSUME TypeInv, RunInv, VmkInv, NEW r \in Runs, Step(r), ~ GetIndex(r),
           UNCHANGED <<vmks, stale, raced>>,
           run'[r].index = run[r].index, "vmk" \in parts'[r] <=> "vmk" \in parts[r]
    PROVE  VmkInv'
<1>1. \A s \in Runs : /\ run'[s].index = run[s].index
                      /\ "vmk" \in parts'[s] <=> "vmk" \in parts[s]
                      /\ InBetween(s)' => InBetween(s)
  BY OtherRuns, OnlyIndexIsBetween DEF InBetween, At, Task
<1>2. taken' = taken
  BY OtherRuns DEF host
<1> QED
  BY <1>1, <1>2 DEF VmkInv

(* Every step preserves whose the adapters are.                            *)
LEMMA VmkStep ==
    ASSUME TypeInv, RunInv, VmkInv, NEW r \in Runs, Step(r)
    PROVE  VmkInv'
<1> DEFINE c == run[r]
           d == run'[r]
           i == c.index
<1>1. /\ c \in Run /\ PlaceOK(c) /\ IndexOK(c, parts[r])
      /\ vmks \in [0..MaxIndex -> Runs \cup {NoRun, "host"}]
  BY DEF TypeInv, RunInv, RunOK
<1>2. taken' = taken /\ \A s \in Runs \ {r} : run'[s] = run[s] /\ parts'[s] = parts[s]
                                             /\ (InBetween(s)' <=> InBetween(s))
  BY OtherRuns DEF host, InBetween, At, Task
<1>3. NoRun # "host" /\ NoRun \notin Runs /\ "host" \notin Runs
  BY NetworkTestbedAssumption
<1>4. CASE GetIndex(r)
  <2>1. c.pc = "build" /\ c.left # << >> /\ Head(c.left) = "index"
    BY <1>4 DEF GetIndex, At, Task
  <2>2. "vmk" \notin parts[r]
    BY <1>1, <2>1, BuildLeft, PartFacts DEF BuildOrder, IndexOK, Nets
  <2>3. d.index = NewIndex(Indices) /\ d.index \in 0..MaxIndex /\ vmks[d.index] = NoRun
    BY <1>1, <1>4, IndexNotTaken DEF GetIndex, TypeInv, Run
  <2>4. UNCHANGED <<vmks, parts, raced>> /\ stale' = stale \ {r}
    BY <1>4 DEF GetIndex
  <2>5. \A s \in Runs : InBetween(s)' /\ s \notin stale' => vmks'[run'[s].index] = NoRun
    BY <1>2, <2>3, <2>4 DEF VmkInv
  <2>6. ASSUME NEW s \in Runs \ raced'
        PROVE  /\ "vmk" \in parts'[s] => vmks'[run'[s].index] = s
               /\ \A k \in 0..MaxIndex :
                    vmks'[k] = s => k = run'[s].index /\ "vmk" \in parts'[s]
    BY <1>2, <2>2, <2>4 DEF VmkInv
  <2> QED
    BY <1>2, <2>4, <2>5, <2>6 DEF VmkInv
<1>5. CASE AddVmk(r)
  <2>1. InBetween(r) /\ c.pc = "build" /\ c.left # << >> /\ Head(c.left) = "vmk"
    BY <1>5 DEF AddVmk, InBetween, At, Task
  <2>2. i \in 0..MaxIndex /\ i \notin taken /\ "vmk" \notin parts[r]
    BY <1>1, <2>1, BetweenFacts
  <2>3. /\ vmks' = [vmks EXCEPT ![i] = r] /\ parts'[r] = parts[r] \cup {"vmk"}
        /\ stale' = stale \cup {s \in Runs \ {r} : InBetween(s)}
        /\ raced' = IF r \in stale /\ vmks[i] # NoRun THEN raced \cup {r, vmks[i]} ELSE raced
        /\ d.index = i
    BY <1>1, <1>5 DEF AddVmk, TaskDone, TypeInv, Run
  <2>4. ~ InBetween(r)'
    BY <1>5, <2>1, OnlyIndexIsBetween DEF GetIndex, Task
  <2>5. \A s \in Runs : InBetween(s)' => s \in stale'
    BY <1>2, <2>3, <2>4
  <2>6. \A k \in 0..MaxIndex : vmks'[k] = "host" <=> k \in taken'
    BY <1>1, <1>2, <1>3, <2>2, <2>3 DEF VmkInv
  <2>7. ASSUME NEW s \in Runs \ raced'
        PROVE  /\ "vmk" \in parts'[s] => vmks'[run'[s].index] = s
               /\ \A k \in 0..MaxIndex :
                    vmks'[k] = s => k = run'[s].index /\ "vmk" \in parts'[s]
    <3>1. s \notin raced
      BY <2>3
    <3>2. CASE s = r
      BY <1>1, <2>2, <2>3, <3>1, <3>2 DEF VmkInv
    <3>3. CASE s # r
      <4>1. vmks[i] # s
        BY <1>3, <2>1, <2>3, <3>3 DEF VmkInv
      <4>2. "vmk" \in parts[s] => run[s].index # i
        BY <3>1, <4>1 DEF VmkInv
      <4> QED
        BY <1>1, <1>2, <2>2, <2>3, <3>1, <3>3, <4>2 DEF VmkInv
    <3> QED
      BY <3>2, <3>3
  <2> QED
    BY <2>5, <2>6, <2>7 DEF VmkInv
<1>6. CASE RemovePart(r) /\ Task(r) = "vmk"
  <2>1. c.pc = "remove" /\ c.left # << >> /\ "vmk" \in parts[r] /\ Head(c.left) = "vmk"
    BY <1>6 DEF RemovePart, At, Task
  <2>2. i \in 0..MaxIndex /\ i \notin taken
    BY <1>1, <2>1, NetworkTestbedAssumption DEF IndexOK, Run, NoIndex
  <2>3. /\ vmks' = [vmks EXCEPT ![i] = NoRun] /\ parts'[r] = parts[r] \ {"vmk"}
        /\ raced' = IF r \in raced THEN raced \cup {vmks[i]} ELSE raced
        /\ d.index = i /\ stale' = stale
    BY <1>1, <1>6 DEF RemovePart, RemoveVmk, TaskDone, Gone, TypeInv, Run
  <2>4. ~ InBetween(r)'
    BY <1>6, <2>1, OnlyIndexIsBetween DEF GetIndex, At
  <2>5. \A s \in Runs : InBetween(s)' /\ s \notin stale' => vmks'[run'[s].index] = NoRun
    <3> SUFFICES ASSUME NEW s \in Runs, InBetween(s)', s \notin stale'
                 PROVE  vmks'[run'[s].index] = NoRun
      OBVIOUS
    <3>1. s # r /\ InBetween(s) /\ run'[s] = run[s] /\ run[s] \in Run
      BY <1>2, <2>4 DEF TypeInv
    <3>2. run[s].index \in 0..MaxIndex
      BY <3>1, BetweenFacts DEF InBetween, At, Task, RunInv, RunOK
    <3> QED
      BY <1>1, <2>2, <2>3, <3>1, <3>2 DEF VmkInv
  <2>6. \A k \in 0..MaxIndex : vmks'[k] = "host" <=> k \in taken'
    BY <1>1, <1>2, <1>3, <2>2, <2>3 DEF VmkInv
  <2>7. ASSUME NEW s \in Runs \ raced'
        PROVE  /\ "vmk" \in parts'[s] => vmks'[run'[s].index] = s
               /\ \A k \in 0..MaxIndex :
                    vmks'[k] = s => k = run'[s].index /\ "vmk" \in parts'[s]
    <3>1. s \notin raced
      BY <2>3
    <3>2. CASE s = r
      BY <1>1, <1>3, <2>2, <2>3, <3>1, <3>2 DEF VmkInv
    <3>3. CASE s # r
      <4>1. vmks[i] # s
        BY <2>1, <2>3, <3>1, <3>3 DEF VmkInv
      <4>2. "vmk" \in parts[s] => run[s].index # i /\ run[s].index \in 0..MaxIndex
        <5>1. run[s] \in Run /\ IndexOK(run[s], parts[s])
          BY DEF TypeInv, RunInv, RunOK
        <5>2. "vmk" \in parts[s] => run[s].index \in 0..MaxIndex
          BY <5>1, NetworkTestbedAssumption DEF IndexOK, Run, NoIndex
        <5> QED
          BY <3>1, <4>1, <5>2 DEF VmkInv
      <4> QED
        BY <1>1, <1>2, <1>3, <2>2, <2>3, <3>1, <3>3, <4>2 DEF VmkInv
    <3> QED
      BY <3>2, <3>3
  <2> QED
    BY <2>5, <2>6, <2>7 DEF VmkInv
<1>7. CASE ~ GetIndex(r) /\ ~ AddVmk(r) /\ ~ (RemovePart(r) /\ Task(r) = "vmk")
  <2>1. CASE RemovePart(r)
    <3>1. UNCHANGED <<vmks, stale, raced>>
      BY <1>7, <2>1 DEF RemovePart, TaskDone
    <3>2. d.index = i
      BY <1>1, <2>1 DEF RemovePart, TaskDone, TypeInv, Run
    <3>3. "vmk" \in parts'[r] <=> "vmk" \in parts[r]
      BY <1>7, <2>1 DEF RemovePart, Gone, Task, TypeInv
    <3> QED
      BY <1>7, <3>1, <3>2, <3>3, QuietStep
  <2>2. CASE MakePart(r) \/ SetupFails(r)
    <3>1. UNCHANGED <<vmks, stale, raced>>
      BY <1>7, <2>2 DEF MakePart, SetupFails
    <3>2. d.index = i
      BY <1>1, <2>2 DEF MakePart, SetupFails, TaskDone, TypeInv, Run
    <3>3. "vmk" \in parts'[r] <=> "vmk" \in parts[r]
      BY <1>7, <2>2 DEF MakePart, SetupFails, Task, TypeInv
    <3> QED
      BY <1>7, <3>1, <3>2, <3>3, QuietStep
  <2>3. CASE BeginTest(r) \/ SetupVss(r) \/ SetupVds(r) \/ SkipTest(r) \/ IsSetUp(r)
    <3>1. UNCHANGED <<vmks, stale, raced>>
      BY <1>7, <2>3 DEF BeginTest, SetupVss, SetupVds, SkipTest, IsSetUp
    <3>2. d.index = i
      BY <1>1, <2>3 DEF BeginTest, SetupVss, SetupVds, SkipTest, IsSetUp, TypeInv, Run
    <3>3. "vmk" \in parts'[r] <=> "vmk" \in parts[r]
      BY <1>7, <2>3 DEF BeginTest, SetupVss, SetupVds, SkipTest, IsSetUp
    <3> QED
      BY <1>7, <3>1, <3>2, <3>3, QuietStep
  <2>4. CASE CountVds(r) \/ SetFacts(r) \/ UseNetwork(r) \/ TestEnds(r) \/ BeginCleanup(r)
    <3>1. UNCHANGED <<vmks, stale, raced>>
      BY <1>7, <2>4 DEF CountVds, SetFacts, UseNetwork, TestEnds, BeginCleanup
    <3>2. d.index = i
      BY <1>1, <2>4 DEF CountVds, SetFacts, UseNetwork, TestEnds, BeginCleanup, TaskDone,
          TypeInv, Run
    <3>3. "vmk" \in parts'[r] <=> "vmk" \in parts[r]
      BY <1>7, <2>4 DEF CountVds, SetFacts, UseNetwork, TestEnds, BeginCleanup
    <3> QED
      BY <1>7, <3>1, <3>2, <3>3, QuietStep
  <2>5. CASE CleanupVss(r) \/ CleanupVds(r) \/ ClearFact(r) \/ CleanupEnds(r) \/ RunFails(r)
    <3>1. UNCHANGED <<vmks, stale, raced>>
      BY <1>7, <2>5 DEF CleanupVss, CleanupVds, ClearFact, CleanupEnds, RunFails
    <3>2. d.index = i
      BY <1>1, <2>5 DEF CleanupVss, CleanupVds, ClearFact, CleanupEnds, RunFails,
          TypeInv, Run
    <3>3. "vmk" \in parts'[r] <=> "vmk" \in parts[r]
      BY <1>7, <2>5 DEF CleanupVss, CleanupVds, ClearFact, CleanupEnds, RunFails
    <3> QED
      BY <1>7, <3>1, <3>2, <3>3, QuietStep
  <2> QED
    BY <1>7, <2>1, <2>2, <2>3, <2>4, <2>5 DEF Step
<1> QED
  BY <1>4, <1>5, <1>6, <1>7

(* Every step preserves the types.                                         *)
LEMMA TypeStep ==
    ASSUME TypeInv, RunInv, VmkInv, NEW r \in Runs, Step(r)
    PROVE  TypeInv'
<1>1. run' \in [Runs -> Run] /\ parts' \in [Runs -> SUBSET AllParts]
  BY RunStep DEF MovesTo, TypeInv
<1>2. vmks' \in [0..MaxIndex -> Runs \cup {NoRun, "host"}]
  <2> USE DEF TypeInv
  <2>1. CASE AddVmk(r)
    BY <2>1 DEF AddVmk
  <2>2. CASE RemovePart(r)
    BY <2>2 DEF RemovePart, RemoveVmk
  <2>3. CASE ~ AddVmk(r) /\ ~ RemovePart(r)
    BY <2>3 DEF Step, BeginTest, SetupVss, SetupVds, SkipTest, IsSetUp, CountVds,
        MakePart, GetIndex, SetFacts, SetupFails, UseNetwork, TestEnds, BeginCleanup,
        CleanupVss, CleanupVds, ClearFact, CleanupEnds, RunFails
  <2> QED
    BY <2>1, <2>2, <2>3
<1>3. UNCHANGED <<arm, vcenter, taken, others>>
  BY OtherRuns DEF host
<1> QED
  BY <1>1, <1>2, <1>3 DEF TypeInv

(* Runs start with their tests, and with nothing else.                     *)
LEMMA InitOK == Init => IInv
<1> SUFFICES ASSUME Init
             PROVE  IInv
  OBVIOUS
<1>1. PICK list \in [Runs -> Lists] :
        run = [r \in Runs |->
                 [pc |-> "start", tests |-> list[r], type |-> "vss", net |-> NoNet,
                  left |-> << >>, vss |-> FALSE, vds |-> FALSE, index |-> NoIndex,
                  name |-> NoNet, attached |-> {}, list |-> list[r], failed |-> FALSE]]
  BY DEF Init
<1>2. \A r \in Runs : list[r] \in Seq(Nets)
  BY NetworkTestbedAssumption
<1>3. NoIndex \in 0..NoIndex /\ << >> \in Seq(TaskNames)
  BY NetworkTestbedAssumption, EmptySeq DEF NoIndex
<1>4. run \in [Runs -> Run]
  BY <1>1, <1>2, <1>3 DEF Run, Places, Nets, NoNet
<1>5. TypeInv
  BY <1>4 DEF Init, TypeInv
<1>6. RunInv
  <2> SUFFICES ASSUME NEW r \in Runs
               PROVE  RunOK(run[r], parts[r])
    BY DEF RunInv
  <2>1. /\ run[r].pc = "start" /\ run[r].net = NoNet /\ ~ run[r].vss /\ ~ run[r].vds
        /\ run[r].index = NoIndex /\ run[r].name = NoNet /\ run[r].tests = run[r].list
        /\ parts[r] = {}
    BY <1>1 DEF Init
  <2> QED
    BY <2>1 DEF RunOK, PlaceOK, PartsOK, NameOK, IndexOK, Standing, IsUp, Cleaning, Nets,
        NoNet
<1>7. VmkInv
  <2>1. \A r \in Runs : ~ InBetween(r) /\ parts[r] = {}
    BY <1>1 DEF Init, InBetween, At
  <2>2. \A i \in 0..MaxIndex : vmks[i] = IF i \in taken THEN "host" ELSE NoRun
    BY DEF Init
  <2> QED
    BY <2>1, <2>2, NetworkTestbedAssumption DEF VmkInv
<1> QED
  BY <1>5, <1>6, <1>7 DEF IInv

(* They hold throughout.                                                   *)
LEMMA StepOK == IInv /\ [Next]_vars => IInv'
<1> SUFFICES ASSUME IInv, [Next]_vars
             PROVE  IInv'
  OBVIOUS
<1>1. ASSUME NEW r \in Runs, Step(r)
      PROVE  IInv'
  BY <1>1, TypeStep, RunInvStep, VmkStep DEF IInv
<1>2. CASE UNCHANGED vars
  BY <1>2 DEF vars, host, IInv, TypeInv, RunInv, RunOK, PlaceOK, PartsOK, NameOK,
      IndexOK, VmkInv, InBetween, At, Task
<1> QED
  BY <1>1, <1>2 DEF Next

(* The invariant of all runs, of which the theorems are parts.             *)
LEMMA Inductive == Spec => []IInv
  BY InitOK, StepOK, PTL DEF Spec

(* A run that has added the host to its distributed switch had counted     *)
(* those of the host, and found room for two.                              *)
LEMMA CountStep ==
    ASSUME IsFiniteSet(Runs), IInv, CountInv, [Next]_vars
    PROVE  CountInv'
<1> USE DEF IInv
<1>1. ASSUME NEW r \in Runs, Step(r)
      PROVE  CountInv'
  <2> DEFINE c == run[r]
             d == run'[r]
  <2>1. c \in Run /\ PlaceOK(c) /\ d \in Run /\ PlaceOK(d)
    BY <1>1, RunStep DEF MovesTo, TypeInv, RunInv, RunOK
  <2>2. others' = others /\ \A s \in Runs \ {r} : run'[s] = run[s] /\ parts'[s] = parts[s]
    BY <1>1, OtherRuns DEF host
  <2>3. CASE CountVds(r)
    <3>1. Cardinality({s \in Runs : "esxi" \in parts[s]}) \in Nat
      BY FS_Subset, FS_CardinalityType
    <3>2. others + 2 <= MaxVds
      BY <2>3, <3>1, NetworkTestbedAssumption DEF CountVds, RoomForVds, Vds, TypeInv
    <3> QED
      BY <2>2, <3>2 DEF CountInv
  <2>4. ASSUME ~ CountVds(r), HasCounted(d, parts'[r])
        PROVE  HasCounted(c, parts[r])
    <3>1. CASE SetupVss(r) \/ SetupVds(r)
      BY <2>1, <2>4, <3>1, TasksOfPlans DEF SetupVss, SetupVds, HasCounted, TypeInv, Run
    <3>2. CASE MakePart(r) \/ GetIndex(r) \/ AddVmk(r)
      <4>1. /\ c.pc = "build" /\ c.left # << >> /\ Head(c.left) # "count"
            /\ d.left = Tail(c.left) /\ d.net = c.net /\ d.pc = c.pc
            /\ "esxi" \in parts'[r] => "esxi" \in parts[r] \/ Head(c.left) = "esxi"
        <5>1. CASE MakePart(r)
          BY <2>1, <5>1 DEF MakePart, TaskDone, Task, At, TypeInv, Run
        <5>2. CASE GetIndex(r)
          BY <2>1, <5>2 DEF GetIndex, Task, At, TypeInv, Run
        <5>3. CASE AddVmk(r)
          BY <2>1, <5>3 DEF AddVmk, InBetween, TaskDone, Task, At, TypeInv, Run
        <5> QED
          BY <3>2, <5>1, <5>2, <5>3
      <4>2. BuildOrder(c)
        BY <2>1, <4>1, BuildLeft
      <4>3. Head(c.left) = "esxi" => c.net = "vds"
        BY <4>2 DEF BuildOrder, Parts, Nets
      <4> QED
        BY <2>4, <4>1, <4>2, <4>3 DEF HasCounted, BuildOrder
    <3>3. CASE SetupFails(r)
      <4>1. /\ c.pc = "build" /\ d.pc = "start"
            /\ "esxi" \in parts'[r] =>
                 "esxi" \in parts[r] \/ (c.left # << >> /\ Head(c.left) = "esxi")
        BY <2>1, <3>3 DEF SetupFails, Task, At, TypeInv, Run
      <4>2. c.left # << >> => BuildOrder(c)
        BY <2>1, <4>1, BuildLeft
      <4>3. c.left # << >> /\ Head(c.left) = "esxi" => c.net = "vds"
        BY <4>2 DEF BuildOrder, Parts, Nets
      <4> QED
        BY <2>4, <4>1, <4>2, <4>3 DEF HasCounted, BuildOrder
    <3>4. CASE RemovePart(r)
      <4>1. d.pc # "build" /\ ("esxi" \in parts'[r] => "esxi" \in parts[r])
        BY <2>1, <3>4 DEF RemovePart, TaskDone, TypeInv, Run, At
      <4> QED
        BY <2>4, <4>1 DEF HasCounted
    <3>5. CASE \/ BeginTest(r) \/ SkipTest(r) \/ IsSetUp(r) \/ SetFacts(r) \/ UseNetwork(r)
               \/ TestEnds(r) \/ BeginCleanup(r) \/ CleanupVss(r) \/ CleanupVds(r)
               \/ ClearFact(r) \/ CleanupEnds(r) \/ RunFails(r)
      <4>1. d.pc # "build" /\ parts' = parts
        BY <2>1, <3>5 DEF BeginTest, SkipTest, IsSetUp, SetFacts, UseNetwork, TestEnds,
            BeginCleanup, CleanupVss, CleanupVds, ClearFact, CleanupEnds, RunFails,
            TypeInv, Run, At
      <4> QED
        BY <2>4, <4>1 DEF HasCounted
    <3> QED
      BY <1>1, <2>4, <3>1, <3>2, <3>3, <3>4, <3>5 DEF Step
  <2> QED
    BY <2>2, <2>3, <2>4 DEF CountInv
<1>2. CASE UNCHANGED vars
  BY <1>2 DEF vars, host, CountInv
<1> QED
  BY <1>1, <1>2 DEF Next

-----------------------------------------------------------------------------
(* Types; an adapter is added with an index that it may have.              *)
THEOREM TypeCorrect == Spec => []TypeOK
<1>1. IInv => TypeOK
  <2> SUFFICES ASSUME IInv
               PROVE  TypeOK
    OBVIOUS
  <2>1. ASSUME NEW r \in Runs
        PROVE  /\ run[r] \in Run
               /\ InBetween(r) => run[r].index \in DOMAIN vmks
               /\ run[r].pc \in {"build", "remove"} <=> run[r].net # NoNet
    <3>1. run[r] \in Run /\ PlaceOK(run[r]) /\ IndexOK(run[r], parts[r])
      BY DEF IInv, TypeInv, RunInv, RunOK
    <3>2. InBetween(r) => run[r].index \in DOMAIN vmks
      BY <3>1, BetweenFacts DEF InBetween, At, Task, IInv, TypeInv
    <3> QED
      BY <3>1, <3>2 DEF PlaceOK
  <2> QED
    BY <2>1 DEF IInv, TypeInv, TypeOK, Run, AllParts
<1> QED
  BY <1>1, Inductive, PTL

(* A test that goes on has all of its network, and the name of it, behind  *)
(* whatever failures of earlier set-ups; with the tests for the            *)
(* distributed switch first it asks for an address as that network needs.  *)
THEOREM TestsHaveNetworks == Spec => []TestHasNetwork
<1>1. IInv => TestHasNetwork
  <2> SUFFICES ASSUME IInv, NEW r \in Runs, run[r].pc = "test"
               PROVE  /\ run[r].name \in Nets
                      /\ Parts[run[r].name] \subseteq parts[r]
                      /\ run[r].type = "vss" /\ VdsFirst(run[r].list) =>
                           (Method(r) = "dhcp") = (run[r].name = "vss")
    BY DEF TestHasNetwork, At
  <2>1. run[r] \in Run /\ PlaceOK(run[r]) /\ PartsOK(run[r], parts[r]) /\ NameOK(run[r])
    BY DEF IInv, TypeInv, RunInv, RunOK
  <2>2. run[r].name \in Nets /\ IsUp(run[r], run[r].name)
    BY <2>1 DEF NameOK, Cleaning, Run
  <2>3. Standing(run[r], run[r].name) = Parts[run[r].name]
    BY <2>1, <2>2 DEF Standing, PlaceOK, NoNet, Nets
  <2>4. Parts[run[r].name] \subseteq parts[r]
    BY <2>1, <2>2, <2>3 DEF PartsOK
  <2>5. run[r].type = "vss" /\ VdsFirst(run[r].list) =>
          (Method(r) = "dhcp") = (run[r].name = "vss")
    BY <2>1, <2>2 DEF NameOK, Cleaning, IsUp, Method
  <2> QED
    BY <2>2, <2>4, <2>5
<1> QED
  BY <1>1, Inductive, PTL

(* A run that has not failed leaves nothing behind on the host.            *)
THEOREM HostIsLeftClean == Spec => []NothingIsLeft
<1>1. IInv => NothingIsLeft
  BY DEF IInv, TypeInv, RunInv, RunOK, PartsOK, VmkInv, NothingIsLeft, At
<1> QED
  BY <1>1, Inductive, PTL

(* Runs leave the adapters of the host alone, and those of one another     *)
(* unless two have taken the same index.                                   *)
THEOREM AdaptersAreKept == Spec => []VmksAreKept
<1>1. IInv => VmksAreKept
  BY NetworkTestbedAssumption DEF IInv, TypeInv, VmkInv, VmksAreKept
<1> QED
  BY <1>1, Inductive, PTL

(* Two runs do not connect the host to more distributed switches than it   *)
(* may have: each leaves room for the other.                               *)
THEOREM VdsAreBounded ==
    ASSUME IsFiniteSet(Runs), Cardinality(Runs) <= 2
    PROVE  Spec => []VdsWithinMaximum
<1>1. Init => CountInv
  BY DEF Init, CountInv, HasCounted, NoNet
<1>2. CountInv /\ IInv /\ [Next]_vars => CountInv'
  BY CountStep
<1>3. IInv /\ CountInv => VdsWithinMaximum
  <2> SUFFICES ASSUME IInv, CountInv, others <= MaxVds
               PROVE  Vds <= MaxVds
    BY DEF VdsWithinMaximum
  <2> DEFINE there == {r \in Runs : "esxi" \in parts[r]}
  <2>1. IsFiniteSet(there) /\ Cardinality(there) \in Nat /\ Cardinality(there) <= 2
    BY FS_Subset, FS_CardinalityType
  <2>2. others \in Nat /\ MaxVds \in Nat
    BY NetworkTestbedAssumption DEF IInv, TypeInv
  <2>3. CASE there = {}
    BY <2>2, <2>3, FS_EmptySet DEF Vds
  <2>4. CASE there # {}
    BY <2>1, <2>2, <2>4 DEF Vds, CountInv, HasCounted
  <2> QED
    BY <2>3, <2>4
<1> QED
  BY <1>1, <1>2, <1>3, Inductive, PTL DEF Spec

=============================================================================
