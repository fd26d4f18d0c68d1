------------------------- MODULE PqosLifecycleProofs -------------------------
(***************************************************************************)
(* The life of the library, for any machines, any number of threads, of    *)
(* lives and of stages that fail: who may be where while the lock is made  *)
(* and destroyed, what is up at each stage, and whose capabilities the     *)
(* parts of the library keep.                                              *)
(***************************************************************************)
EXTENDS PqosLifecycle, WellFoundedInduction, TLAPS

Building == {"log", "cpu", "detect", "machine", "find_mon", "find_l3", "find_l2", "find_mba",
             "discover", "os", "mon", "alloc", "groups", "done"}

InitLabels == {"idle", "open", "lock", "check", "unlock", "giveup", "exit"} \union Building
FiniLabels == {"idle", "lock", "check", "fini", "free", "giveup", "exit"}
ApiLabels == {"idle", "lock", "check", "body", "unlock"}

(* Each call has its own way through the labels, and only the main thread  *)
(* brings the library up and down.                                         *)
LabelInv ==
  \A t \in Threads : /\ op[t] = "none" => pc[t] = "idle"
                     /\ op[t] = "init" => pc[t] \in InitLabels /\ t = Main
                     /\ op[t] = "fini" => pc[t] \in FiniLabels /\ t = Main
                     /\ op[t] \in {"mon", "alloc"} => pc[t] \in ApiLabels

(* Nobody else is in a call while the library is brought up, nor, in the   *)
(* programs that come back to it, while it is taken down.                  *)
AloneInv == Within(Main) /\ (op[Main] = "init" \/ style = "quiet") => Alone

(* Where the API lock is held. *)
Held == {"check", "body", "unlock", "fini", "free", "giveup"} \union Building

(* A mutex that is not destroyed is the owner's, and only such a one is    *)
(* used while the lock is open.                                            *)
MutexInv == /\ mutexLive => \A t \in Threads : pc[t] \in Held <=> mutexOwner = t
            /\ apilock => mutexLive

In(o, ls) == op[Main] = o /\ pc[Main] \in ls

Down == up = {} /\ cap = 0 /\ cores = NoCores /\ found = {}
GroupsThere == iface = "OS" /\ OsAllocates => mounted /\ groups >= GroupsNeeded(machine, found)
AllUp == up = Layers /\ cap # 0 /\ cores # NoCores /\ apilock /\ GroupsThere

(* The main thread has begun neither to bring the library up nor to take   *)
(* it down.                                                                *)
AtRest == \/ op[Main] \notin {"init", "fini"}
          \/ pc[Main] \in {"idle", "open"}
          \/ In("fini", {"lock", "check"})

Searching == {"find_mon", "find_l3", "find_l2", "find_mba", "discover"}
Late == {"os", "mon", "alloc", "groups", "done"}

(* What is up at each stage. *)
StageInv ==
  /\ AtRest => IF initDone THEN AllUp ELSE Down /\ ~apilock
  /\ In("init", {"lock", "check"} \union Building) => ~initDone /\ apilock /\ lives > 0
  /\ In("init", {"lock", "check", "log"}) => Down
  /\ In("init", {"cpu", "detect"}) => up = {"log"} /\ cap = 0 /\ found = {}
  /\ In("init", {"cpu"}) => cores = NoCores
  /\ In("init", {"machine"}) => up = {"log", "cpu"} /\ cap = 0 /\ cores # NoCores /\ found = {}
  /\ In("init", Searching) => up = Layers /\ cap = 0 /\ cores # NoCores
  /\ In("init", Late) => up = Layers /\ cap # 0 /\ cores # NoCores
  /\ In("init", Late \ {"os"}) => iface = want
  /\ In("init", {"groups"}) => mounted
  /\ In("init", {"done"}) => GroupsThere
  /\ In("init", {"unlock"}) \/ In("fini", {"fini", "free"}) => initDone /\ AllUp
  /\ pc[Main] \in {"giveup", "exit"} => ~initDone /\ Down
  /\ In("init", {"open"}) => lives > 0

(* The parts that calls are dispatched to know the capabilities there are. *)
MonKnown == monInit => known[PartOf("mon")] = cap
AllocKnown == known[PartOf("alloc")] = cap

KnownInv ==
  /\ In("init", {"alloc", "groups", "done"}) => MonKnown
  /\ In("init", {"groups", "done"}) => AllocKnown
  /\ initDone /\ ~In("fini", {"free"}) => MonKnown /\ AllocKnown

(* Where the main thread is bound, or what it will be bound to again. *)
CpuInv == IF In("init", {"detect"}) THEN savedOn = Anywhere \/ strayed
                                    ELSE runsOn = Anywhere \/ strayed

CoresInv == \A d \in DOMAIN cores : cores[d] = CoreInfo(machine, d)

LifeInv == LabelInv /\ AloneInv /\ MutexInv /\ StageInv /\ KnownInv /\ CpuInv /\ CoresInv
(* Sets of numbers have the least element, and when bounded the greatest,  *)
(* that Min and Max choose.                                                *)
LEMMA LeastNatural ==
  ASSUME NEW S, S \subseteq Nat, S # {}
  PROVE  Min(S) \in S /\ \A x \in S : Min(S) <= x
<1> DEFINE R == OpToRel(<, Nat)
<1>1. \A x, y \in Nat : x < y => <<x, y>> \in R
  BY DEF OpToRel
<1>2. IsWellFoundedOn(R, Nat)
  BY NatLessThanWellFounded
<1> HIDE DEF R
<1>3. PICK m \in S : \A x \in S : ~ (<<x, m>> \in R)
  BY <1>2, WFMin
<1>4. \A x \in S : m <= x
  <2>1. \A x \in S : ~ (x < m)
    BY <1>1, <1>3
  <2>2. QED
    BY <2>1
<1>5. QED
  BY <1>4 DEF Min

LEMMA GreatestNumber ==
  ASSUME NEW S, S \subseteq Int, S # {}, NEW b \in Int, \A x \in S : x <= b
  PROVE  Max(S) \in S /\ \A x \in S : x <= Max(S)
<1> DEFINE D == {b - x : x \in S}
<1>1. D \subseteq Nat
  <2>1. \A x \in S : b - x \in Nat
    OBVIOUS
  <2>2. QED
    BY <2>1
<1>2. Min(D) \in D /\ \A d \in D : Min(D) <= d
  <2> HIDE DEF D
  <2>1. D # {}
    BY DEF D
  <2>2. QED
    BY <1>1, <2>1, LeastNatural
<1>3. PICK m \in S : Min(D) = b - m
  BY <1>2
<1>4. \A x \in S : b - m <= b - x
  BY <1>2, <1>3
<1>5. \A x \in S : m >= x
  BY <1>4
<1>6. QED
  BY <1>5 DEF Max

-----------------------------------------------------------------------------
(* Groups are counted in whole numbers that a machine bounds. *)
LEMMA NumClassesType ==
  ASSUME NEW m \in Machines, NEW f \in Allocation
  PROVE  NumClasses(m, f) \in Nat
BY MachinesType DEF NumClasses, ByCpuid, ByBrand, ByProbing, Allocation

LEMMA GroupsNeededType ==
  ASSUME NEW m \in Machines
  PROVE  \E b \in Nat : \A fs : GroupsNeeded(m, fs) \in Int /\ GroupsNeeded(m, fs) <= b
<1> DEFINE n(f) == NumClasses(m, f)
           b == n("l3") + n("l2") + n("mba")
<1>1. \A f \in Allocation : n(f) \in Nat
  BY NumClassesType
<1>2. n("l3") \in Nat /\ n("l2") \in Nat /\ n("mba") \in Nat
  BY <1>1 DEF Allocation
<1>3. \A f \in Allocation : n(f) <= b
  BY <1>2 DEF Allocation
<1>4. ASSUME NEW fs PROVE GroupsNeeded(m, fs) \in Int /\ GroupsNeeded(m, fs) <= b
  <2> DEFINE as == OsSupport(m, fs) \intersect Allocation
             S == {n(f) : f \in as}
  <2>1. CASE as = {}
    BY <2>1, <1>2 DEF GroupsNeeded
  <2>2. CASE as # {}
    <3>1. S \subseteq Nat /\ S # {} /\ \A x \in S : x <= b
      <4> HIDE DEF n, b
      <4>1. as \subseteq Allocation
        OBVIOUS
      <4>2. QED
        BY <1>1, <1>3, <2>2, <4>1
    <3>2. Min(S) \in S
      BY <3>1, LeastNatural
    <3>3. Min(S) \in Nat /\ Min(S) <= b
      BY <3>1, <3>2
    <3>4. GroupsNeeded(m, fs) = Min(S) - 1
      BY <2>2 DEF GroupsNeeded
    <3>5. QED
      BY <1>2, <3>3, <3>4
  <2>3. QED
    BY <2>1, <2>2
<1>5. b \in Nat
  BY <1>2
<1>6. QED
  BY <1>4, <1>5

LEMMA MaxGroupsBounds ==
  ASSUME machine \in Machines
  PROVE  /\ MaxGroups \in Nat
         /\ \A fs \in SUBSET Features :
              GroupsNeeded(machine, fs) \in Int /\ GroupsNeeded(machine, fs) <= MaxGroups
<1> DEFINE g(fs) == GroupsNeeded(machine, fs)
           S == {g(fs) : fs \in SUBSET Features}
<1>1. PICK b \in Nat : \A fs : g(fs) \in Int /\ g(fs) <= b
  BY GroupsNeededType
<1>2. g({}) = 0
  BY DEF GroupsNeeded, OsSupport
<1> HIDE DEF g
<1>3. S \subseteq Int /\ 0 \in S /\ \A x \in S : x <= b
  BY <1>1, <1>2
<1>4. Max(S) \in S /\ \A x \in S : x <= Max(S)
  <2>1. S # {} /\ b \in Int
    BY <1>3
  <2> HIDE DEF S
  <2>2. QED
    BY <1>3, <2>1, GreatestNumber
<1>5. MaxGroups = Max(S)
  BY DEF MaxGroups, g
<1>6. QED
  BY <1>1, <1>3, <1>4, <1>5 DEF g

-----------------------------------------------------------------------------
(* The calls, and the steps of the library by its parts. *)
CallStep == CallInit \/ CallFini \/ \E t \in Threads : CallApi(t)
LockStep(t) == OpenLock(t) \/ Lock(t) \/ Check(t) \/ Body(t) \/ Unlock(t) \/ ExitLock(t)
CpuStep(t) == LogUp(t) \/ CpuStart(t) \/ DetectCpu(t) \/ CpuUp(t) \/ MachineUp(t)
FeatureStep(t) == \/ Discover(t, "mon", "find_mon", "find_l3")
                  \/ Discover(t, "l3", "find_l3", "find_l2")
                  \/ Discover(t, "l2", "find_l2", "find_mba")
                  \/ Discover(t, "mba", "find_mba", "discover")
PartStep(t) == \/ Collect(t) \/ DiscoverOs(t) \/ MonInit(t) \/ AllocInit(t) \/ MakeGroups(t)
               \/ InitDone(t)
FiniStep(t) == FiniParts(t) \/ FiniCaps(t)

LEMMA NextCases ==
  Next => \/ CallStep
          \/ \E t \in Threads : \/ LockStep(t) \/ CpuStep(t) \/ FeatureStep(t)
                                \/ PartStep(t) \/ FiniStep(t)
BY DEF Next, CallStep, LockStep, CpuStep, FeatureStep, PartStep, FiniStep

-----------------------------------------------------------------------------
(* The types of the variables that steps change together. *)
MachineType == /\ machine \in Machines /\ style \in {"one life", "quiet"}
               /\ want \in {"MSR", "OS"} /\ lives \in 0 .. MaxLives
               /\ op \in [Threads -> {"none", "init", "fini", "mon", "alloc"}]
ResctrlType == mounted \in BOOLEAN /\ groups \in 0 .. MaxGroups
LockType == /\ apilock \in BOOLEAN /\ mutexLive \in BOOLEAN
            /\ mutexOwner \in Threads \union {NoThread}
CapType == /\ initDone \in BOOLEAN /\ iface \in {"MSR", "OS"} /\ up \subseteq Layers
           /\ cap \in 0 .. MaxLives /\ DOMAIN cores \subseteq Cpus /\ found \subseteq Features
CpuType == /\ runsOn \in Cpus \union {Anywhere} /\ savedOn \in Cpus \union {Anywhere}
           /\ toDetect \subseteq Cpus /\ strayed \in BOOLEAN
PartType == /\ known \in [Parts -> 0 .. MaxLives]
            /\ monIface \in {"MSR", "OS"} /\ monInit \in BOOLEAN
StepType == faults \in 0 .. MaxFaults /\ DOMAIN pc = Threads

Types == /\ MachineType /\ ResctrlType /\ LockType /\ CapType
         /\ CpuType /\ PartType /\ StepType

MemType == blocks \subseteq 0 .. MaxLives /\ lost \subseteq 0 .. MaxLives

LEMMA TypesAreThose == Types /\ MemType => TypeOK
BY DEF MemType, Types, TypeOK, MachineType, ResctrlType, LockType, CapType, CpuType, PartType, StepType

LEMMA ProgramKept ==
  ASSUME UNCHANGED programVars
  PROVE  /\ UNCHANGED <<machine, style, want, lives, op, Cpus, MaxGroups>>
         /\ MachineType' = MachineType
BY DEF programVars, MachineType, Cpus, MaxGroups

LEMMA ResctrlKept ==
  ASSUME UNCHANGED resctrlVars, UNCHANGED machine PROVE ResctrlType' = ResctrlType
BY DEF resctrlVars, ResctrlType, MaxGroups

LEMMA LockKept == ASSUME UNCHANGED lockVars PROVE LockType' = LockType
BY DEF lockVars, LockType

LEMMA CapKept == ASSUME UNCHANGED capVars, UNCHANGED machine PROVE CapType' = CapType
BY DEF capVars, CapType, Cpus

LEMMA CpuKept == ASSUME UNCHANGED cpuVars, UNCHANGED machine PROVE CpuType' = CpuType
BY DEF cpuVars, CpuType, Cpus

LEMMA PartKept == ASSUME UNCHANGED partVars PROVE PartType' = PartType
BY DEF partVars, PartType

LEMMA TypeInit == Init => Types
<1> SUFFICES ASSUME Init PROVE Types
  OBVIOUS
<1>1. machine \in Machines /\ mounted \in BOOLEAN
  BY MachinesType DEF Init
<1>2. 0 \in 0 .. MaxGroups /\ 0 \in 0 .. MaxLives /\ 0 \in 0 .. MaxFaults
  BY <1>1, MaxGroupsBounds, LifeAssumption
<1>3. DOMAIN cores \subseteq Cpus
  <2>1. DOMAIN <<>> = {}
    OBVIOUS
  <2>2. QED
    BY <2>1 DEF Init, NoCores
<1>4. MachineType /\ ResctrlType
  BY <1>1, <1>2 DEF Init, MachineType, ResctrlType
<1>5. LockType /\ CpuType
  BY DEF Init, LockType, CpuType
<1>6. CapType
  BY <1>2, <1>3 DEF Init, CapType
<1>7. PartType /\ StepType
  BY <1>2 DEF Init, PartType, StepType
<1>8. QED
  BY <1>4, <1>5, <1>6, <1>7 DEF Types

LEMMA FaultKept ==
  ASSUME StepType, Fault \/ UNCHANGED faults, NEW t, NEW l, Goto(t, l)
  PROVE  StepType'
BY LifeAssumption DEF StepType, Fault, Goto

LEMMA CallType == ASSUME Types, CallStep PROVE Types'
<1> USE DEF Types
<1>1. /\ UNCHANGED <<machine, style, resctrlVars, lockVars, capVars, cpuVars, partVars, faults>>
      /\ \E t \in Threads, o \in {"init", "fini", "mon", "alloc"}, l \in {"open", "lock"} :
           Goto(t, l) /\ op' = [op EXCEPT ![t] = o]
  BY LifeAssumption DEF CallStep, CallInit, CallFini, CallApi, Begin, Step
<1>2. op' \in [Threads -> {"none", "init", "fini", "mon", "alloc"}]
  BY <1>1 DEF MachineType
<1>3. lives' \in 0 .. MaxLives /\ want' \in {"MSR", "OS"}
  <2>1. CASE CallInit
    <3>1. /\ lives < MaxLives \/ lives < 1
          /\ lives' = lives + 1 /\ want' \in {"MSR", "OS"}
      BY <2>1 DEF CallInit
    <3>2. lives \in 0 .. MaxLives /\ MaxLives \in Nat \ {0}
      BY LifeAssumption DEF MachineType
    <3>3. lives + 1 \in 0 .. MaxLives
      BY <3>1, <3>2
    <3>4. QED
      BY <3>1, <3>3
  <2>2. CASE ~CallInit
    BY <2>2 DEF CallStep, CallFini, CallApi, MachineType
  <2>3. QED
    BY <2>1, <2>2
<1>4. MachineType'
  BY <1>1, <1>2, <1>3 DEF MachineType
<1>5. StepType'
  BY <1>1, FaultKept
<1>6. QED
  BY <1>1, <1>4, <1>5, ResctrlKept, LockKept, CapKept, CpuKept, PartKept

LEMMA LockStepType == ASSUME Types, NEW t \in Threads, LockStep(t) PROVE Types'
<1> USE DEF Types
<1>1. /\ UNCHANGED <<resctrlVars, capVars, cpuVars, partVars, programVars>>
      /\ Fault \/ UNCHANGED faults
      /\ \E l : Goto(t, l)
  BY DEF LockStep, OpenLock, Lock, Check, Body, Unlock, ExitLock, Step
<1>2. LockType'
  <2>1. CASE OpenLock(t)
    BY <2>1, LockKept DEF OpenLock, LockType
  <2>2. CASE Lock(t)
    BY <2>2 DEF Lock, LockType
  <2>3. CASE Check(t) \/ Body(t)
    BY <2>3, LockKept DEF Check, Body
  <2>4. CASE Unlock(t)
    BY <2>4 DEF Unlock, LockType
  <2>5. CASE ExitLock(t)
    <3>1. mutexLive' \in BOOLEAN
      BY <2>5, Zenon DEF ExitLock
    <3>2. QED
      BY <2>5, <3>1 DEF ExitLock, LockType
  <2>6. QED
    BY <2>1, <2>2, <2>3, <2>4, <2>5 DEF LockStep
<1>3. StepType'
  BY <1>1, FaultKept
<1>4. QED
  BY <1>1, <1>2, <1>3, ProgramKept, ResctrlKept, CapKept, CpuKept, PartKept

LEMMA AbandonType ==
  ASSUME Types, NEW t \in Threads, NEW down, Abandon(t, down)
  PROVE  /\ up' \subseteq Layers /\ cap' \in 0 .. MaxLives
         /\ DOMAIN cores' \subseteq Cpus /\ found' \subseteq Features /\ \E l : Goto(t, l)
<1>1. DOMAIN <<>> = {}
  OBVIOUS
<1>2. QED
  BY <1>1, LifeAssumption DEF Types, CapType, Abandon, NoCores

LEMMA DetectType ==
  ASSUME Types, NEW t \in Threads, DetectCpu(t)
  PROVE  /\ CpuType' /\ DOMAIN cores' \subseteq Cpus
<1>1. Min(toDetect) \in toDetect
  <2>1. toDetect \subseteq Nat /\ toDetect # {}
    BY MachinesType DEF DetectCpu, Types, CpuType, MachineType, Cpus
  <2>2. QED
    BY <2>1, LeastNatural
<1>2. Min(toDetect) \in Cpus /\ UNCHANGED <<machine, Cpus>>
  BY <1>1 DEF DetectCpu, programVars, Types, CpuType, Cpus
<1>3. CpuType'
  BY <1>2 DEF DetectCpu, Types, CpuType
<1>4. DOMAIN cores' \subseteq Cpus
  BY <1>2 DEF DetectCpu, Types, CapType
<1>5. QED
  BY <1>3, <1>4

LEMMA CpuStepType == ASSUME Types, NEW t \in Threads, CpuStep(t) PROVE Types'
<1> USE DEF Types
<1>1. UNCHANGED <<initDone, iface, resctrlVars, lockVars, partVars, programVars>>
  BY DEF CpuStep, LogUp, CpuStart, DetectCpu, CpuUp, MachineUp
<1>2. UNCHANGED <<machine, Cpus>>
  BY <1>1, ProgramKept
<1>3. StepType'
  BY LifeAssumption DEF CpuStep, LogUp, CpuStart, DetectCpu, CpuUp, MachineUp, Stays, Abandon,
                        Goto, StepType, Fault
<1>4. CpuType'
  <2>1. CASE LogUp(t) \/ MachineUp(t)
    BY <1>2, <2>1, CpuKept DEF LogUp, MachineUp
  <2>2. CASE CpuStart(t) \/ CpuUp(t)
    BY <1>2, <2>2 DEF CpuStart, CpuUp, CpuType
  <2>3. CASE DetectCpu(t)
    BY <2>3, DetectType
  <2>4. QED
    BY <2>1, <2>2, <2>3 DEF CpuStep
<1>5. /\ up' \subseteq Layers /\ cap' \in 0 .. MaxLives
      /\ DOMAIN cores' \subseteq Cpus /\ found' \subseteq Features
  <2>1. CASE \E down : Abandon(t, down)
    BY <2>1, AbandonType
  <2>2. CASE UNCHANGED cores /\ ~\E down : Abandon(t, down)
    BY <2>2 DEF CpuStep, LogUp, CpuStart, DetectCpu, CpuUp, MachineUp, Stays, CapType, Layers
  <2>3. CASE DetectCpu(t)
    BY <2>3, DetectType DEF DetectCpu, CapType
  <2>4. QED
    BY <2>1, <2>2, <2>3 DEF CpuStep, LogUp, CpuStart, CpuUp, MachineUp, Stays
<1>6. CapType'
  BY <1>1, <1>2, <1>5 DEF CapType
<1>7. QED
  BY <1>1, <1>3, <1>4, <1>6, ProgramKept, ResctrlKept, LockKept, PartKept

LEMMA FeatureStepType == ASSUME Types, NEW t \in Threads, FeatureStep(t) PROVE Types'
<1> USE DEF Types
<1>1. PICK f \in Features : \E here, next : Discover(t, f, here, next)
  BY DEF FeatureStep, Features
<1>2. UNCHANGED <<initDone, iface, resctrlVars, lockVars, partVars, programVars, cpuVars>>
  BY <1>1 DEF Discover
<1>3. UNCHANGED <<machine, Cpus>>
  BY <1>2, ProgramKept
<1>4. StepType'
  BY <1>1, LifeAssumption DEF Discover, Stays, Abandon, Goto, StepType, Fault
<1>5. /\ up' \subseteq Layers /\ cap' \in 0 .. MaxLives
      /\ DOMAIN cores' \subseteq Cpus /\ found' \subseteq Features
  <2>1. CASE Abandon(t, Layers)
    BY <2>1, AbandonType
  <2>2. CASE ~Abandon(t, Layers)
    BY <1>1, <2>2 DEF Discover, Stays, CapType
  <2>3. QED
    BY <2>1, <2>2
<1>6. CapType'
  BY <1>2, <1>3, <1>5 DEF CapType
<1>7. QED
  BY <1>2, <1>3, <1>4, <1>6, ProgramKept, ResctrlKept, LockKept, PartKept, CpuKept

LEMMA PartStepType == ASSUME Types, NEW t \in Threads, PartStep(t) PROVE Types'
<1> USE DEF Types
<1>1. UNCHANGED <<lockVars, programVars, cpuVars>>
  BY DEF PartStep, Collect, DiscoverOs, MonInit, AllocInit, MakeGroups, InitDone
<1>2. UNCHANGED <<machine, Cpus, MaxGroups>> /\ want \in {"MSR", "OS"} /\ lives \in 0 .. MaxLives
  BY <1>1, ProgramKept DEF MachineType
<1>3. StepType'
  BY LifeAssumption DEF PartStep, Collect, DiscoverOs, MonInit, AllocInit, MakeGroups, InitDone,
                        Step, Abandon, Goto, StepType, Fault
<1>4. /\ up' \subseteq Layers /\ cap' \in 0 .. MaxLives
      /\ DOMAIN cores' \subseteq Cpus /\ found' \subseteq Features
  <2>1. CASE Abandon(t, Layers)
    BY <2>1, AbandonType
  <2>2. CASE ~Abandon(t, Layers)
    <3>1. UNCHANGED <<up, cores, found>> /\ cap' \in {cap, lives}
      BY <2>2 DEF PartStep, Collect, DiscoverOs, MonInit, AllocInit, MakeGroups, InitDone, capVars
    <3>2. QED
      BY <1>2, <3>1 DEF CapType
  <2>3. QED
    BY <2>1, <2>2
<1>5. initDone' \in BOOLEAN /\ iface' \in {"MSR", "OS"}
  BY <1>2 DEF PartStep, Collect, DiscoverOs, MonInit, AllocInit, MakeGroups, InitDone, capVars, CapType
<1>6. ResctrlType'
  <2>1. CASE AllocInit(t)
    <3>1. mounted' \in BOOLEAN
      BY <2>1 DEF AllocInit, ResctrlType, resctrlVars
    <3>2. groups' \in 0 .. MaxGroups
      <4>1. MaxGroups \in Nat
        BY MaxGroupsBounds DEF MachineType
      <4>2. groups' \in {groups, 0}
        BY <2>1 DEF AllocInit, resctrlVars
      <4>3. QED
        BY <4>1, <4>2 DEF ResctrlType
    <3>3. QED
      BY <1>2, <3>1, <3>2 DEF ResctrlType
  <2>2. CASE MakeGroups(t)
    <3>1. /\ mounted' = mounted
          /\ \/ groups' = groups
             \/ groups < GroupsNeeded(machine, found) /\ groups' = groups + 1
      BY <2>2, Zenon DEF MakeGroups
    <3>2. /\ MaxGroups \in Nat /\ GroupsNeeded(machine, found) \in Int
          /\ GroupsNeeded(machine, found) <= MaxGroups
      BY MaxGroupsBounds DEF MachineType, CapType
    <3>3. groups' \in 0 .. MaxGroups
      BY <3>1, <3>2 DEF ResctrlType
    <3>4. QED
      BY <1>2, <3>1, <3>3 DEF ResctrlType
  <2>3. CASE ~AllocInit(t) /\ ~MakeGroups(t)
    BY <1>2, <2>3, ResctrlKept DEF PartStep, Collect, DiscoverOs, MonInit, InitDone
  <2>4. QED
    BY <2>1, <2>2, <2>3
<1>7. PartType'
  <2>1. CASE MonInit(t) \/ AllocInit(t)
    <3>1. cap \in 0 .. MaxLives /\ known \in [Parts -> 0 .. MaxLives]
      BY DEF CapType, PartType
    <3>2. known' \in [Parts -> 0 .. MaxLives]
      <4>1. CASE MonInit(t)
        BY <3>1, <4>1 DEF MonInit
      <4>2. CASE AllocInit(t)
        BY <3>1, <4>2 DEF AllocInit, AllocPointers
      <4>3. QED
        BY <2>1, <4>1, <4>2
    <3>3. QED
      BY <1>2, <2>1, <3>2 DEF MonInit, AllocInit, PartType
  <2>2. CASE ~MonInit(t) /\ ~AllocInit(t)
    BY <2>2, PartKept DEF PartStep, Collect, DiscoverOs, MakeGroups, InitDone, partVars
  <2>3. QED
    BY <2>1, <2>2
<1>8. CapType'
  BY <1>2, <1>4, <1>5 DEF CapType
<1>9. QED
  BY <1>1, <1>2, <1>3, <1>6, <1>7, <1>8, ProgramKept, LockKept, CpuKept

LEMMA FiniStepType == ASSUME Types, NEW t \in Threads, FiniStep(t) PROVE Types'
<1> USE DEF Types
<1>1. UNCHANGED <<resctrlVars, lockVars, programVars, cpuVars, faults, iface, monIface, monInit>>
  BY DEF FiniStep, FiniParts, FiniCaps, capVars, partVars
<1>2. UNCHANGED <<machine, Cpus>>
  BY <1>1, ProgramKept
<1>3. StepType'
  BY <1>1 DEF FiniStep, FiniParts, FiniCaps, Step, Goto, StepType
<1>4. PartType'
  <2>1. known' \in [Parts -> 0 .. MaxLives]
    BY LifeAssumption DEF FiniStep, FiniParts, FiniCaps, PartType, partVars
  <2>2. QED
    BY <1>1, <2>1 DEF PartType
<1>5. CapType'
  <2>1. CASE FiniParts(t)
    BY <1>2, <2>1, CapKept DEF FiniParts
  <2>2. CASE FiniCaps(t)
    <3>1. DOMAIN <<>> = {} /\ 0 \in 0 .. MaxLives
      BY LifeAssumption
    <3>2. up' = {} /\ cap' = 0 /\ DOMAIN cores' = {} /\ found' = {} /\ initDone' = FALSE
      BY <2>2, <3>1 DEF FiniCaps, NoCores
    <3>3. QED
      BY <1>1, <3>1, <3>2 DEF CapType
  <2>3. QED
    BY <2>1, <2>2 DEF FiniStep
<1>6. QED
  BY <1>1, <1>2, <1>3, <1>4, <1>5, ProgramKept, ResctrlKept, LockKept, CpuKept

LEMMA TypeStep == ASSUME Types, [Next]_vars PROVE Types'
<1>1. CASE UNCHANGED vars
  BY <1>1, ProgramKept, ResctrlKept, LockKept, CapKept, CpuKept, PartKept
     DEF vars, Types, StepType
<1>2. CASE Next
  BY <1>2, NextCases, CallType, LockStepType, CpuStepType, FeatureStepType, PartStepType,
     FiniStepType
<1>3. QED
  BY <1>1, <1>2

(* The steps that change what is allocated for capabilities. *)
LEMMA MemSteps ==
  ASSUME Next
  PROVE  \/ UNCHANGED memVars
         \/ \E t \in Threads : \E down : Abandon(t, down)
         \/ blocks' = blocks \union {lives} /\ UNCHANGED lost
         \/ blocks' = blocks \ {cap} /\ UNCHANGED lost
<1>1. CASE CallStep
  BY <1>1 DEF CallStep, CallInit, CallFini, CallApi, Begin, capVars
<1>2. ASSUME NEW t \in Threads, LockStep(t) PROVE UNCHANGED memVars
  BY <1>2 DEF LockStep, OpenLock, Lock, Check, Body, Unlock, ExitLock, capVars
<1>3. ASSUME NEW t \in Threads, CpuStep(t), ~\E down : Abandon(t, down) PROVE UNCHANGED memVars
  BY <1>3 DEF CpuStep, LogUp, CpuStart, DetectCpu, CpuUp, MachineUp, Stays
<1>4. ASSUME NEW t \in Threads, FeatureStep(t), ~Abandon(t, Layers)
      PROVE  UNCHANGED memVars \/ (blocks' = blocks \union {lives} /\ UNCHANGED lost)
  <2>1. PICK f, here, next : Discover(t, f, here, next)
    BY <1>4 DEF FeatureStep
  <2>2. CASE blocks' = blocks \union {lives} /\ UNCHANGED lost
    BY <2>2
  <2>3. CASE \E l : Stays(t, l)
    BY <2>3 DEF Stays, memVars
  <2>4. QED
    BY <1>4, <2>1, <2>2, <2>3 DEF Discover
<1>5. ASSUME NEW t \in Threads, PartStep(t), ~Abandon(t, Layers) PROVE UNCHANGED memVars
  BY <1>5 DEF PartStep, Collect, DiscoverOs, MonInit, AllocInit, MakeGroups, InitDone, capVars
<1>6. ASSUME NEW t \in Threads, FiniStep(t)
      PROVE  UNCHANGED memVars \/ (blocks' = blocks \ {cap} /\ UNCHANGED lost)
  <2>1. CASE FiniParts(t)
    BY <2>1 DEF FiniParts, capVars, memVars
  <2>2. CASE FiniCaps(t)
    BY <2>2 DEF FiniCaps
  <2>3. QED
    BY <1>6, <2>1, <2>2 DEF FiniStep
<1>7. QED
  BY <1>1, <1>2, <1>3, <1>4, <1>5, <1>6, NextCases

LEMMA MemTypeStep == ASSUME Types, MemType, [Next]_vars PROVE MemType'
<1>1. lives \in 0 .. MaxLives /\ cap \in 0 .. MaxLives
  BY DEF Types, MachineType, CapType
<1>2. CASE UNCHANGED memVars
  BY <1>2 DEF MemType, memVars
<1>3. ASSUME NEW t \in Threads, NEW down, Abandon(t, down) PROVE MemType'
  BY <1>1, <1>3 DEF Abandon, BlocksOfFailedInit, MemType
<1>4. CASE UNCHANGED lost /\ (blocks' = blocks \union {lives} \/ blocks' = blocks \ {cap})
  BY <1>1, <1>4 DEF MemType
<1>5. QED
  BY <1>2, <1>3, <1>4, MemSteps DEF vars, capVars

(* Every variable of the life cycle keeps its type, on whatever machines   *)
(* and however often pqos_init is called.                                  *)
THEOREM TypeCorrect == Spec => []TypeOK
<1>1. Init => Types /\ MemType
  BY TypeInit DEF Init, MemType
<1>2. (Types /\ MemType) /\ [Next]_vars => (Types /\ MemType)'
  BY TypeStep, MemTypeStep
<1>3. QED
  BY <1>1, <1>2, TypesAreThose, PTL DEF Spec

-----------------------------------------------------------------------------
(* Where the library is brought up, the main thread is alone. *)
LEMMA BuildingPlace ==
  ASSUME Types, LifeInv, NEW t \in Threads, pc[t] \in Building
  PROVE  /\ t = Main /\ op[Main] = "init" /\ Within(Main) /\ Alone
         /\ ~initDone /\ apilock /\ mutexLive /\ mutexOwner = Main /\ lives > 0
<1>1. op[t] = "init" /\ t = Main
  BY DEF Types, MachineType, LifeInv, LabelInv, Building, FiniLabels, ApiLabels
<1>2. Within(Main) /\ Alone
  BY <1>1 DEF LifeInv, AloneInv, Within, Building
<1>3. ~initDone /\ apilock /\ lives > 0
  BY <1>1 DEF LifeInv, StageInv, In
<1>4. mutexLive /\ mutexOwner = Main
  BY <1>1, <1>3 DEF LifeInv, MutexInv, Held
<1>5. QED
  BY <1>1, <1>2, <1>3, <1>4

(* A step of the library from one label to another of the same call keeps  *)
(* the places, and the lock where that is kept.                            *)
LEMMA PlaceKeeps ==
  ASSUME Types, LifeInv, NEW t \in Threads, NEW l, Goto(t, l),
         UNCHANGED programVars,
         pc[t] # "idle",
         /\ op[t] = "init" => l \in InitLabels
         /\ op[t] = "fini" => l \in FiniLabels
         /\ op[t] \in {"mon", "alloc"} => l \in ApiLabels
  PROVE  /\ LabelInv' /\ AloneInv'
         /\ pc'[t] = l /\ (t # Main => pc'[Main] = pc[Main]) /\ op' = op
         /\ \A u \in Threads : pc'[u] = IF u = t THEN l ELSE pc[u]
<1>1. DOMAIN pc = Threads /\ op' = op /\ style' = style
  BY DEF Types, StepType, programVars
<1>2. \A u \in Threads : pc'[u] = IF u = t THEN l ELSE pc[u]
  BY <1>1 DEF Goto
<1>3. LabelInv'
  BY <1>1, <1>2 DEF LifeInv, LabelInv
<1>4. AloneInv'
  <2>1. Within(Main)' => Within(Main)
    BY <1>1, <1>2, LifeAssumption DEF Within
  <2>2. Within(Main) /\ (op[Main] = "init" \/ style = "quiet") => t = Main
    BY DEF LifeInv, AloneInv, Alone
  <2>3. t = Main /\ Alone => Alone'
    BY <1>2 DEF Alone
  <2>4. QED
    BY <1>1, <2>1, <2>2, <2>3 DEF LifeInv, AloneInv
<1>5. QED
  BY <1>1, <1>2, <1>3, <1>4, LifeAssumption

LEMMA MoveKeeps ==
  ASSUME Types, LifeInv, NEW t \in Threads, NEW l, Goto(t, l),
         UNCHANGED <<lockVars, programVars>>,
         pc[t] # "idle", pc[t] \in Held <=> l \in Held,
         /\ op[t] = "init" => l \in InitLabels
         /\ op[t] = "fini" => l \in FiniLabels
         /\ op[t] \in {"mon", "alloc"} => l \in ApiLabels
  PROVE  /\ LabelInv' /\ AloneInv' /\ MutexInv'
         /\ pc'[t] = l /\ (t # Main => pc'[Main] = pc[Main]) /\ op' = op
<1>1. UNCHANGED <<apilock, mutexLive, mutexOwner>>
  BY DEF lockVars
<1>2. /\ LabelInv' /\ AloneInv' /\ op' = op
      /\ \A u \in Threads : pc'[u] = IF u = t THEN l ELSE pc[u]
  BY PlaceKeeps
<1>3. MutexInv'
  BY <1>1, <1>2 DEF LifeInv, MutexInv
<1>4. QED
  BY <1>2, <1>3, LifeAssumption

LEMMA BuildingStep ==
  ASSUME Types, LifeInv, NEW t \in Threads, pc[t] \in Building,
         NEW l \in Building \union {"giveup", "unlock"}, Goto(t, l),
         UNCHANGED <<lockVars, programVars>>
  PROVE  /\ LabelInv' /\ AloneInv' /\ MutexInv'
         /\ op'[Main] = "init" /\ pc[Main] = pc[t] /\ pc'[Main] = l /\ ~AtRest'
         /\ UNCHANGED <<machine, want, lives, apilock>>
<1>1. t = Main /\ op[Main] = "init"
  BY BuildingPlace
<1>2. pc[t] # "idle" /\ l \in InitLabels /\ pc[t] \in Held /\ l \in Held
  BY DEF Building, InitLabels, Held
<1>3. /\ LabelInv' /\ AloneInv' /\ MutexInv' /\ pc'[Main] = l /\ op' = op
  BY <1>1, <1>2, MoveKeeps
<1>4. ~AtRest'
  BY <1>1, <1>3 DEF AtRest, In, Building
<1>5. QED
  BY <1>1, <1>3, <1>4 DEF programVars, lockVars

(* What is taken down in a stage that fails. *)
LEMMA Abandoned ==
  ASSUME Types, LifeInv, NEW t \in Threads, pc[t] \in Building, NEW down, up \subseteq down,
         Abandon(t, down), UNCHANGED <<lockVars, programVars, initDone>>
  PROVE  /\ LabelInv' /\ AloneInv' /\ MutexInv' /\ StageInv' /\ KnownInv' /\ CoresInv'
         /\ op'[Main] = "init" /\ pc'[Main] = "giveup"
<1>1. /\ LabelInv' /\ AloneInv' /\ MutexInv'
      /\ op'[Main] = "init" /\ pc'[Main] = "giveup" /\ ~AtRest'
  BY BuildingStep DEF Abandon
<1>2. Down'
  BY DEF Abandon, Down
<1>3. ~initDone'
  BY BuildingPlace
<1>4. StageInv'
  BY <1>1, <1>2, <1>3 DEF StageInv, In, Building, Searching, Late
<1>5. KnownInv'
  BY <1>1, <1>3 DEF KnownInv, In
<1>6. CoresInv'
  <2>1. DOMAIN <<>> = {}
    OBVIOUS
  <2>2. QED
    BY <2>1 DEF Abandon, NoCores, CoresInv
<1>7. QED
  BY <1>1, <1>4, <1>5, <1>6

-----------------------------------------------------------------------------
(* Each step keeps what is up, known and bound. *)
LEMMA CpuStepLife == ASSUME Types, LifeInv, NEW t \in Threads, CpuStep(t) PROVE LifeInv'
<1>1. /\ pc[t] \in Building
      /\ UNCHANGED <<initDone, iface, resctrlVars, lockVars, partVars, programVars>>
  BY DEF CpuStep, LogUp, CpuStart, DetectCpu, CpuUp, MachineUp, Building
<1>2. /\ t = Main /\ op[Main] = "init" /\ ~initDone /\ apilock /\ lives > 0
      /\ UNCHANGED <<machine, want, lives, apilock>> /\ op' = op
  BY <1>1, BuildingPlace DEF programVars, lockVars
<1>3. CpuInv'
  <2>1. CASE LogUp(t) \/ MachineUp(t)
    <3>1. pc'[Main] # "detect" /\ pc[Main] # "detect" /\ UNCHANGED <<runsOn, savedOn, strayed>>
      BY <1>2, <2>1 DEF LogUp, MachineUp, Abandon, Goto, Types, StepType, cpuVars
    <3>2. QED
      BY <3>1 DEF LifeInv, CpuInv, In
  <2>2. CASE CpuStart(t)
    <3>1. /\ pc[Main] = "cpu" /\ UNCHANGED <<runsOn, strayed>>
          /\ \/ pc'[Main] = "detect" /\ savedOn' = runsOn
             \/ pc'[Main] = "giveup"
      BY <1>2, <2>2 DEF CpuStart, Stays, Abandon, Goto, Types, StepType
    <3>2. QED
      BY <1>2, <3>1 DEF LifeInv, CpuInv, In
  <2>3. CASE DetectCpu(t)
    <3>1. pc[Main] = "detect" /\ pc' = pc /\ UNCHANGED <<savedOn, strayed>>
      BY <1>2, <2>3 DEF DetectCpu
    <3>2. QED
      BY <1>2, <3>1 DEF LifeInv, CpuInv, In
  <2>4. CASE CpuUp(t)
    <3>1. /\ pc[Main] = "detect" /\ pc'[Main] # "detect"
          /\ \/ runsOn' = savedOn /\ strayed' = strayed
             \/ strayed' = TRUE
      BY <1>2, <2>4 DEF CpuUp, Abandon, Goto, Types, StepType
    <3>2. QED
      BY <1>2, <3>1 DEF LifeInv, CpuInv, In
  <2>5. QED
    BY <2>1, <2>2, <2>3, <2>4 DEF CpuStep
<1>4. CASE \E down : up \subseteq down /\ Abandon(t, down)
  BY <1>1, <1>3, <1>4, Abandoned DEF LifeInv
<1>5. ASSUME pc[t] = "log", up' = up \union {"log"}, Goto(t, "cpu"), UNCHANGED <<cap, cores, found>>
      PROVE  LifeInv'
  <2>1. /\ LabelInv' /\ AloneInv' /\ MutexInv'
        /\ op'[Main] = "init" /\ pc[Main] = "log" /\ pc'[Main] = "cpu" /\ ~AtRest'
    BY <1>1, <1>5, BuildingStep DEF Building
  <2>2. Down
    BY <1>2, <2>1 DEF LifeInv, StageInv, In
  <2>3. StageInv'
    BY <1>1, <1>2, <1>5, <2>1, <2>2 DEF StageInv, In, Building, Searching, Late, Down, NoCores
  <2>4. KnownInv' /\ CoresInv'
    BY <1>1, <1>2, <1>5, <2>1 DEF LifeInv, KnownInv, CoresInv, In
  <2>5. QED
    BY <1>3, <2>1, <2>3, <2>4 DEF LifeInv
<1>6. ASSUME pc[t] = "cpu", Stays(t, "detect")
      PROVE  LifeInv'
  <2>1. /\ LabelInv' /\ AloneInv' /\ MutexInv'
        /\ op'[Main] = "init" /\ pc[Main] = "cpu" /\ pc'[Main] = "detect" /\ ~AtRest'
    BY <1>1, <1>6, BuildingStep DEF Building, Stays
  <2>2. StageInv'
    BY <1>1, <1>2, <1>6, <2>1 DEF LifeInv, StageInv, In, Building, Searching, Late, Stays
  <2>3. KnownInv' /\ CoresInv'
    BY <1>1, <1>2, <1>6, <2>1 DEF LifeInv, KnownInv, CoresInv, In, Stays
  <2>4. QED
    BY <1>3, <2>1, <2>2, <2>3 DEF LifeInv
<1>7. CASE DetectCpu(t)
  <2>1. /\ pc[t] = "detect" /\ pc' = pc /\ UNCHANGED <<up, cap, found>>
        /\ \/ UNCHANGED cores
           \/ cores' = [d \in DOMAIN cores \union {Min(toDetect)} |-> CoreInfo(machine, d)]
    BY <1>7 DEF DetectCpu
  <2>2. pc'[Main] = "detect" /\ op'[Main] = "init" /\ ~AtRest'
    BY <1>2, <2>1 DEF AtRest, In
  <2>3. LabelInv' /\ AloneInv' /\ MutexInv'
    BY <1>1, <2>1 DEF LifeInv, LabelInv, AloneInv, MutexInv, Within, Alone, programVars, lockVars
  <2>4. StageInv'
    BY <1>1, <1>2, <2>1, <2>2 DEF LifeInv, StageInv, In, Building, Searching, Late
  <2>5. KnownInv'
    BY <1>1, <1>2, <2>2 DEF KnownInv, In
  <2>6. CoresInv'
    BY <1>2, <2>1 DEF LifeInv, CoresInv
  <2>7. QED
    BY <1>3, <2>3, <2>4, <2>5, <2>6 DEF LifeInv
<1>8. ASSUME pc[t] = "detect", cores # NoCores, up' = up \union {"cpu"}, Goto(t, "machine"),
             UNCHANGED <<cap, cores, found>>
      PROVE  LifeInv'
  <2>1. /\ LabelInv' /\ AloneInv' /\ MutexInv'
        /\ op'[Main] = "init" /\ pc[Main] = "detect" /\ pc'[Main] = "machine" /\ ~AtRest'
    BY <1>1, <1>8, BuildingStep DEF Building
  <2>2. StageInv'
    BY <1>1, <1>2, <1>8, <2>1 DEF LifeInv, StageInv, In, Building, Searching, Late, NoCores
  <2>3. KnownInv' /\ CoresInv'
    BY <1>1, <1>2, <1>8, <2>1 DEF LifeInv, KnownInv, CoresInv, In
  <2>4. QED
    BY <1>3, <2>1, <2>2, <2>3 DEF LifeInv
<1>9. ASSUME pc[t] = "machine", up' = up \union {"machine"}, Goto(t, "find_mon"),
             UNCHANGED <<cap, cores, found>>
      PROVE  LifeInv'
  <2>1. /\ LabelInv' /\ AloneInv' /\ MutexInv'
        /\ op'[Main] = "init" /\ pc[Main] = "machine" /\ pc'[Main] = "find_mon" /\ ~AtRest'
    BY <1>1, <1>9, BuildingStep DEF Building
  <2>2. StageInv'
    BY <1>1, <1>2, <1>9, <2>1 DEF LifeInv, StageInv, In, Building, Searching, Late, Layers, NoCores
  <2>3. KnownInv' /\ CoresInv'
    BY <1>1, <1>2, <1>9, <2>1 DEF LifeInv, KnownInv, CoresInv, In
  <2>4. QED
    BY <1>3, <2>1, <2>2, <2>3 DEF LifeInv
<1>10. QED
  BY <1>4, <1>5, <1>6, <1>7, <1>8, <1>9 DEF CpuStep, LogUp, CpuStart, CpuUp, MachineUp

LEMMA FeatureStepLife == ASSUME Types, LifeInv, NEW t \in Threads, FeatureStep(t) PROVE LifeInv'
<1>1. PICK f \in Features, here \in Searching, next \in Searching : Discover(t, f, here, next)
  BY DEF FeatureStep, Features, Searching
<1>2. /\ pc[t] \in Building /\ pc[t] = here /\ next \in Building
      /\ UNCHANGED <<initDone, iface, resctrlVars, lockVars, partVars, programVars, cpuVars>>
  BY <1>1 DEF Discover, Building, Searching
<1>3. /\ t = Main /\ op[Main] = "init" /\ ~initDone /\ apilock /\ lives > 0
      /\ UNCHANGED <<machine, want, lives, apilock, runsOn, strayed>> /\ op' = op
  BY <1>2, BuildingPlace DEF programVars, lockVars, cpuVars
<1>4. CASE Abandon(t, Layers)
  <2>1. up \subseteq Layers
    BY DEF Types, CapType
  <2>2. /\ LabelInv' /\ AloneInv' /\ MutexInv' /\ StageInv' /\ KnownInv' /\ CoresInv'
        /\ op'[Main] = "init" /\ pc'[Main] = "giveup"
    BY <1>2, <1>4, <2>1, Abandoned
  <2>3. CpuInv'
    BY <1>2, <1>3, <2>2 DEF LifeInv, CpuInv, In, Searching
  <2>4. QED
    BY <2>2, <2>3 DEF LifeInv
<1>5. CASE Goto(t, next) /\ UNCHANGED <<up, cap, cores>>
  <2>1. /\ LabelInv' /\ AloneInv' /\ MutexInv'
        /\ op'[Main] = "init" /\ pc[Main] = here /\ pc'[Main] = next /\ ~AtRest'
    BY <1>2, <1>5, BuildingStep
  <2>2. StageInv'
    BY <1>1, <1>2, <1>3, <1>5, <2>1 DEF LifeInv, StageInv, In, Building, Searching, Late
  <2>3. KnownInv' /\ CoresInv'
    BY <1>1, <1>2, <1>3, <1>5, <2>1 DEF LifeInv, KnownInv, CoresInv, In, Searching
  <2>4. CpuInv'
    BY <1>1, <1>3, <2>1 DEF LifeInv, CpuInv, In, Searching
  <2>5. QED
    BY <2>1, <2>2, <2>3, <2>4 DEF LifeInv
<1>6. QED
  BY <1>1, <1>4, <1>5 DEF Discover, Stays

LEMMA PartStepLife == ASSUME Types, LifeInv, NEW t \in Threads, PartStep(t) PROVE LifeInv'
<1>1. /\ pc[t] \in Building /\ pc[t] \in Late \union {"discover"}
      /\ UNCHANGED <<lockVars, programVars, cpuVars>>
  BY DEF PartStep, Collect, DiscoverOs, MonInit, AllocInit, MakeGroups, InitDone, Building,
         Late, Step
<1>2. /\ t = Main /\ op[Main] = "init" /\ ~initDone /\ apilock /\ lives > 0
      /\ UNCHANGED <<machine, want, lives, apilock, runsOn, strayed>> /\ op' = op
  BY <1>1, BuildingPlace DEF programVars, lockVars, cpuVars
<1>3. CpuInv'
  <2>1. pc[Main] # "detect" /\ pc'[Main] # "detect"
    BY <1>1, <1>2 DEF PartStep, Collect, DiscoverOs, MonInit, AllocInit, MakeGroups, InitDone,
                      Late, Step, Goto, Abandon, Types, StepType
  <2>2. QED
    BY <1>2, <2>1 DEF LifeInv, CpuInv, In
<1>4. CASE Abandon(t, Layers) /\ ~InitDone(t)
  <2>1. up \subseteq Layers
    BY DEF Types, CapType
  <2>2. UNCHANGED initDone
    BY <1>4 DEF PartStep, Collect, DiscoverOs, MonInit, AllocInit, MakeGroups, capVars
  <2>3. QED
    BY <1>1, <1>3, <1>4, <2>1, <2>2, Abandoned DEF LifeInv
<1>5. CASE Collect(t) /\ ~Abandon(t, Layers)
  <2>1. /\ pc[t] = "discover" /\ cap' = lives /\ Goto(t, "os") /\ UNCHANGED <<up, cores, found>>
        /\ UNCHANGED <<initDone, iface, resctrlVars, lockVars, partVars, programVars, cpuVars>>
    BY <1>5 DEF Collect
  <2>2. /\ LabelInv' /\ AloneInv' /\ MutexInv'
        /\ op'[Main] = "init" /\ pc[Main] = "discover" /\ pc'[Main] = "os" /\ ~AtRest'
    BY <1>1, <2>1, BuildingStep DEF Building
  <2>3. StageInv'
    BY <1>2, <2>1, <2>2 DEF LifeInv, StageInv, In, Building, Searching, Late
  <2>4. KnownInv' /\ CoresInv'
    BY <1>2, <2>1, <2>2 DEF LifeInv, KnownInv, CoresInv, In
  <2>5. QED
    BY <1>3, <2>2, <2>3, <2>4 DEF LifeInv
<1>6. CASE DiscoverOs(t) /\ ~Abandon(t, Layers)
  <2>1. /\ pc[t] = "os" /\ iface' = want /\ Goto(t, "mon") /\ UNCHANGED <<up, cap, cores, found>>
        /\ UNCHANGED <<initDone, resctrlVars, lockVars, partVars, programVars, cpuVars>>
    BY <1>6 DEF DiscoverOs
  <2>2. /\ LabelInv' /\ AloneInv' /\ MutexInv'
        /\ op'[Main] = "init" /\ pc[Main] = "os" /\ pc'[Main] = "mon" /\ ~AtRest'
    BY <1>1, <2>1, BuildingStep DEF Building
  <2>3. StageInv'
    BY <1>2, <2>1, <2>2 DEF LifeInv, StageInv, In, Building, Searching, Late
  <2>4. KnownInv' /\ CoresInv'
    BY <1>2, <2>1, <2>2 DEF LifeInv, KnownInv, CoresInv, In
  <2>5. QED
    BY <1>3, <2>2, <2>3, <2>4 DEF LifeInv
<1>7. CASE MonInit(t)
  <2>1. /\ pc[t] = "mon" /\ Goto(t, "alloc")
        /\ UNCHANGED <<initDone, iface, up, cap, cores, found>>
    BY <1>7 DEF MonInit, Step, capVars
  <2>2. /\ LabelInv' /\ AloneInv' /\ MutexInv'
        /\ op'[Main] = "init" /\ pc[Main] = "mon" /\ pc'[Main] = "alloc" /\ ~AtRest'
    BY <1>1, <2>1, BuildingStep DEF Building
  <2>3. StageInv'
    BY <1>2, <2>1, <2>2 DEF LifeInv, StageInv, In, Building, Searching, Late
  <2>4. MonKnown'
    <3>1. iface' = want
      BY <1>2, <2>1, <2>2 DEF LifeInv, StageInv, In, Late
    <3>2. \/ ~monInit'
          \/ known' = [p \in Parts |-> IF p = "monitoring" \/ (p = "os_monitoring" /\ want = "OS")
                                       THEN cap ELSE known[p]]
      BY <1>7 DEF MonInit
    <3>3. QED
      BY <2>1, <3>1, <3>2 DEF MonKnown, PartOf, Parts
  <2>5. KnownInv' /\ CoresInv'
    BY <1>2, <2>1, <2>2, <2>4 DEF LifeInv, KnownInv, CoresInv, In
  <2>6. QED
    BY <1>3, <2>2, <2>3, <2>5 DEF LifeInv
<1>8. CASE AllocInit(t) /\ ~Abandon(t, Layers)
  <2> DEFINE l == pc'[t]
  <2>1. /\ pc[t] = "alloc" /\ AllocPointers
        /\ UNCHANGED <<initDone, iface, monInit, up, cap, cores, found>>
        /\ \/ want = "MSR" \/ ~OsAllocates
           \/ mounted'
    BY <1>8 DEF AllocInit
  <2>2. \/ Goto(t, "done") /\ (want = "MSR" \/ ~OsAllocates) /\ UNCHANGED resctrlVars
        \/ Goto(t, "groups") /\ mounted'
    BY <1>8 DEF AllocInit
  <2>3. PICK to \in {"done", "groups"} : /\ Goto(t, to)
                                         /\ to = "done" => want = "MSR" \/ ~OsAllocates
                                         /\ to = "groups" => mounted'
    BY <2>2
  <2>4. /\ LabelInv' /\ AloneInv' /\ MutexInv'
        /\ op'[Main] = "init" /\ pc[Main] = "alloc" /\ pc'[Main] = to /\ ~AtRest'
    BY <1>1, <2>1, <2>3, BuildingStep DEF Building
  <2>5. iface = want /\ MonKnown
    BY <1>2, <2>1, <2>4 DEF LifeInv, StageInv, KnownInv, In, Late
  <2>6. to = "done" => GroupsThere'
    <3>1. OsAllocates' = OsAllocates
      BY <1>2, <2>1 DEF OsAllocates
    <3>2. QED
      BY <2>1, <2>3, <2>5, <3>1 DEF GroupsThere
  <2>7. StageInv'
    BY <1>2, <2>1, <2>3, <2>4, <2>6 DEF LifeInv, StageInv, In, Building, Searching, Late
  <2>8. AllocKnown'
    BY <2>1, <2>5 DEF AllocPointers, AllocKnown, PartOf, Parts
  <2>9. MonKnown'
    <3>1. known'["monitoring"] = known["monitoring"] /\ known'["os_monitoring"] = known["os_monitoring"]
      BY <2>1 DEF AllocPointers, Parts
    <3>2. QED
      BY <2>1, <2>5, <3>1 DEF MonKnown, PartOf
  <2>10. KnownInv' /\ CoresInv'
    BY <1>2, <2>1, <2>4, <2>8, <2>9 DEF LifeInv, KnownInv, CoresInv, In
  <2>11. QED
    BY <1>3, <2>4, <2>7, <2>10 DEF LifeInv
<1>9. CASE MakeGroups(t) /\ ~Abandon(t, Layers)
  <2>1. /\ pc[t] = "groups" /\ UNCHANGED <<initDone, iface, up, cap, cores, found, mounted, partVars>>
        /\ \/ pc' = pc
           \/ /\ groups >= GroupsNeeded(machine, found)
              /\ Goto(t, "done") /\ UNCHANGED groups
    BY <1>9 DEF MakeGroups
  <2>2. pc[Main] = "groups" /\ mounted /\ MonKnown /\ AllocKnown
    BY <1>2, <2>1 DEF LifeInv, StageInv, KnownInv, In
  <2>3. MonKnown' /\ AllocKnown'
    BY <2>1, <2>2 DEF MonKnown, AllocKnown, PartOf, partVars
  <2>4. CASE pc' = pc
    <3>1. pc'[Main] = "groups" /\ op'[Main] = "init" /\ ~AtRest'
      BY <1>2, <2>2, <2>4 DEF AtRest, In
    <3>2. LabelInv' /\ AloneInv' /\ MutexInv'
      BY <1>1, <2>4 DEF LifeInv, LabelInv, AloneInv, MutexInv, Within, Alone, programVars, lockVars
    <3>3. StageInv'
      BY <1>2, <2>1, <2>2, <3>1 DEF LifeInv, StageInv, In, Building, Searching, Late
    <3>4. KnownInv' /\ CoresInv'
      BY <1>2, <2>1, <2>3, <3>1 DEF LifeInv, KnownInv, CoresInv, In
    <3>5. QED
      BY <1>3, <3>2, <3>3, <3>4 DEF LifeInv
  <2>5. CASE /\ groups >= GroupsNeeded(machine, found)
             /\ Goto(t, "done") /\ UNCHANGED groups
    <3>1. /\ LabelInv' /\ AloneInv' /\ MutexInv'
          /\ op'[Main] = "init" /\ pc'[Main] = "done" /\ ~AtRest'
      BY <1>1, <2>1, <2>5, BuildingStep DEF Building
    <3>2. GroupsThere'
      BY <1>2, <2>1, <2>2, <2>5 DEF GroupsThere
    <3>3. StageInv'
      BY <1>2, <2>1, <2>2, <3>1, <3>2 DEF LifeInv, StageInv, In, Building, Searching, Late
    <3>4. KnownInv' /\ CoresInv'
      BY <1>2, <2>1, <2>3, <3>1 DEF LifeInv, KnownInv, CoresInv, In
    <3>5. QED
      BY <1>3, <3>1, <3>3, <3>4 DEF LifeInv
  <2>6. QED
    BY <2>1, <2>4, <2>5
<1>10. CASE InitDone(t)
  <2>1. /\ pc[t] = "done" /\ Goto(t, "unlock") /\ initDone' = TRUE
        /\ UNCHANGED <<resctrlVars, iface, up, cap, cores, found, partVars>>
    BY <1>10 DEF InitDone, Step
  <2>2. /\ LabelInv' /\ AloneInv' /\ MutexInv'
        /\ op'[Main] = "init" /\ pc[Main] = "done" /\ pc'[Main] = "unlock" /\ ~AtRest'
    BY <1>1, <2>1, BuildingStep DEF Building
  <2>3. AllUp /\ MonKnown /\ AllocKnown
    BY <1>2, <2>2 DEF LifeInv, StageInv, KnownInv, In, Late, AllUp
  <2>4. AllUp'
    BY <1>2, <2>1, <2>3 DEF AllUp, GroupsThere, OsAllocates, resctrlVars
  <2>5. MonKnown' /\ AllocKnown'
    BY <2>1, <2>3 DEF MonKnown, AllocKnown, PartOf, partVars
  <2>6. StageInv'
    BY <2>1, <2>2, <2>4 DEF StageInv, In, Building, Searching, Late
  <2>7. KnownInv' /\ CoresInv'
    BY <1>2, <2>1, <2>2, <2>5 DEF LifeInv, KnownInv, CoresInv, In
  <2>8. QED
    BY <1>3, <2>2, <2>6, <2>7 DEF LifeInv
<1>11. QED
  BY <1>4, <1>5, <1>6, <1>7, <1>8, <1>9, <1>10 DEF PartStep

-----------------------------------------------------------------------------
(* While the main thread has not begun, or is not what moves, what is up   *)
(* stays as it is.                                                         *)
LEMMA RestKeeps ==
  ASSUME LifeInv, MachineType', LabelInv', AtRest, AtRest', In("init", {"open"})' => lives' > 0,
         UNCHANGED <<machine, resctrlVars, apilock, capVars, cpuVars, partVars>>
  PROVE  StageInv' /\ KnownInv' /\ CpuInv' /\ CoresInv'
<1>1. UNCHANGED <<mounted, groups, initDone, iface, up, cap, cores, found, runsOn, strayed,
                  known, monInit>>
  BY DEF resctrlVars, capVars, cpuVars, partVars
<1>2. /\ IF initDone THEN AllUp ELSE Down /\ ~apilock
      /\ initDone => MonKnown /\ AllocKnown
      /\ runsOn = Anywhere \/ strayed
  BY DEF LifeInv, StageInv, KnownInv, CpuInv, AtRest, In
<1>3. /\ IF initDone' THEN AllUp' ELSE Down' /\ ~apilock'
      /\ initDone' => MonKnown' /\ AllocKnown'
      /\ runsOn' = Anywhere \/ strayed'
  BY <1>1, <1>2 DEF AllUp, Down, GroupsThere, OsAllocates, MonKnown, AllocKnown, PartOf
<1>4. /\ op'[Main] = "init" => pc'[Main] \in {"idle", "open"}
      /\ op'[Main] = "fini" => pc'[Main] \in {"idle", "lock", "check"}
      /\ pc'[Main] \notin {"giveup", "exit"}
  <2>1. op'[Main] \in {"init", "fini"} => pc'[Main] \in {"idle", "open"} \/ In("fini", {"lock", "check"})'
    BY DEF AtRest
  <2>2. op'[Main] = "fini" => pc'[Main] \in FiniLabels
    BY LifeAssumption DEF LabelInv
  <2>3. pc'[Main] \in {"giveup", "exit"} => op'[Main] \in {"init", "fini"}
    BY LifeAssumption DEF MachineType, LabelInv, ApiLabels
  <2>4. QED
    BY <2>1, <2>2, <2>3 DEF In, FiniLabels
<1>5. StageInv'
  BY <1>3, <1>4 DEF StageInv, In, Building, Searching, Late
<1>6. KnownInv'
  BY <1>3, <1>4 DEF KnownInv, In
<1>7. CpuInv'
  BY <1>3, <1>4 DEF CpuInv, In
<1>8. CoresInv'
  BY <1>1 DEF LifeInv, CoresInv
<1>9. QED
  BY <1>5, <1>6, <1>7, <1>8

LEMMA FiniStepLife == ASSUME Types, LifeInv, NEW t \in Threads, FiniStep(t) PROVE LifeInv'
<1>1. /\ pc[t] \in {"fini", "free"}
      /\ UNCHANGED <<iface, resctrlVars, lockVars, programVars, cpuVars>>
  BY DEF FiniStep, FiniParts, FiniCaps, Step, capVars
<1>2. t = Main /\ op[Main] = "fini"
  BY <1>1 DEF Types, MachineType, LifeInv, LabelInv, InitLabels, ApiLabels, Building
<1>3. /\ initDone /\ AllUp
      /\ UNCHANGED <<machine, want, lives, apilock, runsOn, strayed>>
  BY <1>1, <1>2 DEF LifeInv, StageInv, In, programVars, lockVars, cpuVars
<1>4. ASSUME NEW l \in {"free", "giveup"}, Goto(t, l)
      PROVE  /\ LabelInv' /\ AloneInv' /\ MutexInv' /\ CpuInv'
             /\ op'[Main] = "fini" /\ pc'[Main] = l /\ ~AtRest'
  <2>1. l \in FiniLabels /\ l \in Held /\ pc[t] \in Held /\ pc[t] # "idle"
    BY <1>1 DEF FiniLabels, Held
  <2>2. /\ LabelInv' /\ AloneInv' /\ MutexInv'
        /\ op'[Main] = "fini" /\ pc'[Main] = l
    BY <1>1, <1>2, <1>4, <2>1, MoveKeeps
  <2>3. QED
    BY <1>2, <1>3, <2>2 DEF LifeInv, CpuInv, AtRest, In
<1>5. CASE FiniParts(t)
  <2>1. /\ Goto(t, "free") /\ pc[Main] = "fini"
        /\ UNCHANGED <<initDone, iface, up, cap, cores, found, resctrlVars>>
    BY <1>2, <1>5 DEF FiniParts, Step, capVars
  <2>2. AllUp'
    BY <1>1, <1>3, <2>1 DEF AllUp, GroupsThere, OsAllocates, resctrlVars
  <2>3. /\ LabelInv' /\ AloneInv' /\ MutexInv' /\ CpuInv'
        /\ op'[Main] = "fini" /\ pc'[Main] = "free" /\ ~AtRest'
    BY <1>4, <2>1
  <2>4. StageInv' /\ KnownInv' /\ CoresInv'
    BY <1>3, <2>1, <2>2, <2>3 DEF LifeInv, StageInv, KnownInv, CoresInv, In
  <2>5. QED
    BY <2>3, <2>4 DEF LifeInv
<1>6. CASE FiniCaps(t)
  <2>1. Goto(t, "giveup") /\ Down' /\ ~initDone'
    BY <1>6 DEF FiniCaps, Step, Down
  <2>2. CoresInv'
    <3>1. cores' = <<>> /\ DOMAIN <<>> = {}
      BY <1>6 DEF FiniCaps, NoCores
    <3>2. QED
      BY <3>1 DEF CoresInv
  <2>3. /\ LabelInv' /\ AloneInv' /\ MutexInv' /\ CpuInv'
        /\ op'[Main] = "fini" /\ pc'[Main] = "giveup" /\ ~AtRest'
    BY <1>4, <2>1
  <2>4. StageInv' /\ KnownInv'
    BY <2>1, <2>3 DEF StageInv, KnownInv, In
  <2>5. QED
    BY <2>2, <2>3, <2>4 DEF LifeInv
<1>7. QED
  BY <1>5, <1>6 DEF FiniStep

(* A thread that is not the main one moves, or the main thread in a call   *)
(* that is neither pqos_init nor pqos_fini.                                *)
LEMMA OthersKeep ==
  ASSUME LifeInv, LabelInv', op'[Main] = op[Main], MachineType',
         pc'[Main] = pc[Main] \/ op[Main] \notin {"init", "fini"},
         UNCHANGED <<machine, want, lives, resctrlVars, apilock, capVars, cpuVars, partVars>>
  PROVE  StageInv' /\ KnownInv' /\ CpuInv' /\ CoresInv'
<1>1. CASE op[Main] \notin {"init", "fini"}
  <2>1. AtRest /\ AtRest' /\ ~In("init", {"open"})'
    BY <1>1 DEF AtRest, In
  <2>2. QED
    BY <2>1, RestKeeps
<1>2. CASE pc'[Main] = pc[Main]
  <2>1. UNCHANGED <<mounted, groups, initDone, iface, up, cap, cores, found, runsOn, savedOn,
                    strayed, known, monInit>>
    BY DEF resctrlVars, capVars, cpuVars, partVars
  <2>2. \A o, ls : In(o, ls)' = In(o, ls)
    BY <1>2 DEF In
  <2>3. /\ AtRest' = AtRest /\ AllUp' = AllUp /\ Down' = Down /\ GroupsThere' = GroupsThere
        /\ MonKnown' = MonKnown /\ AllocKnown' = AllocKnown
    BY <1>2, <2>1 DEF AtRest, In, AllUp, Down, GroupsThere, OsAllocates, MonKnown, AllocKnown, PartOf
  <2>4. StageInv'
    BY <1>2, <2>1, <2>3 DEF LifeInv, StageInv, In
  <2>5. KnownInv' /\ CpuInv' /\ CoresInv'
    BY <1>2, <2>1, <2>3 DEF LifeInv, KnownInv, CpuInv, CoresInv, In
  <2>6. QED
    BY <2>4, <2>5
<1>3. QED
  BY <1>1, <1>2

LEMMA OpenLockLife == ASSUME Types, LifeInv, NEW t \in Threads, OpenLock(t) PROVE LifeInv'
<1>1. /\ pc[t] = "open"
      /\ UNCHANGED <<resctrlVars, capVars, partVars, programVars, cpuVars>>
  BY DEF OpenLock, Step
<1>2. t = Main /\ op[Main] = "init" /\ Alone /\ AtRest
  <2>1. t = Main /\ op[Main] = "init"
    BY <1>1 DEF Types, MachineType, LifeInv, LabelInv, FiniLabels, ApiLabels
  <2>2. Alone
    BY <1>1, <2>1 DEF LifeInv, AloneInv, Within
  <2>3. QED
    BY <1>1, <2>1, <2>2 DEF AtRest
<1>3. MachineType' /\ UNCHANGED <<machine, want, lives, op>>
  BY <1>1, ProgramKept DEF Types
<1>4. CASE Goto(t, "idle") /\ UNCHANGED lockVars
  <2>1. /\ LabelInv' /\ AloneInv' /\ MutexInv' /\ pc'[Main] = "idle"
    BY <1>1, <1>2, <1>4, MoveKeeps DEF InitLabels, Held, Building
  <2>2. AtRest' /\ ~In("init", {"open"})' /\ apilock' = apilock
    BY <1>4, <2>1 DEF AtRest, In, lockVars
  <2>3. QED
    BY <1>1, <1>2, <1>3, <2>1, <2>2, RestKeeps DEF LifeInv
<1>5. ASSUME Goto(t, "lock"), ~apilock, apilock', mutexLive', mutexOwner' = NoThread
      PROVE  LifeInv'
  <2>1. /\ LabelInv' /\ AloneInv' /\ pc'[Main] = "lock" /\ op' = op
        /\ \A u \in Threads : pc'[u] = IF u = t THEN "lock" ELSE pc[u]
    BY <1>1, <1>2, <1>5, PlaceKeeps DEF InitLabels
  <2>2. MutexInv'
    <3>1. \A u \in Threads : pc'[u] \notin Held /\ u # NoThread
      BY <1>2, <2>1, LifeAssumption DEF Alone, Held, Building
    <3>2. QED
      BY <1>5, <3>1 DEF MutexInv
  <2>3. Down /\ ~initDone /\ lives > 0 /\ ~AtRest'
    BY <1>1, <1>2, <1>5, <2>1 DEF LifeInv, StageInv, AllUp, AtRest, In
  <2>4. /\ UNCHANGED <<initDone, iface, up, cap, cores, found, runsOn, strayed>>
        /\ Down' = Down
    BY <1>1 DEF capVars, cpuVars, Down
  <2>5. StageInv'
    BY <1>2, <1>3, <1>5, <2>1, <2>3, <2>4 DEF StageInv, In, Building, Searching, Late
  <2>6. KnownInv' /\ CpuInv' /\ CoresInv'
    BY <1>1, <1>2, <1>3, <2>1, <2>3, <2>4 DEF LifeInv, KnownInv, CpuInv, CoresInv, In
  <2>7. QED
    BY <2>1, <2>2, <2>5, <2>6 DEF LifeInv
<1>6. QED
  BY <1>4, <1>5 DEF OpenLock, Step

(* What a thread that takes the lock, or gives it back, does to it. *)
LEMMA LockLife == ASSUME Types, LifeInv, NEW t \in Threads, Lock(t) PROVE LifeInv'
<1>1. /\ pc[t] = "lock" /\ Goto(t, "check") /\ UNCHANGED <<apilock, mutexLive>>
      /\ UNCHANGED <<resctrlVars, capVars, partVars, programVars, cpuVars>>
      /\ \/ mutexOwner = NoThread /\ mutexOwner' = t
         \/ ~mutexLive /\ UNCHANGED mutexOwner
  BY DEF Lock, Step
<1>2. MachineType' /\ UNCHANGED <<machine, want, lives, op>>
  BY <1>1, ProgramKept DEF Types
<1>3. /\ LabelInv' /\ AloneInv' /\ op' = op /\ (t # Main => pc'[Main] = pc[Main])
      /\ pc'[t] = "check" /\ \A u \in Threads : pc'[u] = IF u = t THEN "check" ELSE pc[u]
  BY <1>1, PlaceKeeps DEF InitLabels, FiniLabels, ApiLabels
<1>4. MutexInv'
  <2>1. CASE mutexLive
    <3>1. mutexOwner = NoThread /\ mutexOwner' = t
      BY <1>1, <2>1
    <3>2. \A u \in Threads : pc[u] \notin Held
      BY <2>1, <3>1, LifeAssumption DEF LifeInv, MutexInv
    <3>3. \A u \in Threads : pc'[u] \in Held <=> u = t
      BY <1>3, <3>2 DEF Held
    <3>4. QED
      BY <1>1, <3>1, <3>3 DEF LifeInv, MutexInv
  <2>2. CASE ~mutexLive
    BY <1>1, <2>2 DEF LifeInv, MutexInv
  <2>3. QED
    BY <2>1, <2>2
<1>5. CASE t # Main \/ op[Main] \notin {"init", "fini"}
  BY <1>1, <1>2, <1>3, <1>4, <1>5, OthersKeep DEF LifeInv
<1>6. CASE t = Main /\ op[Main] = "fini"
  <2>1. AtRest /\ AtRest' /\ ~In("init", {"open"})'
    BY <1>1, <1>3, <1>6 DEF AtRest, In
  <2>2. QED
    BY <1>1, <1>2, <1>3, <1>4, <2>1, RestKeeps DEF LifeInv
<1>7. CASE t = Main /\ op[Main] = "init"
  <2>1. pc[Main] = "lock" /\ pc'[Main] = "check" /\ op'[Main] = "init" /\ ~AtRest'
    BY <1>1, <1>3, <1>7 DEF AtRest, In
  <2>2. /\ UNCHANGED <<initDone, iface, up, cap, cores, found, runsOn, strayed>>
        /\ Down' = Down
    BY <1>1 DEF capVars, cpuVars, Down
  <2>3. StageInv'
    BY <1>1, <1>2, <1>7, <2>1, <2>2 DEF LifeInv, StageInv, In, Building, Searching, Late
  <2>4. KnownInv' /\ CpuInv' /\ CoresInv'
    BY <1>2, <1>7, <2>1, <2>2 DEF LifeInv, StageInv, KnownInv, CpuInv, CoresInv, In
  <2>5. QED
    BY <1>3, <1>4, <2>3, <2>4 DEF LifeInv
<1>8. QED
  BY <1>5, <1>6, <1>7

LEMMA CheckLife == ASSUME Types, LifeInv, NEW t \in Threads, Check(t) PROVE LifeInv'
<1>1. /\ pc[t] = "check"
      /\ Goto(t, CASE op[t] = "init" -> "log"
                   [] op[t] = "fini" -> IF initDone THEN "fini" ELSE "giveup"
                   [] OTHER -> IF initDone THEN "body" ELSE "unlock")
      /\ UNCHANGED <<resctrlVars, lockVars, capVars, partVars, programVars, cpuVars>>
  BY DEF Check, Step
<1>2. MachineType' /\ UNCHANGED <<machine, want, lives, op, apilock>>
  BY <1>1, ProgramKept DEF Types, lockVars
<1>3. /\ UNCHANGED <<initDone, iface, up, cap, cores, found, runsOn, strayed>>
      /\ Down' = Down /\ AllUp' = AllUp /\ MonKnown' = MonKnown /\ AllocKnown' = AllocKnown
  BY <1>1, <1>2 DEF capVars, cpuVars, resctrlVars, partVars, Down, AllUp, GroupsThere, OsAllocates,
                    MonKnown, AllocKnown, PartOf
<1>4. PICK to \in {"log", "fini", "giveup", "body", "unlock"} :
        /\ Goto(t, to)
        /\ op[t] = "init" => to = "log"
        /\ op[t] = "fini" => to = IF initDone THEN "fini" ELSE "giveup"
        /\ op[t] \notin {"init", "fini"} => to \in {"body", "unlock"}
  BY <1>1
<1>5. /\ LabelInv' /\ AloneInv' /\ MutexInv' /\ op' = op /\ pc'[t] = to
      /\ t # Main => pc'[Main] = pc[Main]
  BY <1>1, <1>4, MoveKeeps DEF InitLabels, FiniLabels, ApiLabels, Held, Building
<1>6. CASE t # Main \/ op[Main] \notin {"init", "fini"}
  BY <1>1, <1>2, <1>5, <1>6, OthersKeep DEF LifeInv
<1>7. CASE t = Main /\ op[Main] = "fini"
  <2>1. /\ AtRest /\ ~AtRest' /\ op'[Main] = "fini"
        /\ pc'[Main] = IF initDone THEN "fini" ELSE "giveup"
    BY <1>1, <1>4, <1>5, <1>7 DEF AtRest, In
  <2>2. /\ IF initDone THEN AllUp ELSE Down
        /\ initDone => MonKnown /\ AllocKnown
        /\ runsOn = Anywhere \/ strayed
    BY <1>1, <1>7, <2>1 DEF LifeInv, StageInv, KnownInv, CpuInv, In
  <2>3. StageInv' /\ KnownInv' /\ CpuInv'
    BY <1>3, <2>1, <2>2 DEF StageInv, KnownInv, CpuInv, In
  <2>4. CoresInv'
    BY <1>2, <1>3 DEF LifeInv, CoresInv
  <2>5. QED
    BY <1>5, <2>3, <2>4 DEF LifeInv
<1>8. CASE t = Main /\ op[Main] = "init"
  <2>1. pc[Main] = "check" /\ pc'[Main] = "log" /\ op'[Main] = "init" /\ ~AtRest'
    BY <1>1, <1>4, <1>5, <1>8 DEF AtRest, In
  <2>2. StageInv'
    BY <1>2, <1>3, <1>8, <2>1 DEF LifeInv, StageInv, In, Building, Searching, Late
  <2>3. KnownInv' /\ CpuInv' /\ CoresInv'
    BY <1>2, <1>3, <1>8, <2>1 DEF LifeInv, StageInv, KnownInv, CpuInv, CoresInv, In
  <2>4. QED
    BY <1>5, <2>2, <2>3 DEF LifeInv
<1>9. QED
  BY <1>6, <1>7, <1>8

LEMMA BodyLife == ASSUME Types, LifeInv, NEW t \in Threads, Body(t) PROVE LifeInv'
<1>1. /\ pc[t] = "body" /\ Goto(t, "unlock")
      /\ UNCHANGED <<resctrlVars, lockVars, capVars, partVars, programVars, cpuVars>>
  BY DEF Body, Step
<1>2. MachineType' /\ UNCHANGED <<machine, want, lives, op, apilock>>
  BY <1>1, ProgramKept DEF Types, lockVars
<1>3. op[t] \notin {"init", "fini"}
  BY <1>1 DEF LifeInv, LabelInv, InitLabels, FiniLabels, Building
<1>4. /\ LabelInv' /\ AloneInv' /\ MutexInv' /\ op' = op
      /\ t # Main => pc'[Main] = pc[Main]
  BY <1>1, <1>3, MoveKeeps DEF ApiLabels, Held
<1>5. QED
  BY <1>1, <1>2, <1>3, <1>4, OthersKeep DEF LifeInv

LEMMA UnlockLife == ASSUME Types, LifeInv, NEW t \in Threads, Unlock(t) PROVE LifeInv'
<1>1. PICK to \in {"idle", "exit"} : /\ pc[t] = IF to = "idle" THEN "unlock" ELSE "giveup"
                                     /\ Goto(t, to)
  BY DEF Unlock, Step
<1>2. /\ mutexOwner' = (IF mutexLive THEN NoThread ELSE mutexOwner)
      /\ UNCHANGED <<apilock, mutexLive, resctrlVars, capVars, partVars, programVars, cpuVars>>
  BY DEF Unlock
<1>3. MachineType' /\ UNCHANGED <<machine, want, lives, op>>
  BY <1>2, ProgramKept DEF Types
<1>4. to = "exit" => op[t] \in {"init", "fini"}
  BY <1>1 DEF Types, MachineType, LifeInv, LabelInv, ApiLabels
<1>5. to = "idle" => op[t] # "fini"
  BY <1>1 DEF LifeInv, LabelInv, FiniLabels
<1>6. /\ LabelInv' /\ AloneInv' /\ op' = op /\ (t # Main => pc'[Main] = pc[Main])
      /\ pc'[t] = to /\ \A u \in Threads : pc'[u] = IF u = t THEN to ELSE pc[u]
  BY <1>1, <1>2, <1>4, PlaceKeeps DEF InitLabels, FiniLabels, ApiLabels
<1>7. MutexInv'
  <2>1. CASE mutexLive
    <3>1. \A u \in Threads : pc[u] \in Held => u = t
      <4>1. pc[t] \in Held
        BY <1>1 DEF Held
      <4>2. QED
        BY <2>1, <4>1 DEF LifeInv, MutexInv
    <3>2. \A u \in Threads : pc'[u] \notin Held /\ u # NoThread
      BY <1>6, <3>1, LifeAssumption DEF Held, Building
    <3>3. QED
      BY <1>2, <2>1, <3>2 DEF LifeInv, MutexInv
  <2>2. CASE ~mutexLive
    BY <1>2, <2>2 DEF LifeInv, MutexInv
  <2>3. QED
    BY <2>1, <2>2
<1>8. CASE t # Main \/ op[Main] \notin {"init", "fini"}
  BY <1>2, <1>3, <1>6, <1>7, <1>8, OthersKeep DEF LifeInv
<1>9. ASSUME t = Main, op[Main] \in {"init", "fini"}
      PROVE  LifeInv'
  <2>1. /\ UNCHANGED <<initDone, iface, up, cap, cores, found, runsOn, strayed>>
        /\ Down' = Down /\ AllUp' = AllUp /\ MonKnown' = MonKnown /\ AllocKnown' = AllocKnown
    BY <1>2, <1>3 DEF capVars, cpuVars, resctrlVars, partVars, Down, AllUp, GroupsThere,
                      OsAllocates, MonKnown, AllocKnown, PartOf
  <2>2. CoresInv'
    BY <1>3, <2>1 DEF LifeInv, CoresInv
  <2>3. CASE to = "idle"
    <3>1. op[Main] = "init" /\ pc[Main] = "unlock" /\ pc'[Main] = "idle"
      BY <1>1, <1>5, <1>6, <1>9, <2>3
    <3>2. initDone /\ AllUp /\ MonKnown /\ AllocKnown /\ (runsOn = Anywhere \/ strayed)
      BY <3>1 DEF LifeInv, StageInv, KnownInv, CpuInv, In
    <3>3. StageInv' /\ KnownInv' /\ CpuInv'
      BY <2>1, <3>1, <3>2 DEF StageInv, KnownInv, CpuInv, In, Building, Searching, Late
    <3>4. QED
      BY <1>6, <1>7, <2>2, <3>3 DEF LifeInv
  <2>4. CASE to = "exit"
    <3>1. pc[Main] = "giveup" /\ pc'[Main] = "exit" /\ ~AtRest'
      BY <1>1, <1>6, <1>9, <2>4 DEF AtRest, In
    <3>2. ~initDone /\ Down /\ (runsOn = Anywhere \/ strayed)
      BY <3>1 DEF LifeInv, StageInv, CpuInv, In
    <3>3. StageInv' /\ KnownInv' /\ CpuInv'
      BY <2>1, <3>1, <3>2 DEF StageInv, KnownInv, CpuInv, In, Building, Searching, Late
    <3>4. QED
      BY <1>6, <1>7, <2>2, <3>3 DEF LifeInv
  <2>5. QED
    BY <2>3, <2>4
<1>10. QED
  BY <1>8, <1>9

LEMMA ExitLockLife == ASSUME Types, LifeInv, NEW t \in Threads, ExitLock(t) PROVE LifeInv'
<1>1. /\ pc[t] = "exit" /\ Goto(t, "idle") /\ ~apilock'
      /\ mutexLive' = (mutexLive /\ mutexOwner # NoThread)
      /\ UNCHANGED <<mutexOwner, resctrlVars, capVars, partVars, programVars, cpuVars>>
  BY DEF ExitLock, Step
<1>2. t = Main /\ op[t] \in {"init", "fini"}
  BY <1>1 DEF Types, MachineType, LifeInv, LabelInv, ApiLabels
<1>3. UNCHANGED <<machine, want, lives, op>>
  BY <1>1, ProgramKept
<1>4. /\ LabelInv' /\ AloneInv' /\ op' = op /\ pc'[Main] = "idle"
      /\ \A u \in Threads : pc'[u] = IF u = t THEN "idle" ELSE pc[u]
  BY <1>1, <1>2, PlaceKeeps DEF InitLabels, FiniLabels
<1>5. MutexInv'
  <2>1. \A u \in Threads : pc'[u] \in Held <=> pc[u] \in Held
    BY <1>1, <1>4 DEF Held, Building
  <2>2. QED
    BY <1>1, <2>1 DEF LifeInv, MutexInv
<1>6. ~initDone /\ Down /\ (runsOn = Anywhere \/ strayed)
  BY <1>1, <1>2 DEF LifeInv, StageInv, CpuInv, In
<1>7. /\ UNCHANGED <<initDone, cores, runsOn, strayed>> /\ Down' = Down
  BY <1>1 DEF capVars, cpuVars, Down
<1>8. StageInv' /\ KnownInv' /\ CpuInv'
  BY <1>1, <1>4, <1>6, <1>7 DEF StageInv, KnownInv, CpuInv, In, Building, Searching, Late
<1>9. CoresInv'
  BY <1>3, <1>7 DEF LifeInv, CoresInv
<1>10. QED
  BY <1>4, <1>5, <1>8, <1>9 DEF LifeInv

LEMMA LockStepLife == ASSUME Types, LifeInv, NEW t \in Threads, LockStep(t) PROVE LifeInv'
BY OpenLockLife, LockLife, CheckLife, BodyLife, UnlockLife, ExitLockLife DEF LockStep

(* A call begins in a thread that was in none. *)
LEMMA CallLife == ASSUME Types, Types', LifeInv, CallStep PROVE LifeInv'
<1>1. PICK t \in Threads, o \in {"init", "fini", "mon", "alloc"}, l \in {"open", "lock"} :
        /\ Begin(t, o, l)
        /\ l = "open" <=> o = "init"
        /\ o \in {"init", "fini"} => t = Main
        /\ o = "init" => Alone
        /\ o = "fini" /\ style = "quiet" => Alone
        /\ o \in {"mon", "alloc"} => /\ style = "quiet" => pc[Main] = "idle" \/ op[Main] \notin {"init", "fini"}
                                     /\ pc[Main] = "idle" \/ op[Main] # "init"
        /\ IF o = "init" THEN lives' = lives + 1 ELSE UNCHANGED <<want, lives>>
  <2>1. CASE CallInit
    BY <2>1, LifeAssumption DEF CallInit
  <2>2. CASE CallFini
    BY <2>2, LifeAssumption DEF CallFini
  <2>3. CASE \E t \in Threads : CallApi(t)
    BY <2>3 DEF CallApi
  <2>4. QED
    BY <2>1, <2>2, <2>3 DEF CallStep
<1>2. /\ pc[t] = "idle" /\ UNCHANGED <<machine, style, resctrlVars, lockVars, capVars, cpuVars, partVars>>
      /\ \A u \in Threads : pc'[u] = IF u = t THEN l ELSE pc[u]
      /\ \A u \in Threads : op'[u] = IF u = t THEN o ELSE op[u]
  BY <1>1 DEF Begin, Step, Goto, Types, MachineType, StepType
<1>3. LabelInv'
  BY <1>1, <1>2 DEF LifeInv, LabelInv, InitLabels, FiniLabels, ApiLabels
<1>4. AloneInv'
  <2>1. Alone /\ t = Main => Alone'
    BY <1>2 DEF Alone
  <2>2. t # Main => pc'[Main] = pc[Main] /\ op'[Main] = op[Main]
    BY <1>2, LifeAssumption
  <2>3. t = Main => op'[Main] = o
    BY <1>2
  <2>4. CASE t = Main
    BY <1>1, <1>2, <2>1, <2>3, <2>4 DEF AloneInv, Within
  <2>5. CASE t # Main
    <3>1. o \in {"mon", "alloc"}
      BY <1>1, <2>5
    <3>2. ~(Within(Main) /\ (op[Main] = "init" \/ style = "quiet"))
      BY <1>1, <3>1 DEF Within
    <3>3. QED
      BY <1>2, <2>2, <2>5, <3>2 DEF AloneInv, Within
  <2>6. QED
    BY <2>4, <2>5
<1>5. MutexInv'
  <2>1. \A u \in Threads : pc'[u] \in Held <=> pc[u] \in Held
    BY <1>1, <1>2 DEF Held, Building
  <2>2. QED
    BY <1>2, <2>1 DEF LifeInv, MutexInv, lockVars
<1>6. CASE t # Main
  <2>1. pc'[Main] = pc[Main] /\ op'[Main] = op[Main]
    BY <1>2, <1>6, LifeAssumption
  <2>2. UNCHANGED <<want, lives, apilock>>
    BY <1>1, <1>2, <1>6 DEF lockVars
  <2>3. StageInv' /\ KnownInv' /\ CpuInv' /\ CoresInv'
    BY <1>2, <1>3, <2>1, <2>2, OthersKeep DEF Types
  <2>4. QED
    BY <1>3, <1>4, <1>5, <2>3 DEF LifeInv
<1>7. CASE t = Main
  <2>1. AtRest /\ AtRest' /\ UNCHANGED apilock
    BY <1>1, <1>2, <1>7 DEF AtRest, In, lockVars
  <2>2. In("init", {"open"})' => lives' > 0
    <3>1. In("init", {"open"})' => o = "init"
      BY <1>2, <1>7 DEF In
    <3>2. o = "init" => lives' > 0
      <4>1. lives \in 0 .. MaxLives /\ MaxLives \in Nat
        BY LifeAssumption DEF Types, MachineType
      <4>2. QED
        BY <1>1, <4>1
    <3>3. QED
      BY <3>1, <3>2
  <2>3. StageInv' /\ KnownInv' /\ CpuInv' /\ CoresInv'
    BY <1>2, <1>3, <2>1, <2>2, RestKeeps DEF Types
  <2>4. QED
    BY <1>3, <1>4, <1>5, <2>3 DEF LifeInv
<1>8. QED
  BY <1>6, <1>7

LEMMA LifeInit == Init => LifeInv
<1> SUFFICES ASSUME Init PROVE LifeInv
  OBVIOUS
<1>1. \A t \in Threads : pc[t] = "idle" /\ op[t] = "none"
  BY DEF Init
<1>2. LabelInv /\ AloneInv /\ MutexInv
  BY <1>1, LifeAssumption DEF Init, LabelInv, AloneInv, Within, MutexInv, Held, Building
<1>3. pc[Main] = "idle" /\ op[Main] = "none"
  BY <1>1, LifeAssumption
<1>4. StageInv /\ KnownInv /\ CpuInv
  BY <1>3 DEF Init, StageInv, KnownInv, CpuInv, In, Down
<1>5. CoresInv
  <2>1. DOMAIN <<>> = {}
    OBVIOUS
  <2>2. QED
    BY <2>1 DEF Init, NoCores, CoresInv
<1>6. QED
  BY <1>2, <1>4, <1>5 DEF LifeInv

LEMMA LifeStep == ASSUME Types, LifeInv, [Next]_vars PROVE LifeInv'
<1>1. Types'
  BY TypeStep
<1>2. CASE UNCHANGED vars
  <2>1. /\ UNCHANGED <<mounted, groups, apilock, mutexLive, mutexOwner, initDone, iface, up, cap>>
        /\ UNCHANGED <<cores, found, runsOn, savedOn, strayed, known, monInit>>
        /\ UNCHANGED <<machine, style, want, lives, op, pc>>
    BY <1>2 DEF vars, resctrlVars, lockVars, capVars, cpuVars, partVars, programVars
  <2>2. LabelInv' /\ AloneInv' /\ MutexInv'
    BY <2>1 DEF LifeInv, LabelInv, AloneInv, Within, Alone, MutexInv
  <2>3. StageInv' /\ KnownInv' /\ CpuInv' /\ CoresInv'
    BY <1>2, <1>1, <2>1, <2>2, OthersKeep
       DEF vars, Types, resctrlVars, capVars, cpuVars, partVars
  <2>4. QED
    BY <2>2, <2>3 DEF LifeInv
<1>3. CASE Next
  BY <1>1, <1>3, NextCases, CallLife, LockStepLife, CpuStepLife, FeatureStepLife, PartStepLife,
     FiniStepLife
<1>4. QED
  BY <1>2, <1>3

-----------------------------------------------------------------------------
(* The calls that are served. *)
Using == {t \in Threads : pc[t] = "body"}
ServedInv == Using # {} => initDone

(* The life whose blocks are in hand: m_cap's, or the one in which          *)
(* discover_capabilities is collecting them.  Others that are allocated    *)
(* have been lost.                                                         *)
Current == IF cap # 0 THEN {cap} ELSE IF In("init", Searching) THEN {lives} ELSE {}
MemInv == blocks \subseteq lost \union Current

(* Nobody else holds a lock that is live. *)
LEMMA OneHolds ==
  ASSUME Types, LifeInv, mutexLive, NEW t \in Threads, pc[t] \in Held
  PROVE  \A u \in Threads \ {t} : pc[u] \notin Held
BY DEF LifeInv, MutexInv

LEMMA UpWhenDone == ASSUME Types, LifeInv, initDone PROVE AllUp /\ mutexLive
<1>1. op[Main] \in {"init", "fini"} => pc[Main] \in InitLabels \union FiniLabels
  BY LifeAssumption DEF LifeInv, LabelInv
<1>2. AllUp
  <2>1. CASE AtRest
    BY <2>1 DEF LifeInv, StageInv
  <2>2. CASE op[Main] = "init" /\ ~AtRest
    <3>1. pc[Main] \in {"lock", "check", "unlock", "giveup", "exit"} \union Building
      BY <2>2, LifeAssumption DEF LifeInv, LabelInv, InitLabels, AtRest
    <3>2. QED
      BY <2>2, <3>1 DEF LifeInv, StageInv, In
  <2>3. CASE op[Main] = "fini" /\ ~AtRest
    <3>1. pc[Main] \in {"fini", "free", "giveup", "exit"}
      BY <2>3, LifeAssumption DEF LifeInv, LabelInv, FiniLabels, AtRest, In
    <3>2. QED
      BY <2>3, <3>1 DEF LifeInv, StageInv, In
  <2>4. QED
    BY <2>1, <2>2, <2>3 DEF AtRest
<1>3. QED
  BY <1>2 DEF AllUp, LifeInv, MutexInv

LEMMA SameUsing ==
  ASSUME Types, NEW t \in Threads, NEW l, Goto(t, l), pc[t] # "body", l # "body"
  PROVE  Using' = Using
BY DEF Types, StepType, Goto, Using

(* Each step is one of the service's, or none to it. *)
LEMMA ServiceStep ==
  ASSUME Types, LifeInv, [Next]_vars
  PROVE  [Service!Next]_<<initDone, Using>>
<1>1. CASE UNCHANGED vars
  BY <1>1 DEF vars, capVars, Using
<1>2. CASE CallStep
  <2>1. \E t \in Threads : \E o : Begin(t, o, "open") \/ Begin(t, o, "lock")
    <3>1. CallInit => Begin(Main, "init", "open")
      BY DEF CallInit
    <3>2. CallFini => Begin(Main, "fini", "lock")
      BY DEF CallFini
    <3>3. \A t \in Threads : CallApi(t) => \E o : Begin(t, o, "lock")
      BY DEF CallApi
    <3>4. QED
      BY <1>2, <3>1, <3>2, <3>3, LifeAssumption DEF CallStep
  <2>2. PICK t \in Threads, l \in {"open", "lock"} :
          pc[t] = "idle" /\ Goto(t, l) /\ initDone' = initDone
    BY <2>1 DEF Begin, Step, capVars
  <2>3. QED
    BY <2>2, SameUsing
<1>3. ASSUME NEW t \in Threads, LockStep(t)
      PROVE  [Service!Next]_<<initDone, Using>>
  <2>1. CASE OpenLock(t) \/ Lock(t) \/ Unlock(t) \/ ExitLock(t)
    <3>1. initDone' = initDone /\ pc[t] # "body" /\ \E l : l # "body" /\ Goto(t, l)
      BY <2>1 DEF OpenLock, Lock, Unlock, ExitLock, Step, capVars
    <3>2. QED
      BY <3>1, SameUsing
  <2>2. CASE Check(t)
    <3>1. pc[t] = "check" /\ initDone' = initDone
      BY <2>2 DEF Check, Step, capVars
    <3>2. CASE Goto(t, "body")
      <4>1. initDone
        <5>1. DOMAIN pc = Threads
          BY DEF Types, StepType
        <5>2. pc'[t] = "body"
          BY <3>2, <5>1 DEF Goto
        <5>3. QED
          BY <2>2, <5>1, <5>2 DEF Check, Step, Goto
      <4>2. Using = {}
        BY <3>1, <4>1, UpWhenDone, OneHolds DEF Using, Held
      <4>3. Using' = {t}
        BY <3>2, <4>2 DEF Types, StepType, Goto, Using
      <4>4. QED
        BY <3>1, <4>1, <4>2, <4>3 DEF Service!Next, Service!Enter, Using
    <3>3. CASE ~Goto(t, "body")
      <4>1. \E l : l # "body" /\ Goto(t, l)
        BY <2>2, <3>3 DEF Check, Step
      <4>2. QED
        BY <3>1, <4>1, SameUsing
    <3>4. QED
      BY <3>2, <3>3
  <2>3. CASE Body(t)
    <3>1. pc[t] = "body" /\ Goto(t, "unlock") /\ initDone' = initDone
      BY <2>3 DEF Body, Step, capVars
    <3>2. t \in Using /\ Using' = Using \ {t}
      BY <3>1 DEF Types, StepType, Goto, Using
    <3>3. QED
      BY <3>1, <3>2 DEF Service!Next, Service!Leave, Using
  <2>4. QED
    BY <1>3, <2>1, <2>2, <2>3 DEF LockStep
<1>4. ASSUME NEW t \in Threads, CpuStep(t) \/ FeatureStep(t) \/ PartStep(t), ~InitDone(t)
      PROVE  [Service!Next]_<<initDone, Using>>
  <2>1. initDone' = initDone
    BY <1>4 DEF CpuStep, LogUp, CpuStart, DetectCpu, CpuUp, MachineUp, FeatureStep, Discover,
                PartStep, Collect, DiscoverOs, MonInit, AllocInit, MakeGroups, capVars
  <2>2. pc[t] # "body"
    BY <1>4 DEF CpuStep, LogUp, CpuStart, DetectCpu, CpuUp, MachineUp, FeatureStep, Discover,
                PartStep, Collect, DiscoverOs, MonInit, AllocInit, MakeGroups, Step
  <2>3. pc' = pc \/ \E l : l # "body" /\ Goto(t, l)
    BY <1>4 DEF CpuStep, LogUp, CpuStart, DetectCpu, CpuUp, MachineUp, FeatureStep, Discover,
                PartStep, Collect, DiscoverOs, MonInit, AllocInit, MakeGroups, Step, Stays, Abandon
  <2>4. CASE pc' = pc
    BY <2>1, <2>4 DEF Using
  <2>5. CASE \E l : l # "body" /\ Goto(t, l)
    BY <2>1, <2>2, <2>5, SameUsing
  <2>6. QED
    BY <2>3, <2>4, <2>5
<1>5. ASSUME NEW t \in Threads, InitDone(t)
      PROVE  [Service!Next]_<<initDone, Using>>
  <2>1. pc[t] = "done" /\ Goto(t, "unlock") /\ initDone'
    BY <1>5 DEF InitDone, Step
  <2>2. t = Main /\ Alone /\ ~initDone
    BY <2>1, BuildingPlace DEF Building
  <2>3. Using = {} /\ Using' = Using
    BY <2>1, <2>2, SameUsing DEF Alone, Using
  <2>4. initDone' = TRUE
    BY <1>5 DEF InitDone
  <2>5. QED
    BY <2>2, <2>3, <2>4 DEF Service!Next, Service!Start, Using
<1>6. ASSUME NEW t \in Threads, FiniStep(t)
      PROVE  [Service!Next]_<<initDone, Using>>
  <2>1. CASE FiniParts(t)
    BY <2>1, SameUsing DEF FiniParts, Step, capVars
  <2>2. CASE FiniCaps(t)
    <3>1. pc[t] = "free" /\ Goto(t, "giveup") /\ initDone' = FALSE
      BY <2>2 DEF FiniCaps, Step
    <3>2. op[t] = "fini" /\ t = Main
      BY <3>1 DEF Types, MachineType, LifeInv, LabelInv, InitLabels, ApiLabels, Building
    <3>3. initDone
      BY <3>1, <3>2 DEF LifeInv, StageInv, In
    <3>4. Using = {} /\ Using' = Using
      <4>1. pc[t] \in Held /\ mutexLive
        BY <3>1, <3>3, UpWhenDone DEF Held
      <4>2. \A u \in Threads : pc[u] # "body"
        BY <3>1, <4>1, OneHolds DEF Held
      <4>3. QED
        BY <3>1, <4>2, SameUsing DEF Using
    <3>5. QED
      BY <3>1, <3>3, <3>4 DEF Service!Next, Service!Stop, Using
  <2>3. QED
    BY <1>6, <2>1, <2>2 DEF FiniStep
<1>7. QED
  BY <1>1, <1>2, <1>3, <1>4, <1>5, <1>6, NextCases

LEMMA ServiceInit == Init => Service!Init /\ ServedInv
BY DEF Init, Service!Init, ServedInv, Using

LEMMA ServedStep == ASSUME Types, LifeInv, ServedInv, [Next]_vars PROVE ServedInv'
<1>1. [Service!Next]_<<initDone, Using>>
  BY ServiceStep
<1>2. QED
  BY <1>1 DEF ServedInv, Service!Next, Service!Start, Service!Stop, Service!Enter, Service!Leave, Using

-----------------------------------------------------------------------------
(* A step that adds no blocks, and takes away none but those of the life   *)
(* in hand, keeps what is known of them while that life stays in hand.     *)
LEMMA MemKept ==
  ASSUME MemInv, UNCHANGED memVars, UNCHANGED cap, cap = 0 => Current \subseteq Current'
  PROVE  MemInv'
BY DEF MemInv, memVars, Current

LEMMA LifeInHand ==
  ASSUME Types, LifeInv, NEW t \in Threads, pc[t] \in Building
  PROVE  /\ t = Main /\ op[Main] = "init" /\ lives > 0
         /\ pc[t] \in Searching => In("init", Searching) /\ cap = 0
         /\ pc[t] \in {"log", "cpu", "detect", "machine"} => ~In("init", Searching) /\ cap = 0
         /\ pc[t] \in Late => ~In("init", Searching) /\ cap # 0
<1>1. t = Main /\ op[Main] = "init" /\ lives > 0
  BY BuildingPlace
<1>2. pc[t] \in Searching => In("init", Searching) /\ cap = 0
  BY <1>1 DEF LifeInv, StageInv, In
<1>3. pc[t] \in {"log", "cpu", "detect", "machine"} => ~In("init", Searching) /\ cap = 0
  BY <1>1 DEF LifeInv, StageInv, In, Searching, Down
<1>4. pc[t] \in Late => ~In("init", Searching) /\ cap # 0
  BY <1>1 DEF LifeInv, StageInv, In, Searching, Late
<1>5. QED
  BY <1>1, <1>2, <1>3, <1>4

(* A pqos_init that fails frees the blocks of its life or loses them. *)
LEMMA AbandonedBlocks ==
  ASSUME Types, LifeInv, MemInv, NEW t \in Threads, pc[t] \in Building,
         NEW down, Abandon(t, down)
  PROVE  MemInv'
<1>1. CASE cap = 0
  BY <1>1 DEF Abandon, BlocksOfFailedInit, MemInv, Current
<1>2. CASE cap # 0
  BY <1>2 DEF Abandon, BlocksOfFailedInit, MemInv, Current
<1>3. QED
  BY <1>1, <1>2

LEMMA FeatureStepBlocks ==
  ASSUME Types, LifeInv, MemInv, NEW t \in Threads, FeatureStep(t)
  PROVE  MemInv'
<1>1. PICK f, here, next : /\ Discover(t, f, here, next)
                           /\ here \in Searching /\ next \in Searching
  BY DEF FeatureStep, Searching
<1>2. pc[t] \in Searching /\ pc[t] \in Building
  BY <1>1 DEF Discover, Searching, Building
<1>3. t = Main /\ In("init", Searching) /\ cap = 0
  BY <1>2, LifeInHand
<1>4. CASE Abandon(t, Layers)
  BY <1>2, <1>4, AbandonedBlocks
<1>5. CASE ~Abandon(t, Layers)
  <2>1. Goto(t, next) /\ UNCHANGED <<cap, lost, programVars>>
    BY <1>1, <1>5 DEF Discover, Stays, memVars
  <2>2. blocks' \subseteq blocks \union {lives}
    BY <1>1, <1>5 DEF Discover, Stays, memVars
  <2>3. In("init", Searching)' /\ lives' = lives
    BY <1>1, <1>3, <2>1 DEF In, Goto, Types, StepType, programVars
  <2>4. Current = {lives} /\ Current' = {lives}
    BY <1>3, <2>1, <2>3 DEF Current
  <2>5. QED
    BY <2>1, <2>2, <2>4 DEF MemInv
<1>6. QED
  BY <1>4, <1>5

LEMMA PartStepBlocks ==
  ASSUME Types, LifeInv, MemInv, NEW t \in Threads, PartStep(t)
  PROVE  MemInv'
<1>1. pc[t] \in Building /\ pc[t] \in Late \union {"discover"}
  BY DEF PartStep, Collect, DiscoverOs, MonInit, AllocInit, MakeGroups, InitDone, Step, Building, Late
<1>2. CASE Abandon(t, Layers)
  BY <1>1, <1>2, AbandonedBlocks
<1>3. CASE Collect(t) /\ ~Abandon(t, Layers)
  <2>1. pc[t] = "discover" /\ cap' = lives /\ UNCHANGED memVars
    BY <1>3 DEF Collect
  <2>2. Current = {lives} /\ lives # 0
    BY <1>1, <2>1, LifeInHand DEF Current, Searching
  <2>3. Current' = {lives}
    BY <2>1, <2>2 DEF Current
  <2>4. QED
    BY <2>1, <2>2, <2>3 DEF MemInv, memVars
<1>4. CASE ~Collect(t) /\ ~Abandon(t, Layers)
  <2>1. pc[t] \in Late
    BY <1>4 DEF PartStep, DiscoverOs, MonInit, AllocInit, MakeGroups, InitDone, Step, Late
  <2>2. cap # 0
    BY <1>1, <2>1, LifeInHand
  <2>3. UNCHANGED cap /\ UNCHANGED memVars
    BY <1>4 DEF PartStep, DiscoverOs, MonInit, AllocInit, MakeGroups, InitDone, capVars
  <2>4. QED
    BY <2>2, <2>3, MemKept
<1>5. QED
  BY <1>2, <1>3, <1>4

(* The steps outside of the search leave the blocks alone, or, in          *)
(* pqos_fini, free those of the life.                                      *)
LEMMA OtherBlocks ==
  ASSUME Types, LifeInv, MemInv,
         NEW t \in Threads, LockStep(t) \/ CpuStep(t) \/ FiniStep(t)
  PROVE  MemInv'
<1>1. CASE LockStep(t)
  <2>1. PICK from, to : /\ Step(t, from, to)
                        /\ from \notin Searching
    BY <1>1 DEF LockStep, OpenLock, Lock, Check, Body, Unlock, ExitLock, Searching
  <2>2. UNCHANGED memVars /\ UNCHANGED <<cap, programVars>>
    BY <1>1 DEF LockStep, OpenLock, Lock, Check, Body, Unlock, ExitLock, capVars
  <2>3. In("init", Searching) => In("init", Searching)'
    BY <2>1, <2>2, LifeAssumption DEF Step, Goto, In, Types, StepType, programVars
  <2>4. Current \subseteq Current'
    BY <2>2, <2>3 DEF Current, programVars
  <2>5. QED
    BY <2>2, <2>4, MemKept
<1>2. CASE CpuStep(t)
  <2>1. pc[t] \in {"log", "cpu", "detect", "machine"} /\ pc[t] \in Building
    BY <1>2 DEF CpuStep, LogUp, CpuStart, DetectCpu, CpuUp, MachineUp, Building
  <2>2. ~In("init", Searching) /\ cap = 0
    BY <2>1, LifeInHand
  <2>3. CASE \E down : Abandon(t, down)
    BY <2>1, <2>3, AbandonedBlocks
  <2>4. CASE ~\E down : Abandon(t, down)
    <3>1. UNCHANGED memVars /\ UNCHANGED cap
      BY <1>2, <2>4 DEF CpuStep, LogUp, CpuStart, DetectCpu, CpuUp, MachineUp, Stays
    <3>2. Current = {}
      BY <2>2 DEF Current
    <3>3. QED
      BY <3>1, <3>2, MemKept
  <2>5. QED
    BY <2>3, <2>4
<1>3. CASE FiniParts(t)
  <2>1. In("fini", {"fini"}) /\ cap # 0
    BY <1>3, LifeAssumption DEF FiniParts, Step, LifeInv, LabelInv, StageInv, AllUp, In,
                                InitLabels, ApiLabels, Building, Types, MachineType
  <2>2. UNCHANGED cap /\ UNCHANGED memVars
    BY <1>3 DEF FiniParts, capVars
  <2>3. QED
    BY <2>1, <2>2, MemKept
<1>4. CASE FiniCaps(t)
  <2>1. In("fini", {"free"}) /\ cap # 0
    BY <1>4, LifeAssumption DEF FiniCaps, Step, LifeInv, LabelInv, StageInv, AllUp, In,
                                InitLabels, ApiLabels, Building, Types, MachineType
  <2>2. blocks' = blocks \ {cap} /\ lost' = lost
    BY <1>4 DEF FiniCaps
  <2>3. QED
    BY <2>1, <2>2 DEF MemInv, Current
<1>5. QED
  BY <1>1, <1>2, <1>3, <1>4 DEF FiniStep

LEMMA MemStep == ASSUME Types, LifeInv, MemInv, [Next]_vars PROVE MemInv'
<1>1. CASE UNCHANGED vars
  BY <1>1 DEF vars, capVars, memVars, programVars, MemInv, Current, In
<1>2. CASE CallStep
  <2>1. PICK t \in Threads : \E o, l : Begin(t, o, l)
    BY <1>2, LifeAssumption DEF CallStep, CallInit, CallFini, CallApi
  <2>2. pc[t] = "idle" /\ UNCHANGED memVars /\ UNCHANGED cap
    BY <2>1 DEF Begin, Step, capVars
  <2>3. In("init", Searching) => In("init", Searching)' /\ lives' = lives
    <3>1. CASE t = Main
      BY <2>2, <3>1 DEF In, Searching
    <3>2. CASE t # Main
      <4>1. pc'[Main] = pc[Main] /\ op'[Main] = op[Main]
        BY <2>1, <3>2, LifeAssumption DEF Begin, Step, Goto, Types, StepType, MachineType
      <4>2. pc[Main] # "idle" => lives' = lives
        BY <1>2 DEF CallStep, CallInit, CallFini, CallApi, Begin, Step
      <4>3. QED
        BY <4>1, <4>2 DEF In, Searching
    <3>3. QED
      BY <3>1, <3>2
  <2>4. cap = 0 => Current \subseteq Current'
    BY <2>2, <2>3 DEF Current
  <2>5. QED
    BY <2>2, <2>4, MemKept
<1>3. QED
  BY <1>1, <1>2, NextCases, OtherBlocks, FeatureStepBlocks, PartStepBlocks

IInv == Types /\ LifeInv /\ ServedInv /\ MemInv

LEMMA Invariance == Spec => []IInv
<1>1. Init => IInv
  <2>1. Init => MemInv
    BY DEF Init, MemInv
  <2>2. QED
    BY <2>1, TypeInit, LifeInit, ServiceInit DEF IInv
<1>2. IInv /\ [Next]_vars => IInv'
  BY TypeStep, LifeStep, ServedStep, MemStep DEF IInv
<1>3. QED
  BY <1>1, <1>2, PTL DEF Spec

(* However the stages of pqos_init fail, and wherever its threads are, the *)
(* library is all up or all down once pqos_init and pqos_fini are over;    *)
(* what is still allocated for capabilities is then that of the life that  *)
(* is up, and what a pqos_init that failed after discover_capabilities has *)
(* leaked.                                                                 *)
THEOREM InitAllOrNothingHolds == Spec => []InitAllOrNothing
<1>1. IInv => InitAllOrNothing
  <2> SUFFICES ASSUME IInv, ~Within(Main) PROVE InitAllOrNothing
    BY DEF InitAllOrNothing
  <2>1. AtRest /\ ~In("init", Searching)
    BY DEF Within, AtRest, In, Searching
  <2>2. IF initDone THEN AllUp ELSE Down /\ ~apilock
    BY <2>1 DEF IInv, LifeInv, StageInv
  <2>3. apilock => mutexLive
    BY DEF IInv, LifeInv, MutexInv
  <2>4. blocks \subseteq lost \union (IF cap # 0 THEN {cap} ELSE {})
    BY <2>1 DEF IInv, MemInv, Current
  <2>5. CASE initDone
    <3>1. blocks \subseteq lost \union {cap}
      BY <2>2, <2>4, <2>5 DEF AllUp
    <3>2. QED
      BY <2>2, <2>3, <2>5, <3>1 DEF InitAllOrNothing, AllUp, GroupsThere
  <2>6. CASE ~initDone
    <3>1. blocks \subseteq lost
      BY <2>2, <2>4, <2>6 DEF Down
    <3>2. QED
      BY <2>2, <2>6, <3>1 DEF InitAllOrNothing, Down
  <2>7. QED
    BY <2>5, <2>6
<1>2. QED
  BY <1>1, Invariance, PTL

(* Wherever cpuinfo_build_topo fails, pqos_init returns on the cpus it was *)
(* called on, unless the system refuses to put the thread back.            *)
THEOREM RunsWhereItDidHolds == Spec => []RunsWhereItDid
<1>1. IInv => RunsWhereItDid
  BY DEF IInv, LifeInv, CpuInv, RunsWhereItDid, Within, In
<1>2. QED
  BY <1>1, Invariance, PTL

(* No call is dispatched with capabilities that are NULL or of a life that *)
(* is over, whatever failed in the lives before it and whoever shuts the   *)
(* library down meanwhile.                                                 *)
THEOREM UsesLiveCapabilitiesHolds == Spec => []UsesLiveCapabilities
<1>1. IInv => UsesLiveCapabilities
  <2> SUFFICES ASSUME IInv, NEW t \in Threads, pc[t] = "body", op[t] = "mon" => monInit
               PROVE  cap # 0 /\ known[PartOf(op[t])] = cap
    BY DEF UsesLiveCapabilities
  <2>1. AllUp /\ mutexLive /\ initDone
    BY UpWhenDone DEF IInv, ServedInv, Using
  <2>2. ~In("fini", {"free"})
    BY <2>1, OneHolds, LifeAssumption DEF IInv, In, Held
  <2>3. op[t] \in {"mon", "alloc"}
    BY DEF IInv, Types, MachineType, LifeInv, LabelInv, InitLabels, FiniLabels, Building
  <2>4. MonKnown /\ AllocKnown
    BY <2>1, <2>2 DEF IInv, LifeInv, KnownInv
  <2>5. QED
    BY <2>1, <2>3, <2>4 DEF AllUp, MonKnown, AllocKnown
<1>2. QED
  BY <1>1, Invariance, PTL

(* Pqos_init, pqos_fini and the calls between keep to the service that is  *)
(* promised of them: one call at a time, between the two only, and no      *)
(* shutdown under a call, for any number of threads.                       *)
THEOREM ServiceImplemented == Spec => ImplementsService
<1>1. Init => Service!Init
  BY ServiceInit
<1>2. IInv /\ [Next]_vars => [Service!Next]_<<initDone, Using>>
  BY ServiceStep DEF IInv
<1>3. QED
  BY <1>1, <1>2, Invariance, PTL DEF Spec, ImplementsService, Service!Spec, Using

(* Where the shifts of a machine tell right what its cpus share, they do   *)
(* so for the cpus that are left when pqos_init could not go to some.      *)
THEOREM TopologyIsTheMachinesHolds ==
  ASSUME \A m \in Machines : ReadsRight(m)
  PROVE  Spec => []TopologyIsTheMachines
<1>1. IInv => TopologyIsTheMachines
  <2> SUFFICES ASSUME IInv, initDone PROVE TopologyIsTheMachines
    BY DEF TopologyIsTheMachines
  <2>1. cores # NoCores
    BY UpWhenDone DEF IInv, AllUp
  <2>2. /\ DOMAIN cores \subseteq DOMAIN machine.apic
        /\ \A d \in DOMAIN cores : cores[d] = CoreInfo(machine, d)
    BY DEF IInv, Types, CapType, Cpus, LifeInv, CoresInv
  <2>3. ReadsRight(machine)
    BY DEF IInv, Types, MachineType
  <2> DEFINE whole == [c \in DOMAIN machine.apic |-> CoreInfo(machine, c)]
  <2>4. \A c \in DOMAIN cores : c \in DOMAIN whole /\ whole[c] = cores[c]
    BY <2>2
  <2>5. SaysWhatIsShared(machine, whole)
    BY <2>3 DEF ReadsRight
  <2>6. SaysWhatIsShared(machine, cores)
    <3> HIDE DEF whole
    <3>1. QED
      BY <2>4, <2>5 DEF SaysWhatIsShared
  <2>7. QED
    BY <2>1, <2>6 DEF TopologyIsTheMachines
<1>2. QED
  BY <1>1, Invariance, PTL
=============================================================================
