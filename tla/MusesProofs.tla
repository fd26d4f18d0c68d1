----------------------------- MODULE MusesProofs -----------------------------
(***************************************************************************)
(* The two halves of Muses.  Its monitoring loop (QuotaLoop) misses no     *)
(* burst, for every offset, every threshold and every behaviour of the     *)
(* load.  A quota that nothing got in the way of (IsolationSubmit) keeps   *)
(* the two classes apart, for any machine, any predictions, any number of  *)
(* containers and any history of failures before it.                       *)
(***************************************************************************)
EXTENDS QuotaLoop, IsolationSubmit, TLAPS

(* Between rounds the last count is the current one, and it is zero before *)
(* the first quota; the loop only comes to adjust with the trigger set.    *)
CountInv == /\ cur = last
            /\ phase = "init" => cur = 0
            /\ phase = "adjust" => trigger

(* BurstsGetTheirQuota wherever the loop is: before the first quota the    *)
(* count is zero, and at "adjust" the trigger is set.                      *)
QuotaInv == ~trigger /\ ~drifted /\ cur - Offset > Started => asked = cur - Offset

LoopInv == LoopTypeOK /\ CountInv /\ QuotaInv

LEMMA LoopInitInv == LoopInit => LoopInv
<1> SUFFICES ASSUME LoopInit
             PROVE  LoopInv
  OBVIOUS
<1>1. LoopTypeOK
  <2>1. 0 \in Tasks /\ 0 \in Arguments
    BY MaxTasksType, OffsetType DEF Tasks, Arguments
  <2>2. QED
    BY <2>1, Zenon DEF LoopInit, LoopTypeOK
<1>2. CountInv
  BY DEF LoopInit, CountInv
<1>3. QuotaInv
  BY OffsetType, StartedType DEF LoopInit, QuotaInv
<1>4. QED
  BY <1>1, <1>2, <1>3 DEF LoopInv

LEMMA CountChangedInv == LoopInv /\ CountChanged => LoopInv'
<1> SUFFICES ASSUME LoopInv, CountChanged
             PROVE  LoopInv'
  OBVIOUS
<1> USE MaxTasksType, OffsetType, JumpType, StartedType
<1>1. PICK new \in Tasks :
        /\ new # last
        /\ cur' = new /\ last' = new
        /\ trigger' = (trigger \/ IsJump(new))
        /\ drifted' = (drifted \/ Distance(new, last) <= Jump)
  BY DEF CountChanged
<1>2. /\ phase' = "sleep" /\ UNCHANGED <<stop, load, asked>>
  BY DEF CountChanged
<1>3. LoopTypeOK'
  <2>1. trigger' \in BOOLEAN /\ drifted' \in BOOLEAN
    BY <1>1, Zenon
  <2>2. QED
    BY <1>1, <1>2, <2>1 DEF LoopInv, LoopTypeOK
<1>4. QuotaInv'
  <2>1. ASSUME ~trigger', ~drifted', cur' - Offset > Started
        PROVE  FALSE
    <3>1. ~IsJump(new) /\ ~(Distance(new, last) <= Jump)
      BY <1>1, <2>1
    <3>2. new \in Int /\ last \in Int
      BY DEF LoopInv, LoopTypeOK, Tasks
    <3>3. Distance(new, last) > Jump
      BY <3>1, <3>2 DEF Distance
    <3>4. QED
      BY <1>1, <2>1, <3>1, <3>3 DEF IsJump
  <2>2. QED
    BY <2>1 DEF QuotaInv
<1>5. QED
  BY <1>1, <1>2, <1>3, <1>4 DEF LoopInv, CountInv

LEMMA AdjustInv == LoopInv /\ Adjust => LoopInv'
<1> SUFFICES ASSUME LoopInv, Adjust
             PROVE  LoopInv'
  OBVIOUS
<1>1. LoopTypeOK'
  <2>1. cur - Offset \in Arguments
    BY MaxTasksType, OffsetType DEF LoopInv, LoopTypeOK, Tasks, Arguments
  <2>2. QED
    BY <2>1, Zenon DEF LoopInv, LoopTypeOK, Adjust
<1>2. CountInv'
  BY DEF LoopInv, CountInv, Adjust
<1>3. QuotaInv'
  BY DEF QuotaInv, Adjust
<1>4. QED
  BY <1>1, <1>2, <1>3 DEF LoopInv

LEMMA FirstQuotaInv == LoopInv /\ FirstQuota => LoopInv'
<1> SUFFICES ASSUME LoopInv, FirstQuota
             PROVE  LoopInv'
  OBVIOUS
<1>1. LoopTypeOK'
  <2>1. 0 \in Arguments
    BY MaxTasksType, OffsetType DEF Arguments
  <2>2. QED
    BY <2>1, Zenon DEF LoopInv, LoopTypeOK, FirstQuota
<1>2. CountInv'
  BY DEF LoopInv, CountInv, FirstQuota
<1>3. QuotaInv'
  BY OffsetType, StartedType DEF LoopInv, CountInv, QuotaInv, FirstQuota
<1>4. QED
  BY <1>1, <1>2, <1>3 DEF LoopInv

(* The other actions leave the count, the trigger and the quota alone. *)
LEMMA QuietInv ==
  LoopInv /\ (CountSteady \/ NextRound \/ Leave \/ Interrupt \/ LoadChanges) => LoopInv'
<1> SUFFICES ASSUME LoopInv, CountSteady \/ NextRound \/ Leave \/ Interrupt \/ LoadChanges
             PROVE  LoopInv'
  OBVIOUS
<1>1. cur' = cur /\ UNCHANGED <<last, trigger, asked, drifted>>
  BY DEF LoopInv, CountInv, CountSteady, NextRound, Leave, Interrupt, LoadChanges
<1>2. LoopTypeOK'
  <2>1. /\ phase' \in {"init", "loop", "adjust", "sleep", "stopped"}
        /\ stop' \in BOOLEAN /\ load' \in Tasks
    BY Zenon DEF LoopInv, LoopTypeOK, CountSteady, NextRound, Leave, Interrupt, LoadChanges
  <2>2. QED
    BY <1>1, <2>1 DEF LoopInv, LoopTypeOK
<1>3. CountInv'
  <2>1. phase' = "init" => phase = "init"
    BY DEF CountSteady, NextRound, Leave, Interrupt, LoadChanges
  <2>2. phase' = "adjust" => phase = "adjust" \/ trigger
    BY DEF CountSteady, NextRound, Leave, Interrupt, LoadChanges
  <2>3. QED
    BY <1>1, <2>1, <2>2 DEF LoopInv, CountInv
<1>4. QuotaInv'
  BY <1>1 DEF LoopInv, QuotaInv
<1>5. QED
  BY <1>2, <1>3, <1>4 DEF LoopInv

LEMMA LoopInvHolds == LoopSpec => []LoopInv
<1>1. LoopInv /\ [LoopNext]_loopVars => LoopInv'
  <2>1. LoopInv /\ LoopNext => LoopInv'
    BY CountChangedInv, FirstQuotaInv, AdjustInv, QuietInv DEF LoopNext, LoopStep
  <2>2. LoopInv /\ UNCHANGED loopVars => LoopInv'
    BY DEF LoopInv, LoopTypeOK, CountInv, QuotaInv, loopVars
  <2>3. QED
    BY <2>1, <2>2
<1>2. QED
  BY <1>1, LoopInitInv, PTL DEF LoopSpec

-----------------------------------------------------------------------------
(* The variables of the loop keep their types. *)
THEOREM LoopTypeCorrect == LoopSpec => []LoopTypeOK
<1>1. LoopInv => LoopTypeOK
  BY DEF LoopInv
<1>2. QED
  BY <1>1, LoopInvHolds, PTL

(* The monitoring loop of main.c misses no burst of load: outside an       *)
(* adjustment, a started task has the quota of its count, or the trigger   *)
(* is set, or the count drifted since the last quota.                      *)
THEOREM BurstsGetTheirQuotaHolds == LoopSpec => []BurstsGetTheirQuota
<1>1. LoopInv => BurstsGetTheirQuota
  BY DEF LoopInv, QuotaInv, BurstsGetTheirQuota
<1>2. QED
  BY <1>1, LoopInvHolds, PTL

-----------------------------------------------------------------------------
(* The submission of a quota. *)
OnlineTarget == TargetOf("online", quota)
OfflineTarget == TargetOf("offline", quota)

(* The kernel's rule. *)
InsideInv == \A c \in Containers : cpus[c] \subseteq cpus[ClassOf(c)]

(* Whatever failed, a class has all the cores or those of some quota, and  *)
(* the cores of two quotas of a class are always comparable.               *)
HeldInv == \A class \in Classes :
             cpus[class] = Cores \/ \E q \in Quotas : cpus[class] = TargetOf(class, q)

OnlineWritten == {"ls_offline", "offline", "assoc_online", "assoc_offline", "mask", "mba", "idle"}
OfflineWritten == {"assoc_online", "assoc_offline", "mask", "mba", "idle"}
OnlineAssociated == {"assoc_offline", "mask", "mba", "idle"}
OfflineAssociated == {"mask", "mba", "idle"}

(* How far a quota has got that nothing has got in the way of. *)
ProgressInv ==
  intact =>
    /\ pc = "online" => \A c \in Online \ todo : cpus[c] \subseteq OnlineTarget
    /\ pc = "offline" => \A c \in Offline \ todo : cpus[c] \subseteq OfflineTarget
    /\ pc \in OnlineWritten => cpus["online"] = OnlineTarget
    /\ pc \in OfflineWritten => cpus["offline"] = OfflineTarget
    /\ pc \in OnlineAssociated => \A c \in OnlineTarget : cos[c] = 1
    /\ pc \in OfflineAssociated => \A c \in OfflineTarget : cos[c] = 2
    /\ pc \in {"mba", "idle"} => mask = OfflineMask(quota)
    /\ pc = "idle" => mba = OfflineMba(quota)

(* The script only has containers of its class to write. *)
TodoInv == pc \in Classes => \A c \in todo : ClassOf(c) = pc

IInv == TypeOK /\ InsideInv /\ HeldInv /\ ProgressInv /\ TodoInv

-----------------------------------------------------------------------------
LEMMA CountIsInt == ASSUME NEW q \in Quotas PROVE OnlineCount(q) \in Nat
  BY QuotasType DEF OnlineCount

LEMMA TargetsInCores ==
  ASSUME NEW q \in Quotas, NEW class \in Classes
  PROVE  TargetOf(class, q) \in SUBSET Cores
<1>1. OnlineCores(q) \in SUBSET Cores
  BY CountIsInt, QuotasFit, CoreNumsType DEF OnlineCores, Cores
<1>2. QED
  BY <1>1 DEF TargetOf

LEMMA QuotasAreNested ==
  ASSUME NEW q \in Quotas, NEW r \in Quotas
  PROVE  OnlineCores(q) \subseteq OnlineCores(r) \/ OnlineCores(r) \subseteq OnlineCores(q)
<1>1. OnlineCount(q) \in Nat /\ OnlineCount(r) \in Nat
  BY CountIsInt
<1>2. CASE OnlineCount(q) <= OnlineCount(r)
  BY <1>1, <1>2 DEF OnlineCores
<1>3. CASE OnlineCount(r) <= OnlineCount(q)
  BY <1>1, <1>3 DEF OnlineCores
<1>4. QED
  BY <1>1, <1>2, <1>3

(* What a class holds and what it is to get are comparable. *)
LEMMA HeldIsComparable ==
  ASSUME HeldInv, NEW q \in Quotas, NEW class \in Classes
  PROVE  TargetOf(class, q) \subseteq cpus[class] \/ cpus[class] \subseteq TargetOf(class, q)
<1>1. CASE cpus[class] = Cores
  BY <1>1, TargetsInCores
<1>2. ASSUME NEW r \in Quotas, cpus[class] = TargetOf(class, r)
      PROVE  TargetOf(class, q) \subseteq cpus[class] \/ cpus[class] \subseteq TargetOf(class, q)
  BY <1>2, QuotasAreNested DEF TargetOf
<1>3. QED
  BY <1>1, <1>2 DEF HeldInv

LEMMA TargetsArePartition == OnlineTarget \intersect OfflineTarget = {}
  BY DEF OnlineTarget, OfflineTarget, TargetOf

-----------------------------------------------------------------------------
(* A write to a container keeps what holds of cpus, and the container then *)
(* is inside the target: it was written, or the class is to grow.          *)
LEMMA ContainerWrite ==
  ASSUME TypeOK, InsideInv, HeldInv, NEW class \in Classes, NEW c \in Containers,
         ClassOf(c) = class, cpus' = CpusAfterContainer(c, TargetOf(class, quota))
  PROVE  /\ cpus' \in [Classes \union Containers -> SUBSET Cores]
         /\ InsideInv' /\ HeldInv'
         /\ \A k \in Classes : cpus'[k] = cpus[k]
         /\ cpus'[c] \subseteq TargetOf(class, quota)
         /\ \A d \in Containers \ {c} : cpus'[d] = cpus[d]
<1>1. TargetOf(class, quota) \in SUBSET Cores /\ quota \in Quotas
  BY TargetsInCores DEF TypeOK
<1>2. cpus' \in [Classes \union Containers -> SUBSET Cores]
  BY <1>1 DEF CpusAfterContainer, TypeOK
<1>3. \A d \in (Classes \union Containers) \ {c} : cpus'[d] = cpus[d]
  BY DEF CpusAfterContainer, TypeOK
<1>4. \A k \in Classes : k # c /\ cpus'[k] = cpus[k]
  BY <1>3, ClassesDisjoint
<1>5. cpus'[c] \subseteq TargetOf(class, quota)
  <2>1. cpus[c] \subseteq cpus[class]
    BY DEF InsideInv
  <2>2. TargetOf(class, quota) \subseteq cpus[class] \/ cpus[class] \subseteq TargetOf(class, quota)
    BY <1>1, HeldIsComparable
  <2>3. QED
    BY <2>1, <2>2 DEF CpusAfterContainer, TypeOK
<1>6. InsideInv'
  <2> SUFFICES ASSUME NEW d \in Containers
               PROVE  cpus'[d] \subseteq cpus'[ClassOf(d)]
    BY DEF InsideInv, ClassOf
  <2>1. ClassOf(d) \in Classes /\ cpus[d] \subseteq cpus[ClassOf(d)]
    BY DEF InsideInv, ClassOf, Classes
  <2>2. cpus'[c] \subseteq cpus[class]
    BY DEF CpusAfterContainer, InsideInv, TypeOK
  <2>3. QED
    BY <1>3, <1>4, <2>1, <2>2
<1>7. HeldInv'
  BY <1>4 DEF HeldInv, TargetOf
<1>8. QED
  BY <1>2, <1>3, <1>4, <1>5, <1>6, <1>7

(* A write to a class keeps what holds of cpus, and it is not refused when *)
(* the containers are inside the target.                                   *)
LEMMA ClassWrite ==
  ASSUME TypeOK, InsideInv, HeldInv, NEW class \in Classes,
         cpus' = CpusAfterClass(class, TargetOf(class, quota))
  PROVE  /\ cpus' \in [Classes \union Containers -> SUBSET Cores]
         /\ InsideInv' /\ HeldInv'
         /\ \A d \in (Classes \union Containers) \ {class} : cpus'[d] = cpus[d]
         /\ (\A c \in Containers : ClassOf(c) = class => cpus[c] \subseteq TargetOf(class, quota))
              => cpus'[class] = TargetOf(class, quota)
<1>1. TargetOf(class, quota) \in SUBSET Cores /\ quota \in Quotas
  BY TargetsInCores DEF TypeOK
<1>2. cpus' \in [Classes \union Containers -> SUBSET Cores]
  BY <1>1 DEF CpusAfterClass, TypeOK
<1>3. \A d \in (Classes \union Containers) \ {class} : cpus'[d] = cpus[d]
  BY DEF CpusAfterClass, TypeOK
<1>4. cpus'[class] = cpus[class] \/ cpus'[class] = TargetOf(class, quota)
  BY DEF CpusAfterClass, TypeOK
<1>5. InsideInv'
  <2> SUFFICES ASSUME NEW d \in Containers
               PROVE  cpus'[d] \subseteq cpus'[ClassOf(d)]
    BY DEF InsideInv, ClassOf
  <2>1. /\ ClassOf(d) \in Classes /\ cpus[d] \subseteq cpus[ClassOf(d)]
        /\ d # class
    BY ClassesDisjoint DEF InsideInv, ClassOf, Classes
  <2>2. CASE ClassOf(d) # class
    BY <1>3, <2>1, <2>2
  <2>3. CASE ClassOf(d) = class
    BY <1>3, <2>1, <2>3 DEF CpusAfterClass, Present, TypeOK
  <2>4. QED
    BY <2>2, <2>3
<1>6. HeldInv'
  BY <1>1, <1>3, <1>4 DEF HeldInv, TargetOf
<1>7. (\A c \in Containers : ClassOf(c) = class => cpus[c] \subseteq TargetOf(class, quota))
         => cpus'[class] = TargetOf(class, quota)
  BY DEF CpusAfterClass, Present, TypeOK
<1>8. QED
  BY <1>2, <1>3, <1>5, <1>6, <1>7

-----------------------------------------------------------------------------
LEMMA InitInv == Init => IInv
<1> SUFFICES ASSUME Init
             PROVE  IInv
  OBVIOUS
<1>1. TypeOK
  <2>1. cpus \in [Classes \union Containers -> SUBSET Cores]
    BY DEF Init
  <2>2. cos \in [Cores -> 0 .. 2] /\ mba \in Nat
    BY DEF Init
  <2>3. pc \in Steps /\ intact \in BOOLEAN
    BY Zenon DEF Init, Steps
  <2>4. QED
    BY <2>1, <2>2, <2>3, Zenon DEF Init, TypeOK
<1>2. InsideInv /\ HeldInv
  BY DEF Init, InsideInv, HeldInv, ClassOf, Classes
<1>3. QED
  BY <1>1, <1>2 DEF IInv, ProgressInv, TodoInv, Init, Classes

LEMMA SubmitInv == IInv /\ Submit => IInv'
<1> SUFFICES ASSUME IInv, Submit
             PROVE  IInv'
  OBVIOUS
<1>1. TypeOK'
  BY DEF IInv, TypeOK, Submit, Steps
<1>2. InsideInv' /\ HeldInv'
  BY DEF IInv, InsideInv, HeldInv, Submit
<1>3. ProgressInv'
  BY DEF ProgressInv, Submit, OnlineWritten, OfflineWritten, OnlineAssociated, OfflineAssociated
<1>4. QED
  BY <1>1, <1>2, <1>3 DEF IInv, TodoInv, Submit, Classes

(* A container that is not listed is absent. *)
LEMMA ListInv ==
  ASSUME IInv, List("online", "ls_online", "online") \/ List("offline", "ls_offline", "offline")
  PROVE  IInv'
<1>1. /\ UNCHANGED <<quota, cpus, cos, mask, mba, intact>>
      /\ \/ pc = "ls_online" /\ pc' = "online" /\ todo' = Present("online")
         \/ pc = "ls_offline" /\ pc' = "offline" /\ todo' = Present("offline")
  BY DEF List
<1>2. TypeOK'
  BY <1>1 DEF IInv, TypeOK, Steps, Present
<1>3. InsideInv' /\ HeldInv'
  BY <1>1 DEF IInv, InsideInv, HeldInv
<1>4. TodoInv'
  BY <1>1 DEF TodoInv, Present
<1>5. CASE pc' = "online"
  <2>1. \A c \in Online \ todo' : cpus[c] \subseteq OnlineTarget
    BY <1>1, <1>5 DEF Present, ClassOf, Containers
  <2>2. ProgressInv'
    BY <1>1, <1>5, <2>1 DEF ProgressInv, OnlineWritten, OfflineWritten, OnlineAssociated,
                            OfflineAssociated, OnlineTarget
  <2>3. QED
    BY <1>2, <1>3, <1>4, <2>2 DEF IInv
<1>6. CASE pc' = "offline"
  <2>1. \A c \in Offline \ todo' : cpus[c] \subseteq OfflineTarget
    BY <1>1, <1>6, ClassesDisjoint DEF Present, ClassOf, Containers
  <2>2. intact => cpus["online"] = OnlineTarget
    BY <1>1, <1>6 DEF IInv, ProgressInv, OnlineWritten
  <2>3. ProgressInv'
    BY <1>1, <1>6, <2>1, <2>2 DEF ProgressInv, OfflineWritten, OnlineAssociated,
                                  OfflineAssociated, OfflineTarget, OnlineTarget
  <2>4. QED
    BY <1>2, <1>3, <1>4, <2>3 DEF IInv
<1>7. QED
  BY <1>1, <1>5, <1>6

LEMMA WriteContainerInv ==
  ASSUME IInv, NEW class \in Classes, WriteContainer(class)
  PROVE  IInv'
<1>1. PICK c \in todo : /\ cpus' = CpusAfterContainer(c, TargetOf(class, quota))
                        /\ todo' = todo \ {c}
  BY DEF WriteContainer
<1>2. pc = class /\ UNCHANGED <<pc, quota, cos, mask, mba, intact>>
  BY DEF WriteContainer
<1>3. CASE ClassOf(c) = class
  <2>1. /\ cpus' \in [Classes \union Containers -> SUBSET Cores]
        /\ InsideInv' /\ HeldInv'
        /\ \A k \in Classes : cpus'[k] = cpus[k]
        /\ cpus'[c] \subseteq TargetOf(class, quota)
        /\ \A d \in Containers \ {c} : cpus'[d] = cpus[d]
    BY <1>1, <1>3, ContainerWrite DEF IInv, TypeOK
  <2>2. TypeOK'
    BY <1>1, <1>2, <2>1 DEF IInv, TypeOK
  <2>3. ProgressInv'
    <3> SUFFICES ASSUME intact
                 PROVE  ProgressInv'
      BY <1>2 DEF ProgressInv
    <3>1. pc = "online" => \A d \in Online \ todo' : cpus'[d] \subseteq OnlineTarget
      BY <1>1, <1>2, <2>1 DEF IInv, ProgressInv, OnlineTarget, Containers
    <3>2. pc = "offline" => \A d \in Offline \ todo' : cpus'[d] \subseteq OfflineTarget
      BY <1>1, <1>2, <2>1 DEF IInv, ProgressInv, OfflineTarget, Containers
    <3>3. pc \in OnlineWritten => cpus'["online"] = OnlineTarget
      BY <2>1 DEF IInv, ProgressInv, Classes
    <3>4. QED
      BY <1>2, <3>1, <3>2, <3>3 DEF ProgressInv, OfflineWritten, OnlineAssociated,
                                    OfflineAssociated, OnlineTarget, OfflineTarget, Classes
  <2>4. QED
    BY <1>1, <1>2, <2>1, <2>2, <2>3 DEF IInv, TodoInv
<1>4. ClassOf(c) = class
  BY <1>2 DEF IInv, TodoInv
<1>5. QED
  BY <1>3, <1>4

LEMMA WriteOnlineInv ==
  ASSUME IInv, WriteClass("online", "ls_offline")
  PROVE  IInv'
<1>1. /\ pc = "online" /\ todo = {} /\ pc' = "ls_offline"
      /\ cpus' = CpusAfterClass("online", OnlineTarget)
      /\ UNCHANGED <<quota, todo, cos, mask, mba, intact>>
  BY DEF WriteClass, OnlineTarget
<1>2. /\ cpus' \in [Classes \union Containers -> SUBSET Cores]
      /\ InsideInv' /\ HeldInv'
      /\ (\A c \in Containers : ClassOf(c) = "online" => cpus[c] \subseteq OnlineTarget)
           => cpus'["online"] = OnlineTarget
  BY <1>1, ClassWrite DEF IInv, OnlineTarget, Classes
<1>3. intact => \A c \in Containers : ClassOf(c) = "online" => cpus[c] \subseteq OnlineTarget
  BY <1>1 DEF IInv, ProgressInv, ClassOf, Containers
<1>4. TypeOK'
  BY <1>1, <1>2 DEF IInv, TypeOK, Steps
<1>5. ProgressInv'
  BY <1>1, <1>2, <1>3 DEF ProgressInv, OnlineTarget, OfflineWritten, OnlineAssociated,
                          OfflineAssociated
<1>6. QED
  BY <1>1, <1>2, <1>4, <1>5 DEF IInv, TodoInv, Classes

LEMMA WriteOfflineInv ==
  ASSUME IInv, WriteClass("offline", "assoc_online")
  PROVE  IInv'
<1>1. /\ pc = "offline" /\ todo = {} /\ pc' = "assoc_online"
      /\ cpus' = CpusAfterClass("offline", OfflineTarget)
      /\ UNCHANGED <<quota, todo, cos, mask, mba, intact>>
  BY DEF WriteClass, OfflineTarget
<1>2. /\ cpus' \in [Classes \union Containers -> SUBSET Cores]
      /\ InsideInv' /\ HeldInv'
      /\ \A d \in (Classes \union Containers) \ {"offline"} : cpus'[d] = cpus[d]
      /\ (\A c \in Containers : ClassOf(c) = "offline" => cpus[c] \subseteq OfflineTarget)
           => cpus'["offline"] = OfflineTarget
  BY <1>1, ClassWrite DEF IInv, OfflineTarget, Classes
<1>3. intact => \A c \in Containers : ClassOf(c) = "offline" => cpus[c] \subseteq OfflineTarget
  BY <1>1 DEF IInv, ProgressInv, ClassOf, Containers
<1>4. intact => cpus'["online"] = OnlineTarget
  BY <1>1, <1>2 DEF IInv, ProgressInv, OnlineWritten, Classes
<1>5. TypeOK'
  BY <1>1, <1>2 DEF IInv, TypeOK, Steps
<1>6. ProgressInv'
  BY <1>1, <1>2, <1>3, <1>4 DEF ProgressInv, OnlineTarget, OfflineTarget, OnlineAssociated,
                                OfflineAssociated
<1>7. QED
  BY <1>1, <1>2, <1>5, <1>6 DEF IInv, TodoInv, Classes

LEMMA AssociateInv ==
  ASSUME IInv, \/ Associate("online", "assoc_online", 1, "assoc_offline")
               \/ Associate("offline", "assoc_offline", 2, "mask")
  PROVE  IInv'
<1>1. UNCHANGED <<quota, todo, cpus, mask, mba, intact>>
  BY DEF Associate
<1>2. /\ OnlineTarget \in SUBSET Cores /\ OfflineTarget \in SUBSET Cores
      /\ OnlineTarget \intersect OfflineTarget = {}
  BY TargetsInCores, TargetsArePartition DEF IInv, TypeOK, OnlineTarget, OfflineTarget, Classes
<1>3. InsideInv' /\ HeldInv'
  BY <1>1 DEF IInv, InsideInv, HeldInv
<1>4. CASE Associate("online", "assoc_online", 1, "assoc_offline")
  <2>1. /\ pc = "assoc_online" /\ pc' = "assoc_offline"
        /\ cos' = [c \in Cores |-> IF c \in OnlineTarget THEN 1 ELSE cos[c]]
    BY <1>4 DEF Associate, OnlineTarget
  <2>2. TypeOK'
    BY <1>1, <2>1 DEF IInv, TypeOK, Steps
  <2>3. intact => cpus["online"] = OnlineTarget /\ cpus["offline"] = OfflineTarget
    BY <2>1 DEF IInv, ProgressInv, OnlineWritten, OfflineWritten
  <2>4. \A c \in OnlineTarget : cos'[c] = 1
    BY <1>2, <2>1
  <2>5. ProgressInv'
    BY <1>1, <2>1, <2>3, <2>4 DEF ProgressInv, OfflineAssociated, OnlineTarget, OfflineTarget
  <2>6. QED
    BY <1>3, <2>1, <2>2, <2>5 DEF IInv, TodoInv, Classes
<1>5. CASE Associate("offline", "assoc_offline", 2, "mask")
  <2>1. /\ pc = "assoc_offline" /\ pc' = "mask"
        /\ cos' = [c \in Cores |-> IF c \in OfflineTarget THEN 2 ELSE cos[c]]
    BY <1>5 DEF Associate, OfflineTarget
  <2>2. TypeOK'
    BY <1>1, <2>1 DEF IInv, TypeOK, Steps
  <2>3. intact => /\ cpus["online"] = OnlineTarget /\ cpus["offline"] = OfflineTarget
                  /\ \A c \in OnlineTarget : cos[c] = 1
    BY <2>1 DEF IInv, ProgressInv, OnlineWritten, OfflineWritten, OnlineAssociated
  <2>4. \A c \in OfflineTarget : cos'[c] = 2
    BY <1>2, <2>1
  <2>5. \A c \in OnlineTarget : cos'[c] = cos[c]
    BY <1>2, <2>1
  <2>6. ProgressInv'
    BY <1>1, <2>1, <2>3, <2>4, <2>5 DEF ProgressInv, OnlineTarget, OfflineTarget
  <2>7. QED
    BY <1>3, <2>1, <2>2, <2>6 DEF IInv, TodoInv, Classes
<1>6. QED
  BY <1>4, <1>5

LEMMA SetMaskInv == IInv /\ SetMask => IInv'
<1> SUFFICES ASSUME IInv, SetMask
             PROVE  IInv'
  OBVIOUS
<1>1. /\ pc = "mask" /\ pc' = "mba" /\ mask' = OfflineMask(quota)
      /\ UNCHANGED <<quota, todo, cpus, cos, mba, intact>>
  BY DEF SetMask
<1>2. OfflineMask(quota) \in SUBSET Ways
  <2>1. OnlineWays(quota) \in Nat
    BY QuotasType DEF IInv, TypeOK, OnlineWays
  <2>2. QED
    BY <2>1, WayNumsType DEF OfflineMask, Ways
<1>3. TypeOK'
  BY <1>1, <1>2 DEF IInv, TypeOK, Steps
<1>4. ProgressInv'
  BY <1>1 DEF IInv, ProgressInv, OnlineTarget, OfflineTarget, OnlineWritten, OfflineWritten,
              OnlineAssociated, OfflineAssociated
<1>5. QED
  BY <1>1, <1>3, <1>4 DEF IInv, TodoInv, InsideInv, HeldInv, Classes

LEMMA SetMbaInv == IInv /\ SetMba => IInv'
<1> SUFFICES ASSUME IInv, SetMba
             PROVE  IInv'
  OBVIOUS
<1>1. /\ pc = "mba" /\ pc' = "idle" /\ mba' = OfflineMba(quota)
      /\ UNCHANGED <<quota, todo, cpus, cos, mask, intact>>
  BY DEF SetMba
<1>2. OfflineMba(quota) \in Nat
  BY QuotasType DEF IInv, TypeOK, OfflineMba
<1>3. TypeOK'
  BY <1>1, <1>2 DEF IInv, TypeOK, Steps
<1>4. ProgressInv'
  BY <1>1 DEF IInv, ProgressInv, OnlineTarget, OfflineTarget, OnlineWritten, OfflineWritten,
              OnlineAssociated, OfflineAssociated
<1>5. QED
  BY <1>1, <1>3, <1>4 DEF IInv, TodoInv, InsideInv, HeldInv, Classes

(* After a failure nothing is claimed of the quota; the cpusets keep what  *)
(* the kernel enforces.                                                    *)
LEMMA FailureInv ==
  ASSUME IInv, \/ CommandFails \/ Die
               \/ AssociateFails("online", "assoc_online", 1)
               \/ AssociateFails("offline", "assoc_offline", 2)
  PROVE  IInv'
<1>1. /\ UNCHANGED <<quota, cpus, mask, mba>> /\ intact' = FALSE
      /\ todo' = {} \/ UNCHANGED todo
  BY DEF CommandFails, Die, AssociateFails
<1>2. pc' \in Steps /\ (todo' = {} \/ pc' \notin Classes)
  BY DEF CommandFails, Die, AssociateFails, After, Steps, Classes, IInv, TypeOK
<1>3. cos' \in [Cores -> 0 .. 2]
  BY DEF CommandFails, Die, AssociateFails, IInv, TypeOK
<1>4. TypeOK'
  <2>1. intact' \in BOOLEAN
    BY <1>1, Zenon
  <2>2. QED
    BY <1>1, <1>2, <1>3, <2>1 DEF IInv, TypeOK
<1>5. QED
  BY <1>1, <1>2, <1>4 DEF IInv, InsideInv, HeldInv, ProgressInv, TodoInv

(* A container that starts or ends stays inside its class; while the class *)
(* is being written a start is what gets in the way.                       *)
LEMMA ContainerInv ==
  ASSUME IInv, NEW c \in Containers, ContainerStarts(c) \/ ContainerEnds(c)
  PROVE  IInv'
<1>1. /\ UNCHANGED <<pc, quota, todo, cos, mask, mba>>
      /\ cpus' = [cpus EXCEPT ![c] = cpus[ClassOf(c)]] \/ cpus' = [cpus EXCEPT ![c] = {}]
  BY DEF ContainerStarts, ContainerEnds
<1>2. ClassOf(c) \in Classes
  BY DEF ClassOf, Classes
<1>3. /\ cpus'[c] = cpus[ClassOf(c)] \/ cpus'[c] = {}
      /\ \A d \in (Classes \union Containers) \ {c} : cpus'[d] = cpus[d]
      /\ \A k \in Classes : k # c /\ cpus'[k] = cpus[k]
  BY <1>1, ClassesDisjoint DEF IInv, TypeOK
<1>4. InsideInv' /\ HeldInv'
  <2>1. HeldInv'
    BY <1>3 DEF IInv, HeldInv, TargetOf
  <2>2. ASSUME NEW d \in Containers
        PROVE  cpus'[d] \subseteq cpus'[ClassOf(d)]
    BY <1>2, <1>3 DEF IInv, InsideInv, ClassOf, Classes
  <2>3. QED
    BY <2>1, <2>2 DEF InsideInv, ClassOf
<1>5. intact' => intact /\ (pc = ClassOf(c) => cpus'[c] = {})
  BY DEF ContainerStarts, ContainerEnds, IInv, TypeOK
<1>6. TypeOK'
  <2>1. intact' \in BOOLEAN
    BY Zenon DEF ContainerStarts, ContainerEnds, IInv, TypeOK
  <2>2. cpus' \in [Classes \union Containers -> SUBSET Cores]
    BY <1>1, <1>2 DEF IInv, TypeOK
  <2>3. QED
    BY <1>1, <2>1, <2>2 DEF IInv, TypeOK
<1>7. ProgressInv'
  <2> SUFFICES ASSUME intact'
               PROVE  ProgressInv'
    BY DEF ProgressInv
  <2>1. pc = "online" => \A d \in Online \ todo' : cpus'[d] \subseteq OnlineTarget
    BY <1>1, <1>3, <1>5 DEF IInv, ProgressInv, ClassOf, Containers
  <2>2. pc = "offline" => \A d \in Offline \ todo' : cpus'[d] \subseteq OfflineTarget
    BY <1>1, <1>3, <1>5, ClassesDisjoint DEF IInv, ProgressInv, ClassOf, Containers
  <2>3. QED
    BY <1>1, <1>3, <1>5, <2>1, <2>2 DEF IInv, ProgressInv, OnlineTarget, OfflineTarget, Classes
<1>8. QED
  BY <1>1, <1>4, <1>6, <1>7 DEF IInv, TodoInv, ClassOf

LEMMA InvHolds == Spec => []IInv
<1>1. IInv /\ UNCHANGED vars => IInv'
  BY DEF IInv, TypeOK, InsideInv, HeldInv, ProgressInv, TodoInv, OnlineTarget, OfflineTarget, vars
<1>2. IInv /\ Next => IInv'
  BY SubmitInv, ListInv, WriteContainerInv, WriteOnlineInv, WriteOfflineInv, AssociateInv,
     SetMaskInv, SetMbaInv, FailureInv, ContainerInv DEF Next, Command, Classes
<1>3. QED
  BY <1>1, <1>2, InitInv, PTL DEF Spec

-----------------------------------------------------------------------------
(* The settings and the cpusets keep their types; in particular a quota    *)
(* never asks for a core the machine does not have.                        *)
THEOREM TypeCorrect == Spec => []TypeOK
<1>1. IInv => TypeOK
  BY DEF IInv
<1>2. QED
  BY <1>1, InvHolds, PTL

(* isolation_submit isolates: when nothing got in its way, no online       *)
(* container shares a core with an offline one.                            *)
THEOREM SettledClassesAreApartHolds == Spec => []SettledClassesAreApart
<1>1. IInv => SettledClassesAreApart
  <2> SUFFICES ASSUME IInv, Settled, NEW a \in Online, NEW b \in Offline
               PROVE  cpus[a] \intersect cpus[b] = {}
    BY DEF SettledClassesAreApart
  <2>1. cpus["online"] = OnlineTarget /\ cpus["offline"] = OfflineTarget
    BY DEF IInv, ProgressInv, Settled, OnlineWritten, OfflineWritten
  <2>2. cpus[a] \subseteq cpus["online"] /\ cpus[b] \subseteq cpus["offline"]
    BY ClassesDisjoint DEF IInv, InsideInv, ClassOf, Containers
  <2>3. QED
    BY <2>1, <2>2, TargetsArePartition
<1>2. QED
  BY <1>1, InvHolds, PTL

(* The four calls of pqos agree with the two scripts: cpusets and classes  *)
(* of service name the same cores.                                         *)
THEOREM SettledCosMatchesCpusHolds == Spec => []SettledCosMatchesCpus
<1>1. IInv => SettledCosMatchesCpus
  <2> SUFFICES ASSUME IInv, Settled
               PROVE  /\ \A a \in Online : \A c \in cpus[a] : cos[c] = 1
                      /\ \A b \in Offline : \A c \in cpus[b] : cos[c] = 2
                      /\ mask = OfflineMask(quota) /\ mba = OfflineMba(quota)
    BY DEF SettledCosMatchesCpus
  <2>1. /\ cpus["online"] = OnlineTarget /\ cpus["offline"] = OfflineTarget
        /\ \A c \in OnlineTarget : cos[c] = 1
        /\ \A c \in OfflineTarget : cos[c] = 2
        /\ mask = OfflineMask(quota) /\ mba = OfflineMba(quota)
    BY DEF IInv, ProgressInv, Settled, OnlineWritten, OfflineWritten, OnlineAssociated,
           OfflineAssociated
  <2>2. /\ \A a \in Online : cpus[a] \subseteq cpus["online"]
        /\ \A b \in Offline : cpus[b] \subseteq cpus["offline"]
    BY ClassesDisjoint DEF IInv, InsideInv, ClassOf, Containers
  <2>3. QED
    BY <2>1, <2>2
<1>2. QED
  BY <1>1, InvHolds, PTL
=============================================================================
