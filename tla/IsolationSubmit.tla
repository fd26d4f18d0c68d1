--------------------------- MODULE IsolationSubmit ---------------------------
(***************************************************************************)
(* How Muses puts a quota into effect: get_online_cores of pqos/pyapi.c    *)
(* turns the prediction into settings, isolation_submit of pqos/main.c     *)
(* runs six shell commands one after the other.  Two of them walk a cpuset *)
(* hierarchy (pqos/update_cpus.sh) and four call the pqos utility.         *)
(*                                                                         *)
(* The commands' results are ignored, a container may start or end between *)
(* any two writes, and the controller may die anywhere.                    *)
(***************************************************************************)
EXTENDS Integers, FiniteSets

CONSTANTS CoreNums,     \* CORE_NUMS, the cores of the machine
          WayNums,      \* bits of LLC_WAYS, the ways of the L3 cache
          Quotas,       \* predictions: cpu in tenths of a core, llc in KB
                        \*   and mba in percent
          Online,       \* containers of the online task
          Offline,      \* containers of the offline tasks
          Faults        \* commands may fail and the controller may die

Cores == 0 .. CoreNums - 1
Ways == 0 .. WayNums - 1
Classes == {"online", "offline"}
Containers == Online \union Offline

ASSUME CoreNumsType == CoreNums \in Nat
ASSUME WayNumsType == WayNums \in Nat \ {0}
ASSUME QuotasType == Quotas \subseteq [cpu : Nat, llc : Nat, mba : Nat]
ASSUME ClassesDisjoint == Online \intersect Offline = {} /\ Containers \intersect Classes = {}
ASSUME FaultsType == Faults \in BOOLEAN

VARIABLES pc,           \* the command being run
          quota,        \* the quota being submitted, or submitted last
          todo,         \* directories update_cpus.sh has still to write
          cpus,         \* cpuset.cpus of the two classes and of each container
                        \*   ({} when the container is absent)
          cos,          \* class of service of each core
          mask,         \* ways of class 2
          mba,          \* bandwidth percent of class 2
          intact        \* history: nothing got in the way of this quota

vars == <<pc, quota, todo, cpus, cos, mask, mba, intact>>

-----------------------------------------------------------------------------
(* get_online_cores: the settings of a quota.  ALL_CORES marks the first   *)
(* even cores, as many as the cpu quota rounded up.                        *)
OnlineCount(q) == (q.cpu + 9) \div 10
OnlineCores(q) == {2 * i : i \in 0 .. OnlineCount(q) - 1}

(* ALL_CORES is indexed without a check: get_best_quota.py asks for at     *)
(* most CPU_MAX cores, and every other core is there to be marked.         *)
ASSUME QuotasFit == \A q \in Quotas : 2 * OnlineCount(q) <= CoreNums

TargetOf(class, q) == IF class = "online" THEN OnlineCores(q) ELSE Cores \ OnlineCores(q)

OnlineWays(q) == q.llc \div 1024 + (IF q.llc % 1024 = 0 THEN 0 ELSE 1)

(* LLC_WAYS shifted right by ONLINE_LLC_WAYS, at least one way. *)
OfflineMask(q) == IF OnlineWays(q) < WayNums THEN 0 .. WayNums - 1 - OnlineWays(q) ELSE {0}

OfflineMba(q) == IF 100 - q.mba < 10 THEN 10 ELSE 100 - q.mba

ClassOf(c) == IF c \in Online THEN "online" ELSE "offline"
Present(class) == {c \in Containers : ClassOf(c) = class /\ cpus[c] # {}}

(* The kernel's rule for a write to cpuset.cpus: a container stays within  *)
(* its parent, and a parent keeps what its containers use.  A write it     *)
(* refuses changes nothing, and the script goes on.                        *)
CpusAfterContainer(c, t) ==
  IF cpus[c] # {} /\ t \subseteq cpus[ClassOf(c)] THEN [cpus EXCEPT ![c] = t] ELSE cpus

CpusAfterClass(class, t) ==
  IF \A c \in Present(class) : cpus[c] \subseteq t THEN [cpus EXCEPT ![class] = t] ELSE cpus

-----------------------------------------------------------------------------
Init == /\ pc = "idle"
        /\ quota \in Quotas
        /\ todo = {}
        /\ cpus = [d \in Classes \union Containers |-> IF d \in Classes THEN Cores ELSE {}]
        /\ cos = [c \in Cores |-> 0]
        /\ mask = Ways
        /\ mba = 100
        /\ intact = FALSE

(* QuotaLoop asks for a quota; a controller started again does so too. *)
Submit == /\ pc = "idle"
          /\ quota' \in Quotas
          /\ pc' = "ls_online"
          /\ intact' = TRUE
          /\ UNCHANGED <<todo, cpus, cos, mask, mba>>

(* update_cpus.sh lists the containers of a class ... *)
List(class, here, next) ==
  /\ pc = here
  /\ pc' = next
  /\ todo' = Present(class)
  /\ UNCHANGED <<quota, cpus, cos, mask, mba, intact>>

(* ... writes cpuset.cpus of each one it listed, if it is still there ...  *)
WriteContainer(class) ==
  /\ pc = class
  /\ \E c \in todo :
       /\ cpus' = CpusAfterContainer(c, TargetOf(class, quota))
       /\ todo' = todo \ {c}
  /\ UNCHANGED <<pc, quota, cos, mask, mba, intact>>

(* A script that writes the parent first. *)
WriteClassFirst(class, next) ==
  /\ pc = class
  /\ cpus' = CpusAfterClass(class, TargetOf(class, quota))
  /\ pc' = next
  /\ todo' = {}
  /\ UNCHANGED <<quota, cos, mask, mba, intact>>

(* ... and last the one of the class.                                      *)
WriteClass(class, next) ==
  /\ pc = class
  /\ todo = {}
  /\ cpus' = CpusAfterClass(class, TargetOf(class, quota))
  /\ pc' = next
  /\ UNCHANGED <<quota, todo, cos, mask, mba, intact>>

(* An association that does not look at the list of cores. *)
AssociateEveryCore(class, here, id, next) ==
  /\ pc = here
  /\ cos' = [c \in Cores |-> id]
  /\ pc' = next
  /\ UNCHANGED <<quota, todo, cpus, mask, mba, intact>>

(* pqos -a "llc:1=..." and "llc:2=...": cores of a class get its COS. *)
Associate(class, here, id, next) ==
  /\ pc = here
  /\ cos' = [c \in Cores |-> IF c \in TargetOf(class, quota) THEN id ELSE cos[c]]
  /\ pc' = next
  /\ UNCHANGED <<quota, todo, cpus, mask, mba, intact>>

(* pqos -e "llc:2=..." and then pqos -e "mba:2=...". *)
SetMask == /\ pc = "mask"
           /\ mask' = OfflineMask(quota)
           /\ pc' = "mba"
           /\ UNCHANGED <<quota, todo, cpus, cos, mba, intact>>

SetMba == /\ pc = "mba"
          /\ mba' = OfflineMba(quota)
          /\ pc' = "idle"
          /\ UNCHANGED <<quota, todo, cpus, cos, mask, intact>>

Command == \/ List("online", "ls_online", "online")
           \/ WriteContainer("online")
           \/ WriteClass("online", "ls_offline")
           \/ List("offline", "ls_offline", "offline")
           \/ WriteContainer("offline")
           \/ WriteClass("offline", "assoc_online")
           \/ Associate("online", "assoc_online", 1, "assoc_offline")
           \/ Associate("offline", "assoc_offline", 2, "mask")
           \/ SetMask
           \/ SetMba

After == [ls_online |-> "ls_offline", online |-> "ls_offline",
          ls_offline |-> "assoc_online", offline |-> "assoc_online",
          assoc_online |-> "assoc_offline", assoc_offline |-> "mask",
          mask |-> "mba", mba |-> "idle"]

(* A command fails, or Ctrl-C ends it, before its next write: an error is  *)
(* not looked at and the next command runs.                                *)
CommandFails ==
  /\ Faults
  /\ pc # "idle"
  /\ pc' = After[pc]
  /\ todo' = {}
  /\ intact' = FALSE
  /\ UNCHANGED <<quota, cpus, cos, mask, mba>>

(* pqos -a stops at the first core it cannot associate. *)
AssociateFails(class, here, id) ==
  /\ Faults
  /\ pc = here
  /\ \E first \in TargetOf(class, quota) :
       cos' = [c \in Cores |-> IF c \in TargetOf(class, quota) /\ c < first THEN id ELSE cos[c]]
  /\ pc' = After[pc]
  /\ intact' = FALSE
  /\ UNCHANGED <<quota, todo, cpus, mask, mba>>

(* The controller dies, also of the NULL stream that a failed popen leaves. *)
Die == /\ Faults
       /\ pc # "idle"
       /\ pc' = "idle"
       /\ todo' = {}
       /\ intact' = FALSE
       /\ UNCHANGED <<quota, cpus, cos, mask, mba>>

(* A container starts with the cpus of its class.  It gets in the way of a *)
(* quota when the script has listed the class but not yet written it.      *)
ContainerStarts(c) ==
  /\ cpus[c] = {}
  /\ cpus' = [cpus EXCEPT ![c] = cpus[ClassOf(c)]]
  /\ intact' = (intact /\ pc # ClassOf(c))
  /\ UNCHANGED <<pc, quota, todo, cos, mask, mba>>

ContainerEnds(c) ==
  /\ cpus[c] # {}
  /\ cpus' = [cpus EXCEPT ![c] = {}]
  /\ UNCHANGED <<pc, quota, todo, cos, mask, mba, intact>>

Next == \/ Submit \/ Command \/ CommandFails \/ Die
        \/ AssociateFails("online", "assoc_online", 1)
        \/ AssociateFails("offline", "assoc_offline", 2)
        \/ \E c \in Containers : ContainerStarts(c) \/ ContainerEnds(c)

Spec == Init /\ [][Next]_vars

-----------------------------------------------------------------------------
Steps == {"ls_online", "online", "ls_offline", "offline", "assoc_online", "assoc_offline",
          "mask", "mba", "idle"}

TypeOK == /\ pc \in Steps
          /\ quota \in Quotas
          /\ todo \subseteq Containers
          /\ cpus \in [Classes \union Containers -> SUBSET Cores]
          /\ cos \in [Cores -> 0 .. 2]
          /\ mask \in SUBSET Ways
          /\ mba \in Nat
          /\ intact \in BOOLEAN

Settled == pc = "idle" /\ intact

(* A quota that nothing got in the way of isolates the two classes: no     *)
(* online container can run on a core of an offline one, whatever an       *)
(* earlier submit that failed or died half way had left behind.            *)
SettledClassesAreApart ==
  Settled => \A a \in Online, b \in Offline : cpus[a] \intersect cpus[b] = {}

(* Such a quota leaves cpusets and classes of service in agreement: every  *)
(* core an online container may use has COS 1 and the full cache, every    *)
(* core of an offline container has COS 2 with the reduced cache and       *)
(* bandwidth, so no online thread runs throttled.                          *)
SettledCosMatchesCpus ==
  Settled => /\ \A a \in Online : \A c \in cpus[a] : cos[c] = 1
             /\ \A b \in Offline : \A c \in cpus[b] : cos[c] = 2
             /\ mask = OfflineMask(quota) /\ mba = OfflineMba(quota)
=============================================================================
