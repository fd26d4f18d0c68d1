-------------------------- MODULE OsInterfaceProofs --------------------------
(***************************************************************************)
(* The two halves of the OS interface, for any cores, tasks, threads,      *)
(* descriptors and classes.  Allocation on resctrl (OsAllocation): a class *)
(* that is assigned is its process's own, groups are found where they are, *)
(* and a reset starts afresh.  Monitoring on perf (OsMonitoring): counters *)
(* are whole and nobody else's, and every descriptor is accounted for.     *)
(***************************************************************************)
EXTENDS OsAllocation, OsMonitoring, FiniteSetTheorems, TLAPS

(* With the core classes m, the tasks al, their classes tc and owners ow,  *)
(* the class of the assignment h of a is a's own once anything of a is in  *)
(* it.                                                                     *)
Own(a, h, m, al, tc, ow) ==
  (\E c \in h.cores : m[c] = h.class) \/ (\E t \in al : ow[t] = a /\ tc[t] = h.class)
    => /\ \A c \in Cores : m[c] = h.class => c \in h.cores
       /\ \A t \in al : tc[t] = h.class => ow[t] = a

Unmeddled == Holders \ meddled

OwnInv == \A a \in Unmeddled : Own(a, held[a], coreClass, alive, taskClass, owner)

HeldIsNotCOS0 == \A a \in Holders : held[a].class # COS0

IInv == TypeOK /\ HeldIsNotCOS0 /\ OwnInv

Untouched == UNCHANGED <<coreClass, alive, taskClass, held, owner, meddled>>

-----------------------------------------------------------------------------
(* The directories the library makes are those of classes other than COS0. *)
LEMMA GroupDirsType ==
  ASSUME NEW cdp
  PROVE  GroupDirs(cdp) \subseteq Classes \ {COS0}
BY DEF GroupDirs, Grps

LEMMA COS0Type == COS0 \in Classes
BY CosType DEF COS0, Classes

LEMMA SeenCdpType == SeenCdp \in CdpSettings /\ (mount \in CdpSettings => SeenCdp = mount)
BY DEF SeenCdp, CdpSettings

LEMMA CdpMountType ==
  ASSUME TypeOK, NEW a \in Initialised, NEW cfg \in CdpConfigs
  PROVE  CdpMount(a, cfg) \in CdpSettings
BY DEF TypeOK, Initialised, CdpMount, CdpConfigs, CdpSettings

(* What one write of cores or of tasks leaves of the types. *)
LEMMA MoveType ==
  ASSUME TypeOK, NEW cs \in SUBSET Cores, NEW ts \in SUBSET Tasks, NEW k \in Classes,
         NEW n \in Apps \union {NoApp}
  PROVE  /\ CoresTo(cs, k) \in [Cores -> Classes]
         /\ TasksTo(ts, k) \in [Tasks -> Classes]
         /\ OwnedBy(ts, n) \in [Tasks -> Apps \union {NoApp}]
BY DEF TypeOK, CoresTo, TasksTo, OwnedBy

LEMMA NothingType == Nothing \in Assignment
BY COS0Type DEF Nothing, Assignment

LEMMA HoldersInApps ==
  /\ Holders \subseteq Apps
  /\ \A cs, ts : HoldersOf(cs, ts) \subseteq Apps
BY DEF Holders, HoldersOf

LEMMA Everywhere0Type ==
  ASSUME Everywhere0
  PROVE  /\ coreClass' \in [Cores -> Classes]
         /\ taskClass' \in [Tasks -> Classes]
         /\ owner' \in [Tasks -> Apps \union {NoApp}]
         /\ restricted' \in BOOLEAN
BY COS0Type DEF Everywhere0

-----------------------------------------------------------------------------
(* Every step keeps the types. *)
LEMMA TypeStep ==
  ASSUME TypeOK, [Next]_vars
  PROVE  TypeOK'
<1> USE HoldersInApps, COS0Type DEF TypeOK
<1>1. ASSUME NEW a \in Apps, AllocInit(a) \/ AllocInitCutShort(a)
      PROVE  TypeOK'
  <2>1. groups' \subseteq Classes \ {COS0}
    BY <1>1, GroupDirsType DEF AllocInit, AllocInitCutShort
  <2>2. mount' \in CdpSettings \union {"none"}
    BY <1>1, SeenCdpType DEF AllocInit, AllocInitCutShort
  <2>3. cap' \in [Apps -> CdpSettings \union {"none"}]
    BY <1>1, SeenCdpType DEF AllocInit, AllocInitCutShort
  <2>4. QED
    BY <1>1, <2>1, <2>2, <2>3 DEF AllocInit, AllocInitCutShort
<1>2. ASSUME NEW a \in Apps, AllocFini(a)
      PROVE  TypeOK'
  BY <1>2, NothingType DEF AllocFini, machine
<1>3. ASSUME NEW a \in Apps, NEW cs \in SUBSET Cores, NEW ts \in SUBSET Tasks,
             Assign(a, cs, ts)
      PROVE  TypeOK'
  <2>1. PICK k \in Classes : /\ coreClass' = CoresTo(cs, k)
                             /\ taskClass' = TasksTo(ts, k)
                             /\ held' = [held EXCEPT ![a] = [cores |-> cs, tasks |-> ts, class |-> k]]
    BY <1>3 DEF Assign
  <2>2. held' \in [Apps -> Assignment]
    BY <2>1 DEF Assignment
  <2>3. QED
    BY <1>3, <2>1, <2>2, MoveType DEF Assign
<1>4. ASSUME NEW a \in Apps, NEW cs \in SUBSET Cores, NEW ts \in SUBSET Tasks,
             AssignCutShort(a, cs, ts)
      PROVE  TypeOK'
  <2>1. PICK k \in Classes : /\ coreClass' = CoresTo(cs, k)
                             /\ taskClass' = TasksTo(ts, k)
    BY <1>4 DEF AssignCutShort
  <2>2. /\ coreClass' \in [Cores -> Classes]
        /\ taskClass' \in [Tasks -> Classes]
        /\ owner' \in [Tasks -> Apps \union {NoApp}]
    BY <1>4, <2>1, MoveType DEF AssignCutShort
  <2>3. QED
    BY <1>4, <2>2 DEF AssignCutShort
<1>5. ASSUME NEW a \in Apps, Release(a)
      PROVE  TypeOK'
  <2>1. held[a].cores \in SUBSET Cores /\ held[a].tasks \in SUBSET Tasks
    BY DEF Assignment
  <2>2. held' \in [Apps -> Assignment]
    BY <1>5, NothingType DEF Release
  <2>3. QED
    BY <1>5, <2>1, <2>2, MoveType DEF Release
<1>6. ASSUME NEW a \in Apps, NEW ts \in SUBSET Tasks, ReleaseCutShort(a, ts)
      PROVE  TypeOK'
  BY <1>6, MoveType DEF ReleaseCutShort
<1>7. ASSUME NEW a \in Apps, NEW cs \in SUBSET Cores, NEW ts \in SUBSET Tasks,
             NEW k \in Classes, AssocSet(a, cs, ts, k)
      PROVE  TypeOK'
  BY <1>7, MoveType DEF AssocSet
<1>8. ASSUME NEW a \in Apps, NEW k \in Classes, ClassSet(a, k)
      PROVE  TypeOK'
  BY <1>8 DEF ClassSet
<1>9. ASSUME NEW a \in Apps, NEW cfg \in CdpConfigs,
             Reset(a, cfg) \/ ResetWithoutGroups(a, cfg)
      PROVE  TypeOK'
  <2>1. CdpMount(a, cfg) \in CdpSettings
    BY <1>9, CdpMountType DEF Reset, ResetWithoutGroups
  <2>2. Everywhere0 /\ meddled' = Holders
    BY <1>9 DEF Reset, ResetWithoutGroups
  <2>3. groups' \subseteq Classes \ {COS0}
    BY <1>9, GroupDirsType DEF Reset, ResetWithoutGroups, Prep
  <2>4. mount' \in CdpSettings /\ cap' \in [Apps -> CdpSettings \union {"none"}]
    BY <1>9, <2>1 DEF Reset, ResetWithoutGroups, CapAfterMount
  <2>5. unsure' \subseteq Apps /\ fresh' \in CdpSettings \union {"none"}
    BY <1>9, <2>1 DEF Reset, ResetWithoutGroups, Initialised
  <2>6. alive' = alive /\ held' = held
    BY <1>9 DEF Reset, ResetWithoutGroups
  <2>7. QED
    BY <2>2, <2>3, <2>4, <2>5, <2>6, Everywhere0Type
<1>10. ASSUME NEW a \in Apps, ResetWithoutUmount(a)
       PROVE  TypeOK'
  BY <1>10 DEF ResetWithoutUmount
<1>11. ASSUME NEW a \in Apps, ResetWithoutMount(a)
       PROVE  TypeOK'
  <2>1. Everywhere0 /\ unsure' \subseteq Apps
    BY <1>11 DEF ResetWithoutMount, Initialised
  <2>2. QED
    BY <1>11, <2>1, Everywhere0Type DEF ResetWithoutMount
<1>12. ASSUME NEW t \in Tasks, NEW u \in Tasks, Fork(t, u)
       PROVE  TypeOK'
  BY <1>12 DEF Fork
<1>13. ASSUME NEW t \in Tasks, TaskEnds(t)
       PROVE  TypeOK'
  BY <1>13 DEF TaskEnds
<1>14. CASE UNCHANGED vars
  BY <1>14 DEF vars, machine
<1>15. QED
  BY <1>1, <1>2, <1>3, <1>4, <1>5, <1>6, <1>7, <1>8, <1>9, <1>10, <1>11, <1>12, <1>13, <1>14
     DEF Next

LEMMA TypeInit == Init => TypeOK
BY COS0Type, NothingType DEF Init, TypeOK

(* Every variable of the OS allocation model keeps its type, for any       *)
(* cores, tasks, processes and numbers of classes.                         *)
THEOREM TypeCorrect == Spec => []TypeOK
<1>1. TypeOK /\ [Next]_vars => TypeOK'
  BY TypeStep
<1>2. QED
  BY TypeInit, <1>1, PTL DEF Spec

-----------------------------------------------------------------------------
(* The two ways to say that a class is its holder's own. *)
LEMMA OwnIsOurs ==
  ASSUME TypeOK
  PROVE  OwnInv => ClassIsOurs
<1> SUFFICES ASSUME OwnInv, NEW a \in Unmeddled,
                    CoresIn(a) # {} \/ TasksIn(a) # {}
             PROVE  /\ {c \in Cores : coreClass[c] = held[a].class} = CoresIn(a)
                    /\ {t \in alive : taskClass[t] = held[a].class} = TasksIn(a)
  BY DEF ClassIsOurs, Unmeddled
<1>1. held[a].cores \subseteq Cores
  BY DEF Unmeddled, Holders, TypeOK, Assignment
<1>2. Own(a, held[a], coreClass, alive, taskClass, owner)
  BY DEF OwnInv
<1>3. QED
  BY <1>1, <1>2 DEF Own, CoresIn, TasksIn

(* Moving cores and tasks to another class, or to one that nothing is in   *)
(* and without touching the cores of the assignment, keeps the class of an *)
(* assignment its own.                                                     *)
LEMMA MoveKeepsOwn ==
  ASSUME TypeOK, NEW b \in Apps, NEW cs \in SUBSET Cores, NEW ts \in SUBSET Tasks,
         NEW k \in Classes, NEW n \in Apps \union {NoApp}, n # b,
         Own(b, held[b], coreClass, alive, taskClass, owner),
         \/ k # held[b].class
         \/ /\ held[b].cores \intersect cs = {}
            /\ \A c \in Cores : coreClass[c] # k
            /\ \A t \in alive : taskClass[t] # k
  PROVE  Own(b, held[b], CoresTo(cs, k), alive, TasksTo(ts, k), OwnedBy(ts, n))
<1>1. \A c \in Cores : CoresTo(cs, k)[c] = IF c \in cs THEN k ELSE coreClass[c]
  BY DEF CoresTo
<1>2. \A t \in alive : /\ TasksTo(ts, k)[t] = IF t \in ts THEN k ELSE taskClass[t]
                       /\ OwnedBy(ts, n)[t] = IF t \in ts THEN n ELSE owner[t]
  BY DEF TasksTo, OwnedBy, TypeOK
<1>3. held[b].cores \subseteq Cores
  BY DEF TypeOK, Assignment
<1>4. CASE k # held[b].class
  BY <1>1, <1>2, <1>3, <1>4 DEF Own
<1>5. CASE /\ k = held[b].class
           /\ held[b].cores \intersect cs = {}
           /\ \A c \in Cores : coreClass[c] # k
           /\ \A t \in alive : taskClass[t] # k
  BY <1>1, <1>2, <1>3, <1>5 DEF Own
<1>6. QED
  BY <1>4, <1>5

(* An unused class is not COS0, and nothing on the machine is in it.       *)
LEMMA UnusedIsEmpty ==
  ASSUME NEW a, NEW k, IsFirstUnused(k, a)
  PROVE  /\ k # COS0
         /\ \A c \in Cores : coreClass[c] # k
         /\ \A t \in alive : taskClass[t] # k
BY GroupDirsType DEF IsFirstUnused, Unused

LEMMA AssignOwn ==
  ASSUME IInv, NEW a \in Apps, NEW cs \in SUBSET Cores, NEW ts \in SUBSET Tasks,
         Assign(a, cs, ts)
  PROVE  HeldIsNotCOS0' /\ OwnInv'
<1>1. PICK k \in Classes :
        /\ IsFirstUnused(k, a)
        /\ coreClass' = CoresTo(cs, k)
        /\ taskClass' = TasksTo(ts, k)
        /\ held' = [held EXCEPT ![a] = [cores |-> cs, tasks |-> ts, class |-> k]]
  BY DEF Assign
<1>2. /\ owner' = OwnedBy(ts, a)
      /\ meddled' = meddled \union HoldersOf(cs, ts)
      /\ alive' = alive /\ ts \subseteq alive
  BY DEF Assign
<1>3. /\ k # COS0
      /\ \A c \in Cores : coreClass[c] # k
      /\ \A t \in alive : taskClass[t] # k
  BY <1>1, UnusedIsEmpty
<1>4. /\ held'[a] = [cores |-> cs, tasks |-> ts, class |-> k]
      /\ \A b \in Apps \ {a} : held'[b] = held[b]
  BY <1>1 DEF IInv, TypeOK
<1>5. HeldIsNotCOS0'
  BY <1>3, <1>4 DEF IInv, HeldIsNotCOS0, Holders
<1>6. ASSUME NEW b \in Unmeddled'
      PROVE  Own(b, held'[b], coreClass', alive', taskClass', owner')
  <2>1. CASE b = a
    <3>1. \A c \in Cores : coreClass'[c] = IF c \in cs THEN k ELSE coreClass[c]
      BY <1>1 DEF CoresTo
    <3>2. \A t \in alive : /\ taskClass'[t] = IF t \in ts THEN k ELSE taskClass[t]
                           /\ owner'[t] = IF t \in ts THEN a ELSE owner[t]
      BY <1>1, <1>2 DEF TasksTo, OwnedBy, IInv, TypeOK
    <3>3. QED
      BY <1>2, <1>3, <1>4, <2>1, <3>1, <3>2 DEF Own
  <2>2. CASE b # a
    <3>1. /\ b \in Unmeddled /\ held'[b] = held[b]
          /\ held[b].cores \intersect cs = {}
      BY <1>2, <1>4, <2>2 DEF Unmeddled, HoldersOf, Holders
    <3>2. Own(b, held[b], coreClass, alive, taskClass, owner) /\ b \in Apps
      BY <3>1 DEF IInv, OwnInv, Unmeddled, Holders
    <3>3. TypeOK
      BY DEF IInv
    <3>4. Own(b, held[b], CoresTo(cs, k), alive, TasksTo(ts, k), OwnedBy(ts, a))
      BY <1>3, <2>2, <3>1, <3>2, <3>3, MoveKeepsOwn
    <3>5. QED
      BY <1>1, <1>2, <3>1, <3>4
  <2>3. QED
    BY <2>1, <2>2
<1>7. QED
  BY <1>5, <1>6 DEF OwnInv

LEMMA AssignCutShortOwn ==
  ASSUME IInv, NEW a \in Apps, NEW cs \in SUBSET Cores, NEW ts \in SUBSET Tasks,
         AssignCutShort(a, cs, ts)
  PROVE  HeldIsNotCOS0' /\ OwnInv'
<1>1. PICK k \in Classes : /\ IsFirstUnused(k, a)
                           /\ coreClass' = CoresTo(cs, k)
                           /\ taskClass' = TasksTo(ts, k)
  BY DEF AssignCutShort
<1>2. /\ owner' = OwnedBy(ts, NoApp)
      /\ meddled' = meddled \union HoldersOf(cs, ts)
      /\ alive' = alive /\ held' = held
  BY DEF AssignCutShort
<1>3. HeldIsNotCOS0'
  BY <1>2 DEF IInv, HeldIsNotCOS0, Holders
<1>4. ASSUME NEW b \in Unmeddled'
      PROVE  Own(b, held'[b], coreClass', alive', taskClass', owner')
  <2>1. /\ b \in Unmeddled /\ b \in Apps
        /\ held[b].cores \intersect cs = {}
    BY <1>2 DEF Unmeddled, HoldersOf, Holders
  <2>2. Own(b, held[b], coreClass, alive, taskClass, owner) /\ TypeOK
    BY <2>1 DEF IInv, OwnInv
  <2>3. /\ \A c \in Cores : coreClass[c] # k
        /\ \A t \in alive : taskClass[t] # k
    BY <1>1, UnusedIsEmpty
  <2>4. Own(b, held[b], CoresTo(cs, k), alive, TasksTo(ts, k), OwnedBy(ts, NoApp))
    BY <2>1, <2>2, <2>3, MoveKeepsOwn, NoAppType
  <2>5. QED
    BY <1>1, <1>2, <2>4
<1>5. QED
  BY <1>3, <1>4 DEF OwnInv

LEMMA ReleaseOwn ==
  ASSUME IInv, NEW a \in Apps, NEW ts \in SUBSET Tasks,
         Release(a) \/ ReleaseCutShort(a, ts)
  PROVE  HeldIsNotCOS0' /\ OwnInv'
<1>1. PICK cs \in SUBSET Cores, us \in SUBSET Tasks :
        /\ coreClass' = CoresTo(cs, COS0)
        /\ taskClass' = TasksTo(us, COS0)
        /\ owner' = OwnedBy(us, NoApp)
  <2>1. CASE Release(a)
    <3>1. held[a].cores \in SUBSET Cores /\ held[a].tasks \in SUBSET Tasks
      BY DEF IInv, TypeOK, Assignment
    <3>2. QED
      BY <2>1, <3>1 DEF Release
  <2>2. CASE ReleaseCutShort(a, ts)
    <3>1. coreClass' = CoresTo({}, COS0)
      BY <2>2 DEF ReleaseCutShort, CoresTo, IInv, TypeOK
    <3>2. QED
      BY <2>2, <3>1 DEF ReleaseCutShort
  <2>3. QED
    BY <2>1, <2>2
<1>2. /\ alive' = alive
      /\ Unmeddled' \subseteq Unmeddled
      /\ Holders' \subseteq Holders
      /\ \A b \in Holders' : held'[b] = held[b]
  BY DEF Release, ReleaseCutShort, Unmeddled, Holders, IInv, TypeOK
<1>3. HeldIsNotCOS0'
  BY <1>2 DEF IInv, HeldIsNotCOS0
<1>4. ASSUME NEW b \in Unmeddled'
      PROVE  Own(b, held'[b], coreClass', alive', taskClass', owner')
  <2>1. b \in Unmeddled /\ b \in Apps /\ held'[b] = held[b]
    BY <1>2 DEF Unmeddled, Holders
  <2>2. Own(b, held[b], coreClass, alive, taskClass, owner) /\ TypeOK /\ COS0 # held[b].class
    BY <2>1 DEF IInv, OwnInv, HeldIsNotCOS0, Unmeddled
  <2>3. Own(b, held[b], CoresTo(cs, COS0), alive, TasksTo(us, COS0), OwnedBy(us, NoApp))
    BY <2>1, <2>2, COS0Type, MoveKeepsOwn, NoAppType
  <2>4. QED
    BY <1>1, <1>2, <2>1, <2>3
<1>5. QED
  BY <1>3, <1>4 DEF OwnInv

LEMMA AssocSetOwn ==
  ASSUME IInv, NEW a \in Apps, NEW cs \in SUBSET Cores, NEW ts \in SUBSET Tasks,
         NEW k \in Classes, AssocSet(a, cs, ts, k)
  PROVE  HeldIsNotCOS0' /\ OwnInv'
<1>1. /\ coreClass' = CoresTo(cs, k)
      /\ taskClass' = TasksTo(ts, k)
      /\ owner' = OwnedBy(ts, NoApp)
      /\ meddled' = meddled \union HoldersOf(cs, ts) \union {b \in Holders : held[b].class = k}
      /\ alive' = alive /\ held' = held
  BY DEF AssocSet
<1>2. HeldIsNotCOS0'
  BY <1>1 DEF IInv, HeldIsNotCOS0, Holders
<1>3. ASSUME NEW b \in Unmeddled'
      PROVE  Own(b, held'[b], coreClass', alive', taskClass', owner')
  <2>1. b \in Unmeddled /\ b \in Apps /\ k # held[b].class
    BY <1>1 DEF Unmeddled, Holders
  <2>2. Own(b, held[b], coreClass, alive, taskClass, owner) /\ TypeOK
    BY <2>1 DEF IInv, OwnInv
  <2>3. Own(b, held[b], CoresTo(cs, k), alive, TasksTo(ts, k), OwnedBy(ts, NoApp))
    BY <2>1, <2>2, MoveKeepsOwn, NoAppType
  <2>4. QED
    BY <1>1, <2>3
<1>4. QED
  BY <1>2, <1>3 DEF OwnInv

(* A reset that gets past the unmount takes the class of every holder, and *)
(* one that does not takes the cores of all.                               *)
LEMMA ResetOwn ==
  ASSUME IInv, NEW a \in Apps, NEW cfg \in CdpConfigs,
         \/ Reset(a, cfg) \/ ResetWithoutGroups(a, cfg)
         \/ ResetWithoutMount(a) \/ ResetWithoutUmount(a)
  PROVE  HeldIsNotCOS0' /\ OwnInv'
<1>1. held' = held /\ alive' = alive /\ Holders' = Holders
  BY DEF Reset, ResetWithoutGroups, ResetWithoutMount, ResetWithoutUmount, Holders
<1>2. HeldIsNotCOS0'
  BY <1>1 DEF IInv, HeldIsNotCOS0
<1>3. CASE \/ Reset(a, cfg) \/ ResetWithoutGroups(a, cfg) \/ ResetWithoutMount(a)
  <2>1. Unmeddled' = {}
    BY <1>1, <1>3 DEF Reset, ResetWithoutGroups, ResetWithoutMount, Unmeddled
  <2>2. QED
    BY <1>2, <2>1 DEF OwnInv
<1>4. CASE ResetWithoutUmount(a)
  <2>1. /\ coreClass' = [c \in Cores |-> COS0]
        /\ taskClass' = taskClass /\ owner' = owner
        /\ meddled' = meddled \union HoldersOf(Cores, {})
    BY <1>4 DEF ResetWithoutUmount
  <2>2. ASSUME NEW b \in Unmeddled'
        PROVE  Own(b, held'[b], coreClass', alive', taskClass', owner')
    <3>1. b \in Unmeddled /\ held[b].class # COS0 /\ held[b].cores \subseteq Cores
      BY <1>1, <2>1 DEF Unmeddled, IInv, HeldIsNotCOS0, Holders, TypeOK, Assignment
    <3>2. held[b].cores = {}
      BY <1>1, <2>1, <3>1 DEF Unmeddled, HoldersOf
    <3>3. Own(b, held[b], coreClass, alive, taskClass, owner)
      BY <3>1 DEF IInv, OwnInv
    <3>4. QED
      BY <1>1, <2>1, <3>1, <3>2, <3>3 DEF Own
  <2>3. QED
    BY <1>2, <2>2 DEF OwnInv
<1>5. QED
  BY <1>3, <1>4

LEMMA TasksOwn ==
  ASSUME IInv, NEW t \in Tasks, NEW u \in Tasks, Fork(t, u) \/ TaskEnds(t)
  PROVE  HeldIsNotCOS0' /\ OwnInv'
<1>1. /\ coreClass' = coreClass /\ held' = held /\ meddled' = meddled
      /\ Holders' = Holders /\ Unmeddled' = Unmeddled
  BY DEF Fork, TaskEnds, Holders, Unmeddled
<1>2. HeldIsNotCOS0'
  BY <1>1 DEF IInv, HeldIsNotCOS0
<1>3. ASSUME NEW b \in Unmeddled
      PROVE  Own(b, held[b], coreClass, alive', taskClass', owner')
  <2>1. Own(b, held[b], coreClass, alive, taskClass, owner)
    BY DEF IInv, OwnInv
  <2>2. CASE Fork(t, u)
    <3>1. /\ t \in alive /\ u \notin alive /\ alive' = alive \union {u}
          /\ taskClass'[u] = taskClass[t] /\ owner'[u] = owner[t]
          /\ \A v \in alive : taskClass'[v] = taskClass[v] /\ owner'[v] = owner[v]
      BY <2>2 DEF Fork, IInv, TypeOK
    <3>2. QED
      BY <2>1, <3>1 DEF Own
  <2>3. CASE TaskEnds(t)
    <3>1. /\ alive' = alive \ {t}
          /\ \A v \in alive \ {t} : taskClass'[v] = taskClass[v] /\ owner'[v] = owner[v]
      BY <2>3 DEF TaskEnds, IInv, TypeOK
    <3>2. QED
      BY <2>1, <3>1 DEF Own
  <2>4. QED
    BY <2>2, <2>3
<1>4. QED
  BY <1>1, <1>2, <1>3 DEF OwnInv

LEMMA FiniOwn ==
  ASSUME IInv, NEW a \in Apps, AllocFini(a)
  PROVE  HeldIsNotCOS0' /\ OwnInv'
<1>1. /\ held' = [held EXCEPT ![a] = Nothing]
      /\ owner' = [t \in Tasks |-> IF owner[t] = a THEN NoApp ELSE owner[t]]
      /\ meddled' = meddled \ {a}
      /\ coreClass' = coreClass /\ taskClass' = taskClass /\ alive' = alive
  BY DEF AllocFini, machine
<1>2. /\ Holders' = Holders \ {a} /\ Unmeddled' = Unmeddled \ {a}
      /\ \A b \in Holders' : held'[b] = held[b]
  BY <1>1 DEF Holders, Unmeddled, IInv, TypeOK
<1>3. HeldIsNotCOS0'
  BY <1>2 DEF IInv, HeldIsNotCOS0
<1>4. ASSUME NEW b \in Unmeddled'
      PROVE  Own(b, held'[b], coreClass', alive', taskClass', owner')
  <2>1. b \in Unmeddled /\ b # a /\ b \in Apps /\ held'[b] = held[b]
    BY <1>2 DEF Unmeddled, Holders
  <2>2. Own(b, held[b], coreClass, alive, taskClass, owner) /\ alive \subseteq Tasks
    BY <2>1 DEF IInv, OwnInv, TypeOK
  <2>3. \A t \in alive : owner'[t] = b <=> owner[t] = b
    BY <1>1, <2>1, <2>2, NoAppType
  <2>4. QED
    BY <1>1, <2>1, <2>2, <2>3 DEF Own
<1>5. QED
  BY <1>3, <1>4 DEF OwnInv

LEMMA OwnStep ==
  ASSUME IInv, [Next]_vars
  PROVE  IInv'
<1>1. TypeOK'
  BY TypeStep DEF IInv
<1>2. HeldIsNotCOS0' /\ OwnInv'
  <2>1. CASE Untouched
    BY <2>1 DEF Untouched, IInv, HeldIsNotCOS0, OwnInv, Unmeddled, Holders
  <2>2. CASE UNCHANGED vars
    BY <2>1, <2>2 DEF vars, machine, Untouched
  <2>3. ASSUME NEW a \in Apps,
               \/ AllocInit(a) \/ AllocInitCutShort(a)
               \/ \E k \in Classes : ClassSet(a, k)
        PROVE  HeldIsNotCOS0' /\ OwnInv'
    BY <2>1, <2>3 DEF AllocInit, AllocInitCutShort, ClassSet, Untouched
  <2>4. QED
    BY <2>2, <2>3, AssignOwn, AssignCutShortOwn, ReleaseOwn, AssocSetOwn, ResetOwn, TasksOwn,
       FiniOwn DEF Next, CdpConfigs
<1>3. QED
  BY <1>1, <1>2 DEF IInv

(* A class assigned to a process is its own on the whole machine, for any  *)
(* cores, tasks, processes and numbers of classes, whatever forks, ends,   *)
(* fails half way or is reset.                                             *)
THEOREM ClassIsOursHolds == Spec => []ClassIsOurs
<1>1. Init => IInv
  <2>1. Init => Holders = {}
    BY DEF Init, Holders
  <2>2. QED
    BY <2>1, TypeInit DEF IInv, HeldIsNotCOS0, OwnInv, Unmeddled
<1>2. IInv /\ [Next]_vars => IInv'
  BY OwnStep
<1>3. IInv => ClassIsOurs
  BY OwnIsOurs DEF IInv
<1>4. QED
  BY <1>1, <1>2, <1>3, PTL DEF Spec

-----------------------------------------------------------------------------
(* A process knows the mount and finds all its directories, for any        *)
(* numbers of classes, unless the mount changed behind its back or its own *)
(* reset went wrong.                                                       *)
THEOREM KnowsGroupsHolds == Spec => []KnowsGroups
<1>1. Init => KnowsGroups
  BY DEF Init, KnowsGroups, Initialised
<1>2. TypeOK /\ KnowsGroups /\ [Next]_vars => KnowsGroups'
  <2> SUFFICES ASSUME TypeOK, KnowsGroups, [Next]_vars
               PROVE  KnowsGroups'
    OBVIOUS
  <2>1. CASE UNCHANGED <<mount, groups, cap, unsure>>
    BY <2>1 DEF KnowsGroups, Initialised
  <2>2. ASSUME NEW a \in Apps, AllocInit(a) \/ AllocInitCutShort(a)
        PROVE  KnowsGroups'
    <3>1. ASSUME NEW b \in Initialised', b \notin unsure', b # a
          PROVE  mount' = cap'[b] /\ GroupDirs(cap'[b]) \subseteq groups'
      <4>1. b \in Initialised \ unsure /\ cap'[b] = cap[b]
        BY <2>2, <3>1 DEF AllocInit, AllocInitCutShort, Initialised, TypeOK
      <4>2. mount = cap[b] /\ GroupDirs(cap[b]) \subseteq groups /\ mount \in CdpSettings
        BY <4>1 DEF KnowsGroups, Initialised, TypeOK
      <4>3. mount' = mount /\ groups \subseteq groups'
        BY <2>2, <4>2, SeenCdpType DEF AllocInit, AllocInitCutShort
      <4>4. QED
        BY <4>1, <4>2, <4>3
    <3>2. ASSUME a \in Initialised'
          PROVE  mount' = cap'[a] /\ GroupDirs(cap'[a]) \subseteq groups'
      <4>1. AllocInit(a)
        BY <2>2, <3>2 DEF AllocInitCutShort, Initialised
      <4>2. QED
        BY <4>1 DEF AllocInit, TypeOK
    <3>3. QED
      BY <3>1, <3>2 DEF KnowsGroups
  <2>3. ASSUME NEW a \in Apps, AllocFini(a)
        PROVE  KnowsGroups'
    <3>1. /\ mount' = mount /\ groups' = groups /\ unsure' = unsure \ {a}
          /\ \A b \in Initialised' : b # a /\ b \in Initialised /\ cap'[b] = cap[b]
      BY <2>3 DEF AllocFini, machine, Initialised, TypeOK
    <3>2. QED
      BY <3>1 DEF KnowsGroups
  <2>4. ASSUME NEW a \in Apps, NEW cfg \in CdpConfigs, Reset(a, cfg)
        PROVE  KnowsGroups'
    <3>1. /\ \A b \in Initialised' \ unsure' : b = a
          /\ cap'[a] = CdpMount(a, cfg) /\ mount' = CdpMount(a, cfg)
          /\ groups' = GroupDirs(CdpMount(a, cfg))
      BY <2>4 DEF Reset, Initialised, TypeOK, CapAfterMount, Prep
    <3>2. QED
      BY <3>1 DEF KnowsGroups
  <2>5. ASSUME NEW a \in Apps,
               \/ \E cfg \in CdpConfigs : ResetWithoutGroups(a, cfg)
               \/ ResetWithoutMount(a)
        PROVE  KnowsGroups'
    <3>1. Initialised' \subseteq unsure'
      BY <2>5 DEF ResetWithoutGroups, ResetWithoutMount, Initialised, CapAfterMount, TypeOK
    <3>2. QED
      BY <3>1 DEF KnowsGroups
  <2>6. ASSUME \/ \E a \in Apps : Release(a) \/ ResetWithoutUmount(a)
               \/ \E a \in Apps, cs \in SUBSET Cores, ts \in SUBSET Tasks :
                    Assign(a, cs, ts) \/ AssignCutShort(a, cs, ts)
               \/ \E a \in Apps, ts \in SUBSET Tasks : ReleaseCutShort(a, ts)
               \/ \E a \in Apps, cs \in SUBSET Cores, ts \in SUBSET Tasks, k \in Classes :
                    AssocSet(a, cs, ts, k)
               \/ \E a \in Apps, k \in Classes : ClassSet(a, k)
               \/ \E t, u \in Tasks : Fork(t, u)
               \/ \E t \in Tasks : TaskEnds(t)
               \/ UNCHANGED vars
        PROVE  KnowsGroups'
    BY <2>1, <2>6 DEF Release, ResetWithoutUmount, Assign, AssignCutShort, ReleaseCutShort,
       AssocSet, ClassSet, Fork, TaskEnds, vars, machine
  <2>7. QED
    BY <2>2, <2>3, <2>4, <2>5, <2>6 DEF Next
<1>3. QED
  BY <1>1, <1>2, TypeCorrect, PTL DEF Spec

(* What a successful reset leaves, until the next call. *)
Afresh ==
  fresh # "none" => /\ coreClass = [c \in Cores |-> COS0]
                    /\ \A t \in alive : taskClass[t] = COS0
                    /\ restricted = FALSE
                    /\ mount = fresh
                    /\ groups = GroupDirs(fresh)

(* After a reset that succeeds nothing is in a class, nothing is           *)
(* restricted, and every class of the CDP setting that was asked for can   *)
(* be assigned, for any numbers of classes.                                *)
THEOREM ResetStartsAfreshHolds == Spec => []ResetStartsAfresh
<1>1. Init => Afresh
  BY DEF Init, Afresh
<1>2. TypeOK /\ Afresh /\ [Next]_vars => Afresh'
  <2> SUFFICES ASSUME TypeOK, Afresh, [Next]_vars, fresh' # "none"
               PROVE  Afresh'
    BY DEF Afresh
  <2>1. CASE UNCHANGED vars
    BY <2>1 DEF vars, machine, Afresh
  <2>2. ASSUME NEW a \in Apps, NEW cfg \in CdpConfigs, Reset(a, cfg)
        PROVE  Afresh'
    BY <2>2 DEF Reset, Everywhere0, Prep, Afresh, TypeOK
  <2>3. ASSUME NEW t \in Tasks, NEW u \in Tasks, Fork(t, u)
        PROVE  Afresh'
    BY <2>3 DEF Fork, Afresh, TypeOK
  <2>4. ASSUME NEW t \in Tasks, TaskEnds(t)
        PROVE  Afresh'
    BY <2>4 DEF TaskEnds, Afresh, TypeOK
  <2>5. ASSUME \/ \E a \in Apps : \/ AllocInit(a) \/ AllocInitCutShort(a) \/ AllocFini(a)
                                 \/ Release(a)
                                 \/ ResetWithoutUmount(a) \/ ResetWithoutMount(a)
               \/ \E a \in Apps, cs \in SUBSET Cores, ts \in SUBSET Tasks :
                    Assign(a, cs, ts) \/ AssignCutShort(a, cs, ts)
               \/ \E a \in Apps, ts \in SUBSET Tasks : ReleaseCutShort(a, ts)
               \/ \E a \in Apps, cs \in SUBSET Cores, ts \in SUBSET Tasks, k \in Classes :
                    AssocSet(a, cs, ts, k)
               \/ \E a \in Apps, k \in Classes : ClassSet(a, k)
               \/ \E a \in Apps, cfg \in CdpConfigs : ResetWithoutGroups(a, cfg)
        PROVE  FALSE
    BY <2>5 DEF AllocInit, AllocInitCutShort, AllocFini, Release, ResetWithoutUmount,
       ResetWithoutMount, Assign, AssignCutShort, ReleaseCutShort, AssocSet, ClassSet,
       ResetWithoutGroups
  <2>6. QED
    BY <2>1, <2>2, <2>3, <2>4, <2>5 DEF Next
<1>3. Afresh => ResetStartsAfresh
  <2> SUFFICES ASSUME Afresh, fresh # "none"
               PROVE  ResetStartsAfresh
    BY DEF ResetStartsAfresh
  <2>1. \A k \in GroupDirs(fresh) : /\ \A c \in Cores : coreClass[c] # k
                                    /\ \A t \in alive : taskClass[t] # k
    BY GroupDirsType DEF Afresh
  <2>2. ASSUME NEW a \in Initialised, cap[a] = fresh
        PROVE  Unused(a) = groups /\ ReadsAll(a)
    BY <2>1, <2>2 DEF Afresh, Unused, ReadsAll, Opens
  <2>3. QED
    BY <2>2 DEF Afresh, ResetStartsAfresh
<1>4. QED
  BY <1>1, <1>2, <1>3, TypeCorrect, PTL DEF Spec

-----------------------------------------------------------------------------
(* Monitoring on perf. *)
(* Each step keeps the types. *)
LEMMA MonTypeStep == ASSUME MonTypeOK, [MonNext]_monVars PROVE MonTypeOK'
<1> USE DEF MonTypeOK
<1>1. ASSUME NEW t \in Threads, CallStart(t) PROVE MonTypeOK'
  BY <1>1 DEF CallStart, Calls, group
<1>2. ASSUME NEW t \in Threads, CallOther(t) PROVE MonTypeOK'
  BY <1>2 DEF CallOther, Calls, group
<1>3. ASSUME NEW t \in Threads, StartDeclined(t) PROVE MonTypeOK'
  BY <1>3 DEF StartDeclined, group
<1>4. ASSUME NEW t \in Threads, pc[t].at \in {"start", "opening"} 
      PROVE /\ pc[t].group \in Groups
            /\ pc[t].events \in EventSets
            /\ pc[t].size \in Sizes
  BY <1>4 DEF Calls, Idle
<1>5. ASSUME NEW g \in Groups, NEW E \in EventSets \union {{}}, NEW n \in Sizes \union {0},
             Clear(g, E, n)
      PROVE /\ valid' \subseteq Groups
            /\ event' \in [Groups -> EventSets \union {{}}]
            /\ size' \in [Groups -> Sizes \union {0}]
            /\ fds' \in [Groups -> [Arrays -> SUBSET Fds]]
  <2>1. NoArrays \in [Arrays -> SUBSET Fds]
    BY DEF NoArrays
  <2> QED
    BY <1>5, <2>1 DEF Clear
<1>6. ASSUME NEW g \in Groups PROVE Forgotten(g) \subseteq Fds
  BY DEF Forgotten, FdsOf
<1>7. ASSUME NEW t \in Threads, StartRefused(t) PROVE MonTypeOK'
  BY <1>7, <1>4, <1>5, <1>6 DEF StartRefused
<1>8. ASSUME NEW t \in Threads, StartBegin(t) PROVE MonTypeOK'
  <2>1. pc' \in [Threads -> Calls \union {Idle}]
    BY <1>8, <1>4 DEF StartBegin, Calls, Idle
  <2> QED
    BY <1>8, <1>4, <1>5, <1>6, <2>1 DEF StartBegin
<1>9. ASSUME NEW t \in Threads, OpenArray(t) PROVE MonTypeOK'
  <2> DEFINE g == pc[t].group
  <2>1. g \in Groups
    BY <1>9, <1>4 DEF OpenArray
  <2>2. PICK a \in Arrays, new \in SUBSET (Fds \ open) :
           fds' = [fds EXCEPT ![g][a] = new] /\ open' = open \union new
    BY <1>9 DEF OpenArray
  <2>3. fds' \in [Groups -> [Arrays -> SUBSET Fds]]
    BY <2>1, <2>2
  <2> QED
    BY <1>9, <2>2, <2>3 DEF OpenArray
<1>10. ASSUME NEW t \in Threads, StartDone(t) PROVE MonTypeOK'
  BY <1>10, <1>4 DEF StartDone
<1>11. ASSUME NEW t \in Threads, OpenFails(t) PROVE MonTypeOK'
  <2> DEFINE g == pc[t].group
  <2>1. g \in Groups
    BY <1>11, <1>4 DEF OpenFails
  <2>2. Without(g, StopArrays(Started(g))) \in [Arrays -> SUBSET Fds]
    BY <2>1 DEF Without
  <2>3. FdsOf(g, Arrays) \subseteq Fds
    BY <2>1 DEF FdsOf
  <2>4. PICK new \in SUBSET (Fds \ open) :
           /\ open' = (open \union new) \ FdsOf(g, StopArrays(Started(g)))
           /\ lost' = lost \union new \union (FdsOf(g, Arrays) \ FdsOf(g, StopArrays(Started(g))))
    BY <1>11 DEF OpenFails
  <2>5. open' \subseteq Fds /\ lost' \subseteq Fds
    BY <2>3, <2>4
  <2> QED
    BY <1>11, <2>1, <2>2, <2>5 DEF OpenFails
<1>12. ASSUME NEW t \in Threads, StartUnsupported(t) PROVE MonTypeOK'
  <2>1. pc[t].group \in Groups
    BY <1>12, <1>4 DEF StartUnsupported
  <2>2. FdsOf(pc[t].group, Arrays) \subseteq Fds
    BY <2>1 DEF FdsOf
  <2> QED
    BY <1>12, <2>2 DEF StartUnsupported, group
<1>13. ASSUME NEW t \in Threads, Stop(t) PROVE MonTypeOK'
  <2>1. pc[t].group \in Groups
    BY <1>13 DEF Stop, Calls, Idle
  <2>2. open' \subseteq Fds /\ lost' \subseteq Fds
    BY <1>13 DEF Stop
  <2>3. CASE size[pc[t].group] > 0
    BY <1>13, <1>5, <2>1, <2>2, <2>3 DEF Stop, StopForgets
  <2>4. CASE ~(size[pc[t].group] > 0)
    BY <1>13, <2>2, <2>4 DEF Stop, group
  <2> QED
    BY <2>3, <2>4
<1>14. ASSUME NEW t \in Threads, Poll(t) PROVE MonTypeOK'
  BY <1>14 DEF Poll, group
<1>15. ASSUME NEW t \in Threads, Crash(t) PROVE MonTypeOK'
  BY <1>15 DEF Crash, NoArrays
<1>16. CASE UNCHANGED monVars
  BY <1>16 DEF monVars, group
<1> QED
  BY <1>1, <1>2, <1>3, <1>7, <1>8, <1>9, <1>10, <1>11, <1>12, <1>13, <1>14, <1>15, <1>16 DEF MonNext

(* Every variable keeps its type: the group structure, the descriptors and *)
(* what the threads do.                                                    *)
THEOREM MonTypeCorrect == MonSpec => []MonTypeOK
<1>1. MonInit => MonTypeOK
  <2> SUFFICES ASSUME MonInit, SupportSets \subseteq SUBSET RdtEvents PROVE MonTypeOK
    BY SupportSetsType
  <2> QED
    BY DEF MonInit, MonTypeOK, NoArrays
<1>2. MonTypeOK /\ [MonNext]_monVars => MonTypeOK'
  BY MonTypeStep
<1> QED
  BY <1>1, <1>2, PTL DEF MonSpec

-----------------------------------------------------------------------------
(* The inductive invariant.  The thread that opens has the lock, and its   *)
(* group is not marked.  A live group, marked or being opened, has filled  *)
(* arrays for its own events only; a marked one has filled all, and a      *)
(* group that is not live has left one of them empty, so that a stop or a  *)
(* poll of it touches no descriptor.                                       *)
LockInv == /\ inside # NoThread => pc[inside].at = "opening"
           /\ \A t \in Threads : pc[t].at = "opening" => inside = t
OpeningInv == \A t \in Threads :
  pc[t].at = "opening" => pc[t].group \notin valid /\ size[pc[t].group] \in Sizes
FilledInv == \A g \in Groups, a \in Arrays :
  Live(g) /\ fds[g][a] # {} => a \in Needed(event[g]) /\ Cardinality(fds[g][a]) = size[g]
MarkedInv == \A g \in valid : FindsArrays(g) /\ size[g] \in Sizes
BrokenInv == \A g \in Groups : ~Live(g) /\ size[g] > 0 => ~FindsArrays(g)
ApartInv == \A g, h \in Groups, a, b \in Arrays :
  Live(g) /\ Live(h) /\ <<g, a>> # <<h, b>> => fds[g][a] \intersect fds[h][b] = {}
Remains == \A g \in Groups, a \in Arrays : Live(g) => fds[g][a] \intersect lost = {}
InUse == {f \in Fds : \E g \in Groups, a \in Arrays : Live(g) /\ f \in fds[g][a]}
OpenInv == open = lost \union InUse

MonInv == /\ MonTypeOK /\ LockInv /\ OpeningInv /\ FilledInv /\ MarkedInv /\ BrokenInv
          /\ ApartInv /\ Remains /\ OpenInv

Taken(g) == IF Live(g) THEN FdsOf(g, Arrays) ELSE {}

(* A step that leaves the groups and their openings as they are keeps the  *)
(* invariant.                                                              *)
LEMMA Unmoved ==
  ASSUME MonInv, MonTypeOK', UNCHANGED <<group, open, lost, inside>>,
         \A u \in Threads : /\ pc'[u].at = "opening" <=> pc[u].at = "opening"
                            /\ pc'[u].at = "opening" => pc'[u].group = pc[u].group
  PROVE  MonInv'
<1>1. \A g \in Groups : Live(g)' <=> Live(g)
  BY DEF Live, group
<1>2. LockInv'
  BY DEF MonInv, LockInv, MonTypeOK
<1>3. OpeningInv'
  BY DEF MonInv, OpeningInv, group
<1>4. FilledInv' /\ BrokenInv' /\ ApartInv' /\ Remains' /\ MarkedInv'
  BY <1>1 DEF MonInv, MonTypeOK, FilledInv, BrokenInv, ApartInv, Remains, MarkedInv, FindsArrays, group
<1>5. OpenInv'
  BY <1>1 DEF MonInv, OpenInv, InUse, group
<1> QED
  BY <1>2, <1>3, <1>4, <1>5 DEF MonInv

(* What a live group has is in use and is nobody else's. *)
LEMMA TakenInUse ==
  ASSUME MonInv, NEW g \in Groups
  PROVE  Taken(g) \subseteq InUse /\ Taken(g) \intersect lost = {}
BY DEF MonInv, MonTypeOK, Taken, FdsOf, InUse, Remains

(* A group whose arrays are emptied takes its descriptors out of use, and  *)
(* only those.                                                             *)
LEMMA Withdrawn ==
  ASSUME MonInv, NEW g \in Groups,
         \A h \in Groups \ {g} : /\ Live(h)' <=> Live(h)
                                 /\ fds'[h] = fds[h]
                                 /\ event'[h] = event[h]
                                 /\ size'[h] = size[h],
         Live(g)' => \A a \in Arrays : fds'[g][a] = {}
  PROVE  /\ InUse' = InUse \ Taken(g)
         /\ FilledInv'
         /\ ApartInv'
<1>1. FilledInv'
  BY DEF MonInv, FilledInv
<1>2. ApartInv'
  <2> SUFFICES ASSUME NEW h \in Groups, NEW k \in Groups, NEW a \in Arrays, NEW b \in Arrays,
                      Live(h)', Live(k)', <<h, a>> # <<k, b>>
               PROVE  fds'[h][a] \intersect fds'[k][b] = {}
    BY DEF ApartInv
  <2>1. CASE h = g \/ k = g
    BY <2>1
  <2>2. CASE h # g /\ k # g
    BY <2>2 DEF MonInv, ApartInv
  <2> QED
    BY <2>1, <2>2
<1>3. InUse' \subseteq InUse \ Taken(g)
  <2> SUFFICES ASSUME NEW f \in InUse' PROVE f \in InUse /\ f \notin Taken(g)
    OBVIOUS
  <2>1. PICK h \in Groups, a \in Arrays : Live(h)' /\ f \in fds'[h][a] /\ f \in Fds
    BY DEF InUse
  <2>2. h # g
    BY <2>1
  <2>3. Live(h) /\ f \in fds[h][a]
    BY <2>1, <2>2
  <2>4. f \in InUse
    BY <2>1, <2>3 DEF InUse
  <2>5. ASSUME f \in Taken(g) PROVE FALSE
    <3>1. PICK b \in Arrays : Live(g) /\ f \in fds[g][b]
      BY <2>5 DEF Taken, FdsOf
    <3> QED
      BY <3>1, <2>2, <2>3 DEF MonInv, ApartInv
  <2> QED
    BY <2>4, <2>5
<1>4. InUse \ Taken(g) \subseteq InUse'
  <2> SUFFICES ASSUME NEW f \in InUse, f \notin Taken(g) PROVE f \in InUse'
    OBVIOUS
  <2>1. PICK h \in Groups, a \in Arrays : Live(h) /\ f \in fds[h][a] /\ f \in Fds
    BY DEF InUse
  <2>2. h # g
    BY <2>1 DEF Taken, FdsOf
  <2> QED
    BY <2>1, <2>2 DEF InUse
<1> QED
  BY <1>1, <1>2, <1>3, <1>4

(* Nobody opens while the lock is free. *)
LEMMA FreeLock ==
  ASSUME MonInv, inside = NoThread
  PROVE  /\ \A u \in Threads : pc[u].at # "opening"
         /\ \A h \in Groups : Live(h) <=> h \in valid
BY NoThreadType DEF MonInv, LockInv, Live

(* A start clears its group, whether or not it goes on to open arrays. *)
LEMMA StartStep ==
  ASSUME MonInv, MonTypeOK', NEW t \in Threads, StartBegin(t) \/ StartRefused(t)
  PROVE  MonInv'
<1>0. /\ pc[t].group \in Groups
      /\ pc[t].size \in Sizes
      /\ inside = NoThread
      /\ pc[t].at = "start"
  BY DEF StartBegin, StartRefused, MonInv, MonTypeOK, Calls, Idle
<1>1. PICK g \in Groups : /\ g = pc[t].group
                          /\ pc[t].size \in Sizes
                          /\ inside = NoThread
                          /\ pc[t].at = "start"
  BY <1>0
<1>2. \A u \in Threads : pc[u].at # "opening"
  BY <1>1, FreeLock
<1>3. \A h \in Groups : Live(h) <=> h \in valid
  BY <1>1, FreeLock
<1>4. /\ valid' = valid \ {g}
      /\ fds'[g] = NoArrays
      /\ \A h \in Groups \ {g} : fds'[h] = fds[h] /\ event'[h] = event[h] /\ size'[h] = size[h]
      /\ lost' = lost \union Taken(g)
      /\ open' = open
  BY <1>1, <1>3 DEF StartBegin, StartRefused, Clear, Forgotten, Taken, MonInv, MonTypeOK
<1>5. \/ StartBegin(t) /\ pc'[t].at = "opening" /\ pc'[t].group = g /\ size'[g] = pc[t].size
      \/ StartRefused(t) /\ pc'[t] = Idle /\ size'[g] = 0
  <2>1. CASE StartBegin(t)
    BY <1>1, <2>1 DEF StartBegin, Clear, MonInv, MonTypeOK, Calls
  <2>2. CASE StartRefused(t)
    BY <1>1, <2>2 DEF StartRefused, Clear, MonInv, MonTypeOK
  <2> QED
    BY <2>1, <2>2
<1>6. \A u \in Threads \ {t} : pc'[u] = pc[u]
  BY DEF StartBegin, StartRefused, MonInv, MonTypeOK
<1>7. \A h \in Groups \ {g} : Live(h)' <=> Live(h)
  BY <1>1, <1>2, <1>3, <1>4, <1>5, <1>6 DEF Live, Idle
<1>8. Live(g)' \/ size'[g] = 0
  BY <1>5 DEF Live
<1>9. InUse' = InUse \ Taken(g) /\ FilledInv' /\ ApartInv'
  BY <1>1, <1>4, <1>7, Withdrawn DEF NoArrays
<1>10. LockInv'
  BY <1>1, <1>2, <1>5, <1>6 DEF LockInv, Idle, StartBegin, StartRefused, MonInv, MonTypeOK
<1>11. OpeningInv'
  BY <1>1, <1>2, <1>4, <1>5, <1>6 DEF OpeningInv, Idle, MonInv, MonTypeOK
<1>12. MarkedInv'
  <2> SUFFICES ASSUME NEW h \in valid' PROVE FindsArrays(h)' /\ size'[h] \in Sizes
    BY DEF MarkedInv
  <2>1. h \in valid /\ h \in Groups \ {g}
    BY <1>4 DEF MonInv, MonTypeOK
  <2> QED
    BY <1>4, <2>1 DEF MonInv, MarkedInv, FindsArrays
<1>13. BrokenInv'
  <2> SUFFICES ASSUME NEW h \in Groups, ~Live(h)', size'[h] > 0 PROVE ~FindsArrays(h)'
    BY DEF BrokenInv
  <2>1. h # g
    BY <1>8
  <2> QED
    BY <1>4, <1>7, <2>1 DEF MonInv, BrokenInv, FindsArrays
<1>14. Remains'
  <2> SUFFICES ASSUME NEW h \in Groups, NEW a \in Arrays, Live(h)'
               PROVE  fds'[h][a] \intersect lost' = {}
    BY DEF Remains
  <2>1. CASE h = g
    BY <2>1, <1>4 DEF NoArrays
  <2>2. CASE h # g
    <3>1. Live(h) /\ fds'[h] = fds[h]
      BY <2>2, <1>4, <1>7
    <3>2. fds[h][a] \intersect Taken(g) = {}
      BY <3>1, <2>2, <1>1 DEF MonInv, ApartInv, Taken, FdsOf
    <3> QED
      BY <3>1, <3>2, <1>4 DEF MonInv, Remains
  <2> QED
    BY <2>1, <2>2
<1>15. OpenInv'
  BY <1>1, <1>4, <1>9, TakenInUse DEF MonInv, OpenInv
<1> QED
  BY <1>9, <1>10, <1>11, <1>12, <1>13, <1>14, <1>15 DEF MonInv

(* An array that is opened adds descriptors nobody has. *)
LEMMA OpenStep ==
  ASSUME MonInv, MonTypeOK', NEW t \in Threads, OpenArray(t)
  PROVE  MonInv'
<1>0. pc[t].group \in Groups
  BY DEF OpenArray, MonInv, MonTypeOK, Calls, Idle
<1>1. PICK g \in Groups : /\ g = pc[t].group
                          /\ pc[t].at = "opening"
                          /\ inside = t
                          /\ UNCHANGED <<valid, event, size, lost, pc, inside>>
  BY <1>0 DEF OpenArray
<1>2. PICK a \in Arrays, new \in SUBSET (Fds \ open) :
        /\ IsNext(g, a)
        /\ Cardinality(new) = size[g]
        /\ fds' = [fds EXCEPT ![g][a] = new]
        /\ open' = open \union new
  BY <1>1 DEF OpenArray, IsLowest
<1>3. Live(g) /\ g \notin valid /\ size[g] \in Sizes
  BY <1>1 DEF Live, MonInv, OpeningInv
<1>4. \A h \in Groups : Live(h)' <=> Live(h)
  BY <1>1 DEF Live
<1>5. new # {}
  BY <1>2, <1>3, SizesType, FS_EmptySet
<1>6. \A h \in Groups, b \in Arrays :
        fds'[h][b] = IF h = g /\ b = a THEN new ELSE fds[h][b]
  BY <1>1, <1>2 DEF MonInv, MonTypeOK
<1>7. LockInv' /\ OpeningInv'
  BY <1>1 DEF MonInv, LockInv, OpeningInv
<1>8. FilledInv'
  BY <1>1, <1>2, <1>4, <1>6 DEF MonInv, FilledInv, IsNext
<1>9. MarkedInv'
  BY <1>1, <1>3, <1>6 DEF MonInv, MarkedInv, FindsArrays, MonTypeOK, Needed
<1>10. BrokenInv'
  BY <1>1, <1>3, <1>4, <1>6 DEF MonInv, BrokenInv, FindsArrays, Needed
<1>11. \A h \in Groups, b \in Arrays : Live(h) => fds[h][b] \subseteq open
  BY DEF MonInv, OpenInv, InUse, MonTypeOK
<1>12. ApartInv'
  BY <1>4, <1>6, <1>11, <1>2 DEF MonInv, ApartInv
<1>13. lost \subseteq open
  BY DEF MonInv, OpenInv
<1>14. Remains'
  BY <1>1, <1>2, <1>4, <1>6, <1>13 DEF MonInv, Remains
<1>15. InUse' = InUse \union new
  <2>1. new \subseteq InUse'
    BY <1>1, <1>2, <1>3, <1>4, <1>6 DEF InUse
  <2>2. InUse \subseteq InUse'
    BY <1>1, <1>2, <1>4, <1>6 DEF InUse, IsNext
  <2>3. InUse' \subseteq InUse \union new
    BY <1>4, <1>6 DEF InUse
  <2> QED
    BY <2>1, <2>2, <2>3
<1>16. OpenInv'
  BY <1>1, <1>2, <1>15 DEF MonInv, OpenInv
<1> QED
  BY <1>7, <1>8, <1>9, <1>10, <1>12, <1>14, <1>16 DEF MonInv

(* A group is marked when all its arrays are filled. *)
LEMMA DoneStep ==
  ASSUME MonInv, MonTypeOK', NEW t \in Threads, StartDone(t)
  PROVE  MonInv'
<1>0. pc[t].group \in Groups
  BY DEF StartDone, MonInv, MonTypeOK, Calls, Idle
<1>1. PICK g \in Groups : /\ g = pc[t].group
                          /\ pc[t].at = "opening"
                          /\ inside = t
                          /\ valid' = valid \union {g}
                          /\ UNCHANGED <<event, size, fds, open, lost>>
  BY <1>0 DEF StartDone
<1>2. pc'[t].at = "idle" /\ (\A u \in Threads \ {t} : pc'[u] = pc[u] /\ pc[u].at # "opening")
  BY <1>1 DEF StartDone, Idle, MonInv, MonTypeOK, LockInv
<1>3. \A h \in Groups : Live(h)' <=> Live(h)
  BY <1>1, <1>2 DEF Live
<1>4. LockInv' /\ OpeningInv'
  BY <1>2, NoThreadType DEF StartDone, LockInv, OpeningInv
<1>5. FilledInv' /\ BrokenInv' /\ ApartInv' /\ Remains'
  BY <1>1, <1>3 DEF MonInv, FilledInv, BrokenInv, ApartInv, Remains, FindsArrays
<1>6. MarkedInv'
  BY <1>1 DEF MonInv, MarkedInv, OpeningInv, FindsArrays, StartDone
<1>7. OpenInv'
  BY <1>1, <1>3 DEF MonInv, OpenInv, InUse
<1> QED
  BY <1>4, <1>5, <1>6, <1>7 DEF MonInv

(* What is common to the steps after which a group is not live any more.   *)
LEMMA Ended ==
  ASSUME MonInv, MonTypeOK', NEW g \in Groups,
         valid' = valid \ {g},
         \A h \in Groups \ {g} : /\ fds'[h] = fds[h]
                                 /\ event'[h] = event[h]
                                 /\ size'[h] = size[h],
         inside' = NoThread,
         \A u \in Threads : pc'[u].at # "opening",
         \A u \in Threads : pc[u].at = "opening" => pc[u].group = g,
         size'[g] > 0 => ~FindsArrays(g)',
         NEW new \in SUBSET (Fds \ open),
         NEW left \in SUBSET Taken(g),
         lost' = lost \union new \union left,
         open' = (open \ Taken(g)) \union new \union left
  PROVE  MonInv'
<1>1. \A h \in Groups : Live(h)' <=> h \in valid'
  BY DEF Live
<1>2. ~Live(g)'
  BY <1>1
<1>3. \A h \in Groups \ {g} : Live(h)' <=> Live(h)
  BY <1>1 DEF Live
<1>4. InUse' = InUse \ Taken(g) /\ FilledInv' /\ ApartInv'
  BY <1>2, <1>3, Withdrawn
<1>5. LockInv' /\ OpeningInv'
  BY DEF LockInv, OpeningInv
<1>6. MarkedInv'
  <2> SUFFICES ASSUME NEW h \in valid' PROVE FindsArrays(h)' /\ size'[h] \in Sizes
    BY DEF MarkedInv
  <2>1. h \in valid /\ h \in Groups \ {g}
    BY DEF MonInv, MonTypeOK
  <2> QED
    BY <2>1 DEF MonInv, MarkedInv, FindsArrays
<1>7. BrokenInv'
  <2> SUFFICES ASSUME NEW h \in Groups, ~Live(h)', size'[h] > 0 PROVE ~FindsArrays(h)'
    BY DEF BrokenInv
  <2>1. CASE h = g
    BY <2>1
  <2>2. CASE h # g
    BY <2>2, <1>3 DEF MonInv, BrokenInv, FindsArrays
  <2> QED
    BY <2>1, <2>2
<1>8. Remains'
  <2> SUFFICES ASSUME NEW h \in Groups, NEW a \in Arrays, Live(h)'
               PROVE  fds'[h][a] \intersect lost' = {}
    BY DEF Remains
  <2>1. h # g /\ Live(h) /\ fds'[h] = fds[h]
    BY <1>2, <1>3
  <2>2. fds[h][a] \intersect Taken(g) = {}
    BY <2>1 DEF MonInv, ApartInv, Taken, FdsOf
  <2>3. fds[h][a] \subseteq open
    BY <2>1 DEF MonInv, OpenInv, InUse, MonTypeOK
  <2> QED
    BY <2>1, <2>2, <2>3 DEF MonInv, Remains
<1>9. OpenInv'
  BY <1>4, TakenInUse DEF MonInv, OpenInv
<1> QED
  BY <1>4, <1>5, <1>6, <1>7, <1>8, <1>9 DEF MonInv

(* A start that fails: the events that were started are closed, the rest   *)
(* stays open, and an array that was needed has remained empty.            *)
LEMMA FailStep ==
  ASSUME MonInv, MonTypeOK', NEW t \in Threads, OpenFails(t) \/ StartUnsupported(t)
  PROVE  MonInv'
<1>0. pc[t].group \in Groups
  BY DEF OpenFails, StartUnsupported, MonInv, MonTypeOK, Calls, Idle
<1>1. PICK g \in Groups : /\ g = pc[t].group
                          /\ pc[t].at = "opening"
                          /\ inside = t
                          /\ inside' = NoThread
                          /\ pc' = [pc EXCEPT ![t] = Idle]
                          /\ UNCHANGED <<valid, event, size>>
  BY <1>0 DEF OpenFails, StartUnsupported, group
<1>2. Live(g) /\ g \notin valid
  BY <1>1 DEF Live, MonInv, OpeningInv
<1>3. Taken(g) = FdsOf(g, Arrays) /\ Taken(g) \subseteq open /\ Taken(g) \intersect lost = {}
  BY <1>2, TakenInUse DEF Taken, MonInv, OpenInv
<1>4. /\ \A u \in Threads : pc'[u].at # "opening"
      /\ \A u \in Threads : pc[u].at = "opening" => pc[u].group = g
  BY <1>1 DEF MonInv, LockInv, MonTypeOK, Idle
<1>5. CASE OpenFails(t)
  <2> DEFINE closed == FdsOf(g, StopArrays(Started(g)))
  <2>1. PICK a \in Arrays, new \in SUBSET (Fds \ open) :
          /\ IsNext(g, a)
          /\ open' = (open \union new) \ closed
          /\ lost' = lost \union new \union (FdsOf(g, Arrays) \ closed)
    BY <1>1, <1>5 DEF OpenFails
  <2>2. closed \subseteq Taken(g)
    BY <1>3 DEF FdsOf, StopArrays, Needed
  <2>3. fds' = [fds EXCEPT ![g] = Without(g, StopArrays(Started(g)))]
    BY <1>1, <1>5 DEF OpenFails
  <2>4. \A h \in Groups \ {g} : fds'[h] = fds[h]
    BY <2>3 DEF MonInv, MonTypeOK
  <2>5. fds'[g][a] = {} /\ a \in Needed(event[g])
    BY <2>1, <2>3 DEF Without, IsNext, MonInv, MonTypeOK
  <2>6. ~FindsArrays(g)'
    BY <1>1, <2>5 DEF FindsArrays
  <2>7. PICK left \in SUBSET Taken(g) : left = Taken(g) \ closed
    OBVIOUS
  <2>8. lost' = lost \union new \union left
    BY <2>1, <2>7, <1>3
  <2>9. open' = (open \ Taken(g)) \union new \union left
    BY <2>1, <2>2, <2>7, <1>3
  <2>10. valid' = valid \ {g}
    BY <1>1, <1>2
  <2> HIDE DEF closed
  <2> QED
    BY <1>1, <1>4, <2>4, <2>6, <2>8, <2>9, <2>10, Ended
<1>6. CASE StartUnsupported(t)
  <2>1. PICK a \in Arrays : IsNext(g, a)
    BY <1>1, <1>6 DEF StartUnsupported
  <2>2. fds' = fds /\ open' = open /\ lost' = lost \union FdsOf(g, Arrays)
    BY <1>1, <1>6 DEF StartUnsupported, group
  <2>3. ~FindsArrays(g)'
    BY <1>1, <2>1, <2>2 DEF FindsArrays, IsNext
  <2>4. PICK new \in SUBSET (Fds \ open) : new = {}
    OBVIOUS
  <2>5. PICK left \in SUBSET Taken(g) : left = Taken(g)
    OBVIOUS
  <2>6. lost' = lost \union new \union left
    BY <2>2, <2>4, <2>5, <1>3
  <2>7. open' = (open \ Taken(g)) \union new \union left
    BY <2>2, <2>4, <2>5, <1>3
  <2>8. valid' = valid \ {g}
    BY <1>1, <1>2
  <2> QED
    BY <1>1, <1>4, <2>2, <2>3, <2>6, <2>7, <2>8, Ended
<1> QED
  BY <1>5, <1>6

(* A stop that gets to work finds its group running, whoever started it,   *)
(* and closes all of its descriptors.                                      *)
LEMMA StopStep ==
  ASSUME MonInv, MonTypeOK', NEW t \in Threads, Stop(t)
  PROVE  MonInv'
<1>0. pc[t].group \in Groups
  BY DEF Stop, MonInv, MonTypeOK, Calls, Idle
<1>1. PICK g \in Groups : /\ g = pc[t].group
                          /\ inside = NoThread
                          /\ pc' = [pc EXCEPT ![t] = Idle]
                          /\ UNCHANGED <<lost, inside>>
  BY <1>0 DEF Stop
<1>2. \A u \in Threads : pc[u].at # "opening" /\ pc'[u].at # "opening"
  BY <1>1, FreeLock DEF Idle, MonInv, MonTypeOK
<1>3. CASE size[g] > 0
  <2>1. FindsArrays(g)
    BY <1>1, <1>3 DEF Stop
  <2>2. g \in valid /\ Live(g)
    BY <1>1, <1>3, <2>1, FreeLock DEF MonInv, BrokenInv
  <2>3. Clear(g, {}, 0) /\ open' = open \ FdsOf(g, StopArrays(event[g]))
    BY <1>1, <1>3 DEF Stop, StopForgets
  <2>4. Taken(g) = FdsOf(g, StopArrays(event[g]))
    <3>1. \A a \in Arrays : fds[g][a] # {} => a \in Needed(event[g])
      BY <2>2 DEF MonInv, FilledInv
    <3> QED
      BY <2>2, <3>1 DEF Taken, FdsOf, StopArrays, Needed
  <2>5. /\ valid' = valid \ {g}
        /\ size'[g] = 0
        /\ \A h \in Groups \ {g} : fds'[h] = fds[h] /\ event'[h] = event[h] /\ size'[h] = size[h]
    BY <2>3 DEF Clear, MonInv, MonTypeOK
  <2>6. PICK new \in SUBSET (Fds \ open) : new = {}
    OBVIOUS
  <2>7. PICK left \in SUBSET Taken(g) : left = {}
    OBVIOUS
  <2>8. lost' = lost \union new \union left /\ open' = (open \ Taken(g)) \union new \union left
    BY <1>1, <2>3, <2>4, <2>6, <2>7
  <2>9. size'[g] > 0 => ~FindsArrays(g)'
    BY <2>5
  <2>10. /\ inside' = NoThread
         /\ \A u \in Threads : pc'[u].at # "opening"
         /\ \A u \in Threads : pc[u].at = "opening" => pc[u].group = g
    BY <1>1, <1>2
  <2> QED
    BY <2>5, <2>8, <2>9, <2>10, Ended
<1>4. CASE ~(size[g] > 0)
  BY <1>1, <1>2, <1>4, Unmoved DEF Stop
<1> QED
  BY <1>3, <1>4

(* After a crash there is nothing left. *)
LEMMA CrashStep ==
  ASSUME MonInv, MonTypeOK', NEW t \in Threads, Crash(t)
  PROVE  MonInv'
<1>1. \A u \in Threads : pc'[u].at # "opening"
  BY DEF Crash, Idle
<1>2. \A h \in Groups : ~Live(h)'
  BY <1>1 DEF Crash, Live
<1>3. LockInv' /\ OpeningInv' /\ MarkedInv' /\ BrokenInv'
  BY <1>1 DEF Crash, LockInv, OpeningInv, MarkedInv, BrokenInv
<1>4. FilledInv' /\ ApartInv' /\ Remains'
  BY <1>2 DEF FilledInv, ApartInv, Remains
<1>5. InUse' = {}
  BY <1>2 DEF InUse
<1>6. OpenInv'
  BY <1>5 DEF OpenInv, Crash
<1> QED
  BY <1>3, <1>4, <1>6 DEF MonInv

(* The invariant holds in every reachable state. *)
THEOREM Invariance == MonSpec => []MonInv
<1>1. MonInit => MonInv
  <2> SUFFICES ASSUME MonInit PROVE MonInv
    OBVIOUS
  <2>1. MonTypeOK
    BY SupportSetsType DEF MonInit, MonTypeOK, NoArrays
  <2>2. \A h \in Groups : ~Live(h)
    BY DEF MonInit, Live, Idle
  <2>3. LockInv /\ OpeningInv /\ MarkedInv /\ BrokenInv
    BY DEF MonInit, Idle, LockInv, OpeningInv, MarkedInv, BrokenInv
  <2>4. FilledInv /\ ApartInv /\ Remains
    BY <2>2 DEF FilledInv, ApartInv, Remains
  <2>5. InUse = {}
    BY <2>2 DEF InUse
  <2> QED
    BY <2>1, <2>3, <2>4, <2>5 DEF MonInv, OpenInv, MonInit
<1>2. MonInv /\ [MonNext]_monVars => MonInv'
  <2> SUFFICES ASSUME MonInv, [MonNext]_monVars PROVE MonInv'
    OBVIOUS
  <2>1. MonTypeOK'
    BY MonTypeStep DEF MonInv
  <2>2. ASSUME NEW t \in Threads, CallStart(t) PROVE MonInv'
    BY <2>1, <2>2, Unmoved DEF CallStart, Idle, MonInv, MonTypeOK
  <2>3. ASSUME NEW t \in Threads, CallOther(t) PROVE MonInv'
    BY <2>1, <2>3, Unmoved DEF CallOther, Idle, MonInv, MonTypeOK
  <2>4. ASSUME NEW t \in Threads, StartDeclined(t) PROVE MonInv'
    BY <2>1, <2>4, Unmoved DEF StartDeclined, Idle, MonInv, MonTypeOK
  <2>5. ASSUME NEW t \in Threads, Poll(t) PROVE MonInv'
    BY <2>1, <2>5, Unmoved DEF Poll, Idle, MonInv, MonTypeOK
  <2>6. CASE UNCHANGED monVars
    BY <2>1, <2>6, Unmoved DEF monVars
  <2> QED
    BY <2>1, <2>2, <2>3, <2>4, <2>5, <2>6, StartStep, OpenStep, DoneStep, FailStep,
       StopStep, CrashStep DEF MonNext
<1> QED
  BY <1>1, <1>2, PTL DEF MonSpec

(* The descriptors of a group that runs are complete, open and its own.    *)
THEOREM CountersAreOursHolds == MonSpec => []CountersAreOurs
<1>1. MonInv => CountersAreOurs
  <2> SUFFICES ASSUME MonInv PROVE CountersAreOurs
    OBVIOUS
  <2>1. \A g \in valid : \A a \in Needed(event[g]) :
          fds[g][a] \subseteq open /\ Cardinality(fds[g][a]) = size[g]
    BY DEF MonInv, MonTypeOK, MarkedInv, FindsArrays, FilledInv, OpenInv, InUse, Live, Needed
  <2> QED
    BY <2>1 DEF CountersAreOurs, MonInv, ApartInv
<1> QED
  BY <1>1, Invariance, PTL

(* A descriptor that is open belongs to a live group or to what a failed   *)
(* start left behind, and never to both.                                   *)
THEOREM EveryFdAccountedHolds == MonSpec => []EveryFdAccounted
<1>1. MonInv => EveryFdAccounted
  <2> SUFFICES ASSUME MonInv PROVE EveryFdAccounted
    OBVIOUS
  <2>1. InUse = UNION {fds[h][a] : h \in {g \in Groups : Live(g)}, a \in Arrays}
    BY DEF InUse, MonInv, MonTypeOK
  <2>2. \A g \in Groups : Live(g) => FdsOf(g, Arrays) \intersect lost = {}
    BY DEF MonInv, Remains, FdsOf
  <2> QED
    BY <2>1, <2>2 DEF EveryFdAccounted, MonInv, OpenInv
<1> QED
  BY <1>1, Invariance, PTL
=============================================================================
