---------------------------- MODULE OsAllocation ----------------------------
(***************************************************************************)
(* Allocation over the OS interface: lib/os_allocation.c on top of         *)
(* lib/resctrl_alloc.c, the files of the resctrl file system.              *)
(*                                                                         *)
(* A class of service is a directory; the kernel knows which cores and     *)
(* which tasks are in it.  The library keeps nothing but what it believes  *)
(* of CDP, from pqos_init on, and that decides how many directories it     *)
(* expects.  A call is one action, with the places it can be cut short;    *)
(* calls are kept apart by the API lock (ApiLock).  Tasks fork and end at  *)
(* any time.  CDP and the mount are "on", "off" or "none".                 *)
(***************************************************************************)
EXTENDS Naturals, FiniteSets

CONSTANTS Cores,        \* logical cores
          Tasks,        \* task ids
          Apps,         \* processes that use the library
          L3Cos,        \* L3 classes without CDP
          L2Cos,        \* L2 classes, 0 without L2 CAT
          MbaCos,       \* MBA classes, 0 without MBA
          NoApp         \* nobody

ASSUME CosType == L3Cos \in Nat /\ L2Cos \in Nat /\ MbaCos \in Nat /\ L3Cos >= 2
ASSUME NoAppType == NoApp \notin Apps

VARIABLES mount,        \* how resctrl is mounted
          groups,       \* class directories besides the root
          coreClass,    \* class of each core
          alive,        \* tasks that exist
          taskClass,    \* class of each task
          restricted,      \* some schemata is not the default one
          cap,          \* the CDP setting each process believes in
          held,         \* what each process believes it was assigned
          owner,        \* history: the process on whose behalf a task, or
                        \*   the one it was forked from, is in its class
          meddled,      \* history: holders whose cores or tasks somebody
                        \*   moved, or whose class somebody else used by hand
          unsure,       \* history: processes behind whose back the mount
                        \*   changed, or whose own reset went wrong
          fresh         \* history: the CDP setting of the reset that has just
                        \*   succeeded

machine == <<mount, groups, coreClass, taskClass, restricted>>
vars == <<machine, alive, cap, held, owner, meddled, unsure, fresh>>

COS0 == 0

Classes == 0 .. L3Cos - 1
CdpSettings == {"on", "off"}
CdpConfigs == {"on", "off", "any"}

Assignment == [cores : SUBSET Cores, tasks : SUBSET Tasks, class : Classes]
Nothing == [cores |-> {}, tasks |-> {}, class |-> COS0]

Initialised == {a \in Apps : cap[a] # "none"}
Holders == {a \in Apps : held[a] # Nothing}
HoldersOf(cs, ts) ==
  {a \in Holders : held[a].cores \intersect cs # {} \/ held[a].tasks \intersect ts # {}}

-----------------------------------------------------------------------------
(* _pqos_cap_l3cdp_change: CDP takes two mask registers per class. *)
L3Classes(cdp) == IF cdp = "on" THEN L3Cos \div 2 ELSE L3Cos

(* resctrl_alloc_get_grps_num: the classes that every technology has. *)
InEveryTechnology(k, cdp) == /\ k < L3Classes(cdp)
                             /\ L2Cos > 0 => k < L2Cos
                             /\ MbaCos > 0 => k < MbaCos
Grps(cdp) == {k \in Classes : InEveryTechnology(k, cdp)}
GroupDirs(cdp) == Grps(cdp) \ {COS0}

(* resctrl_alloc_fopen on a file of a class. *)
Opens(k) == mount # "none" /\ (k = COS0 \/ k \in groups)

(* get_unused_cos looks into every directory it expects, for cores and for *)
(* tasks, and fails when one is missing.                                   *)
ReadsAll(a) == \A k \in GroupDirs(cap[a]) : Opens(k)
UnusedByCores(a) == {k \in GroupDirs(cap[a]) : \A c \in Cores : coreClass[c] # k}
Unused(a) == {k \in GroupDirs(cap[a]) : /\ \A c \in Cores : coreClass[c] # k
                                        /\ \A t \in alive : taskClass[t] # k}
IsFirstUnused(k, a) == k \in Unused(a) /\ \A j \in Unused(a) : j <= k

(* What resctrl_alloc_cpumask_write and resctrl_alloc_task_write leave     *)
(* behind.  A task that does not exist is not written.                     *)
CoresTo(cs, k) == [c \in Cores |-> IF c \in cs THEN k ELSE coreClass[c]]
TasksTo(ts, k) == [t \in Tasks |-> IF t \in ts \intersect alive THEN k ELSE taskClass[t]]
OwnedBy(ts, a) == [t \in Tasks |-> IF t \in ts \intersect alive THEN a ELSE owner[t]]

Everywhere0 == /\ coreClass' = [c \in Cores |-> COS0]
               /\ taskClass' = [t \in Tasks |-> COS0]
               /\ owner' = [t \in Tasks |-> NoApp]
               /\ restricted' = FALSE

Init == /\ mount = "none"
        /\ groups = {}
        /\ coreClass = [c \in Cores |-> COS0]
        /\ alive \in SUBSET Tasks
        /\ taskClass = [t \in Tasks |-> COS0]
        /\ restricted = FALSE
        /\ cap = [a \in Apps |-> "none"]
        /\ held = [a \in Apps |-> Nothing]
        /\ owner = [t \in Tasks |-> NoApp]
        /\ meddled = {}
        /\ unsure = {}
        /\ fresh = "none"

-----------------------------------------------------------------------------
(* CDP as the process reads it from the hardware: off without a mount. *)
SeenCdp == IF mount = "on" THEN "on" ELSE "off"

(* os_alloc_init: mounts resctrl when nobody has, and makes the class      *)
(* directories that are missing.                                           *)
AllocInit(a) ==
  /\ cap[a] = "none"
  /\ mount' = SeenCdp
  /\ groups' = groups \union GroupDirs(SeenCdp)
  /\ cap' = [cap EXCEPT ![a] = SeenCdp]
  /\ fresh' = "none"
  /\ UNCHANGED <<coreClass, alive, taskClass, restricted, held, owner, meddled, unsure>>

(* A directory cannot be made: pqos_init fails, what was made stays. *)
AllocInitCutShort(a) ==
  /\ cap[a] = "none"
  /\ mount' = SeenCdp
  /\ \E last \in GroupDirs(SeenCdp) \ groups :
       groups' = groups \union {k \in GroupDirs(SeenCdp) : k < last}
  /\ fresh' = "none"
  /\ UNCHANGED <<coreClass, alive, taskClass, restricted, cap, held, owner, meddled, unsure>>

(* pqos_fini, or the end of the process: its cores and tasks stay. *)
AllocFini(a) ==
  /\ a \in Initialised
  /\ cap' = [cap EXCEPT ![a] = "none"]
  /\ held' = [held EXCEPT ![a] = Nothing]
  /\ owner' = [t \in Tasks |-> IF owner[t] = a THEN NoApp ELSE owner[t]]
  /\ meddled' = meddled \ {a}
  /\ unsure' = unsure \ {a}
  /\ fresh' = "none"
  /\ UNCHANGED <<machine, alive>>

(* os_alloc_assign and os_alloc_assign_pid, one of cs and ts empty.        *)
Accepts(a, cs, ts) == /\ a \in Initialised \ Holders
                      /\ (cs = {}) # (ts = {})
                      /\ ReadsAll(a)

Assign(a, cs, ts) ==
  /\ Accepts(a, cs, ts)
  /\ ts \subseteq alive
  /\ \E k \in Classes :
       /\ IsFirstUnused(k, a)
       /\ coreClass' = CoresTo(cs, k)
       /\ taskClass' = TasksTo(ts, k)
       /\ held' = [held EXCEPT ![a] = [cores |-> cs, tasks |-> ts, class |-> k]]
  /\ owner' = OwnedBy(ts, a)
  /\ meddled' = meddled \union HoldersOf(cs, ts)
  /\ fresh' = "none"
  /\ UNCHANGED <<mount, groups, alive, restricted, cap, unsure>>

(* A write fails, or one of the tasks has ended: those before it stay in   *)
(* the new class and nobody knows.                                         *)
AssignCutShort(a, cs, ts) ==
  /\ Accepts(a, cs, ts)
  /\ \E k \in Classes :
       /\ IsFirstUnused(k, a)
       /\ coreClass' = CoresTo(cs, k)
       /\ taskClass' = TasksTo(ts, k)
  /\ owner' = OwnedBy(ts, NoApp)
  /\ meddled' = meddled \union HoldersOf(cs, ts)
  /\ fresh' = "none"
  /\ UNCHANGED <<mount, groups, alive, restricted, cap, held, unsure>>

(* os_alloc_release and os_alloc_release_pid: back to COS0, passing over   *)
(* tasks that ended, whatever happened to the others meanwhile.            *)
Release(a) ==
  /\ a \in Holders
  /\ Opens(COS0)
  /\ coreClass' = CoresTo(held[a].cores, COS0)
  /\ taskClass' = TasksTo(held[a].tasks, COS0)
  /\ owner' = OwnedBy(held[a].tasks, NoApp)
  /\ held' = [held EXCEPT ![a] = Nothing]
  /\ meddled' = (meddled \union HoldersOf(held[a].cores, held[a].tasks)) \ {a}
  /\ fresh' = "none"
  /\ UNCHANGED <<mount, groups, alive, restricted, cap, unsure>>

(* os_alloc_release_pid gives up at a write that fails; the caller knows   *)
(* and may try again.                                                      *)
ReleaseCutShort(a, ts) ==
  /\ a \in Holders
  /\ Opens(COS0)
  /\ ts \subseteq held[a].tasks /\ ts # held[a].tasks
  /\ taskClass' = TasksTo(ts, COS0)
  /\ owner' = OwnedBy(ts, NoApp)
  /\ meddled' = meddled \union (HoldersOf({}, ts) \ {a})
  /\ fresh' = "none"
  /\ UNCHANGED <<mount, groups, coreClass, alive, restricted, cap, held, unsure>>

(* os_alloc_assoc_set and os_alloc_assoc_set_pid, by hand.  The first      *)
(* compares the class with those of L3 and of L2 CAT, the second with      *)
(* those of all technologies; the directory has to be there for both.      *)
AssocSet(a, cs, ts, k) ==
  /\ a \in Initialised
  /\ (cs = {}) # (ts = {})
  /\ Cardinality(cs \union ts) = 1
  /\ cs # {} => k < L3Classes(cap[a]) \/ k < L2Cos
  /\ ts # {} => k \in Grps(cap[a])
  /\ ts \subseteq alive
  /\ Opens(k)
  /\ coreClass' = CoresTo(cs, k)
  /\ taskClass' = TasksTo(ts, k)
  /\ owner' = OwnedBy(ts, NoApp)
  /\ meddled' = meddled \union HoldersOf(cs, ts) \union {b \in Holders : held[b].class = k}
  /\ fresh' = "none"
  /\ UNCHANGED <<mount, groups, alive, restricted, cap, held, unsure>>

(* resctrl_alloc_schemata_read and _set: lines of the other CDP setting    *)
(* are refused.                                                            *)
SchemataReadBy(a, k) == Opens(k) /\ mount = cap[a]

(* os_l3ca_set, os_l2ca_set, os_mba_set: the schemata is read, changed and *)
(* written back.                                                           *)
ClassSet(a, k) ==
  /\ a \in Initialised
  /\ k \in Grps(cap[a])
  /\ SchemataReadBy(a, k)
  /\ restricted' = TRUE
  /\ fresh' = "none"
  /\ UNCHANGED <<mount, groups, coreClass, alive, taskClass, cap, held, owner, meddled, unsure>>

-----------------------------------------------------------------------------
(* os_alloc_reset: all cores to COS0; unmount, which puts every class back *)
(* to its default and every task to COS0; mount with the CDP setting asked *)
(* for; make the directories.                                              *)
CdpMount(a, cfg) == IF cfg = "any" THEN cap[a] ELSE cfg

(* _pqos_cap_l3cdp_change after the mount; the variant forgets it. *)
CapKept(a, cdp) == cap
CapAfterMount(a, cdp) == [cap EXCEPT ![a] = cdp]

(* os_alloc_prep after a mount. *)
Prep(a, cdp) == GroupDirs(cdp)

Reset(a, cfg) ==
  /\ a \in Initialised
  /\ Opens(COS0)
  /\ Everywhere0
  /\ mount' = CdpMount(a, cfg)
  /\ cap' = CapAfterMount(a, CdpMount(a, cfg))
  /\ groups' = Prep(a, CdpMount(a, cfg))
  /\ meddled' = Holders
  /\ unsure' = Initialised \ {a}
  /\ fresh' = CdpMount(a, cfg)
  /\ UNCHANGED <<alive, held>>

(* The unmount is refused, because somebody uses the file system. *)
ResetWithoutUmount(a) ==
  /\ a \in Initialised
  /\ Opens(COS0)
  /\ coreClass' = [c \in Cores |-> COS0]
  /\ meddled' = meddled \union HoldersOf(Cores, {})
  /\ fresh' = "none"
  /\ UNCHANGED <<mount, groups, alive, taskClass, restricted, cap, held, owner, unsure>>

(* The mount fails, or the process dies before it: resctrl is gone for     *)
(* all, and cap is what it was.                                            *)
ResetWithoutMount(a) ==
  /\ a \in Initialised
  /\ Opens(COS0)
  /\ Everywhere0
  /\ mount' = "none"
  /\ groups' = {}
  /\ meddled' = Holders
  /\ unsure' = Initialised
  /\ fresh' = "none"
  /\ UNCHANGED <<alive, cap, held>>

(* A directory cannot be made after the mount. *)
ResetWithoutGroups(a, cfg) ==
  /\ a \in Initialised
  /\ Opens(COS0)
  /\ Everywhere0
  /\ mount' = CdpMount(a, cfg)
  /\ cap' = CapAfterMount(a, CdpMount(a, cfg))
  /\ \E last \in GroupDirs(CdpMount(a, cfg)) :
       groups' = {k \in GroupDirs(CdpMount(a, cfg)) : k < last}
  /\ meddled' = Holders
  /\ unsure' = Initialised
  /\ fresh' = "none"
  /\ UNCHANGED <<alive, held>>

-----------------------------------------------------------------------------
(* The kernel: a child starts in the class of its parent. *)
Fork(t, u) ==
  /\ t \in alive
  /\ u \notin alive
  /\ alive' = alive \union {u}
  /\ taskClass' = [taskClass EXCEPT ![u] = taskClass[t]]
  /\ owner' = [owner EXCEPT ![u] = owner[t]]
  /\ UNCHANGED <<mount, groups, coreClass, restricted, cap, held, meddled, unsure, fresh>>

TaskEnds(t) ==
  /\ t \in alive
  /\ alive' = alive \ {t}
  /\ taskClass' = [taskClass EXCEPT ![t] = COS0]
  /\ owner' = [owner EXCEPT ![t] = NoApp]
  /\ UNCHANGED <<mount, groups, coreClass, restricted, cap, held, meddled, unsure, fresh>>

Next ==
  \/ \E a \in Apps : \/ AllocInit(a) \/ AllocInitCutShort(a) \/ AllocFini(a)
                     \/ Release(a)
                     \/ ResetWithoutUmount(a) \/ ResetWithoutMount(a)
  \/ \E a \in Apps, cs \in SUBSET Cores, ts \in SUBSET Tasks :
       Assign(a, cs, ts) \/ AssignCutShort(a, cs, ts)
  \/ \E a \in Apps, ts \in SUBSET Tasks : ReleaseCutShort(a, ts)
  \/ \E a \in Apps, cs \in SUBSET Cores, ts \in SUBSET Tasks, k \in Classes :
       AssocSet(a, cs, ts, k)
  \/ \E a \in Apps, k \in Classes : ClassSet(a, k)
  \/ \E a \in Apps, cfg \in CdpConfigs : Reset(a, cfg) \/ ResetWithoutGroups(a, cfg)
  \/ \E t, u \in Tasks : Fork(t, u)
  \/ \E t \in Tasks : TaskEnds(t)

Spec == Init /\ [][Next]_vars

-----------------------------------------------------------------------------
TypeOK == /\ mount \in CdpSettings \union {"none"}
          /\ groups \subseteq Classes \ {COS0}
          /\ coreClass \in [Cores -> Classes]
          /\ alive \subseteq Tasks
          /\ taskClass \in [Tasks -> Classes]
          /\ restricted \in BOOLEAN
          /\ cap \in [Apps -> CdpSettings \union {"none"}]
          /\ held \in [Apps -> Assignment]
          /\ owner \in [Tasks -> Apps \union {NoApp}]
          /\ meddled \subseteq Apps
          /\ unsure \subseteq Apps
          /\ fresh \in CdpSettings \union {"none"}

(* What a process still has in its class. *)
CoresIn(a) == {c \in held[a].cores : coreClass[c] = held[a].class}
TasksIn(a) == {t \in alive : owner[t] = a /\ taskClass[t] = held[a].class}

(* A class that was assigned to cores or to tasks of a process belongs to  *)
(* it on the whole machine, as long as anything of it is in the class: no  *)
(* other core is in it, and no task but those of the process and their     *)
(* children.  Children that outlive a release, assigns and releases that   *)
(* fail half way, task ids that are used again and processes that believe  *)
(* in an old mount do not break it; moving cores or tasks by hand does.    *)
ClassIsOurs ==
  \A a \in Holders \ meddled : CoresIn(a) # {} \/ TasksIn(a) # {} =>
    /\ {c \in Cores : coreClass[c] = held[a].class} = CoresIn(a)
    /\ {t \in alive : taskClass[t] = held[a].class} = TasksIn(a)

(* A process knows the mount, and finds all the directories it expects,    *)
(* unless somebody else mounted or unmounted since, or its own reset went  *)
(* wrong: the number of classes follows CDP through every reset.           *)
KnowsGroups ==
  \A a \in Initialised \ unsure : mount = cap[a] /\ GroupDirs(cap[a]) \subseteq groups

(* After a reset that succeeds nothing is left in a class, no class is     *)
(* restricted, and every process that believes in the CDP setting that was *)
(* asked for can be assigned each of the classes.                          *)
ResetStartsAfresh ==
  fresh # "none" =>
    /\ \A c \in Cores : coreClass[c] = COS0
    /\ \A t \in alive : taskClass[t] = COS0
    /\ ~restricted
    /\ \A a \in Initialised : cap[a] = fresh => Unused(a) = groups /\ ReadsAll(a)
=============================================================================
