--------------------------- MODULE PqosLifecycle ---------------------------
(***************************************************************************)
(* The life of the library in one process (pqos_init, pqos_fini and the    *)
(* entry of every other call, lib/cap.c): the API lock that is made and    *)
(* destroyed, what is brought up in stages and taken down again when a     *)
(* stage fails, the capabilities that are discovered, and the pointers to  *)
(* them that the parts of the library keep.                                *)
(*                                                                         *)
(* The record lock of the API lock never makes threads of one process      *)
(* wait (ApiLock); what is left of it here is whether its file is open.    *)
(***************************************************************************)
EXTENDS Discovery

CONSTANTS Threads,      \* threads of the process
          Main,         \* the one that calls pqos_init and pqos_fini
          NoThread,
          Machines,     \* processor and kernel (Discovery)
          MaxLives,     \* bound on the calls of pqos_init
          MaxFaults     \* bound on stages that fail

ASSUME LifeAssumption == /\ Main \in Threads
                         /\ NoThread \notin Threads
                         /\ MaxLives \in Nat \ {0} /\ MaxFaults \in Nat
ASSUME MachinesType == \A m \in Machines : /\ DOMAIN m.apic \subseteq Nat
                                           /\ m.resctrl \in BOOLEAN
                                           /\ \A f \in Allocation : m.classes[f] \in Nat
                                           /\ m.maskRegs \in Nat

VARIABLES machine,      \* one of Machines
          style,        \* how the program uses its threads
          mounted,      \* resctrl is mounted
          groups,       \* directories of classes in it
          apilock,      \* m_apilock is open
          mutexLive,    \* m_apilock_mutex can be locked
          mutexOwner,   \* the thread that has locked it
          initDone,     \* m_init_done
          want,         \* interface of the configuration of pqos_init
          iface,        \* m_interface of api.c and allocation.c
          up,           \* log, CPU information and machine access
          cap,          \* m_cap and m_cpu: the life they belong to, 0 is NULL
          cores,        \* the topology in m_cpu
          found,        \* the features in m_cap
          blocks,       \* lives whose det_mon, det_l3ca, det_l2ca or det_mba
                        \*   is allocated
          lost,         \* history: lives whose pqos_init failed with m_cap set
          runsOn,       \* the cpu the main thread is bound to, Anywhere
          savedOn,      \* current_mask of cpuinfo_build_topo
          toDetect,     \* cpus it has still to go to
          strayed,      \* history: a thread could not be put back
          known,        \* m_cap and m_cpu of the other parts, likewise
          monIface,     \* m_interface of monitoring.c
          monInit,      \* mon_init: monitoring came up in this life
          lives,        \* history: calls of pqos_init so far
          faults,       \* history: stages that failed
          pc, op        \* what each thread is doing, in which call

resctrlVars == <<mounted, groups>>
lockVars == <<apilock, mutexLive, mutexOwner>>
memVars == <<blocks, lost>>
capVars == <<initDone, iface, up, cap, cores, found, memVars>>
cpuVars == <<runsOn, savedOn, toDetect, strayed>>
partVars == <<known, monIface, monInit>>
programVars == <<machine, style, want, lives, op>>
vars == <<resctrlVars, lockVars, capVars, cpuVars, partVars, programVars, faults, pc>>

Parts == {"monitoring", "os_monitoring", "allocation", "os_allocation"}
Layers == {"log", "cpu", "machine"}

Fault == /\ faults < MaxFaults
         /\ faults' = faults + 1

Goto(t, l) == pc' = [pc EXCEPT ![t] = l]

Step(t, from, to) == pc[t] = from /\ Goto(t, to)

-----------------------------------------------------------------------------
OsAllocates == OsSupport(machine, found) \intersect Allocation # {}

Cpus == DOMAIN machine.apic

Anywhere == -1          \* no cpu
NoCores == <<>>

Init == /\ machine \in Machines
        /\ style \in {"one life", "quiet"}
        /\ mounted \in {FALSE, machine.resctrl}
        /\ groups = 0
        /\ apilock = FALSE
        /\ mutexLive = TRUE
        /\ mutexOwner = NoThread
        /\ initDone = FALSE
        /\ want = "MSR"
        /\ iface = "MSR"
        /\ up = {}
        /\ cap = 0
        /\ cores = NoCores
        /\ found = {}
        /\ blocks = {}
        /\ lost = {}
        /\ runsOn = Anywhere
        /\ savedOn = Anywhere
        /\ toDetect = {}
        /\ strayed = FALSE
        /\ known = [p \in Parts |-> 0]
        /\ monIface = "MSR"
        /\ monInit = FALSE
        /\ lives = 0
        /\ faults = 0
        /\ pc = [t \in Threads |-> "idle"]
        /\ op = [t \in Threads |-> "none"]

(* The programs: with "one life" the main thread initialises the library   *)
(* once, and other threads call it from then on, the shutdown included;    *)
(* with "quiet" it does so again and again, and out of turn, but only      *)
(* while no other thread calls.                                            *)
Alone == \A t \in Threads \ {Main} : pc[t] = "idle"

Begin(t, o, l) == /\ Step(t, "idle", l)
                  /\ op' = [op EXCEPT ![t] = o]
                  /\ UNCHANGED <<machine, style, resctrlVars, lockVars, capVars, cpuVars, partVars, faults>>

CallInit == /\ lives < IF style = "quiet" THEN MaxLives ELSE 1
            /\ Alone
            /\ lives' = lives + 1
            /\ want' \in {"MSR", "OS"}
            /\ Begin(Main, "init", "open")

CallFini == /\ IF style = "quiet" THEN Alone ELSE initDone
            /\ Begin(Main, "fini", "lock")
            /\ UNCHANGED <<want, lives>>

CallApi(t) == /\ IF style = "quiet" THEN pc[Main] = "idle" \/ op[Main] \notin {"init", "fini"}
                                    ELSE lives = 1 /\ (pc[Main] = "idle" \/ op[Main] # "init")
              /\ \E o \in {"mon", "alloc"} : Begin(t, o, "lock")
              /\ UNCHANGED <<want, lives>>

-----------------------------------------------------------------------------
(* _pqos_api_init: a lock that is open already, or cannot be made, ends    *)
(* the call.                                                               *)
OpenLock(t) ==
  /\ \/ /\ apilock
        /\ Step(t, "open", "idle")
        /\ UNCHANGED <<lockVars, faults>>
     \/ /\ ~apilock
        /\ Fault
        /\ Step(t, "open", "idle")
        /\ UNCHANGED lockVars
     \/ /\ ~apilock
        /\ Step(t, "open", "lock")
        /\ apilock' = TRUE
        /\ mutexLive' = TRUE
        /\ mutexOwner' = NoThread
        /\ UNCHANGED faults
  /\ UNCHANGED <<resctrlVars, capVars, partVars, programVars, cpuVars>>

(* Variants of the lock, each a slip the code could have had. *)
LockWithoutMutex(t) ==
  /\ Step(t, "lock", "check")
  /\ UNCHANGED <<resctrlVars, lockVars, capVars, partVars, programVars, cpuVars, faults>>

(* _pqos_api_lock: errors are logged and the call goes on.  A mutex that   *)
(* has been destroyed refuses, or lets in a thread that waited for it.     *)
Lock(t) ==
  /\ Step(t, "lock", "check")
  /\ \/ mutexOwner = NoThread /\ mutexOwner' = t
     \/ ~mutexLive /\ UNCHANGED mutexOwner
  /\ UNCHANGED <<apilock, mutexLive, resctrlVars, capVars, partVars, programVars, cpuVars, faults>>

(* _pqos_check_init *)
Check(t) ==
  /\ Step(t, "check", CASE op[t] = "init" -> "log"
                        [] op[t] = "fini" -> IF initDone THEN "fini" ELSE "giveup"
                        [] OTHER -> IF initDone THEN "body" ELSE "unlock")
  /\ UNCHANGED <<resctrlVars, lockVars, capVars, partVars, programVars, cpuVars, faults>>

Body(t) == /\ Step(t, "body", "unlock")
           /\ UNCHANGED <<resctrlVars, lockVars, capVars, partVars, programVars, cpuVars, faults>>

(* _pqos_api_unlock; pqos_fini, and a pqos_init that failed, go on. *)
Unlock(t) ==
  /\ \/ Step(t, "unlock", "idle") \/ Step(t, "giveup", "exit")
  /\ mutexOwner' = IF mutexLive THEN NoThread ELSE mutexOwner
  /\ UNCHANGED <<apilock, mutexLive, resctrlVars, capVars, partVars, programVars, cpuVars, faults>>

(* _pqos_api_exit: a mutex that is locked is not destroyed. *)
ExitLock(t) ==
  /\ Step(t, "exit", "idle")
  /\ apilock' = FALSE
  /\ mutexLive' = (mutexLive /\ mutexOwner # NoThread)
  /\ UNCHANGED <<mutexOwner, resctrlVars, capVars, partVars, programVars, cpuVars, faults>>

-----------------------------------------------------------------------------
(* A variant of the definition below, a slip the code could have had. *)
AbandonAbove(t, down) == /\ up' = up \ (down \ {"log"})
                         /\ cap' = 0
                         /\ cores' = NoCores
                         /\ found' = {}
                         /\ UNCHANGED memVars
                         /\ Goto(t, "giveup")

(* The blocks of features, once m_cap points to them, are freed by         *)
(* pqos_fini only; before, discover_capabilities frees them when it fails. *)
BlocksOfFailedInit == IF cap = 0 THEN /\ blocks' = blocks \ {lives}
                                      /\ UNCHANGED lost
                                 ELSE /\ lost' = lost \union {cap}
                                      /\ UNCHANGED blocks

(* The labels at the end of pqos_init: a stage that fails takes down what  *)
(* the stages before it brought up and frees m_cap, but not the blocks it  *)
(* points to; monitoring and allocation keep their pointers.               *)
Abandon(t, down) == /\ up' = up \ down
                    /\ cap' = 0
                    /\ cores' = NoCores
                    /\ found' = {}
                    /\ BlocksOfFailedInit
                    /\ Goto(t, "giveup")

Stays(t, next) == Goto(t, next) /\ UNCHANGED <<up, cap, cores, found, memVars>>

(* log_init *)
LogUp(t) ==
  /\ pc[t] = "log"
  /\ \/ /\ up' = up \union {"log"}
        /\ Goto(t, "cpu")
        /\ UNCHANGED <<cap, cores, found, memVars, faults>>
     \/ Fault /\ Abandon(t, up)
  /\ UNCHANGED <<initDone, iface, resctrlVars, lockVars, partVars, programVars, cpuVars>>

(* cpuinfo_init: the start of cpuinfo_build_topo *)
CpuStart(t) ==
  /\ pc[t] = "cpu"
  /\ \/ /\ HasMasks(machine)
        /\ savedOn' = runsOn
        /\ toDetect' = Cpus
        /\ Stays(t, "detect")
        /\ UNCHANGED faults
     \/ /\ IF HasMasks(machine) THEN Fault ELSE UNCHANGED faults
        /\ Abandon(t, up)
        /\ UNCHANGED <<savedOn, toDetect>>
  /\ UNCHANGED <<initDone, iface, runsOn, strayed, resctrlVars, lockVars, partVars, programVars>>

(* detect_cpu, cpu by cpu: the thread goes to where it asks CPUID; a cpu   *)
(* it cannot go to is left out.                                            *)
DetectCpu(t) ==
  /\ pc[t] = "detect"
  /\ toDetect # {}
  /\ LET c == Min(toDetect)
     IN /\ toDetect' = toDetect \ {c}
        /\ \/ /\ runsOn' = c
              /\ cores' = [d \in DOMAIN cores \union {c} |-> CoreInfo(machine, d)]
              /\ UNCHANGED faults
           \/ Fault /\ UNCHANGED <<runsOn, cores>>
  /\ UNCHANGED <<initDone, iface, up, cap, found, memVars, savedOn, strayed, pc,
                 resctrlVars, lockVars, partVars, programVars>>

(* A variant of the definition below, a slip the code could have had. *)
CpuUpWhereItIs(t) ==
  /\ pc[t] = "detect"
  /\ toDetect = {}
  /\ \/ /\ cores # NoCores
        /\ up' = up \union {"cpu"}
        /\ Goto(t, "machine")
        /\ UNCHANGED <<cap, cores, found, memVars, strayed, faults>>
     \/ /\ cores = NoCores
        /\ Abandon(t, up)
        /\ UNCHANGED <<strayed, faults>>
     \/ /\ Fault
        /\ Abandon(t, up)
        /\ strayed' = TRUE
  /\ savedOn' = Anywhere
  /\ UNCHANGED <<initDone, iface, runsOn, toDetect, resctrlVars, lockVars, partVars, programVars>>

(* The end of cpuinfo_build_topo puts the thread back. *)
CpuUp(t) ==
  /\ pc[t] = "detect"
  /\ toDetect = {}
  /\ \/ /\ cores # NoCores
        /\ runsOn' = savedOn
        /\ up' = up \union {"cpu"}
        /\ Goto(t, "machine")
        /\ UNCHANGED <<cap, cores, found, memVars, strayed, faults>>
     \/ /\ cores = NoCores
        /\ runsOn' = savedOn
        /\ Abandon(t, up)
        /\ UNCHANGED <<strayed, faults>>
     \/ /\ Fault
        /\ Abandon(t, up)
        /\ strayed' = TRUE
        /\ UNCHANGED runsOn
  /\ savedOn' = Anywhere
  /\ UNCHANGED <<initDone, iface, toDetect, resctrlVars, lockVars, partVars, programVars>>

(* machine_init, which takes a highest core of 0 for an error *)
MachineUp(t) ==
  /\ pc[t] = "machine"
  /\ \/ /\ Max(DOMAIN cores) # 0
        /\ up' = up \union {"machine"}
        /\ Goto(t, "find_mon")
        /\ UNCHANGED <<cap, cores, found, memVars, faults>>
     \/ /\ Max(DOMAIN cores) = 0
        /\ Abandon(t, up)
        /\ UNCHANGED faults
     \/ Fault /\ Abandon(t, up)
  /\ UNCHANGED <<initDone, iface, resctrlVars, lockVars, partVars, programVars, cpuVars>>

(* discover_capabilities, feature by feature: one that is not there is     *)
(* passed over, and so is one there is no memory for; an error, also in    *)
(* reading CDP of a socket, ends it.                                       *)
Discover(t, f, here, next) ==
  /\ pc[t] = here
  /\ LET outcome == Discovered(machine, f)
     IN \/ /\ outcome = "ok"
           /\ found' = found \union {f}
           /\ blocks' = blocks \union {lives}
           /\ Goto(t, next)
           /\ UNCHANGED <<up, cap, cores, lost, faults>>
        \/ /\ outcome = "resource"
           /\ Stays(t, next)
           /\ UNCHANGED faults
        \/ /\ outcome = "error"
           /\ Abandon(t, Layers)
           /\ UNCHANGED faults
        \/ /\ outcome = "ok"
           /\ Fault
           /\ Stays(t, next)
        \/ /\ f = "l3" /\ ByCpuid(machine) /\ "l3" \in machine.cpuid /\ machine.cdp # "none"
           /\ Fault
           /\ Abandon(t, Layers)
  /\ UNCHANGED <<initDone, iface, resctrlVars, lockVars, partVars, programVars, cpuVars>>

(* The rest of discover_capabilities; no feature at all is an error. *)
Collect(t) ==
  /\ pc[t] = "discover"
  /\ \/ /\ found # {}
        /\ cap' = lives
        /\ Goto(t, "os")
        /\ UNCHANGED <<up, cores, found, memVars, faults>>
     \/ /\ found = {}
        /\ Abandon(t, Layers)
        /\ UNCHANGED faults
     \/ /\ found # {}
        /\ Fault
        /\ Abandon(t, Layers)
  /\ UNCHANGED <<initDone, iface, resctrlVars, lockVars, partVars, programVars, cpuVars>>

(* discover_os_capabilities, log_hw_caps, _pqos_utils_init, api_init: a    *)
(* resctrl that is not mounted is no error yet.                            *)
DiscoverOs(t) ==
  /\ pc[t] = "os"
  /\ IF want = "OS" /\ ~machine.resctrl
     THEN Abandon(t, Layers) /\ UNCHANGED iface
     ELSE /\ iface' = want
          /\ Goto(t, "mon")
          /\ UNCHANGED <<up, cap, cores, found, memVars>>
  /\ UNCHANGED <<initDone, resctrlVars, lockVars, partVars, programVars, cpuVars, faults>>

(* pqos_mon_init: without the feature it keeps the pointers all the same;  *)
(* an error of os_mon_init leaves those of an earlier life.                *)
MonInit(t) ==
  /\ Step(t, "mon", "alloc")
  /\ \/ /\ "mon" \notin found
        /\ known' = [known EXCEPT !["monitoring"] = cap]
        /\ monInit' = FALSE
        /\ monIface' = want
        /\ UNCHANGED faults
     \/ /\ "mon" \in found
        /\ want = "OS" => machine.perf
        /\ known' = [p \in Parts |-> IF p = "monitoring" \/ (p = "os_monitoring" /\ want = "OS")
                                     THEN cap ELSE known[p]]
        /\ monInit' = TRUE
        /\ monIface' = want
        /\ UNCHANGED faults
     \/ /\ "mon" \in found /\ want = "OS"
        /\ IF machine.perf THEN Fault ELSE UNCHANGED faults
        /\ monInit' = FALSE
        /\ UNCHANGED <<known, monIface>>
  /\ UNCHANGED <<resctrlVars, lockVars, capVars, programVars, cpuVars>>

(* A variant of the definition below, a slip the code could have had. *)
AllocPointersOnce ==
  known' = [p \in Parts |-> IF known[p] = 0 /\ (p = "allocation" \/ (p = "os_allocation" /\ want = "OS"))
                            THEN cap ELSE known[p]]

AllocPointers ==
  known' = [p \in Parts |-> IF p = "allocation" \/ (p = "os_allocation" /\ want = "OS")
                            THEN cap ELSE known[p]]

(* pqos_alloc_init has nothing more to do over MSRs, or where resctrl      *)
(* allocates nothing; with a resctrl that is mounted it makes directories. *)
AllocInit(t) ==
  /\ pc[t] = "alloc"
  /\ AllocPointers
  /\ \/ /\ want = "MSR" \/ ~OsAllocates
        /\ Goto(t, "done")
        /\ UNCHANGED <<resctrlVars, up, cap, cores, found, memVars, faults>>
     \/ /\ want = "OS" /\ OsAllocates
        /\ mounted' = TRUE
        /\ groups' = IF mounted THEN groups ELSE 0
        /\ Goto(t, "groups")
        /\ UNCHANGED <<up, cap, cores, found, memVars, faults>>
     \/ /\ want = "OS" /\ OsAllocates /\ ~mounted
        /\ Fault
        /\ Abandon(t, Layers)
        /\ UNCHANGED resctrlVars
  /\ UNCHANGED <<initDone, iface, lockVars, monIface, monInit, programVars, cpuVars>>

(* Variants of the definition below, each a slip the code could have had. *)
MakeGroupsBeyond(t) ==
  /\ pc[t] = "groups"
  /\ \/ /\ groups <= GroupsNeeded(machine, found)
        /\ groups' = groups + 1
        /\ UNCHANGED <<pc, up, cap, cores, found, memVars, faults>>
     \/ /\ groups >= GroupsNeeded(machine, found)
        /\ Goto(t, "done")
        /\ UNCHANGED <<groups, up, cap, cores, found, memVars, faults>>
  /\ UNCHANGED <<initDone, iface, mounted, lockVars, partVars, programVars, cpuVars>>

(* os_alloc_prep, directory by directory. *)
MakeGroups(t) ==
  /\ pc[t] = "groups"
  /\ \/ /\ groups < GroupsNeeded(machine, found)
        /\ groups' = groups + 1
        /\ UNCHANGED <<pc, up, cap, cores, found, memVars, faults>>
     \/ /\ groups < GroupsNeeded(machine, found)
        /\ Fault
        /\ Abandon(t, Layers)
        /\ UNCHANGED groups
     \/ /\ groups >= GroupsNeeded(machine, found)
        /\ Goto(t, "done")
        /\ UNCHANGED <<groups, up, cap, cores, found, memVars, faults>>
  /\ UNCHANGED <<initDone, iface, mounted, lockVars, partVars, programVars, cpuVars>>

InitDone(t) ==
  /\ Step(t, "done", "unlock")
  /\ initDone' = TRUE
  /\ UNCHANGED <<resctrlVars, lockVars, iface, up, cap, cores, found, memVars, partVars, programVars, cpuVars, faults>>

-----------------------------------------------------------------------------
(* pqos_mon_fini, which looks at the interface of the last pqos_mon_init   *)
(* that got so far, and pqos_alloc_fini.                                   *)
FiniParts(t) ==
  /\ Step(t, "fini", "free")
  /\ known' = [p \in Parts |-> IF \/ p = "os_monitoring" /\ monIface # "OS"
                                  \/ p = "os_allocation" /\ iface # "OS"
                               THEN known[p] ELSE 0]
  /\ UNCHANGED <<resctrlVars, lockVars, capVars, monIface, monInit, programVars, cpuVars, faults>>

(* The rest of pqos_fini, which frees the blocks and then m_cap. *)
FiniCaps(t) ==
  /\ Step(t, "free", "giveup")
  /\ up' = {}
  /\ blocks' = blocks \ {cap}
  /\ cap' = 0
  /\ cores' = NoCores
  /\ found' = {}
  /\ initDone' = FALSE
  /\ UNCHANGED <<lost, iface, resctrlVars, lockVars, partVars, programVars, cpuVars, faults>>

-----------------------------------------------------------------------------
Next ==
  \/ CallInit \/ CallFini
  \/ \E t \in Threads :
       \/ CallApi(t) \/ OpenLock(t) \/ Lock(t) \/ Check(t) \/ Body(t) \/ Unlock(t) \/ ExitLock(t)
       \/ LogUp(t) \/ CpuStart(t) \/ DetectCpu(t) \/ CpuUp(t) \/ MachineUp(t)
       \/ Discover(t, "mon", "find_mon", "find_l3") \/ Discover(t, "l3", "find_l3", "find_l2")
       \/ Discover(t, "l2", "find_l2", "find_mba") \/ Discover(t, "mba", "find_mba", "discover")
       \/ Collect(t) \/ DiscoverOs(t) \/ MonInit(t) \/ AllocInit(t) \/ MakeGroups(t)
       \/ InitDone(t) \/ FiniParts(t) \/ FiniCaps(t)

Spec == Init /\ [][Next]_vars

-----------------------------------------------------------------------------
MaxGroups == Max({GroupsNeeded(machine, fs) : fs \in SUBSET Features})

TypeOK ==
  /\ machine \in Machines
  /\ style \in {"one life", "quiet"}
  /\ mounted \in BOOLEAN /\ groups \in 0 .. MaxGroups
  /\ apilock \in BOOLEAN /\ mutexLive \in BOOLEAN /\ initDone \in BOOLEAN /\ monInit \in BOOLEAN
  /\ mutexOwner \in Threads \union {NoThread}
  /\ want \in {"MSR", "OS"} /\ iface \in {"MSR", "OS"} /\ monIface \in {"MSR", "OS"}
  /\ up \subseteq Layers
  /\ cap \in 0 .. MaxLives /\ lives \in 0 .. MaxLives
  /\ known \in [Parts -> 0 .. MaxLives]
  /\ faults \in 0 .. MaxFaults
  /\ DOMAIN cores \subseteq Cpus /\ toDetect \subseteq Cpus
  /\ found \subseteq Features
  /\ blocks \subseteq 0 .. MaxLives /\ lost \subseteq 0 .. MaxLives
  /\ runsOn \in Cpus \union {Anywhere} /\ savedOn \in Cpus \union {Anywhere}
  /\ strayed \in BOOLEAN
  /\ DOMAIN pc = Threads /\ op \in [Threads -> {"none", "init", "fini", "mon", "alloc"}]

Within(t) == pc[t] # "idle" /\ op[t] \in {"init", "fini"}

(* When pqos_init and pqos_fini are over, however many stages failed at    *)
(* whatever point, the library is all up, with the resctrl directories it  *)
(* will write to, or all down, with nothing left open.  Of the memory for  *)
(* capabilities only that of this life is left, and what a pqos_init that  *)
(* failed after m_cap was set has leaked for good.                         *)
InitAllOrNothing ==
  ~Within(Main) =>
    IF initDone
    THEN /\ up = Layers /\ cap # 0 /\ apilock /\ mutexLive
         /\ iface = "OS" /\ OsAllocates => mounted /\ groups >= GroupsNeeded(machine, found)
         /\ blocks \subseteq lost \union {cap}
    ELSE up = {} /\ cap = 0 /\ ~apilock /\ blocks \subseteq lost

(* Whatever cpus it could not go to and wherever it failed, pqos_init      *)
(* leaves the thread that called it bound as it found it, unless putting   *)
(* it back is what failed.                                                 *)
RunsWhereItDid == ~Within(Main) => runsOn = Anywhere \/ strayed

(* The sockets and clusters that the program works with, by which classes  *)
(* and RMIDs are searched for and registers are written, are those of the  *)
(* machine, also for the cpus that are left when some cannot be gone to.   *)
TopologyIsTheMachines == initDone => cores # NoCores /\ SaysWhatIsShared(machine, cores)

(* The part of the library that a call is dispatched to. *)
PartOf(o) == IF o = "mon" THEN IF iface = "OS" THEN "os_monitoring" ELSE "monitoring"
                          ELSE IF iface = "OS" THEN "os_allocation" ELSE "allocation"

(* A call that is let in finds the capabilities of this life, never NULL   *)
(* and never those that an earlier life, or a pqos_init that failed, has   *)
(* freed; calls for monitoring do so in a life in which it came up.        *)
UsesLiveCapabilities ==
  \A t \in Threads :
    pc[t] = "body" /\ (op[t] = "mon" => monInit) => cap # 0 /\ known[PartOf(op[t])] = cap

(* The calls that are served, the bringing up and the shutting down keep   *)
(* to what is promised of them, also when threads still call in while the  *)
(* library is shut down and its lock destroyed under them.                 *)
Service == INSTANCE ApiService WITH on <- initDone, using <- {t \in Threads : pc[t] = "body"}
ImplementsService == Service!Spec
=============================================================================
