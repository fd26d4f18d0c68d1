------------------------------- MODULE Rdtset -------------------------------
(***************************************************************************)
(* rdtset (rdtset/rdtset.c, rdtset/rdt.c): puts cores or tasks in classes  *)
(* of their own for as long as a command runs, or for good.  Several       *)
(* rdtsets run on one machine (AllocMachine); each of their calls of the   *)
(* library is a step, and between two calls anything may happen: another   *)
(* rdtset's calls, a signal, the end of a task, kill -9.                   *)
(***************************************************************************)
EXTENDS AllocMachine, Sequences

CONSTANTS Procs,        \* processes of rdtset
          Lines,        \* per interface, the command lines they may be given
          MaxFaults     \* bound: calls that fail, signals and kills

ASSUME OwnTasks == Procs \subseteq Tasks    \* a process is a task itself
ASSUME NobodyIsNoProcess == Nobody \notin Procs
ASSUME MaxFaultsType == MaxFaults \in Nat

(* What parsing lets through: a configuration is for some technology. *)
Config == [cpus : SUBSET Cores,
           want : {w \in [Technologies -> Values \union {NotSet}] : \E t \in Technologies : w[t] # NotSet}]
ASSUME LinesType ==
  \A i \in Interfaces :
    Lines[i] \subseteq [Procs -> [reset : SUBSET Cores, configs : Seq(Config), pids : SUBSET Tasks,
                                affinity : BOOLEAN, cmd : BOOLEAN]]

VARIABLES line,         \* g_cfg: the parsed command line of a process
          pc,           \* where in main() it is
          at,           \* index of the configuration it is at
          left,         \* what its innermost loop has still to go over
          cls,          \* class the library gave it for that configuration
          techs,        \* technologies of that class it has still to define
          child,        \* the process it forked for the command
          owner,        \* history: who put a core in its class
          unreleased,   \* history: cores somebody could not put back
          contested,    \* history: got a class somebody else was to define
          faults        \* history: number of faults so far

procVars == <<line, pc, at, left, cls, techs, child>>
historyVars == <<owner, unreleased, contested, faults>>
vars == <<machineVars, procVars, historyVars>>

Over == {"failed", "ended", "done", "killed"}
Asleep == {"stuck"}
Calling == {"reset", "validate", "assign", "define", "unpid", "revert",
            "giveup", "leave", "exit"}
Between == {"fork", "wait", "affinity"}
Running == Calling \union Between
Configs(p) == line[p].configs
Cfg(p) == Configs(p)[at[p]]

-----------------------------------------------------------------------------
(* A configuration without cores is for tasks (pid_cfg). *)
IsPid(cfg) == cfg.cpus = {}
Tech(cfg) == {t \in Technologies : cfg.want[t] # NotSet}
Wanted(cfg, t) == IF cfg.want[t] = NotSet THEN Full ELSE cfg.want[t]

PidConfigs(l) == {i \in DOMAIN l.configs : IsPid(l.configs[i])}

(* validate_args, for the flags -r, -c, -p, -I and a command. *)
ValidArgs(l, i) ==
  LET r == l.reset # {}
      c == l.affinity
      p == l.pids # {}
      n == PidConfigs(l) # {}
  IN /\ Cardinality(PidConfigs(l)) <= 1
     /\ \/ c /\ ~p /\ l.cmd /\ ~n
        \/ c /\ p /\ ~l.cmd /\ ~n
        \/ r /\ p /\ ~l.cmd
        \/ i = "OS" /\ n /\ ~p /\ l.cmd
        \/ i = "OS" /\ n /\ p /\ ~l.cmd

(* check_supported and check_cpus_overlapping of alloc_validate. *)
Supported(l) == \A i \in DOMAIN l.configs : Tech(l.configs[i]) \subseteq Present
Apart(l) == \A i, j \in DOMAIN l.configs :
              i # j => l.configs[i].cpus \intersect l.configs[j].cpus = {}

(* get_max_res_id: the number of resource ids, which bounds the loops over *)
(* ids from 0 as if they had no gaps.                                      *)
MaxRes(tech) == Max({Cardinality(Resources(t)) : t \in tech})
CoresAt(cfg, r) == {c \in cfg.cpus : SearchRes(c, Tech(cfg)) = r}
IdsToVisit(cfg) == {r \in 0 .. MaxRes(Tech(cfg)) - 1 : IsPid(cfg) \/ CoresAt(cfg, r) # {}}

(* The core whose socket and cluster cfg_configure_cos is run for. *)
CoreAt(cfg, r) == Min(IF IsPid(cfg) THEN {c \in Cores : SearchRes(c, Tech(cfg)) = r}
                                    ELSE CoresAt(cfg, r))

(* cfg_configure_cos defines the class for each technology that has it. *)
Defines(k) == {t \in Present : k < NumCos[t]}

TasksOf(p) == IF line[p].pids = {} THEN {p} ELSE line[p].pids
Names(p) == line[p].reset \union UNION {Configs(p)[i].cpus : i \in DOMAIN Configs(p)}

RdtsetInit == /\ line \in Lines[iface]
              /\ \A p \in Procs : ValidArgs(line[p], iface)
              /\ live = Tasks
              /\ pc = [p \in Procs |-> "off"]
              /\ at = [p \in Procs |-> 0]
              /\ left = [p \in Procs |-> {}]
              /\ cls = [p \in Procs |-> COS0]
              /\ techs = [p \in Procs |-> {}]
              /\ child = [p \in Procs |-> "none"]
              /\ owner = [c \in Cores |-> Nobody]
              /\ unreleased = {}
              /\ contested = {}
              /\ faults = 0

Fault == /\ faults < MaxFaults
         /\ faults' = faults + 1

Goto(p, l) == pc' = [pc EXCEPT ![p] = l]

Own(cs, p) == /\ owner' = [c \in Cores |-> IF c \in cs THEN p ELSE owner[c]]
              /\ unreleased' = unreleased \ cs

(* Once every configuration is in place: run the command, move the tasks   *)
(* or leave.                                                               *)
Configured(p) == IF line[p].cmd THEN "fork"
                 ELSE IF line[p].affinity /\ line[p].pids # {} THEN "affinity" ELSE "leave"

(* On to configuration i of alloc_configure, or past the last one. *)
Advance(p, i) ==
  LET more == i <= Len(Configs(p))
  IN /\ Goto(p, IF more THEN "assign" ELSE Configured(p))
     /\ at' = [at EXCEPT ![p] = i]
     /\ left' = [left EXCEPT ![p] = IF more THEN IdsToVisit(Configs(p)[i]) ELSE {}]

(* alloc_exit, from the first configuration. *)
StartExit(p) == /\ Goto(p, "exit")
                /\ at' = [at EXCEPT ![p] = 1]

-----------------------------------------------------------------------------
(* alloc_init; the signal handlers and alloc_exit are in place after it. *)
Start(p) ==
  /\ pc[p] = "off"
  /\ CanCall
  /\ \/ /\ Goto(p, "reset")
        /\ left' = [left EXCEPT ![p] = line[p].reset]
        /\ UNCHANGED faults
     \/ /\ Fault
        /\ Goto(p, "failed")
        /\ UNCHANGED left
  /\ UNCHANGED <<machineVars, line, at, cls, techs, child, owner, unreleased, contested>>

(* alloc_reset, core by core; a failure is left through exit(). *)
ResetCore(p) ==
  /\ pc[p] = "reset"
  /\ left[p] # {}
  /\ CanCall
  /\ LET c == Min(left[p])
     IN \/ /\ Associate({c}, COS0)
           /\ Own({c}, Nobody)
           /\ left' = [left EXCEPT ![p] = @ \ {c}]
           /\ UNCHANGED <<pc, at, faults>>
        \/ /\ Fault
           /\ StartExit(p)
           /\ UNCHANGED <<cos, owner, unreleased, left>>
  /\ UNCHANGED <<iface, task, live, def, lock, line, cls, techs, child, contested>>

ResetDone(p) ==
  /\ pc[p] = "reset"
  /\ left[p] = {}
  /\ IF Configs(p) = <<>>
     THEN Advance(p, 1)
     ELSE /\ Goto(p, "validate")
          /\ left' = [left EXCEPT ![p] = UNION {Configs(p)[i].cpus : i \in DOMAIN Configs(p)}]
          /\ UNCHANGED at
  /\ UNCHANGED <<machineVars, line, cls, techs, child, historyVars>>

(* check_cpus: every core has to be in COS 0, as far as can be read. *)
CheckCore(p) ==
  /\ pc[p] = "validate"
  /\ left[p] # {}
  /\ CanCall
  /\ \/ /\ cos[Min(left[p])] = COS0
        /\ left' = [left EXCEPT ![p] = @ \ {Min(left[p])}]
        /\ UNCHANGED <<pc, faults>>
     \/ /\ IF cos[Min(left[p])] = COS0 THEN Fault ELSE UNCHANGED faults
        /\ Goto(p, "giveup")
        /\ UNCHANGED left
  /\ UNCHANGED <<machineVars, line, at, cls, techs, child, owner, unreleased, contested>>

(* The rest of alloc_validate looks at the command line only. *)
Validated(p) ==
  /\ pc[p] = "validate"
  /\ left[p] = {}
  /\ IF Supported(line[p]) /\ Apart(line[p])
     THEN Advance(p, 1)
     ELSE Goto(p, "giveup") /\ UNCHANGED <<at, left>>
  /\ UNCHANGED <<machineVars, line, cls, techs, child, historyVars>>

-----------------------------------------------------------------------------
(* The cores one pqos_alloc_assign of cfg_set_cores_msr or of              *)
(* cfg_set_cores_os is given.                                              *)
AssignSet(p) == IF iface = "MSR" THEN CoresAt(Cfg(p), Min(left[p])) ELSE Cfg(p).cpus

(* The class may be one that an rdtset was given for tasks, which have all *)
(* ended since, and that it has still to define.                           *)
StillToDefine(k) == {q \in Procs : pc[q] = "define" /\ IsPid(Cfg(q)) /\ cls[q] = k}

GotClass(p, k) == /\ cls' = [cls EXCEPT ![p] = k]
                  /\ techs' = [techs EXCEPT ![p] = Defines(k)]
                  /\ contested' = IF StillToDefine(k) = {} THEN contested ELSE contested \union {p}

AssignCores(p) ==
  /\ pc[p] = "assign"
  /\ ~IsPid(Cfg(p))
  /\ IF left[p] = {}
     THEN /\ Advance(p, at[p] + 1)
          /\ UNCHANGED <<cos, cls, techs, historyVars>>
     ELSE /\ CanCall
          /\ LET cs == AssignSet(p)
                 free == Unused(cs, Tech(Cfg(p)))
                 k == FirstUnused(cs, Tech(Cfg(p)))
             IN \/ /\ free # {}
                   /\ Associate(cs, k)
                   /\ Own(cs, p)
                   /\ GotClass(p, k)
                   /\ Goto(p, "define")
                   /\ UNCHANGED faults
                \/ /\ free = {}
                   /\ Goto(p, "revert")
                   /\ UNCHANGED <<cos, cls, techs, historyVars>>
                \/ /\ free # {}
                   /\ Fault
                   /\ \E done \in SUBSET cs : Associate(done, k) /\ Own(done, p)
                   /\ Goto(p, "revert")
                   /\ UNCHANGED <<cls, techs, contested>>
          /\ UNCHANGED <<at, left>>
  /\ UNCHANGED <<iface, task, live, def, lock, line, child>>

(* cfg_set_pids: a task that has ended stops it half way, and over MSRs,   *)
(* where -r and -p let such a configuration through, the library refuses.  *)
AssignPids(p) ==
  /\ pc[p] = "assign"
  /\ IsPid(Cfg(p))
  /\ CanCall
  /\ LET k == FirstUnused({}, Tech(Cfg(p)))
         free == IF iface = "OS" THEN UnusedOs ELSE {}
     IN \/ /\ free # {}
           /\ TasksOf(p) \subseteq live
           /\ AssociateTasks(TasksOf(p), k)
           /\ GotClass(p, k)
           /\ Goto(p, "define")
        \/ /\ free # {}
           /\ ~(TasksOf(p) \subseteq live)
           /\ \E done \in SUBSET (TasksOf(p) \intersect live) : AssociateTasks(done, k)
           /\ Goto(p, "unpid")
           /\ UNCHANGED <<cls, techs, contested>>
        \/ /\ free = {}
           /\ Goto(p, "unpid")
           /\ UNCHANGED <<task, cls, techs, contested>>
  /\ UNCHANGED <<iface, cos, live, def, lock, line, at, left, child, owner, unreleased, faults>>

(* cfg_configure_cos, a call per technology; those the command line says   *)
(* nothing about get the default.  After the last one the loop goes on     *)
(* with the next resource.                                                 *)
NextResource(p) ==
  LET rest == left[p] \ {Min(left[p])}
  IN IF rest = {}
     THEN Advance(p, at[p] + 1) /\ techs' = [techs EXCEPT ![p] = {}]
     ELSE /\ left' = [left EXCEPT ![p] = rest]
          /\ IF iface = "MSR"
             THEN Goto(p, "assign") /\ techs' = [techs EXCEPT ![p] = {}]
             ELSE techs' = [techs EXCEPT ![p] = Defines(cls[p])] /\ UNCHANGED pc
          /\ UNCHANGED at

NextTech(p) == IF "l3" \in techs[p] THEN "l3" ELSE IF "l2" \in techs[p] THEN "l2" ELSE "mba"

(* Without memory for the ids of the resources, which are listed before    *)
(* any is gone to, cfg_set_pids does not even release its tasks.           *)
NoneDefined(p) == left[p] = IdsToVisit(Cfg(p)) /\ techs[p] = Defines(cls[p])

DefineFails(p) == /\ \/ Goto(p, IF IsPid(Cfg(p)) THEN "unpid" ELSE "revert")
                     \/ IsPid(Cfg(p)) /\ NoneDefined(p) /\ Goto(p, "revert")
                  /\ UNCHANGED <<def, at, left, techs>>

DefineClass(p) ==
  /\ pc[p] = "define"
  /\ CanCall
  /\ LET t == NextTech(p) IN
       \/ /\ Define(t, ResOf(CoreAt(Cfg(p), Min(left[p])), t), cls[p], Wanted(Cfg(p), t))
          /\ IF techs[p] = {t}
             THEN NextResource(p)
             ELSE techs' = [techs EXCEPT ![p] = @ \ {t}] /\ UNCHANGED <<pc, at, left>>
          /\ UNCHANGED faults
       \/ Fault /\ DefineFails(p)
  /\ UNCHANGED <<iface, cos, task, live, lock, line, cls, child, owner, unreleased, contested>>

-----------------------------------------------------------------------------
(* alloc_release: cores of which some cannot be put back. *)
ReleaseCores(p, cs) ==
  \E lost \in SUBSET cs :
    /\ IF lost = {} THEN UNCHANGED faults ELSE Fault
    /\ Associate(cs \ lost, COS0)
    /\ owner' = [c \in Cores |-> IF c \in cs \ lost THEN Nobody ELSE owner[c]]
    /\ unreleased' = (unreleased \ cs) \union lost
    /\ UNCHANGED contested

(* pqos_alloc_release_pid, which passes over tasks that have ended. *)
ReleaseTasks(xs) == AssociateTasks(xs \intersect live, COS0)

(* The end of cfg_set_pids when it fails. *)
Unpid(p) ==
  /\ pc[p] = "unpid"
  /\ CanCall
  /\ ReleaseTasks(TasksOf(p))
  /\ Goto(p, "revert")
  /\ UNCHANGED <<iface, cos, live, def, lock, line, at, left, cls, techs, child, historyVars>>

(* Variants of the revert below, each a slip the code could have had. *)
RevertAboveFirst(p) ==
  /\ pc[p] = "revert"
  /\ IF IsPid(Cfg(p)) \/ at[p] = 1
     THEN UNCHANGED <<cos, historyVars>>
     ELSE CanCall /\ ReleaseCores(p, Cfg(p).cpus)
  /\ IF at[p] = 1 THEN Goto(p, "giveup") /\ UNCHANGED at
                  ELSE at' = [at EXCEPT ![p] = @ - 1] /\ UNCHANGED pc
  /\ UNCHANGED <<iface, task, live, def, lock, line, left, cls, techs, child>>

RevertWrapsAround(p) ==
  /\ pc[p] = "revert"
  /\ IF IsPid(Cfg(p))
     THEN UNCHANGED <<cos, historyVars>>
     ELSE CanCall /\ ReleaseCores(p, Cfg(p).cpus)
  /\ at' = [at EXCEPT ![p] = IF at[p] = 1 THEN Len(Configs(p)) ELSE at[p] - 1]
  /\ UNCHANGED <<iface, task, live, def, lock, line, pc, left, cls, techs, child>>

(* The revert of alloc_configure, from the failing configuration down.     *)
(* Those of tasks are passed over, also when they were in place.           *)
Revert(p) ==
  /\ pc[p] = "revert"
  /\ IF IsPid(Cfg(p))
     THEN UNCHANGED <<cos, historyVars>>
     ELSE CanCall /\ ReleaseCores(p, Cfg(p).cpus)
  /\ IF at[p] = 1 THEN Goto(p, "giveup") /\ UNCHANGED at
                  ELSE at' = [at EXCEPT ![p] = @ - 1] /\ UNCHANGED pc
  /\ UNCHANGED <<iface, task, live, def, lock, line, left, cls, techs, child>>

(* alloc_fini and _Exit, which runs no exit handler: after a failed        *)
(* configuration, and after one that is to stay.                           *)
Leave(p) ==
  /\ pc[p] \in {"giveup", "leave"}
  /\ CanCall
  /\ Goto(p, IF pc[p] = "giveup" THEN "failed" ELSE "done")
  /\ UNCHANGED <<machineVars, line, at, left, cls, techs, child, historyVars>>

(* set_affinity for the tasks; the first that fails ends it in alloc_exit. *)
SetAffinity(p) ==
  /\ pc[p] = "affinity"
  /\ IF line[p].pids \subseteq live
     THEN Goto(p, "leave") /\ UNCHANGED at
     ELSE StartExit(p)
  /\ UNCHANGED <<machineVars, line, left, cls, techs, child, historyVars>>

(* execute_cmd. *)
Fork(p) ==
  /\ pc[p] = "fork"
  /\ \/ /\ child' = [child EXCEPT ![p] = "forked"]
        /\ Goto(p, "wait")
        /\ UNCHANGED <<at, faults>>
     \/ /\ Fault
        /\ StartExit(p)
        /\ UNCHANGED child
  /\ UNCHANGED <<machineVars, line, left, cls, techs, owner, unreleased, contested>>

(* The child sets its affinity, drops privileges and becomes the command,  *)
(* or fails at one of these.                                               *)
ChildExec(p) ==
  /\ child[p] = "forked"
  /\ \/ /\ child' = [child EXCEPT ![p] = "command"]
        /\ UNCHANGED faults
     \/ /\ Fault
        /\ child' = [child EXCEPT ![p] = "over"]
  /\ UNCHANGED <<machineVars, line, pc, at, left, cls, techs, owner, unreleased, contested>>

CommandEnds(p) ==
  /\ child[p] = "command"
  /\ child' = [child EXCEPT ![p] = "over"]
  /\ UNCHANGED <<machineVars, line, pc, at, left, cls, techs, historyVars>>

(* waitpid returns; whatever the status, exit() runs alloc_exit. *)
Wait(p) ==
  /\ pc[p] = "wait"
  /\ child[p] = "over"
  /\ StartExit(p)
  /\ UNCHANGED <<machineVars, line, left, cls, techs, child, historyVars>>

(* alloc_exit, configuration by configuration, then alloc_fini.  The cores *)
(* of a configuration are released whether it was reached or not.          *)
Exit(p) ==
  /\ pc[p] = "exit"
  /\ IF at[p] > Len(Configs(p))
     THEN /\ CanCall
          /\ Goto(p, "ended")
          /\ UNCHANGED <<cos, task, at, historyVars>>
     ELSE /\ at' = [at EXCEPT ![p] = @ + 1]
          /\ UNCHANGED pc
          /\ IF IsPid(Cfg(p))
             THEN /\ IF line[p].pids = {} THEN UNCHANGED task
                     ELSE CanCall /\ ReleaseTasks(line[p].pids)
                  /\ UNCHANGED <<cos, historyVars>>
             ELSE CanCall /\ ReleaseCores(p, Cfg(p).cpus) /\ UNCHANGED task
  /\ UNCHANGED <<iface, live, def, lock, line, left, cls, techs, child>>

-----------------------------------------------------------------------------
(* SIGINT or SIGTERM between two calls of the library: the handler runs    *)
(* alloc_exit and the process dies of the signal.  The command lives on.   *)
Interrupt(p) ==
  /\ pc[p] \in Running
  /\ Fault
  /\ StartExit(p)
  /\ UNCHANGED <<machineVars, line, left, cls, techs, child, owner, unreleased, contested>>

(* The same signal inside a call: alloc_exit calls the library, whose      *)
(* mutex the interrupted call holds, and waits for itself.                 *)
InterruptInCall(p) ==
  /\ pc[p] \in Calling
  /\ CanCall
  /\ Fault
  /\ lock' = p
  /\ Goto(p, "stuck")
  /\ UNCHANGED <<iface, cos, task, live, def, line, at, left, cls, techs, child, owner, unreleased, contested>>

(* The child inherits the handler, until exec: a signal to the child makes *)
(* it release the cores of its parent.                                     *)
InterruptChild(p) ==
  /\ child[p] = "forked"
  /\ pc[p] = "wait"
  /\ Fault
  /\ child' = [child EXCEPT ![p] = "handler"]
  /\ left' = [left EXCEPT ![p] = DOMAIN Configs(p)]
  /\ UNCHANGED <<machineVars, line, pc, at, cls, techs, owner, unreleased, contested>>

ChildReleases(p) ==
  /\ child[p] = "handler"
  /\ CanCall
  /\ IF left[p] = {}
     THEN child' = [child EXCEPT ![p] = "over"] /\ UNCHANGED <<cos, left, historyVars>>
     ELSE LET i == Min(left[p])
          IN /\ ReleaseCores(p, Configs(p)[i].cpus)
             /\ left' = [left EXCEPT ![p] = @ \ {i}]
             /\ UNCHANGED child
  /\ UNCHANGED <<iface, task, live, def, lock, line, pc, at, cls, techs>>

(* kill -9, which nothing is released for; the kernel drops the API lock. *)
Kill(p) ==
  /\ pc[p] \in Running \union Asleep
  /\ Fault
  /\ Goto(p, "killed")
  /\ lock' = IF lock = p THEN Nobody ELSE lock
  /\ UNCHANGED <<iface, cos, task, live, def, line, at, left, cls, techs, child, owner, unreleased, contested>>

(* A task ends; that of a process stands for its command too. *)
TaskEnds(x) ==
  /\ x \in live
  /\ x \in Procs => pc[x] \in Over /\ child[x] \in {"none", "over"}
  /\ live' = live \ {x}
  /\ UNCHANGED <<iface, cos, task, def, lock, procVars, historyVars>>

(* What a process does of its own accord. *)
Step(p) == \/ ResetCore(p) \/ ResetDone(p) \/ CheckCore(p) \/ Validated(p)
           \/ AssignCores(p) \/ AssignPids(p) \/ DefineClass(p) \/ Unpid(p) \/ Revert(p)
           \/ Leave(p) \/ SetAffinity(p) \/ Fork(p) \/ Wait(p) \/ Exit(p)

ChildStep(p) == ChildExec(p) \/ CommandEnds(p) \/ ChildReleases(p)

RdtsetNext == \/ \E p \in Procs : \/ Start(p) \/ Step(p) \/ ChildStep(p)
                                  \/ Interrupt(p) \/ InterruptInCall(p) \/ InterruptChild(p)
                                  \/ Kill(p)
              \/ \E x \in Tasks : TaskEnds(x)

Init == MachineInit /\ RdtsetInit

Spec == Init /\ [][RdtsetNext]_vars

(* A process that can go on does: nothing of rdtset waits but for the API  *)
(* lock and the command.  Nothing obliges a command to end.                *)
FairSpec == Spec /\ \A p \in Procs : /\ WF_vars(Step(p))
                                    /\ WF_vars(ChildExec(p) \/ ChildReleases(p))

-----------------------------------------------------------------------------
TypeOK ==
  /\ MachineTypeOK
  /\ pc \in [Procs -> Running \union Over \union Asleep \union {"off"}]
  /\ at \in [Procs -> Nat]
  /\ left \in [Procs -> SUBSET Nat]
  /\ cls \in [Procs -> Classes]
  /\ techs \in [Procs -> SUBSET Technologies]
  /\ child \in [Procs -> {"none", "forked", "command", "handler", "over"}]
  /\ owner \in [Cores -> Procs \union {Nobody}]
  /\ unreleased \subseteq Cores
  /\ contested \subseteq Procs
  /\ lock \in Procs \union {Nobody}
  /\ faults \in 0 .. MaxFaults

(* An rdtset that ended, by itself, by a signal or because configuring     *)
(* failed half way, leaves no core in a class it was given, but those      *)
(* whose release failed ("resets allocation configuration on exit",        *)
(* rdtset.c).  One asked to leave its configuration in place does.         *)
NothingLeftBehind ==
  \A p \in Procs, c \in Cores :
    pc[p] \in {"ended", "failed"} /\ owner[c] = p => c \in unreleased

(* Nobody else's command line names cores or tasks of this one. *)
Alone(p) ==
  \A q \in Procs \ {p} : Names(p) \intersect Names(q) = {} /\ TasksOf(p) \intersect TasksOf(q) = {}

AllAlone == \A p \in Procs : Alone(p)

L2Asked == \E p \in Procs : \E i \in DOMAIN Configs(p) : "l2" \in Tech(Configs(p)[i])

(* Over MSRs a configuration with L2 CAT searches its L2 clusters only,    *)
(* although a class has one L3 definition per socket.                      *)
L2Searches == iface = "MSR" /\ L2Asked

(* Cores that no two searches can give the same class. *)
Near(c, d) == \/ iface = "OS"
              \/ IF L2Searches THEN L2Of[c] = L2Of[d] ELSE SocketOf[c] = SocketOf[d]

(* The configuration of a process is in place. *)
InPlace(p) == \/ pc[p] \in {"fork", "affinity", "leave", "done"}
              \/ pc[p] = "wait" /\ child[p] \in {"forked", "command"}

(* Where a configuration does not say otherwise its class has the default, *)
(* but for L2 CAT: that is put in one cluster of each socket only, so the  *)
(* others may keep what the class was to someone before.                   *)
Told(cfg) == IF L2Asked THEN Tech(cfg) \union {"l3", "mba"} ELSE Technologies

Meets(cfg, k, c) == \A t \in Defines(k) \intersect Told(cfg) : def[t][ResOf(c, t)][k] = Wanted(cfg, t)

(* While its command runs, and for good when it was given tasks, the cores *)
(* of a configuration use what the command line says, whatever rdtsets for *)
(* other cores start, fail, end or die meanwhile.                          *)
CoresUseWhatWasAsked ==
  \A p \in Procs \ contested : InPlace(p) /\ AllAlone /\ ~L2Searches =>
    \A i \in DOMAIN Configs(p) : \A c \in Configs(p)[i].cpus : Meets(Configs(p)[i], cos[c], c)

(* The same for the tasks of a configuration, on every core. *)
TasksUseWhatWasAsked ==
  \A p \in Procs \ contested : InPlace(p) /\ AllAlone =>
    \A i \in PidConfigs(line[p]) : \A x \in TasksOf(p) \intersect live, c \in Cores :
      Meets(Configs(p)[i], task[x], c)

(* Nobody joins a class that an rdtset was given for its cores: what it    *)
(* was told to isolate shares with no one.                                 *)
ClassIsItsOwn ==
  \A p \in Procs : InPlace(p) /\ Alone(p) =>
    \A i \in DOMAIN Configs(p) : \A c \in Configs(p)[i].cpus, d \in Cores :
      Near(c, d) /\ cos[d] = cos[c] => d \in Configs(p)[i].cpus

(* The ids of a technology's resources are those the loops go over. *)
NoGaps == \A tech \in (SUBSET Technologies) \ {{}} :
            {SearchRes(c, tech) : c \in Cores} = 0 .. MaxRes(tech) - 1

(* A started rdtset comes to its end, or to its command, unless some       *)
(* rdtset sleeps in its signal handler with the API lock: no other order   *)
(* of failures, signals and exits stops it.                                *)
ComesToItsEnd ==
  \A p \in Procs : (pc[p] \in Running) ~> \/ pc[p] \in Over
                                          \/ child[p] = "command"
                                          \/ lock # Nobody
=============================================================================
