---------------------------- MODULE RdtsetProofs ----------------------------
(***************************************************************************)
(* Several rdtsets on one machine, for any cores, tasks, classes, command  *)
(* lines and faults: what each has put in place stays as it was asked for  *)
(* while the others go on, and goes with it when it ends.                  *)
(***************************************************************************)
EXTENDS Rdtset, FiniteSetTheorems, WellFoundedInduction, TLAPS

(* How far a process is: configuration i is in place, or is the one that   *)
(* classes are being assigned and defined for.                             *)
Configuring(p) == pc[p] \in {"assign", "define"}
Placed(p, i) == InPlace(p) \/ (Configuring(p) /\ i < at[p])
AtIt(p, i) == Configuring(p) /\ i = at[p]

(* The resources of that one whose cores have no class yet. *)
Todo(p) == IF pc[p] # "define" THEN left[p]
           ELSE IF iface = "OS" THEN {} ELSE left[p] \ {Min(left[p])}

Held(p, i, c) == \/ Placed(p, i)
                 \/ AtIt(p, i) /\ SearchRes(c, Tech(Cfg(p))) \notin Todo(p)
HeldPids(p, i) == Placed(p, i) \/ (AtIt(p, i) /\ pc[p] = "define")

(* The class is defined for technology t on the resource r. *)
Defined(p, i, r, t) == \/ Placed(p, i)
                       \/ /\ AtIt(p, i)
                          /\ \/ r \notin left[p]
                             \/ pc[p] = "define" /\ r = Min(left[p]) /\ t \notin techs[p]

LineInv == line \in Lines[iface] /\ \A p \in Procs : ValidArgs(line[p], iface)

(* Where the loops of a process are. *)
Place(p) ==
  /\ pc[p] \in {"assign", "define", "unpid", "revert"} => at[p] \in DOMAIN Configs(p)
  /\ pc[p] = "exit" => at[p] > 0
  /\ pc[p] = "reset" => left[p] \subseteq line[p].reset
  /\ pc[p] = "validate" => left[p] \subseteq Cores
  /\ child[p] # "none" => pc[p] \in {"wait", "exit", "ended", "stuck", "killed"}
  /\ child[p] = "handler" => left[p] \subseteq DOMAIN Configs(p)

PlaceInv == \A p \in Procs : Place(p)

(* Over MSRs no task is ever given a class. *)
OsInv == \A p \in Procs : \A i \in PidConfigs(line[p]) : HeldPids(p, i) => iface = "OS"

Loop(p) ==
  /\ Configuring(p) => left[p] # {} /\ left[p] \subseteq IdsToVisit(Cfg(p))
  /\ pc[p] = "assign" /\ (iface = "OS" \/ IsPid(Cfg(p))) => left[p] = IdsToVisit(Cfg(p))
  /\ Configuring(p) \/ InPlace(p) => Apart(line[p])

LoopInv == \A p \in Procs : Loop(p)

(* The configurations whose cores a process may own. *)
MayOwn(p) == IF pc[p] \in {"off", "reset", "validate", "giveup", "failed", "ended"} THEN {}
             ELSE IF pc[p] \in {"assign", "define", "unpid", "revert"} THEN 1 .. at[p]
             ELSE IF pc[p] = "exit" THEN {i \in DOMAIN Configs(p) : i >= at[p]}
             ELSE DOMAIN Configs(p)

OwnedInv ==
  \A p \in Procs, c \in Cores :
    owner[c] = p /\ c \notin unreleased => \E i \in MayOwn(p) : c \in Configs(p)[i].cpus

(* A core shares its class with none that a search could have given it,    *)
(* and a task with nothing but the tasks it came with.                     *)
Isolated(c, own) == /\ cos[c] # COS0
                    /\ \A d \in Cores \ own : Near(c, d) => cos[d] # cos[c]
                    /\ iface = "OS" => \A x \in live : task[x] # cos[c]
TaskIsolated(x, own) == /\ task[x] # COS0
                        /\ \A c \in Cores : cos[c] # task[x]
                        /\ \A y \in live \ own : task[y] # task[x]

CoresHeld(p) == \A i \in DOMAIN Configs(p) : \A c \in Configs(p)[i].cpus :
                  Held(p, i, c) => Isolated(c, Configs(p)[i].cpus)
TasksHeld(p) == \A i \in PidConfigs(line[p]) :
                  HeldPids(p, i) => \A x \in TasksOf(p) \intersect live : TaskIsolated(x, TasksOf(p))

(* The class that a process is defining is the one it was given. *)
Current(p) ==
  pc[p] = "define" =>
    IF IsPid(Cfg(p)) THEN \A x \in TasksOf(p) \intersect live : task[x] = cls[p]
    ELSE \A c \in Cfg(p).cpus :
           iface = "OS" \/ SearchRes(c, Tech(Cfg(p))) = Min(left[p]) => cos[c] = cls[p]

IsolInv == \A p \in Procs : Alone(p) => CoresHeld(p) /\ TasksHeld(p) /\ Current(p)

(* A class given for tasks is still only for them when it is defined,      *)
(* unless they have ended and somebody got it that is marked for it.       *)
Spared(q, p) ==
  /\ \A i \in DOMAIN Configs(p) : \A c \in Configs(p)[i].cpus : Held(p, i, c) => cos[c] # cls[q]
  /\ p # q => \A i \in PidConfigs(line[p]) :
                HeldPids(p, i) => \A x \in TasksOf(p) \intersect live : task[x] # cls[q]

PendingInv ==
  AllAlone => \A q \in Procs : pc[q] = "define" /\ IsPid(Cfg(q)) =>
                \A p \in Procs : p = q \/ p \notin contested => Spared(q, p)

(* What has been defined is what was asked for. *)
CoresDefined(p) ==
  \A i \in DOMAIN Configs(p) : \A c \in Configs(p)[i].cpus :
    Held(p, i, c) =>
      \A t \in Defines(cos[c]) \intersect Told(Configs(p)[i]) :
        Defined(p, i, SearchRes(c, Tech(Configs(p)[i])), t)
          => def[t][ResOf(c, t)][cos[c]] = Wanted(Configs(p)[i], t)
TasksDefined(p) ==
  \A i \in PidConfigs(line[p]) :
    HeldPids(p, i) =>
      \A x \in TasksOf(p) \intersect live, c \in Cores :
        \A t \in Defines(task[x]) \intersect Told(Configs(p)[i]) :
          Defined(p, i, SearchRes(c, Tech(Configs(p)[i])), t)
            => def[t][ResOf(c, t)][task[x]] = Wanted(Configs(p)[i], t)

DefinedInv ==
  /\ ~L2Asked => \A r \in Resources("l2"), k \in Classes : def["l2"][r][k] = Full
  /\ AllAlone /\ ~L2Searches =>
       \A p \in Procs \ contested : CoresDefined(p) /\ TasksDefined(p)

(* A class was given away before it was defined only when all the tasks    *)
(* that somebody was asked to put in it had ended.                         *)
TasksGone(q) == PidConfigs(line[q]) # {} /\ line[q].pids # {} /\ line[q].pids \intersect live = {}
LiveInv == \A p \in Procs : p \in live \/ pc[p] \in Over
ContestedInv == contested # {} /\ AllAlone => \E q \in Procs : TasksGone(q)

BaseInv == TypeOK /\ LineInv /\ PlaceInv
(* Sets of numbers have the least element, and when bounded the greatest,  *)
(* that Min and Max choose.                                                *)
LEMMA LeastNatural ==
  ASSUME NEW S, S \subseteq Nat, S # {}
  PROVE  Min(S) \in S /\ \A x \in S : Min(S) <= x
<1> DEFINE R == OpToRel(<, Nat)
<1>1. \A x, y \in Nat : x < y => <<x, y>> \in R
  BY DEF OpToRel
<1>2. IsWellFoundedOn(R, Nat)
  BY NatLessThanWellFounded
<1> HIDE DEF R
<1>3. PICK m \in S : \A x \in S : ~ (<<x, m>> \in R)
  BY <1>2, WFMin
<1>4. \A x \in S : m <= x
  <2>1. \A x \in S : ~ (x < m)
    BY <1>1, <1>3
  <2>2. QED
    BY <2>1
<1>5. QED
  BY <1>4 DEF Min

LEMMA GreatestNumber ==
  ASSUME NEW S, S \subseteq Int, S # {}, NEW b \in Int, \A x \in S : x <= b
  PROVE  Max(S) \in S /\ \A x \in S : x <= Max(S)
<1> DEFINE D == {b - x : x \in S}
<1>1. D \subseteq Nat
  <2>1. \A x \in S : b - x \in Nat
    OBVIOUS
  <2>2. QED
    BY <2>1
<1>2. Min(D) \in D /\ \A d \in D : Min(D) <= d
  <2> HIDE DEF D
  <2>1. D # {}
    BY DEF D
  <2>2. QED
    BY <1>1, <2>1, LeastNatural
<1>3. PICK m \in S : Min(D) = b - m
  BY <1>2
<1>4. \A x \in S : b - m <= b - x
  BY <1>2, <1>3
<1>5. \A x \in S : m >= x
  BY <1>4
<1>6. QED
  BY <1>5 DEF Max

-----------------------------------------------------------------------------
(* Facts about command lines.                                              *)

(* A configuration that parsing lets through names cores of the machine    *)
(* and some technology.                                                    *)
LEMMA ConfigFacts ==
  ASSUME NEW cfg \in Config
  PROVE  /\ cfg.cpus \subseteq Cores
         /\ Tech(cfg) \subseteq Technologies /\ Tech(cfg) # {}
         /\ \A t \in Technologies : Wanted(cfg, t) \in Values
<1>1. cfg.cpus \subseteq Cores /\ cfg.want \in [Technologies -> Values \union {NotSet}]
  BY DEF Config
<1>2. PICK t \in Technologies : cfg.want[t] # NotSet
  BY DEF Config
<1>3. Tech(cfg) \subseteq Technologies /\ Tech(cfg) # {}
  BY <1>2 DEF Tech
<1>4. \A u \in Technologies : Wanted(cfg, u) \in Values
  BY <1>1, MachineAssumption DEF Wanted
<1>5. QED
  BY <1>1, <1>3, <1>4

LEMMA LineFacts ==
  ASSUME iface \in Interfaces, LineInv, NEW p \in Procs
  PROVE  /\ Configs(p) \in Seq(Config)
         /\ Len(Configs(p)) \in Nat /\ DOMAIN Configs(p) = 1 .. Len(Configs(p))
         /\ \A i \in DOMAIN Configs(p) : Configs(p)[i] \in Config /\ Configs(p)[i].cpus \subseteq Names(p)
         /\ line[p].reset \subseteq Cores /\ line[p].reset \subseteq Names(p)
         /\ TasksOf(p) \subseteq Tasks
         /\ PidConfigs(line[p]) \subseteq DOMAIN Configs(p)
<1>1. line[p] \in [reset : SUBSET Cores, configs : Seq(Config), pids : SUBSET Tasks,
                   affinity : BOOLEAN, cmd : BOOLEAN]
  BY LinesType DEF LineInv
<1>2. Configs(p) \in Seq(Config)
  BY <1>1 DEF Configs
<1>3. Len(Configs(p)) \in Nat /\ DOMAIN Configs(p) = 1 .. Len(Configs(p))
  BY <1>2
<1>4. \A i \in DOMAIN Configs(p) : Configs(p)[i] \in Config
  BY <1>2
<1>5. \A i \in DOMAIN Configs(p) : Configs(p)[i].cpus \subseteq Names(p)
  BY DEF Names
<1>6. line[p].reset \subseteq Cores /\ line[p].reset \subseteq Names(p)
  BY <1>1 DEF Names
<1>7. TasksOf(p) \subseteq Tasks
  BY <1>1, OwnTasks DEF TasksOf
<1>8. PidConfigs(line[p]) \subseteq DOMAIN Configs(p)
  BY DEF PidConfigs, Configs
<1>9. QED
  BY <1>2, <1>3, <1>4, <1>5, <1>6, <1>7, <1>8

(* A command line has one configuration for tasks at most. *)
LEMMA OnePidConfig ==
  ASSUME iface \in Interfaces, LineInv, NEW p \in Procs,
         NEW i \in PidConfigs(line[p]), NEW j \in PidConfigs(line[p])
  PROVE  i = j
<1> DEFINE S == PidConfigs(line[p])
<1>1. IsFiniteSet(S) /\ Cardinality(S) <= 1
  <2>1. Cardinality(S) <= 1
    BY DEF LineInv, ValidArgs
  <2>2. S \subseteq 1 .. Len(Configs(p)) /\ Len(Configs(p)) \in Nat
    BY LineFacts
  <2>3. IsFiniteSet(1 .. Len(Configs(p)))
    BY <2>2, FS_Interval
  <2>4. QED
    BY <2>1, <2>2, <2>3, FS_Subset
<1>2. SUFFICES ASSUME i # j PROVE FALSE
  OBVIOUS
<1>3. {i, j} \subseteq S
  OBVIOUS
<1> HIDE DEF S
<1>4. IsFiniteSet({i, j}) /\ Cardinality({i, j}) <= Cardinality(S)
  BY <1>1, <1>3, FS_Subset
<1>5. Cardinality({j}) = 1 /\ IsFiniteSet({j})
  BY FS_Singleton
<1>6. Cardinality({j} \union {i}) = Cardinality({j}) + 1
  BY <1>2, <1>5, FS_AddElement
<1>7. {j} \union {i} = {i, j}
  OBVIOUS
<1>8. Cardinality(S) \in Nat
  BY <1>1, FS_CardinalityType
<1>9. QED
  BY <1>1, <1>4, <1>5, <1>6, <1>7, <1>8

-----------------------------------------------------------------------------
(* Facts about classes.                                                    *)

LEMMA ClassNumbers == Classes \subseteq Nat /\ COS0 \in Classes /\ \E b \in Nat : \A k \in Classes : k <= b
<1>1. NumCos \in [Technologies -> Nat] /\ COS0 \in Classes
  BY MachineAssumption
<1>2. Classes \subseteq Nat
  BY <1>1 DEF Classes
<1>3. NumCos["l3"] \in Nat /\ NumCos["l2"] \in Nat /\ NumCos["mba"] \in Nat
  BY <1>1 DEF Technologies
<1> DEFINE b == NumCos["l3"] + NumCos["l2"] + NumCos["mba"]
<1>4. \A k \in Classes : k <= b
  <2> SUFFICES ASSUME NEW t \in Technologies, NEW k \in 0 .. NumCos[t] - 1
               PROVE  k <= b
    BY DEF Classes
  <2>1. t = "l3" \/ t = "l2" \/ t = "mba"
    BY DEF Technologies
  <2>2. QED
    BY <1>3, <2>1
<1>5. b \in Nat
  BY <1>3
<1> HIDE DEF b
<1>6. QED
  BY <1>1, <1>2, <1>4, <1>5

(* A search that finds something finds a class that is unused. *)
LEMMA FirstUnusedIsUnused ==
  ASSUME NEW cs, NEW tech, Unused(cs, tech) # {}
  PROVE  FirstUnused(cs, tech) \in Unused(cs, tech) /\ FirstUnused(cs, tech) \in Classes \ {COS0}
<1> DEFINE S == Unused(cs, tech)
<1>1. S \subseteq Classes \ {COS0}
  BY DEF Unused, UnusedMsr, UnusedOs
<1>2. PICK b \in Nat : \A k \in Classes : k <= b
  BY ClassNumbers
<1> HIDE DEF S
<1>3. S \subseteq Int /\ b \in Int /\ \A k \in S : k <= b
  BY <1>1, <1>2, ClassNumbers
<1>4. S # {}
  BY DEF S
<1>5. Max(S) \in S
  <2>1. \A x \in S : x <= b
    BY <1>3
  <2>2. QED
    BY ONLY <1>3, <1>4, <2>1, GreatestNumber
<1>6. FirstUnused(cs, tech) = Max(S)
  BY DEF FirstUnused, S
<1>7. QED
  BY <1>1, <1>5, <1>6 DEF S

-----------------------------------------------------------------------------
(* What processes do, as far as the types and the loops go.                *)

(* The cores of an assignment are of the configuration it is for. *)
LEMMA AssignSetInConfig ==
  ASSUME NEW p \in Procs
  PROVE  AssignSet(p) \subseteq Cfg(p).cpus
BY DEF AssignSet, CoresAt

(* What Advance leaves is a place in main() for every process. *)
LEMMA AdvanceTypes ==
  ASSUME TypeOK, NEW p \in Procs, NEW i \in Nat, Advance(p, i)
  PROVE  /\ pc' \in [Procs -> Running \union Over \union Asleep \union {"off"}]
         /\ at' \in [Procs -> Nat]
         /\ left' \in [Procs -> SUBSET Nat]
<1>1. \A cfg : IdsToVisit(cfg) \subseteq Nat
  BY DEF IdsToVisit
<1>2. QED
  BY <1>1 DEF TypeOK, Advance, Goto, Configured, Running, Calling, Between

(* Putting cores back in class 0 keeps the types. *)
LEMMA ReleaseTypes ==
  ASSUME TypeOK, NEW p \in Procs, NEW cs \in SUBSET Cores, ReleaseCores(p, cs)
  PROVE  /\ cos' \in [Cores -> Classes]
         /\ owner' \in [Cores -> Procs \union {Nobody}]
         /\ unreleased' \subseteq Cores
         /\ contested' = contested
         /\ faults' \in 0 .. MaxFaults
<1>1. PICK lost \in SUBSET cs :
        /\ IF lost = {} THEN UNCHANGED faults ELSE Fault
        /\ Associate(cs \ lost, COS0)
        /\ owner' = [c \in Cores |-> IF c \in cs \ lost THEN Nobody ELSE owner[c]]
        /\ unreleased' = (unreleased \ cs) \union lost
        /\ UNCHANGED contested
  BY DEF ReleaseCores
<1>2. cos' \in [Cores -> Classes]
  BY <1>1, ClassNumbers DEF Associate, TypeOK, MachineTypeOK
<1>3. owner' \in [Cores -> Procs \union {Nobody}]
  BY <1>1 DEF TypeOK
<1>4. unreleased' \subseteq Cores
  BY <1>1 DEF TypeOK
<1>5. faults' \in 0 .. MaxFaults
  BY <1>1, MaxFaultsType DEF TypeOK, Fault
<1>6. QED
  BY <1>1, <1>2, <1>3, <1>4, <1>5

(* The types of the variables of the processes alone. *)
ProcTypes ==
  /\ pc \in [Procs -> Running \union Over \union Asleep \union {"off"}]
  /\ at \in [Procs -> Nat]
  /\ left \in [Procs -> SUBSET Nat]
  /\ cls \in [Procs -> Classes]
  /\ techs \in [Procs -> SUBSET Technologies]
  /\ child \in [Procs -> {"none", "forked", "command", "handler", "over"}]

(* And of the rest. *)
OtherTypes ==
  /\ owner \in [Cores -> Procs \union {Nobody}]
  /\ unreleased \subseteq Cores
  /\ contested \subseteq Procs
  /\ lock \in Procs \union {Nobody}
  /\ faults \in 0 .. MaxFaults

LEMMA TypesSplit == TypeOK <=> MachineTypeOK /\ ProcTypes /\ OtherTypes
BY DEF TypeOK, ProcTypes, OtherTypes

LEMMA BaseInit == Init => BaseInv
<1> SUFFICES ASSUME Init PROVE BaseInv
  OBVIOUS
<1>1. MachineTypeOK
  BY ClassNumbers, MachineAssumption DEF Init, MachineInit, RdtsetInit, MachineTypeOK
<1>2. ProcTypes
  BY ClassNumbers DEF Init, RdtsetInit, ProcTypes
<1>3. OtherTypes
  BY MaxFaultsType DEF Init, RdtsetInit, MachineInit, OtherTypes
<1>4. LineInv
  BY DEF Init, RdtsetInit, LineInv
<1>5. PlaceInv
  BY DEF Init, RdtsetInit, PlaceInv, Place
<1>6. QED
  BY <1>1, <1>2, <1>3, <1>4, <1>5, TypesSplit DEF BaseInv

LEMMA DefinesTypes == \A k : Defines(k) \subseteq Technologies
BY DEF Defines, Present

LEMMA FaultTypes == TypeOK /\ Fault => faults' \in 0 .. MaxFaults
BY MaxFaultsType DEF TypeOK, Fault

(* A configuration that somebody is at exists. *)
LEMMA CfgFacts ==
  ASSUME BaseInv, NEW p \in Procs, pc[p] \in {"assign", "define", "unpid", "revert"}
  PROVE  /\ at[p] \in DOMAIN Configs(p) /\ at[p] \in Nat /\ at[p] >= 1 /\ at[p] <= Len(Configs(p))
         /\ Len(Configs(p)) \in Nat
         /\ Cfg(p) \in Config /\ Cfg(p) = Configs(p)[at[p]]
         /\ Cfg(p).cpus \subseteq Cores /\ Cfg(p).cpus \subseteq Names(p)
<1>1. iface \in Interfaces /\ LineInv
  BY DEF BaseInv, TypeOK, MachineTypeOK
<1>2. at[p] \in DOMAIN Configs(p) /\ Cfg(p) = Configs(p)[at[p]]
  BY DEF BaseInv, PlaceInv, Place, Cfg
<1>3. QED
  BY <1>1, <1>2, LineFacts, ConfigFacts

LEMMA AssignCoresTypes ==
  ASSUME BaseInv, NEW p \in Procs, AssignCores(p)
  PROVE  TypeOK'
<1>1. /\ Cfg(p).cpus \subseteq Cores /\ pc[p] = "assign" /\ at[p] + 1 \in Nat
  BY CfgFacts DEF AssignCores
<1>2. TypeOK /\ AssignSet(p) \subseteq Cores
  BY <1>1, AssignSetInConfig DEF BaseInv
<1>3. CASE left[p] = {}
  <2>1. Advance(p, at[p] + 1) /\ UNCHANGED <<machineVars, line, child, cls, techs, historyVars>>
    BY <1>3 DEF AssignCores, machineVars, historyVars
  <2>2. pc' \in [Procs -> Running \union Over \union Asleep \union {"off"}] /\ at' \in [Procs -> Nat]
         /\ left' \in [Procs -> SUBSET Nat]
    BY <1>1, <1>2, <2>1, AdvanceTypes
  <2>3. MachineTypeOK' /\ OtherTypes' /\ ProcTypes'
    BY <1>2, <2>1, <2>2 DEF TypeOK, MachineTypeOK, machineVars, historyVars, OtherTypes, ProcTypes
  <2>4. QED
    BY <2>3 DEF TypeOK, OtherTypes, ProcTypes
<1>4. CASE left[p] # {}
  <2> DEFINE cs == AssignSet(p)
             k == FirstUnused(cs, Tech(Cfg(p)))
  <2>1. Unused(cs, Tech(Cfg(p))) # {} => k \in Classes
    BY FirstUnusedIsUnused
  <2>2. cos' \in [Cores -> Classes] /\ owner' \in [Cores -> Procs \union {Nobody}] /\ unreleased' \subseteq Cores
    <3>1. CASE /\ Unused(cs, Tech(Cfg(p))) # {}
               /\ \E done \in SUBSET cs : Associate(done, k) /\ Own(done, p)
      BY <1>2, <2>1, <3>1 DEF TypeOK, MachineTypeOK, Associate, Own
    <3>2. CASE UNCHANGED <<cos, owner, unreleased>>
      BY <1>2, <3>2 DEF TypeOK, MachineTypeOK
    <3>3. QED
      BY <1>4, <3>1, <3>2 DEF AssignCores, historyVars
  <2>3. cls' \in [Procs -> Classes] /\ techs' \in [Procs -> SUBSET Technologies] /\ contested' \subseteq Procs
    <3>1. CASE Unused(cs, Tech(Cfg(p))) # {} /\ GotClass(p, k)
      BY <1>2, <2>1, <3>1, DefinesTypes DEF TypeOK, GotClass
    <3>2. CASE UNCHANGED <<cls, techs, contested>>
      BY <1>2, <3>2 DEF TypeOK
    <3>3. QED
      BY <1>4, <3>1, <3>2 DEF AssignCores, historyVars
  <2>4. pc' \in [Procs -> Running \union Over \union Asleep \union {"off"}] /\ faults' \in 0 .. MaxFaults
    <3>1. faults' = faults \/ Fault
      BY <1>4 DEF AssignCores, historyVars
    <3>2. Goto(p, "define") \/ Goto(p, "revert")
      BY <1>4 DEF AssignCores
    <3>3. QED
      BY <1>2, <3>1, <3>2, FaultTypes DEF TypeOK, Goto, Running, Calling
  <2>5. UNCHANGED <<iface, task, live, def, lock, line, child, at, left>>
    BY <1>4 DEF AssignCores
  <2> HIDE DEF cs, k
  <2>6. QED
    BY <1>2, <2>2, <2>3, <2>4, <2>5 DEF TypeOK, MachineTypeOK
<1>5. QED
  BY <1>3, <1>4

LEMMA AssignPidsTypes ==
  ASSUME BaseInv, NEW p \in Procs, AssignPids(p)
  PROVE  TypeOK'
<1> DEFINE k == FirstUnused({}, Tech(Cfg(p)))
           free == IF iface = "OS" THEN UnusedOs ELSE {}
<1>1. TypeOK /\ free # {} => k \in Classes
  BY FirstUnusedIsUnused DEF Unused
<1>2. TypeOK
  BY DEF BaseInv
<1>3. task' \in [Tasks -> Classes]
  <2>1. CASE free # {} /\ \E xs : AssociateTasks(xs, k)
    BY <1>1, <1>2, <2>1 DEF TypeOK, MachineTypeOK, AssociateTasks
  <2>2. CASE UNCHANGED task
    BY <1>2, <2>2 DEF TypeOK, MachineTypeOK
  <2>3. QED
    BY <2>1, <2>2 DEF AssignPids
<1>4. cls' \in [Procs -> Classes] /\ techs' \in [Procs -> SUBSET Technologies] /\ contested' \subseteq Procs
  <2>1. CASE free # {} /\ GotClass(p, k)
    BY <1>1, <1>2, <2>1, DefinesTypes DEF TypeOK, GotClass
  <2>2. CASE UNCHANGED <<cls, techs, contested>>
    BY <1>2, <2>2 DEF TypeOK
  <2>3. QED
    BY <2>1, <2>2 DEF AssignPids
<1>5. pc' \in [Procs -> Running \union Over \union Asleep \union {"off"}]
  <2>1. Goto(p, "define") \/ Goto(p, "unpid")
    BY DEF AssignPids
  <2>2. QED
    BY <1>2, <2>1 DEF TypeOK, Goto, Running, Calling
<1>6. UNCHANGED <<iface, cos, live, def, lock, line, at, left, child, owner, unreleased, faults>>
  BY DEF AssignPids
<1> HIDE DEF k, free
<1>7. QED
  BY <1>2, <1>3, <1>4, <1>5, <1>6 DEF TypeOK, MachineTypeOK

LEMMA DefineTypes ==
  ASSUME BaseInv, NEW p \in Procs, DefineClass(p)
  PROVE  TypeOK'
<1>1. TypeOK /\ Cfg(p) \in Config /\ at[p] + 1 \in Nat
  BY CfgFacts DEF BaseInv, DefineClass
<1>2. NextTech(p) \in Technologies /\ Wanted(Cfg(p), NextTech(p)) \in Values
  <2>1. NextTech(p) \in Technologies
    BY DEF NextTech, Technologies
  <2>2. QED
    BY <1>1, <2>1, ConfigFacts
<1>3. DOMAIN def' = Technologies /\ \A t \in Technologies : def'[t] \in [Resources(t) -> [Classes -> Values]]
  <2>1. CASE \E r, k : Define(NextTech(p), r, k, Wanted(Cfg(p), NextTech(p)))
    <3>1. PICK r, k : def' = [def EXCEPT ![NextTech(p)][r][k] = Wanted(Cfg(p), NextTech(p))]
      BY <2>1 DEF Define
    <3>2. DOMAIN def = Technologies /\ \A t \in Technologies : def[t] \in [Resources(t) -> [Classes -> Values]]
      BY <1>1 DEF TypeOK, MachineTypeOK
    <3>3. ASSUME NEW t \in Technologies PROVE def'[t] \in [Resources(t) -> [Classes -> Values]]
      <4>1. CASE t # NextTech(p)
        BY <3>1, <3>2, <4>1
      <4>2. CASE t = NextTech(p)
        <5>1. def'[t] = [def[t] EXCEPT ![r][k] = Wanted(Cfg(p), NextTech(p))]
          BY <3>1, <3>2, <4>2
        <5>2. def[t] \in [Resources(t) -> [Classes -> Values]]
          BY <3>2
        <5>3. CASE r \notin Resources(t)
          BY <5>1, <5>2, <5>3
        <5>4. CASE r \in Resources(t)
          <6> DEFINE g == [def[t][r] EXCEPT ![k] = Wanted(Cfg(p), NextTech(p))]
          <6>1. def[t][r] \in [Classes -> Values]
            BY <5>2, <5>4
          <6>2. g \in [Classes -> Values]
            BY <1>2, <6>1
          <6>3. def'[t] = [def[t] EXCEPT ![r] = g]
            BY <5>1
          <6> HIDE DEF g
          <6>4. QED
            BY <5>2, <6>2, <6>3
        <5>5. QED
          BY <5>3, <5>4
      <4>3. QED
        BY <4>1, <4>2
    <3>4. QED
      BY <3>1, <3>2, <3>3
  <2>2. CASE UNCHANGED def
    BY <1>1, <2>2 DEF TypeOK, MachineTypeOK
  <2>3. QED
    BY <2>1, <2>2 DEF DefineClass, DefineFails
<1>4. pc' \in [Procs -> Running \union Over \union Asleep \union {"off"}] /\ at' \in [Procs -> Nat]
      /\ left' \in [Procs -> SUBSET Nat]
  <2> DEFINE rest == left[p] \ {Min(left[p])}
  <2>1. \/ Advance(p, at[p] + 1)
        \/ /\ Goto(p, "assign") \/ UNCHANGED pc
           /\ left' = [left EXCEPT ![p] = rest] /\ UNCHANGED at
        \/ UNCHANGED <<pc, at, left>>
        \/ (Goto(p, "unpid") \/ Goto(p, "revert")) /\ UNCHANGED <<at, left>>
    BY DEF DefineClass, DefineFails, NextResource
  <2>2. CASE Advance(p, at[p] + 1)
    BY <1>1, <2>2, AdvanceTypes
  <2>3. CASE (Goto(p, "unpid") \/ Goto(p, "revert")) /\ UNCHANGED <<at, left>>
    BY <1>1, <2>3 DEF TypeOK, Goto, Running, Calling
  <2>4. CASE UNCHANGED <<pc, at, left>>
    BY <1>1, <2>4 DEF TypeOK
  <2>5. CASE /\ Goto(p, "assign") \/ UNCHANGED pc
             /\ left' = [left EXCEPT ![p] = rest] /\ UNCHANGED at
    BY <1>1, <2>5 DEF TypeOK, Goto, Running, Calling
  <2>6. QED
    BY <2>1, <2>2, <2>3, <2>4, <2>5
<1>5. techs' \in [Procs -> SUBSET Technologies]
  <2>1. \/ techs' = [techs EXCEPT ![p] = {}]
        \/ techs' = [techs EXCEPT ![p] = Defines(cls[p])]
        \/ techs' = [techs EXCEPT ![p] = @ \ {NextTech(p)}]
        \/ UNCHANGED techs
    BY DEF DefineClass, DefineFails, NextResource
  <2>2. QED
    BY <1>1, <2>1, DefinesTypes DEF TypeOK
<1>6. faults' \in 0 .. MaxFaults
  <2>1. faults' = faults \/ Fault
    BY DEF DefineClass
  <2>2. QED
    BY <1>1, <2>1, FaultTypes DEF TypeOK
<1>7. UNCHANGED <<iface, cos, task, live, lock, line, cls, child, owner, unreleased, contested>>
  BY DEF DefineClass
<1>8. MachineTypeOK'
  BY <1>1, <1>3, <1>7 DEF TypeOK, MachineTypeOK
<1>9. QED
  BY <1>1, <1>4, <1>5, <1>6, <1>7, <1>8 DEF TypeOK

(* The actions that leave the machine, the loops and the history alone. *)
LEMMA TypesKept ==
  ASSUME BaseInv, [RdtsetNext]_vars
  PROVE  TypeOK'
<1>1. TypeOK /\ iface \in Interfaces /\ LineInv
  BY DEF BaseInv, TypeOK, MachineTypeOK
<1>2. CASE UNCHANGED vars
  BY <1>1, <1>2 DEF vars, machineVars, procVars, historyVars, TypeOK, MachineTypeOK
<1>3. ASSUME NEW x \in Tasks, TaskEnds(x) PROVE TypeOK'
  BY <1>1, <1>3 DEF TaskEnds, procVars, historyVars, TypeOK, MachineTypeOK
<1>4. ASSUME NEW p \in Procs, ResetCore(p) PROVE TypeOK'
  <2>1. UNCHANGED <<iface, task, live, def, lock, line, cls, techs, child, contested>>
    BY <1>4 DEF ResetCore
  <2>2. cos' \in [Cores -> Classes]
    BY <1>1, <1>4, ClassNumbers DEF ResetCore, Associate, TypeOK, MachineTypeOK
  <2>3. owner' \in [Cores -> Procs \union {Nobody}] /\ unreleased' \subseteq Cores
    BY <1>1, <1>4 DEF ResetCore, Own, TypeOK
  <2>4. pc' \in [Procs -> Running \union Over \union Asleep \union {"off"}] /\ at' \in [Procs -> Nat]
    BY <1>1, <1>4 DEF ResetCore, StartExit, Goto, TypeOK, Running, Calling
  <2>5. faults' \in 0 .. MaxFaults
    BY <1>1, <1>4, FaultTypes DEF ResetCore, TypeOK
  <2>6. left' \in [Procs -> SUBSET Nat]
    BY <1>1, <1>4 DEF ResetCore, TypeOK
  <2>7. QED
    BY <1>1, <2>1, <2>2, <2>3, <2>4, <2>5, <2>6 DEF TypeOK, MachineTypeOK
<1>5. ASSUME NEW p \in Procs, Revert(p) PROVE TypeOK'
  <2>1. UNCHANGED <<iface, task, live, def, lock, line, left, cls, techs, child>>
    BY <1>5 DEF Revert
  <2>2. Cfg(p).cpus \subseteq Cores /\ at[p] \in Nat /\ at[p] >= 1
    BY <1>5, CfgFacts DEF Revert
  <2>3. (UNCHANGED <<cos, historyVars>>) \/ ReleaseCores(p, Cfg(p).cpus)
    BY <1>5 DEF Revert
  <2>4. /\ cos' \in [Cores -> Classes] /\ owner' \in [Cores -> Procs \union {Nobody}]
        /\ unreleased' \subseteq Cores /\ contested' = contested /\ faults' \in 0 .. MaxFaults
    <3>1. CASE UNCHANGED <<cos, historyVars>>
      BY <1>1, <3>1 DEF TypeOK, MachineTypeOK, historyVars
    <3>2. CASE ReleaseCores(p, Cfg(p).cpus)
      BY <1>1, <2>2, <3>2, ReleaseTypes
    <3>3. QED
      BY <2>3, <3>1, <3>2
  <2>5. pc' \in [Procs -> Running \union Over \union Asleep \union {"off"}] /\ at' \in [Procs -> Nat]
    BY <1>1, <1>5, <2>2 DEF Revert, Goto, TypeOK, Running, Calling
  <2>6. QED
    BY <1>1, <2>1, <2>4, <2>5 DEF TypeOK, MachineTypeOK
<1>6. ASSUME NEW p \in Procs, Exit(p) PROVE TypeOK'
  <2>1. UNCHANGED <<iface, live, def, lock, line, left, cls, techs, child>>
    BY <1>6 DEF Exit
  <2>2. at[p] \in Nat /\ at[p] > 0 /\ (at[p] > Len(Configs(p)) \/ Cfg(p).cpus \subseteq Cores)
    <3>1. at[p] \in Nat /\ at[p] > 0
      BY <1>1, <1>6 DEF Exit, BaseInv, PlaceInv, Place, TypeOK
    <3>2. at[p] > Len(Configs(p)) \/ Cfg(p) \in Config
      BY <1>1, <3>1, LineFacts DEF Cfg
    <3>3. QED
      BY <3>1, <3>2, ConfigFacts
  <2>3. (UNCHANGED <<cos, historyVars>>) \/ (at[p] <= Len(Configs(p)) /\ ReleaseCores(p, Cfg(p).cpus))
    BY <1>1, <1>6, <2>2, LineFacts DEF Exit
  <2>4. /\ cos' \in [Cores -> Classes] /\ owner' \in [Cores -> Procs \union {Nobody}]
        /\ unreleased' \subseteq Cores /\ contested' = contested /\ faults' \in 0 .. MaxFaults
    <3>1. CASE UNCHANGED <<cos, historyVars>>
      BY <1>1, <3>1 DEF TypeOK, MachineTypeOK, historyVars
    <3>2. CASE at[p] <= Len(Configs(p)) /\ ReleaseCores(p, Cfg(p).cpus)
      <4>1. Cfg(p).cpus \subseteq Cores
        BY <1>1, <2>2, <3>2, LineFacts
      <4>2. QED
        BY <1>1, <3>2, <4>1, ReleaseTypes
    <3>3. QED
      BY <2>3, <3>1, <3>2
  <2>5. task' \in [Tasks -> Classes]
    BY <1>1, <1>6, ClassNumbers DEF Exit, ReleaseTasks, AssociateTasks, TypeOK, MachineTypeOK
  <2>6. pc' \in [Procs -> Running \union Over \union Asleep \union {"off"}] /\ at' \in [Procs -> Nat]
    BY <1>1, <1>6, <2>2 DEF Exit, Goto, TypeOK, Over
  <2>7. QED
    BY <1>1, <2>1, <2>4, <2>5, <2>6 DEF TypeOK, MachineTypeOK
<1>7. ASSUME NEW p \in Procs, ChildReleases(p) PROVE TypeOK'
  <2>1. UNCHANGED <<iface, task, live, def, lock, line, pc, at, cls, techs>>
    BY <1>7 DEF ChildReleases
  <2>2. left[p] # {} => Configs(p)[Min(left[p])].cpus \subseteq Cores
    <3>1. left[p] \subseteq DOMAIN Configs(p)
      BY <1>7 DEF ChildReleases, BaseInv, PlaceInv, Place
    <3>2. left[p] # {} => Min(left[p]) \in left[p]
      BY <1>1, <3>1, LineFacts, LeastNatural
    <3>3. QED
      BY <1>1, <3>1, <3>2, LineFacts, ConfigFacts
  <2>3. /\ cos' \in [Cores -> Classes] /\ owner' \in [Cores -> Procs \union {Nobody}]
        /\ unreleased' \subseteq Cores /\ contested' = contested /\ faults' \in 0 .. MaxFaults
    <3>1. CASE left[p] = {}
      BY <1>1, <1>7, <3>1 DEF ChildReleases, TypeOK, MachineTypeOK, historyVars
    <3>2. CASE left[p] # {}
      BY <1>1, <1>7, <2>2, <3>2, ReleaseTypes DEF ChildReleases
    <3>3. QED
      BY <3>1, <3>2
  <2>4. child' \in [Procs -> {"none", "forked", "command", "handler", "over"}]
    BY <1>1, <1>7 DEF ChildReleases, TypeOK
  <2>5. left' \in [Procs -> SUBSET Nat]
    BY <1>1, <1>7 DEF ChildReleases, TypeOK
  <2>6. QED
    BY <1>1, <2>1, <2>3, <2>4, <2>5 DEF TypeOK, MachineTypeOK
<1>8. ASSUME NEW p \in Procs, Unpid(p) PROVE TypeOK'
  <2>1. task' \in [Tasks -> Classes]
    BY <1>1, <1>8, ClassNumbers DEF Unpid, ReleaseTasks, AssociateTasks, TypeOK, MachineTypeOK
  <2>2. QED
    BY <1>1, <1>8, <2>1 DEF Unpid, Goto, TypeOK, MachineTypeOK, historyVars, Running, Calling
<1>9. ASSUME NEW p \in Procs, ResetDone(p) \/ Validated(p) PROVE TypeOK'
  <2>1. UNCHANGED <<machineVars, line, cls, techs, child, historyVars>>
    BY <1>9 DEF ResetDone, Validated
  <2>2. pc' \in [Procs -> Running \union Over \union Asleep \union {"off"}] /\ at' \in [Procs -> Nat]
        /\ left' \in [Procs -> SUBSET Nat]
    <3> DEFINE named == UNION {Configs(p)[i].cpus : i \in DOMAIN Configs(p)}
    <3>1. CASE Advance(p, 1)
      BY <1>1, <3>1, AdvanceTypes
    <3>2. CASE /\ (Goto(p, "validate") \/ Goto(p, "giveup")) /\ UNCHANGED at
               /\ left' = left \/ left' = [left EXCEPT ![p] = named]
      <4>1. named \subseteq Nat
        <5>1. \A i \in DOMAIN Configs(p) : Configs(p)[i].cpus \subseteq Cores
          BY <1>1, LineFacts, ConfigFacts
        <5>2. QED
          BY <5>1, CoresAreNumbered
      <4> HIDE DEF named
      <4>2. QED
        BY <1>1, <3>2, <4>1 DEF Goto, TypeOK, Running, Calling
    <3>3. QED
      BY <1>9, <3>1, <3>2 DEF ResetDone, Validated
  <2>3. QED
    BY <1>1, <2>1, <2>2 DEF TypeOK, MachineTypeOK, machineVars, historyVars
<1>10. ASSUME NEW p \in Procs,
              \/ Start(p) \/ CheckCore(p) \/ Leave(p) \/ SetAffinity(p) \/ Fork(p) \/ Wait(p)
              \/ ChildExec(p) \/ CommandEnds(p) \/ Interrupt(p) \/ InterruptChild(p)
       PROVE TypeOK'
  <2>1. UNCHANGED <<machineVars, line, cls, techs, owner, unreleased, contested>>
    BY <1>10 DEF Start, CheckCore, Leave, SetAffinity, Fork, Wait, ChildExec, CommandEnds, Interrupt,
                 InterruptChild, historyVars
  <2>2. faults' \in 0 .. MaxFaults
    <3>1. faults' = faults \/ Fault
      BY <1>10 DEF Start, CheckCore, Leave, SetAffinity, Fork, Wait, ChildExec, CommandEnds, Interrupt,
                   InterruptChild, historyVars
    <3>2. QED
      BY <1>1, <3>1, FaultTypes DEF TypeOK
  <2>3. at' \in [Procs -> Nat]
    BY <1>1, <1>10 DEF Start, CheckCore, Leave, SetAffinity, Fork, Wait, ChildExec, CommandEnds, Interrupt,
                       InterruptChild, StartExit, TypeOK
  <2>4. pc' \in [Procs -> Running \union Over \union Asleep \union {"off"}]
    BY <1>1, <1>10 DEF Start, CheckCore, Leave, SetAffinity, Fork, Wait, ChildExec, CommandEnds, Interrupt,
                       InterruptChild, StartExit, Goto, TypeOK, Running, Calling, Between, Over
  <2>5. child' \in [Procs -> {"none", "forked", "command", "handler", "over"}]
    BY <1>1, <1>10 DEF Start, CheckCore, Leave, SetAffinity, Fork, Wait, ChildExec, CommandEnds, Interrupt,
                       InterruptChild, TypeOK
  <2>6. left' \in [Procs -> SUBSET Nat]
    <3>1. line[p].reset \subseteq Nat /\ DOMAIN Configs(p) \subseteq Nat
      BY <1>1, LineFacts, CoresAreNumbered
    <3>2. \/ left' = left \/ \E s \in SUBSET Nat : left' = [left EXCEPT ![p] = s]
      <4>1. left[p] \ {Min(left[p])} \subseteq Nat
        BY <1>1 DEF TypeOK
      <4>2. QED
        BY <1>10, <3>1, <4>1 DEF Start, CheckCore, Leave, SetAffinity, Fork, Wait, ChildExec, CommandEnds,
                                 Interrupt, InterruptChild
    <3>3. QED
      BY <1>1, <3>2 DEF TypeOK
  <2>7. QED
    BY <1>1, <2>1, <2>2, <2>3, <2>4, <2>5, <2>6 DEF TypeOK, MachineTypeOK, machineVars
<1>11. ASSUME NEW p \in Procs, InterruptInCall(p) \/ Kill(p) PROVE TypeOK'
  <2>1. UNCHANGED <<iface, cos, task, live, def, line, at, left, cls, techs, child, owner, unreleased, contested>>
    BY <1>11 DEF InterruptInCall, Kill
  <2>2. faults' \in 0 .. MaxFaults
    BY <1>1, <1>11, FaultTypes DEF InterruptInCall, Kill
  <2>3. lock' \in Procs \union {Nobody}
    BY <1>1, <1>11 DEF InterruptInCall, Kill, TypeOK
  <2>4. pc' \in [Procs -> Running \union Over \union Asleep \union {"off"}]
    BY <1>1, <1>11 DEF InterruptInCall, Kill, Goto, TypeOK, Asleep, Over
  <2>5. QED
    BY <1>1, <2>1, <2>2, <2>3, <2>4 DEF TypeOK, MachineTypeOK
<1>12. QED
  BY <1>2, <1>3, <1>4, <1>5, <1>6, <1>7, <1>8, <1>9, <1>10, <1>11, AssignCoresTypes, AssignPidsTypes, DefineTypes
  DEF RdtsetNext, Step, ChildStep

(* A step of one process leaves the places of the others as they were, and *)
(* nothing changes a command line or the interface.                        *)
OthersStay(p) ==
  \A q \in Procs \ {p} :
    /\ pc'[q] = pc[q] /\ at'[q] = at[q] /\ left'[q] = left[q]
    /\ cls'[q] = cls[q] /\ techs'[q] = techs[q] /\ child'[q] = child[q]

Moves(p) == Start(p) \/ Step(p) \/ ChildStep(p) \/ Interrupt(p) \/ InterruptInCall(p) \/ InterruptChild(p) \/ Kill(p)

LEMMA LineKept ==
  ASSUME [RdtsetNext]_vars
  PROVE  line' = line /\ iface' = iface
BY DEF RdtsetNext, Step, ChildStep, vars, machineVars, procVars, TaskEnds, Start, ResetCore, ResetDone,
       CheckCore, Validated, AssignCores, AssignPids, DefineClass, Unpid, Revert, Leave, SetAffinity, Fork,
       Wait, Exit, ChildExec, CommandEnds, ChildReleases, Interrupt, InterruptInCall, InterruptChild, Kill

LEMMA StepMovesOne ==
  ASSUME TypeOK, NEW p \in Procs, Moves(p)
  PROVE  OthersStay(p)
<1>1. pc' = pc \/ \E l : pc' = [pc EXCEPT ![p] = l]
  BY DEF Moves, Step, ChildStep, Start, ResetCore, ResetDone, CheckCore, Validated, AssignCores, AssignPids,
         DefineClass, DefineFails, NextResource, Unpid, Revert, Leave, SetAffinity, Fork, Wait, Exit,
         ChildExec, CommandEnds, ChildReleases, Interrupt, InterruptInCall, InterruptChild, Kill,
         Goto, StartExit, Advance
<1>2. at' = at \/ \E l : at' = [at EXCEPT ![p] = l]
  BY DEF Moves, Step, ChildStep, Start, ResetCore, ResetDone, CheckCore, Validated, AssignCores, AssignPids,
         DefineClass, DefineFails, NextResource, Unpid, Revert, Leave, SetAffinity, Fork, Wait, Exit,
         ChildExec, CommandEnds, ChildReleases, Interrupt, InterruptInCall, InterruptChild, Kill,
         StartExit, Advance
<1>3. left' = left \/ \E l : left' = [left EXCEPT ![p] = l]
  BY DEF Moves, Step, ChildStep, Start, ResetCore, ResetDone, CheckCore, Validated, AssignCores, AssignPids,
         DefineClass, DefineFails, NextResource, Unpid, Revert, Leave, SetAffinity, Fork, Wait, Exit,
         ChildExec, CommandEnds, ChildReleases, Interrupt, InterruptInCall, InterruptChild, Kill, Advance
<1>4. cls' = cls \/ \E l : cls' = [cls EXCEPT ![p] = l]
  BY DEF Moves, Step, ChildStep, Start, ResetCore, ResetDone, CheckCore, Validated, AssignCores, AssignPids,
         DefineClass, Unpid, Revert, Leave, SetAffinity, Fork, Wait, Exit, GotClass,
         ChildExec, CommandEnds, ChildReleases, Interrupt, InterruptInCall, InterruptChild, Kill
<1>5. techs' = techs \/ \E l : techs' = [techs EXCEPT ![p] = l]
  BY DEF Moves, Step, ChildStep, Start, ResetCore, ResetDone, CheckCore, Validated, AssignCores, AssignPids,
         DefineClass, DefineFails, NextResource, Unpid, Revert, Leave, SetAffinity, Fork, Wait, Exit, GotClass,
         ChildExec, CommandEnds, ChildReleases, Interrupt, InterruptInCall, InterruptChild, Kill
<1>6. child' = child \/ \E l : child' = [child EXCEPT ![p] = l]
  BY DEF Moves, Step, ChildStep, Start, ResetCore, ResetDone, CheckCore, Validated, AssignCores, AssignPids,
         DefineClass, Unpid, Revert, Leave, SetAffinity, Fork, Wait, Exit,
         ChildExec, CommandEnds, ChildReleases, Interrupt, InterruptInCall, InterruptChild, Kill
<1>7. QED
  BY <1>1, <1>2, <1>3, <1>4, <1>5, <1>6 DEF TypeOK, OthersStay

LEMMA NextSplit ==
  ASSUME [RdtsetNext]_vars
  PROVE  UNCHANGED vars \/ (\E x \in Tasks : TaskEnds(x)) \/ (\E p \in Procs : Moves(p))
BY DEF RdtsetNext, Moves

(* Where Advance leads. *)
LEMMA AdvancePlaces ==
  ASSUME BaseInv, NEW p \in Procs, NEW i \in Nat, i >= 1, Advance(p, i)
  PROVE  /\ at'[p] = i
         /\ i <= Len(Configs(p)) => /\ pc'[p] = "assign" /\ i \in DOMAIN Configs(p)
                                    /\ left'[p] = IdsToVisit(Configs(p)[i])
         /\ i > Len(Configs(p)) => pc'[p] \in {"fork", "affinity", "leave"}
<1>1. TypeOK /\ iface \in Interfaces /\ LineInv
  BY DEF BaseInv, TypeOK, MachineTypeOK
<1>2. Len(Configs(p)) \in Nat /\ DOMAIN Configs(p) = 1 .. Len(Configs(p))
  BY <1>1, LineFacts
<1>3. QED
  BY <1>1, <1>2 DEF Advance, Goto, Configured, TypeOK

LEMMA PlacesKept ==
  ASSUME BaseInv, [RdtsetNext]_vars
  PROVE  PlaceInv'
<1>1. TypeOK /\ iface \in Interfaces /\ LineInv /\ PlaceInv /\ line' = line
  BY LineKept DEF BaseInv, TypeOK, MachineTypeOK
<1>2. CASE UNCHANGED vars \/ \E x \in Tasks : TaskEnds(x)
  BY <1>1, <1>2 DEF vars, procVars, TaskEnds, PlaceInv, Place, Configs
<1>3. ASSUME NEW p \in Procs, Moves(p) PROVE PlaceInv'
  <2>1. ASSUME NEW q \in Procs \ {p} PROVE Place(q)'
    BY <1>1, <1>3, StepMovesOne DEF OthersStay, PlaceInv, Place, Configs
  <2>2. Place(p)'
    <3>1. Place(p) /\ Configs(p)' = Configs(p) /\ Len(Configs(p)) \in Nat
          /\ DOMAIN Configs(p) = 1 .. Len(Configs(p))
      BY <1>1, LineFacts DEF PlaceInv, Configs
    <3>2. CASE \E i \in Nat : i >= 1 /\ Advance(p, i) /\ UNCHANGED child /\ child[p] = "none"
      BY <1>1, <3>1, <3>2, AdvancePlaces DEF Place
    <3>3. CASE AssignCores(p) \/ AssignPids(p) \/ DefineClass(p)
      <4>1. pc[p] \in {"assign", "define"} /\ UNCHANGED child /\ child[p] = "none"
        BY <3>1, <3>3 DEF AssignCores, AssignPids, DefineClass, Place
      <4>2. at[p] \in DOMAIN Configs(p) /\ at[p] + 1 \in Nat /\ at[p] + 1 >= 1
        BY <4>1, CfgFacts
      <4>3. \/ Advance(p, at[p] + 1)
            \/ /\ UNCHANGED at
               /\ \/ UNCHANGED pc
                  \/ Goto(p, "assign") \/ Goto(p, "define") \/ Goto(p, "unpid") \/ Goto(p, "revert")
        BY <3>3 DEF AssignCores, AssignPids, DefineClass, DefineFails, NextResource
      <4>4. CASE Advance(p, at[p] + 1)
        BY <3>2, <4>1, <4>2, <4>4
      <4>5. CASE /\ UNCHANGED at
                 /\ \/ UNCHANGED pc
                    \/ Goto(p, "assign") \/ Goto(p, "define") \/ Goto(p, "unpid") \/ Goto(p, "revert")
        <5>1. pc'[p] \in {"assign", "define", "unpid", "revert"}
          BY <1>1, <4>1, <4>5 DEF Goto, TypeOK
        <5>2. QED
          BY <3>1, <4>1, <4>2, <4>5, <5>1 DEF Place
      <4>6. QED
        BY <4>3, <4>4, <4>5
    <3>4. CASE ResetDone(p) \/ Validated(p)
      <4> DEFINE named == UNION {Configs(p)[i].cpus : i \in DOMAIN Configs(p)}
      <4>1. child[p] = "none" /\ UNCHANGED child
        BY <3>1, <3>4 DEF ResetDone, Validated, Place
      <4>2. named \subseteq Cores
        <5>1. \A i \in DOMAIN Configs(p) : Configs(p)[i].cpus \subseteq Cores
          BY <1>1, LineFacts, ConfigFacts
        <5>2. QED
          BY <5>1
      <4>3. \/ Advance(p, 1)
            \/ Goto(p, "giveup")
            \/ Goto(p, "validate") /\ left' = [left EXCEPT ![p] = named]
        BY <3>4 DEF ResetDone, Validated
      <4> HIDE DEF named
      <4>4. QED
        BY <1>1, <3>1, <3>2, <4>1, <4>2, <4>3 DEF Place, Goto, TypeOK
    <3>5. CASE Start(p) \/ ResetCore(p) \/ CheckCore(p)
      <4>1. line[p].reset' = line[p].reset
        BY <1>1
      <4>2. QED
        BY <1>1, <3>1, <3>5, <4>1 DEF Start, ResetCore, CheckCore, Place, StartExit, Goto, TypeOK
    <3>6. CASE Unpid(p) \/ Revert(p)
      <4>1. at[p] \in DOMAIN Configs(p) /\ at[p] \in Nat
        BY <3>6, CfgFacts DEF Unpid, Revert
      <4>2. QED
        BY <1>1, <3>1, <3>6, <4>1 DEF Unpid, Revert, Place, Goto, TypeOK
    <3>7. CASE Leave(p) \/ SetAffinity(p) \/ Fork(p) \/ Wait(p) \/ Exit(p)
      BY <1>1, <3>1, <3>7 DEF Leave, SetAffinity, Fork, Wait, Exit, Place, StartExit, Goto, TypeOK
    <3>8. CASE ChildExec(p) \/ CommandEnds(p)
      BY <1>1, <3>1, <3>8 DEF ChildExec, CommandEnds, Place, TypeOK
    <3>9. CASE ChildReleases(p)
      BY <1>1, <3>1, <3>9 DEF ChildReleases, Place, TypeOK
    <3>10. CASE Interrupt(p)
      BY <1>1, <3>1, <3>10 DEF Interrupt, Place, StartExit, Goto, TypeOK, Running, Calling, Between
    <3>11. CASE InterruptInCall(p) \/ Kill(p)
      BY <1>1, <3>1, <3>11 DEF InterruptInCall, Kill, Place, Goto, TypeOK
    <3>12. CASE InterruptChild(p)
      BY <1>1, <3>1, <3>12 DEF InterruptChild, Place, TypeOK
    <3>13. QED
      BY <1>3, <3>3, <3>4, <3>5, <3>6, <3>7, <3>8, <3>9, <3>10, <3>11, <3>12 DEF Moves, Step, ChildStep
  <2>3. QED
    BY <2>1, <2>2 DEF PlaceInv
<1>4. QED
  BY <1>2, <1>3, NextSplit

(* The types hold, the command lines stay, and the loops of every process  *)
(* are where they can be.                                                  *)
LEMMA BaseHolds == Spec => []BaseInv
<1>1. BaseInv /\ [RdtsetNext]_vars => BaseInv'
  <2> SUFFICES ASSUME BaseInv, [RdtsetNext]_vars PROVE BaseInv'
    OBVIOUS
  <2>1. LineInv'
    BY LineKept DEF BaseInv, LineInv
  <2>2. QED
    BY <2>1, TypesKept, PlacesKept DEF BaseInv
<1>2. QED
  BY <1>1, BaseInit, PTL DEF Spec

(* The variables of any number of rdtsets and of their machine have their  *)
(* types.                                                                  *)
THEOREM TypeCorrect == Spec => []TypeOK
<1>1. BaseInv => TypeOK
  BY DEF BaseInv
<1>2. QED
  BY <1>1, BaseHolds, PTL

-----------------------------------------------------------------------------
(* Who a core belongs to.                                                  *)

LEMMA ReleasedOwner ==
  ASSUME TypeOK, NEW p \in Procs, NEW cs, ReleaseCores(p, cs), NEW c \in Cores, NEW q \in Procs,
         owner'[c] = q, c \notin unreleased'
  PROVE  owner[c] = q /\ c \notin unreleased /\ c \notin cs
BY NobodyIsNoProcess DEF ReleaseCores, TypeOK

LEMMA OwnedOwner ==
  ASSUME TypeOK, NEW cs, NEW o, Own(cs, o), NEW c \in Cores, NEW q \in Procs,
         owner'[c] = q, c \notin unreleased'
  PROVE  \/ owner[c] = q /\ c \notin unreleased
         \/ c \in cs /\ q = o
BY DEF Own, TypeOK

(* A step changes the owners of cores in one of these ways. *)
LEMMA OwnerChanges ==
  ASSUME BaseInv, NEW p \in Procs, Moves(p), NEW c \in Cores, NEW q \in Procs,
         owner'[c] = q, c \notin unreleased'
  PROVE  \/ owner[c] = q /\ c \notin unreleased
         \/ q = p /\ c \in AssignSet(p) /\ AssignCores(p)
<1>1. TypeOK
  BY DEF BaseInv
<1>2. CASE UNCHANGED <<owner, unreleased>>
  BY <1>2
<1>3. CASE \E cs : ReleaseCores(p, cs)
  BY <1>1, <1>3, ReleasedOwner
<1>4. CASE ResetCore(p)
  <2>1. (\E cs : Own(cs, Nobody)) \/ UNCHANGED <<owner, unreleased>>
    BY <1>4 DEF ResetCore
  <2>2. QED
    BY <1>1, <1>2, <2>1, OwnedOwner, NobodyIsNoProcess
<1>5. CASE AssignCores(p)
  <2>1. (\E cs \in SUBSET AssignSet(p) : Own(cs, p)) \/ UNCHANGED <<owner, unreleased>>
    BY <1>5 DEF AssignCores, historyVars
  <2>2. QED
    BY <1>1, <1>2, <1>5, <2>1, OwnedOwner
<1>6. QED
  BY <1>2, <1>3, <1>4, <1>5
  DEF Moves, Step, ChildStep, Start, ResetDone, CheckCore, Validated, AssignPids, DefineClass, Unpid, Revert,
      Leave, SetAffinity, Fork, Wait, Exit, ChildExec, CommandEnds, ChildReleases, Interrupt,
      InterruptInCall, InterruptChild, Kill, historyVars

Owned(p) ==
  \A c \in Cores : owner[c] = p /\ c \notin unreleased => \E i \in MayOwn(p) : c \in Configs(p)[i].cpus

LEMMA OwnedKept ==
  ASSUME BaseInv, OwnedInv, [RdtsetNext]_vars
  PROVE  OwnedInv'
<1>1. TypeOK /\ iface \in Interfaces /\ LineInv /\ line' = line /\ (\A q \in Procs : Owned(q)) /\ PlaceInv
  BY LineKept DEF BaseInv, TypeOK, MachineTypeOK, OwnedInv, Owned
<1>2. CASE UNCHANGED vars \/ \E x \in Tasks : TaskEnds(x)
  BY <1>1, <1>2 DEF vars, procVars, historyVars, TaskEnds, Owned, OwnedInv, Configs, MayOwn
<1>3. ASSUME NEW p \in Procs, Moves(p) PROVE OwnedInv'
  <2>1. ASSUME NEW q \in Procs \ {p}, NEW c \in Cores, owner'[c] = q, c \notin unreleased'
        PROVE  \E i \in MayOwn(q)' : c \in Configs(q)'[i].cpus
    <3>1. owner[c] = q /\ c \notin unreleased
      BY <1>3, <2>1, OwnerChanges
    <3>2. MayOwn(q)' = MayOwn(q) /\ Configs(q)' = Configs(q)
      BY <1>1, <1>3, StepMovesOne DEF OthersStay, MayOwn, Configs
    <3>3. QED
      BY <1>1, <3>1, <3>2 DEF Owned
  <2>2. ASSUME NEW c \in Cores, owner'[c] = p, c \notin unreleased'
        PROVE  \E i \in MayOwn(p)' : c \in Configs(p)'[i].cpus
    <3>1. Owned(p) /\ Place(p) /\ Configs(p)' = Configs(p) /\ Len(Configs(p)) \in Nat
          /\ DOMAIN Configs(p) = 1 .. Len(Configs(p))
      BY <1>1, LineFacts DEF PlaceInv, Configs
    <3>2. CASE AssignCores(p)
      <4>1. at[p] \in DOMAIN Configs(p) /\ at[p] \in Nat /\ at[p] >= 1 /\ pc[p] = "assign"
        BY <3>2, CfgFacts DEF AssignCores
      <4>2. (owner[c] = p /\ c \notin unreleased) \/ c \in Configs(p)[at[p]].cpus
        BY <1>3, <2>2, OwnerChanges, AssignSetInConfig DEF Cfg
      <4>3. \E i \in 1 .. at[p] : c \in Configs(p)[i].cpus
        BY <3>1, <4>1, <4>2 DEF Owned, MayOwn
      <4>4. 1 .. at[p] \subseteq MayOwn(p)'
        <5>1. CASE Advance(p, at[p] + 1)
          BY <1>1, <3>1, <4>1, <5>1, AdvancePlaces DEF MayOwn
        <5>2. CASE (Goto(p, "define") \/ Goto(p, "revert")) /\ UNCHANGED at
          BY <1>1, <4>1, <5>2 DEF Goto, TypeOK, MayOwn
        <5>3. QED
          BY <3>2, <5>1, <5>2 DEF AssignCores
      <4>5. QED
        BY <3>1, <4>3, <4>4
    <3>3. CASE ~ AssignCores(p)
      <4>1. owner[c] = p /\ c \notin unreleased
        BY <1>3, <2>2, <3>3, OwnerChanges
      <4>2. PICK i \in MayOwn(p) : c \in Configs(p)[i].cpus
        BY <3>1, <4>1 DEF Owned
      <4> SUFFICES i \in MayOwn(p)'
        BY <3>1, <4>2
      <4>3. MayOwn(p) \subseteq DOMAIN Configs(p)
        BY <1>1, <3>1 DEF MayOwn, Place, TypeOK
      <4>4. CASE AssignPids(p) \/ DefineClass(p)
        <5>1. at[p] \in DOMAIN Configs(p) /\ at[p] \in Nat /\ at[p] >= 1 /\ pc[p] \in {"assign", "define"}
          BY <4>4, CfgFacts DEF AssignPids, DefineClass
        <5>2. i \in 1 .. at[p]
          BY <5>1, <4>2 DEF MayOwn
        <5>3. CASE Advance(p, at[p] + 1)
          BY <1>1, <3>1, <4>3, <4>2, <5>1, <5>2, <5>3, AdvancePlaces DEF MayOwn
        <5>4. CASE /\ UNCHANGED pc \/ Goto(p, "assign") \/ Goto(p, "define") \/ Goto(p, "unpid") \/ Goto(p, "revert")
                   /\ UNCHANGED at
          BY <1>1, <5>1, <5>2, <5>4 DEF Goto, TypeOK, MayOwn
        <5>5. QED
          BY <4>4, <5>3, <5>4 DEF AssignPids, DefineClass, DefineFails, NextResource
      <4>5. CASE Unpid(p)
        BY <1>1, <4>2, <4>5 DEF Unpid, MayOwn, Goto, TypeOK
      <4>6. CASE Revert(p)
        <5>1. at[p] \in Nat /\ at[p] >= 1 /\ i \in 1 .. at[p]
          BY <4>2, <4>6, CfgFacts DEF Revert, MayOwn
        <5>2. i # at[p]
          <6>1. CASE IsPid(Cfg(p))
            BY <4>2, <6>1 DEF IsPid, Cfg
          <6>2. CASE ReleaseCores(p, Cfg(p).cpus)
            BY <1>1, <2>2, <4>2, <6>2, ReleasedOwner DEF Cfg
          <6>3. QED
            BY <4>6, <6>1, <6>2 DEF Revert
        <5>3. QED
          BY <1>1, <4>6, <5>1, <5>2 DEF Revert, MayOwn, Goto, TypeOK
      <4>7. CASE Exit(p)
        <5>1. at[p] \in Nat /\ i >= at[p] /\ i \in DOMAIN Configs(p) /\ pc[p] = "exit" /\ i <= Len(Configs(p))
          BY <1>1, <3>1, <4>2, <4>7 DEF Exit, MayOwn, TypeOK
        <5>2. at[p] <= Len(Configs(p))
          BY <3>1, <5>1
        <5>3. i # at[p]
          <6>1. CASE IsPid(Cfg(p))
            BY <4>2, <6>1 DEF IsPid, Cfg
          <6>2. CASE ReleaseCores(p, Cfg(p).cpus)
            BY <1>1, <2>2, <4>2, <6>2, ReleasedOwner DEF Cfg
          <6>3. QED
            BY <3>1, <4>7, <5>1, <5>2, <6>1, <6>2 DEF Exit
        <5>4. pc'[p] = "exit" /\ at'[p] = at[p] + 1
          BY <1>1, <3>1, <4>7, <5>1, <5>2 DEF Exit, TypeOK
        <5>5. QED
          BY <3>1, <5>1, <5>3, <5>4 DEF MayOwn
      <4>8. CASE ResetDone(p) \/ Validated(p) \/ Start(p) \/ CheckCore(p)
        BY <4>2, <4>8 DEF ResetDone, Validated, Start, CheckCore, MayOwn
      <4>9. CASE ResetCore(p)
        BY <4>2, <4>9 DEF ResetCore, MayOwn
      <4>10. CASE StartExit(p)
        BY <1>1, <3>1, <4>3, <4>2, <4>10 DEF StartExit, Goto, TypeOK, MayOwn
      <4>11. CASE Leave(p) \/ SetAffinity(p) \/ Fork(p) \/ Wait(p)
        BY <1>1, <3>1, <4>2, <4>3, <4>10, <4>11 DEF Leave, SetAffinity, Fork, Wait, Goto, TypeOK, MayOwn
      <4>12. CASE UNCHANGED <<pc, at>>
        BY <3>1, <4>2, <4>12 DEF MayOwn
      <4>13. CASE InterruptInCall(p) \/ Kill(p)
        BY <1>1, <3>1, <4>3, <4>2, <4>13 DEF InterruptInCall, Kill, Goto, TypeOK, MayOwn
      <4>14. QED
        BY <1>3, <3>3, <4>4, <4>5, <4>6, <4>7, <4>8, <4>9, <4>10, <4>11, <4>12, <4>13
        DEF Moves, Step, ChildStep, ChildExec, CommandEnds, ChildReleases, Interrupt, InterruptChild
    <3>4. QED
      BY <3>2, <3>3
  <2>3. QED
    BY <2>1, <2>2 DEF OwnedInv
<1>4. QED
  BY <1>2, <1>3, NextSplit

(* An rdtset that has ended, by itself, by a signal or because configuring *)
(* failed half way, owns no core any more but those it could not put back: *)
(* at every point of the reverts a core it owns is one of a configuration  *)
(* that the revert has still to come to.                                   *)
THEOREM NothingLeftBehindHolds == Spec => []NothingLeftBehind
<1>1. Init => OwnedInv
  BY NobodyIsNoProcess DEF Init, RdtsetInit, OwnedInv
<1>2. BaseInv /\ BaseInv' /\ OwnedInv /\ [RdtsetNext]_vars => OwnedInv'
  BY OwnedKept
<1>3. OwnedInv => NothingLeftBehind
  BY DEF OwnedInv, NothingLeftBehind, MayOwn
<1>4. QED
  BY <1>1, <1>2, <1>3, BaseHolds, PTL DEF Spec

-----------------------------------------------------------------------------
(* The loops over configurations and resources.  From here on the ids of   *)
(* the machine's resources have no gaps.                                   *)

LEMMA VisitFacts ==
  ASSUME NoGaps, NEW cfg \in Config
  PROVE  /\ \A c \in cfg.cpus : SearchRes(c, Tech(cfg)) \in IdsToVisit(cfg)
         /\ IdsToVisit(cfg) # {} /\ IdsToVisit(cfg) \subseteq Nat
         /\ \A r \in IdsToVisit(cfg) : /\ CoreAt(cfg, r) \in Cores
                                       /\ SearchRes(CoreAt(cfg, r), Tech(cfg)) = r
                                       /\ ~IsPid(cfg) => CoreAt(cfg, r) \in cfg.cpus
<1> DEFINE ids == 0 .. MaxRes(Tech(cfg)) - 1
<1>1. cfg.cpus \subseteq Cores /\ Tech(cfg) \in (SUBSET Technologies) \ {{}}
  BY ConfigFacts
<1>2. {SearchRes(c, Tech(cfg)) : c \in Cores} = ids
  BY <1>1 DEF NoGaps
<1>3. \A c \in cfg.cpus : c \in CoresAt(cfg, SearchRes(c, Tech(cfg)))
  BY DEF CoresAt
<1>4. IdsToVisit(cfg) = {r \in ids : IsPid(cfg) \/ CoresAt(cfg, r) # {}}
  BY DEF IdsToVisit
<1>5. ids \subseteq Nat
  OBVIOUS
<1> HIDE DEF ids
<1>6. \A c \in cfg.cpus : SearchRes(c, Tech(cfg)) \in IdsToVisit(cfg)
  BY <1>1, <1>2, <1>3, <1>4
<1>7. IdsToVisit(cfg) # {}
  <2>1. CASE cfg.cpus # {}
    BY <1>6, <2>1
  <2>2. CASE IsPid(cfg)
    BY <1>2, <1>4, <2>2, CoresAreNumbered
  <2>3. QED
    BY <2>1, <2>2 DEF IsPid
<1>8. ASSUME NEW r \in IdsToVisit(cfg)
      PROVE  /\ CoreAt(cfg, r) \in Cores
             /\ SearchRes(CoreAt(cfg, r), Tech(cfg)) = r
             /\ ~IsPid(cfg) => CoreAt(cfg, r) \in cfg.cpus
  <2> DEFINE S == IF IsPid(cfg) THEN {c \in Cores : SearchRes(c, Tech(cfg)) = r} ELSE CoresAt(cfg, r)
  <2>1. S # {}
    <3>1. CASE IsPid(cfg)
      <4>1. r \in ids
        BY <1>4
      <4>2. PICK c \in Cores : SearchRes(c, Tech(cfg)) = r
        BY <1>2, <4>1
      <4>3. QED
        BY <3>1, <4>2
    <3>2. CASE ~IsPid(cfg)
      BY <1>4, <3>2
    <3>3. QED
      BY <3>1, <3>2
  <2>2. S \subseteq Cores /\ (\A c \in S : SearchRes(c, Tech(cfg)) = r) /\ (~IsPid(cfg) => S \subseteq cfg.cpus)
    BY <1>1 DEF CoresAt
  <2>3. CoreAt(cfg, r) = Min(S)
    BY DEF CoreAt
  <2> HIDE DEF S
  <2>4. Min(S) \in S
    BY <2>1, <2>2, CoresAreNumbered, LeastNatural
  <2>5. QED
    BY <2>2, <2>3, <2>4
<1>9. QED
  BY <1>4, <1>5, <1>6, <1>7, <1>8

HoldsNothing(p) == ~Configuring(p) /\ ~InPlace(p)

Loops(p) == ResetDone(p) \/ Validated(p) \/ AssignCores(p) \/ AssignPids(p) \/ DefineClass(p)

(* Outside of the loops a step keeps a configuration in place or gives it  *)
(* up as a whole.                                                          *)
LEMMA OutsideLoops ==
  ASSUME BaseInv, NEW p \in Procs, Moves(p), ~ Loops(p)
  PROVE  \/ HoldsNothing(p)'
         \/ /\ InPlace(p) /\ InPlace(p)' /\ ~Configuring(p)'
            /\ UNCHANGED <<cos, task, live, def, contested>>
<1>1. TypeOK /\ Place(p)
  BY DEF BaseInv, PlaceInv
<1>2. CASE Start(p) \/ CheckCore(p) \/ Leave(p) \/ SetAffinity(p) \/ Fork(p) \/ Wait(p)
  BY <1>1, <1>2 DEF Start, CheckCore, Leave, SetAffinity, Fork, Wait, StartExit, Goto, TypeOK, Place,
                    HoldsNothing, Configuring, InPlace, machineVars, historyVars
<1>3. CASE ResetCore(p) \/ Unpid(p) \/ Revert(p) \/ Exit(p)
  BY <1>1, <1>3 DEF ResetCore, Unpid, Revert, Exit, StartExit, Goto, TypeOK, HoldsNothing, Configuring, InPlace
<1>4. CASE Interrupt(p) \/ InterruptInCall(p) \/ Kill(p)
  BY <1>1, <1>4 DEF Interrupt, InterruptInCall, Kill, StartExit, Goto, TypeOK, HoldsNothing, Configuring, InPlace
<1>5. CASE ChildExec(p) \/ CommandEnds(p) \/ ChildReleases(p) \/ InterruptChild(p)
  BY <1>1, <1>5 DEF ChildExec, CommandEnds, ChildReleases, InterruptChild, TypeOK, Place, HoldsNothing,
                    Configuring, InPlace, machineVars
<1>6. QED
  BY <1>2, <1>3, <1>4, <1>5 DEF Moves, Step, ChildStep, Loops

(* What the loops leave. *)
LEMMA LoopAfterAdvance ==
  ASSUME NoGaps, BaseInv, NEW p \in Procs, NEW i \in Nat, i >= 1, Advance(p, i), Apart(line[p]),
         line' = line, iface' = iface
  PROVE  /\ Loop(p)'
         /\ \A j \in DOMAIN Configs(p), c \in Cores :
              c \in Configs(p)[j].cpus /\ Held(p, j, c)' => j < i
         /\ \A j \in DOMAIN Configs(p) : HeldPids(p, j)' => j < i
<1>1. iface \in Interfaces /\ LineInv
  BY DEF BaseInv, TypeOK, MachineTypeOK
<1>2. DOMAIN Configs(p) = 1 .. Len(Configs(p)) /\ Len(Configs(p)) \in Nat
      /\ Configs(p)' = Configs(p) /\ Apart(line[p])'
  BY <1>1, LineFacts DEF Configs, Apart
<1>3. CASE i <= Len(Configs(p))
  <2>1. at'[p] = i /\ pc'[p] = "assign" /\ i \in DOMAIN Configs(p) /\ left'[p] = IdsToVisit(Configs(p)[i])
    BY <1>1, <1>3, AdvancePlaces
  <2>2. Configs(p)[i] \in Config /\ Cfg(p)' = Configs(p)[i]
    BY <1>1, <1>2, <2>1, LineFacts DEF Cfg
  <2>3. IdsToVisit(Cfg(p))' = IdsToVisit(Configs(p)[i])
    BY <2>2
  <2>4. Loop(p)'
    BY <1>2, <2>1, <2>2, <2>3, VisitFacts DEF Loop
  <2>5. ASSUME NEW j \in DOMAIN Configs(p), NEW c \in Cores, c \in Configs(p)[j].cpus, Held(p, j, c)' PROVE j < i
    <3>1. Todo(p)' = left'[p] /\ ~InPlace(p)'
      BY <2>1 DEF Todo, InPlace
    <3>2. j # i
      BY <2>1, <2>2, <2>5, <3>1, VisitFacts DEF Held, Placed, AtIt
    <3>3. QED
      BY <2>1, <2>5, <3>1, <3>2 DEF Held, Placed, AtIt
  <2>6. \A j \in DOMAIN Configs(p) : HeldPids(p, j)' => j < i
    BY <2>1 DEF HeldPids, Placed, InPlace
  <2>7. QED
    BY <2>4, <2>5, <2>6
<1>4. CASE i > Len(Configs(p))
  <2>1. pc'[p] \in {"fork", "affinity", "leave"}
    BY <1>1, <1>4, AdvancePlaces
  <2>2. Loop(p)'
    BY <1>2, <2>1 DEF Loop, Configuring
  <2>3. QED
    BY <1>2, <1>4, <2>2
<1>5. QED
  BY <1>2, <1>3, <1>4

(* The ways in which a step of a process acts on the machine: it takes a   *)
(* class for cores or for tasks, defines one, gives up what it held, or    *)
(* leaves the machine alone.                                               *)
SafeFor(cs, k) == \/ k = COS0
                  \/ /\ \A d \in cs, c \in Cores : Near(c, d) => cos[c] # k
                     /\ iface = "OS" => \A x \in live : task[x] # k
SafeForTasks(k) == \/ k = COS0
                   \/ (\A c \in Cores : cos[c] # k) /\ (\A x \in live : task[x] # k)

MoveCores(p) == \E cs \in SUBSET Names(p), k \in Classes :
                  Associate(cs, k) /\ SafeFor(cs, k) /\ UNCHANGED task
MoveTasks(p) == \E xs \in SUBSET TasksOf(p), k \in Classes :
                  AssociateTasks(xs, k) /\ SafeForTasks(k) /\ UNCHANGED cos

Drops(p) == /\ HoldsNothing(p)'
            /\ MoveCores(p) \/ MoveTasks(p)
            /\ UNCHANGED <<live, def, contested>>

Quiet(p) == /\ UNCHANGED <<cos, task, live, def, contested>>
            /\ pc'[p] # "define"
            /\ \A i \in DOMAIN Configs(p) : /\ \A c \in Configs(p)[i].cpus : Held(p, i, c)' => Placed(p, i)
                                            /\ HeldPids(p, i)' => Placed(p, i)

TakesCores(p) ==
  LET cs == AssignSet(p)
      k == FirstUnused(cs, Tech(Cfg(p)))
  IN /\ pc[p] = "assign" /\ ~IsPid(Cfg(p)) /\ Unused(cs, Tech(Cfg(p))) # {}
     /\ Associate(cs, k)
     /\ GotClass(p, k)
     /\ Goto(p, "define")
     /\ UNCHANGED <<task, live, def, at, left, child>>

TakesTasks(p) ==
  LET k == FirstUnused({}, Tech(Cfg(p)))
  IN /\ pc[p] = "assign" /\ IsPid(Cfg(p)) /\ iface = "OS" /\ UnusedOs # {}
     /\ TasksOf(p) \subseteq live
     /\ AssociateTasks(TasksOf(p), k)
     /\ GotClass(p, k)
     /\ Goto(p, "define")
     /\ UNCHANGED <<cos, live, def, at, left, child>>

Writes(p) ==
  LET t == NextTech(p)
  IN /\ pc[p] = "define"
     /\ Define(t, ResOf(CoreAt(Cfg(p), Min(left[p])), t), cls[p], Wanted(Cfg(p), t))
     /\ IF techs[p] = {t}
        THEN NextResource(p)
        ELSE techs' = [techs EXCEPT ![p] = @ \ {t}] /\ UNCHANGED <<pc, at, left>>
     /\ UNCHANGED <<cos, task, live, cls, child, contested>>

(* Class 0 is nobody's own, and a class that a search finds is in use by   *)
(* none of the cores it could clash with.                                  *)
LEMMA UnusedIsSafe ==
  ASSUME BaseInv, NEW p \in Procs, pc[p] = "assign", NEW cs \in SUBSET Cores,
         Unused(cs, Tech(Cfg(p))) # {}
  PROVE  /\ SafeFor(cs, FirstUnused(cs, Tech(Cfg(p))))
         /\ FirstUnused(cs, Tech(Cfg(p))) \in Classes \ {COS0}
<1> DEFINE tech == Tech(Cfg(p))
           k == FirstUnused(cs, tech)
<1>1. k \in Unused(cs, tech) /\ k \in Classes \ {COS0}
  BY FirstUnusedIsUnused
<1>2. "l2" \in tech => L2Asked
  BY CfgFacts DEF L2Asked
<1>3. cs \subseteq Cores
  OBVIOUS
<1> HIDE DEF k, tech
<1>4. CASE iface = "MSR"
  <2>1. k \in UnusedMsr(cs, tech)
    BY <1>1, <1>4 DEF Unused
  <2>2. ASSUME NEW d \in cs, NEW c \in Cores, Near(c, d) PROVE SearchRes(c, tech) = SearchRes(d, tech)
    <3>1. d \in Cores
      BY <1>3
    <3>2. QED
      BY <1>2, <1>4, <2>2, <3>1, L2InSocket DEF Near, L2Searches, SearchRes
  <2>3. QED
    BY <1>1, <1>4, <2>1, <2>2 DEF UnusedMsr, SafeFor, k, tech
<1>5. CASE iface # "MSR"
  <2>1. k \in UnusedOs
    BY <1>1, <1>5 DEF Unused
  <2>2. QED
    BY <1>1, <2>1 DEF UnusedOs, SafeFor, k, tech
<1>6. QED
  BY <1>4, <1>5

LEMMA UnusedIsSafeForTasks ==
  ASSUME iface = "OS", UnusedOs # {}, NEW tech
  PROVE  SafeForTasks(FirstUnused({}, tech)) /\ FirstUnused({}, tech) \in Classes \ {COS0}
<1>1. FirstUnused({}, tech) \in UnusedOs /\ FirstUnused({}, tech) \in Classes \ {COS0}
  BY FirstUnusedIsUnused DEF Unused
<1>2. QED
  BY <1>1 DEF UnusedOs, SafeForTasks

LEMMA AssignCoresKinds ==
  ASSUME BaseInv, NEW p \in Procs, Loop(p), AssignCores(p)
  PROVE  TakesCores(p) \/ (Drops(p) /\ pc'[p] = "revert")
<1>1. TypeOK /\ pc[p] = "assign" /\ left[p] # {}
  BY DEF BaseInv, AssignCores, Loop, Configuring
<1>2. AssignSet(p) \subseteq Cores /\ AssignSet(p) \subseteq Names(p)
  BY <1>1, CfgFacts, AssignSetInConfig
<1> DEFINE cs == AssignSet(p)
           tech == Tech(Cfg(p))
           k == FirstUnused(cs, tech)
<1>3. CASE pc'[p] = "define"
  BY <1>1, <1>3 DEF AssignCores, TakesCores, Goto, TypeOK
<1>4. CASE pc'[p] # "define"
  <2>1. Goto(p, "revert") /\ UNCHANGED <<task, live, def, contested>>
    BY <1>1, <1>4 DEF AssignCores, Goto, TypeOK, historyVars
  <2>2. HoldsNothing(p)' /\ pc'[p] = "revert"
    BY <1>1, <2>1 DEF Goto, TypeOK, HoldsNothing, Configuring, InPlace
  <2>3. CASE UNCHANGED cos
    <3>1. Associate({}, COS0) /\ SafeFor({}, COS0) /\ COS0 \in Classes
      BY <1>1, <2>3, ClassNumbers DEF Associate, SafeFor, TypeOK, MachineTypeOK
    <3>2. QED
      BY <2>1, <2>2, <3>1 DEF Drops, MoveCores
  <2>4. CASE Unused(cs, tech) # {} /\ \E done \in SUBSET cs : Associate(done, k)
    <3>1. SafeFor(cs, k) /\ k \in Classes
      BY <1>1, <1>2, <2>4, UnusedIsSafe
    <3>2. PICK done \in SUBSET cs : Associate(done, k)
      BY <2>4
    <3> HIDE DEF cs, k, tech
    <3>3. SafeFor(done, k) /\ done \in SUBSET Names(p)
      BY <1>2, <3>1, <3>2 DEF SafeFor, cs
    <3>4. QED
      BY <2>1, <2>2, <3>1, <3>2, <3>3 DEF Drops, MoveCores
  <2>5. QED
    BY <1>1, <1>4, <2>1, <2>3, <2>4 DEF AssignCores, historyVars, Goto, TypeOK
<1>5. QED
  BY <1>3, <1>4

LEMMA AssignPidsKinds ==
  ASSUME BaseInv, NEW p \in Procs, AssignPids(p)
  PROVE  TakesTasks(p) \/ (Drops(p) /\ pc'[p] = "unpid")
<1>1. TypeOK /\ pc[p] = "assign" /\ TasksOf(p) \subseteq Tasks
  BY LineFacts DEF BaseInv, AssignPids, TypeOK, MachineTypeOK
<1> DEFINE k == FirstUnused({}, Tech(Cfg(p)))
           free == IF iface = "OS" THEN UnusedOs ELSE {}
<1>2. CASE pc'[p] = "define"
  BY <1>1, <1>2 DEF AssignPids, TakesTasks, Goto, TypeOK
<1>3. CASE pc'[p] # "define"
  <2>1. Goto(p, "unpid") /\ UNCHANGED <<cos, live, def, contested>>
    BY <1>1, <1>3 DEF AssignPids, Goto, TypeOK
  <2>2. HoldsNothing(p)' /\ pc'[p] = "unpid"
    BY <1>1, <2>1 DEF Goto, TypeOK, HoldsNothing, Configuring, InPlace
  <2>3. CASE UNCHANGED task
    <3>1. AssociateTasks({}, COS0) /\ SafeForTasks(COS0) /\ COS0 \in Classes
      BY <1>1, <2>3, ClassNumbers DEF AssociateTasks, SafeForTasks, TypeOK, MachineTypeOK
    <3>2. QED
      BY <2>1, <2>2, <3>1 DEF Drops, MoveTasks
  <2>4. CASE free # {} /\ \E done \in SUBSET (TasksOf(p) \intersect live) : AssociateTasks(done, k)
    <3>1. SafeForTasks(k) /\ k \in Classes
      BY <2>4, UnusedIsSafeForTasks
    <3>2. QED
      BY <2>1, <2>2, <2>4, <3>1 DEF Drops, MoveTasks
  <2>5. QED
    BY <1>1, <1>3, <2>3, <2>4 DEF AssignPids, Goto, TypeOK
<1>4. QED
  BY <1>2, <1>3

LEMMA DefineKinds ==
  ASSUME BaseInv, NEW p \in Procs, DefineClass(p)
  PROVE  Writes(p) \/ (Drops(p) /\ pc'[p] \in {"unpid", "revert"})
<1>1. TypeOK
  BY DEF BaseInv
<1>2. Writes(p) \/ (DefineFails(p) /\ UNCHANGED <<cos, task, live, contested>>)
  BY DEF DefineClass, Writes
<1>3. CASE DefineFails(p) /\ UNCHANGED <<cos, task, live, contested>>
  <2>1. HoldsNothing(p)' /\ pc'[p] \in {"unpid", "revert"}
    BY <1>1, <1>3 DEF DefineFails, Goto, TypeOK, HoldsNothing, Configuring, InPlace
  <2>2. Associate({}, COS0) /\ SafeFor({}, COS0) /\ COS0 \in Classes
    BY <1>1, <1>3, ClassNumbers DEF Associate, SafeFor, TypeOK, MachineTypeOK
  <2>3. QED
    BY <1>3, <2>1, <2>2 DEF Drops, MoveCores, DefineFails
<1>4. QED
  BY <1>2, <1>3

LEMMA ReleasesAreMoves ==
  ASSUME TypeOK, NEW p \in Procs, NEW cs \in SUBSET Names(p), ReleaseCores(p, cs), UNCHANGED task
  PROVE  MoveCores(p) /\ UNCHANGED contested
<1>1. PICK lost \in SUBSET cs : Associate(cs \ lost, COS0)
  BY DEF ReleaseCores
<1>2. cs \ lost \in SUBSET Names(p) /\ SafeFor(cs \ lost, COS0) /\ COS0 \in Classes
  BY ClassNumbers DEF SafeFor
<1>3. QED
  BY <1>1, <1>2 DEF MoveCores, ReleaseCores

LEMMA NoMove ==
  ASSUME TypeOK, NEW p \in Procs, UNCHANGED <<cos, task>>
  PROVE  MoveCores(p)
<1>1. Associate({}, COS0) /\ SafeFor({}, COS0) /\ COS0 \in Classes
  BY ClassNumbers DEF Associate, SafeFor, TypeOK, MachineTypeOK
<1>2. QED
  BY <1>1 DEF MoveCores

LEMMA OutsideKinds ==
  ASSUME BaseInv, NEW p \in Procs, Moves(p), ~ Loops(p)
  PROVE  Drops(p) \/ (Quiet(p) /\ InPlace(p) /\ ~Configuring(p)')
<1>1. TypeOK /\ iface \in Interfaces /\ LineInv /\ Place(p) /\ line' = line
  BY DEF BaseInv, PlaceInv, TypeOK, MachineTypeOK, LineInv, Moves, Step, ChildStep, Start, ResetCore,
         ResetDone, CheckCore, Validated, AssignCores, AssignPids, DefineClass, Unpid, Revert, Leave,
         SetAffinity, Fork, Wait, Exit, ChildExec, CommandEnds, ChildReleases, Interrupt, InterruptInCall,
         InterruptChild, Kill
<1>2. CASE /\ InPlace(p) /\ InPlace(p)' /\ ~Configuring(p)'
           /\ UNCHANGED <<cos, task, live, def, contested>>
  <2>1. pc'[p] # "define"
    BY <1>2 DEF Configuring
  <2>2. QED
    BY <1>2, <2>1 DEF Quiet, Placed
<1>3. CASE HoldsNothing(p)'
  <2>1. CASE UNCHANGED <<cos, task, live, def, contested>>
    BY <1>1, <1>3, <2>1, NoMove DEF Drops
  <2>2. CASE ResetCore(p)
    <3>1. CASE UNCHANGED cos
      BY <1>1, <1>3, <2>2, <3>1, NoMove DEF Drops, ResetCore
    <3>2. CASE Associate({Min(left[p])}, COS0)
      <4>1. left[p] # {} /\ left[p] \subseteq line[p].reset /\ line[p].reset \subseteq Names(p)
            /\ line[p].reset \subseteq Cores
        BY <1>1, <2>2, LineFacts DEF ResetCore, Place
      <4>2. Min(left[p]) \in left[p]
        BY <4>1, CoresAreNumbered, LeastNatural
      <4>3. {Min(left[p])} \in SUBSET Names(p) /\ SafeFor({Min(left[p])}, COS0) /\ COS0 \in Classes
        BY <4>1, <4>2, ClassNumbers DEF SafeFor
      <4>4. MoveCores(p)
        BY <2>2, <3>2, <4>3 DEF MoveCores, ResetCore
      <4>5. QED
        BY <1>3, <2>2, <4>4 DEF Drops, ResetCore
    <3>3. QED
      BY <2>2, <3>1, <3>2 DEF ResetCore
  <2>3. CASE Unpid(p)
    <3>1. TasksOf(p) \intersect live \in SUBSET TasksOf(p) /\ SafeForTasks(COS0) /\ COS0 \in Classes
      BY ClassNumbers DEF SafeForTasks
    <3>2. MoveTasks(p)
      BY <2>3, <3>1 DEF Unpid, ReleaseTasks, MoveTasks
    <3>3. QED
      BY <1>3, <2>3, <3>2 DEF Drops, Unpid, historyVars
  <2>4. CASE Revert(p)
    <3>1. Cfg(p).cpus \in SUBSET Names(p) /\ UNCHANGED task
      BY <2>4, CfgFacts DEF Revert
    <3>2. CASE ReleaseCores(p, Cfg(p).cpus)
      BY <1>1, <1>3, <2>4, <3>1, <3>2, ReleasesAreMoves DEF Drops, Revert
    <3>3. CASE UNCHANGED <<cos, historyVars>>
      BY <1>1, <1>3, <2>4, <3>3, NoMove DEF Drops, Revert, historyVars
    <3>4. QED
      BY <2>4, <3>2, <3>3 DEF Revert
  <2>5. CASE Exit(p)
    <3>1. CASE UNCHANGED <<cos, task, historyVars>>
      BY <1>1, <1>3, <2>5, <3>1, NoMove DEF Drops, Exit, historyVars
    <3>2. CASE line[p].pids # {} /\ ReleaseTasks(line[p].pids) /\ UNCHANGED <<cos, historyVars>>
      <4>1. line[p].pids \intersect live \in SUBSET TasksOf(p) /\ SafeForTasks(COS0) /\ COS0 \in Classes
        BY <3>2, ClassNumbers DEF SafeForTasks, TasksOf
      <4>2. MoveTasks(p)
        BY <3>2, <4>1 DEF ReleaseTasks, MoveTasks
      <4>3. QED
        BY <1>3, <2>5, <3>2, <4>2 DEF Drops, Exit, historyVars
    <3>3. CASE ~(at[p] > Len(Configs(p))) /\ ReleaseCores(p, Cfg(p).cpus) /\ UNCHANGED task
      <4>1. at[p] \in Nat /\ at[p] > 0
        BY <1>1, <2>5 DEF Exit, TypeOK, Place
      <4>2. at[p] \in DOMAIN Configs(p)
        BY <1>1, <3>3, <4>1, LineFacts
      <4>3. Cfg(p).cpus \in SUBSET Names(p)
        BY <1>1, <4>2, LineFacts DEF Cfg
      <4>4. QED
        BY <1>1, <1>3, <2>5, <3>3, <4>3, ReleasesAreMoves DEF Drops, Exit
    <3>4. QED
      BY <2>5, <3>1, <3>2, <3>3 DEF Exit
  <2>6. CASE ChildReleases(p)
    <3>1. CASE UNCHANGED <<cos, historyVars>>
      BY <1>1, <1>3, <2>6, <3>1, NoMove DEF Drops, ChildReleases, historyVars
    <3>2. CASE left[p] # {} /\ ReleaseCores(p, Configs(p)[Min(left[p])].cpus)
      <4>1. left[p] \subseteq DOMAIN Configs(p) /\ DOMAIN Configs(p) \subseteq Nat
        BY <1>1, <2>6, LineFacts DEF ChildReleases, Place
      <4>2. Min(left[p]) \in left[p]
        BY <3>2, <4>1, LeastNatural
      <4>3. Configs(p)[Min(left[p])].cpus \in SUBSET Names(p)
        BY <1>1, <4>1, <4>2, LineFacts
      <4>4. QED
        BY <1>1, <1>3, <2>6, <3>2, <4>3, ReleasesAreMoves DEF Drops, ChildReleases
    <3>3. QED
      BY <2>6, <3>1, <3>2 DEF ChildReleases
  <2>7. QED
    BY <1>2, <2>1, <2>2, <2>3, <2>4, <2>5, <2>6
    DEF Moves, Step, ChildStep, Loops, Start, CheckCore, Leave, SetAffinity, Fork, Wait, ChildExec,
        CommandEnds, Interrupt, InterruptInCall, InterruptChild, Kill, machineVars, historyVars
<1>4. QED
  BY <1>2, <1>3, OutsideLoops

LEMMA ValidationKinds ==
  ASSUME NoGaps, BaseInv, NEW p \in Procs, ResetDone(p) \/ Validated(p)
  PROVE  /\ Drops(p) \/ Quiet(p)
         /\ HoldsNothing(p)' \/ Loop(p)'
<1>1. TypeOK /\ UNCHANGED <<machineVars, line, historyVars>>
  BY DEF BaseInv, ResetDone, Validated
<1>2. CASE Goto(p, "validate") \/ Goto(p, "giveup")
  <2>1. HoldsNothing(p)'
    BY <1>1, <1>2 DEF Goto, TypeOK, HoldsNothing, Configuring, InPlace
  <2>2. QED
    BY <1>1, <2>1, NoMove DEF Drops, machineVars, historyVars
<1>3. CASE Advance(p, 1) /\ (Apart(line[p]) \/ Configs(p) = <<>>)
  <2>1. Apart(line[p])
    <3>1. DOMAIN <<>> = {}
      OBVIOUS
    <3>2. QED
      BY <1>3, <3>1 DEF Apart, Configs
  <2>2. /\ Loop(p)'
        /\ \A j \in DOMAIN Configs(p), c \in Cores : c \in Configs(p)[j].cpus /\ Held(p, j, c)' => j < 1
        /\ \A j \in DOMAIN Configs(p) : HeldPids(p, j)' => j < 1
    BY <1>1, <1>3, <2>1, LoopAfterAdvance DEF machineVars
  <2>3. DOMAIN Configs(p) \subseteq Nat \ {0} /\ \A j \in DOMAIN Configs(p) : Configs(p)[j].cpus \subseteq Cores
    BY LineFacts, ConfigFacts DEF BaseInv, TypeOK, MachineTypeOK
  <2>4. pc'[p] # "define"
    BY <1>1, <1>3 DEF Advance, Goto, Configured, TypeOK
  <2>5. QED
    BY <1>1, <2>2, <2>3, <2>4 DEF Quiet, machineVars, historyVars
<1>4. QED
  BY <1>2, <1>3 DEF ResetDone, Validated

(* What a class being taken or defined does to the loops. *)
LEMMA TakingKeepsPlace ==
  ASSUME BaseInv, NEW p \in Procs, TakesCores(p) \/ TakesTasks(p), line' = line, iface' = iface
  PROVE  /\ pc'[p] = "define" /\ at'[p] = at[p] /\ left'[p] = left[p]
         /\ Cfg(p)' = Cfg(p) /\ Configs(p)' = Configs(p)
         /\ \A i : Placed(p, i)' <=> Placed(p, i)
         /\ \A i : AtIt(p, i)' <=> AtIt(p, i)
<1>1. TypeOK
  BY DEF BaseInv
<1>2. pc[p] = "assign" /\ pc'[p] = "define" /\ at'[p] = at[p] /\ left'[p] = left[p]
  BY <1>1 DEF TakesCores, TakesTasks, Goto, TypeOK
<1>3. QED
  BY <1>2 DEF Cfg, Configs, Placed, AtIt, InPlace, Configuring

(* Defining a class for one technology after the other, on one resource    *)
(* after the other, takes a process from what it holds to no more.         *)
LEMMA WritingLoops ==
  ASSUME NoGaps, BaseInv, OsInv, NEW p \in Procs, Loop(p), Writes(p), line' = line, iface' = iface
  PROVE  /\ Loop(p)'
         /\ \A i \in DOMAIN Configs(p), c \in Cores :
              c \in Configs(p)[i].cpus /\ Held(p, i, c)' => Held(p, i, c)
         /\ \A i \in DOMAIN Configs(p) : HeldPids(p, i)' => HeldPids(p, i)
<1>1. TypeOK /\ pc[p] = "define" /\ left[p] # {} /\ left[p] \subseteq IdsToVisit(Cfg(p)) /\ Apart(line[p])
      /\ child' = child
  BY DEF BaseInv, Writes, Loop, Configuring
<1>2. /\ at[p] \in DOMAIN Configs(p) /\ at[p] \in Nat /\ at[p] >= 1 /\ at[p] + 1 \in Nat /\ at[p] + 1 >= 1
      /\ Cfg(p) = Configs(p)[at[p]] /\ Cfg(p) \in Config /\ Configs(p)' = Configs(p)
      /\ DOMAIN Configs(p) \subseteq Nat
  BY <1>1, CfgFacts, LineFacts DEF Configs, BaseInv, TypeOK, MachineTypeOK
<1>3. IsPid(Cfg(p)) => iface = "OS"
  BY <1>1, <1>2 DEF OsInv, HeldPids, AtIt, Configuring, PidConfigs, Configs
<1>4. iface = "OS" \/ iface = "MSR"
  BY <1>1 DEF TypeOK, MachineTypeOK, Interfaces
<1> DEFINE rest == left[p] \ {Min(left[p])}
<1>5. \A i : Placed(p, i) <=> i < at[p]
  BY <1>1 DEF Placed, InPlace, Configuring
<1>6. \A i : AtIt(p, i) <=> i = at[p]
  BY <1>1 DEF AtIt, Configuring
<1>7. Todo(p) = IF iface = "OS" THEN {} ELSE rest
  BY <1>1 DEF Todo
<1>8. CASE UNCHANGED <<pc, at, left>>
  <2>1. Loop(p)'
    BY <1>1, <1>2, <1>8 DEF Loop, Cfg, Configuring, InPlace
  <2>2. \A i : /\ Placed(p, i)' <=> Placed(p, i)
               /\ AtIt(p, i)' <=> AtIt(p, i)
    BY <1>1, <1>8 DEF Placed, AtIt, InPlace, Configuring
  <2>3. Cfg(p)' = Cfg(p) /\ Todo(p)' = Todo(p)
    BY <1>1, <1>2, <1>8 DEF Cfg, Todo
  <2>4. \A i, c : Held(p, i, c)' => Held(p, i, c)
    BY <2>2, <2>3 DEF Held, SearchRes
  <2>5. \A i : HeldPids(p, i)' => HeldPids(p, i)
    BY <1>8, <2>2 DEF HeldPids
  <2>6. QED
    BY <2>1, <2>4, <2>5
<1>9. CASE rest # {} /\ left' = [left EXCEPT ![p] = rest] /\ UNCHANGED at /\ (Goto(p, "assign") \/ UNCHANGED pc)
           /\ (iface = "MSR" <=> Goto(p, "assign"))
  <2>1. left'[p] = rest /\ at'[p] = at[p] /\ pc'[p] = IF iface = "MSR" THEN "assign" ELSE "define"
    BY <1>1, <1>4, <1>9 DEF Goto, TypeOK
  <2>2. Cfg(p)' = Cfg(p)
    BY <1>2, <2>1 DEF Cfg
  <2>3. Loop(p)'
    BY <1>1, <1>2, <1>3, <1>4, <1>9, <2>1, <2>2 DEF Loop, Configuring
  <2>4. \A i : /\ Placed(p, i)' <=> i < at[p]
               /\ AtIt(p, i)' <=> i = at[p]
    BY <1>4, <2>1 DEF Placed, AtIt, InPlace, Configuring
  <2>5. Todo(p)' = IF iface = "OS" THEN {} ELSE rest
    BY <1>4, <2>1 DEF Todo
  <2>6. \A i, c : Held(p, i, c)' => Held(p, i, c)
    BY <1>5, <1>6, <1>7, <2>2, <2>4, <2>5 DEF Held, SearchRes
  <2>7. \A i : HeldPids(p, i)' => HeldPids(p, i)
    BY <1>1, <1>5, <1>6, <2>4 DEF HeldPids
  <2>8. QED
    BY <2>3, <2>6, <2>7
<1>10. CASE rest = {} /\ Advance(p, at[p] + 1)
  <2>1. /\ Loop(p)'
        /\ \A j \in DOMAIN Configs(p), c \in Cores :
             c \in Configs(p)[j].cpus /\ Held(p, j, c)' => j < at[p] + 1
        /\ \A j \in DOMAIN Configs(p) : HeldPids(p, j)' => j < at[p] + 1
    BY <1>1, <1>2, <1>10, LoopAfterAdvance
  <2>2. \A j \in DOMAIN Configs(p) : j < at[p] + 1 => j < at[p] \/ j = at[p]
    BY <1>2
  <2>3. Todo(p) = {}
    BY <1>7, <1>10
  <2>4. \A j \in DOMAIN Configs(p) : \A c : j < at[p] + 1 => Held(p, j, c)
    BY <1>5, <1>6, <2>2, <2>3 DEF Held
  <2>5. \A j \in DOMAIN Configs(p) : j < at[p] + 1 => HeldPids(p, j)
    BY <1>1, <1>5, <1>6, <2>2 DEF HeldPids
  <2>6. QED
    BY <2>1, <2>4, <2>5
<1>11. QED
  <2>1. Goto(p, "assign") => pc'[p] = "assign"
    BY <1>1 DEF Goto, TypeOK
  <2>2. QED
    BY <1>1, <1>8, <1>9, <1>10, <2>1 DEF Writes, NextResource

LEMMA HeldByOthers ==
  ASSUME NEW p \in Procs, OthersStay(p), NEW q \in Procs \ {p}, line' = line, iface' = iface
  PROVE  /\ \A i, c : Held(q, i, c)' <=> Held(q, i, c)
         /\ \A i : HeldPids(q, i)' <=> HeldPids(q, i)
         /\ Loop(q)' <=> Loop(q)
         /\ Configs(q)' = Configs(q) /\ TasksOf(q)' = TasksOf(q) /\ Cfg(q)' = Cfg(q)
         /\ PidConfigs(line[q])' = PidConfigs(line[q])
<1>1. pc'[q] = pc[q] /\ at'[q] = at[q] /\ left'[q] = left[q] /\ child'[q] = child[q]
  BY DEF OthersStay
<1>2. Configs(q)' = Configs(q) /\ TasksOf(q)' = TasksOf(q) /\ Cfg(q)' = Cfg(q)
      /\ PidConfigs(line[q])' = PidConfigs(line[q])
  BY <1>1 DEF Configs, TasksOf, Cfg, PidConfigs
<1>3. \A i : (Placed(q, i)' <=> Placed(q, i)) /\ (AtIt(q, i)' <=> AtIt(q, i))
  BY <1>1 DEF Placed, AtIt, Configuring, InPlace
<1>4. Todo(q)' = Todo(q)
  BY <1>1 DEF Todo
<1>5. \A i, c : Held(q, i, c)' <=> Held(q, i, c)
  BY <1>2, <1>3, <1>4 DEF Held, SearchRes
<1>6. \A i : HeldPids(q, i)' <=> HeldPids(q, i)
  BY <1>1, <1>3 DEF HeldPids
<1>7. Loop(q)' <=> Loop(q)
  BY <1>1, <1>2 DEF Loop, Configuring, InPlace
<1>8. QED
  BY <1>2, <1>5, <1>6, <1>7

(* Every step of a process is of one of the kinds. *)
LEMMA StepKinds ==
  ASSUME NoGaps, BaseInv, LoopInv, NEW p \in Procs, Moves(p)
  PROVE  Drops(p) \/ Quiet(p) \/ TakesCores(p) \/ TakesTasks(p) \/ Writes(p)
BY AssignCoresKinds, AssignPidsKinds, DefineKinds, OutsideKinds, ValidationKinds DEF LoopInv, Loops

LEMMA LoopsKept ==
  ASSUME NoGaps, BaseInv, LoopInv, OsInv, [RdtsetNext]_vars
  PROVE  LoopInv' /\ OsInv'
<1>1. line' = line /\ iface' = iface /\ TypeOK
  BY LineKept DEF BaseInv
<1>2. CASE UNCHANGED vars \/ \E x \in Tasks : TaskEnds(x)
  <2>1. UNCHANGED procVars
    BY <1>2 DEF vars, TaskEnds
  <2>2. LoopInv'
    BY <1>1, <2>1 DEF procVars, LoopInv, Loop, Configuring, InPlace, Cfg, Configs
  <2>3. OsInv'
    BY <1>1, <2>1 DEF procVars, OsInv, HeldPids, Placed, AtIt, Configuring, InPlace
  <2>4. QED
    BY <2>2, <2>3
<1>3. ASSUME NEW p \in Procs, Moves(p) PROVE LoopInv' /\ OsInv'
  <2>1. ASSUME NEW q \in Procs \ {p}
        PROVE  Loop(q)' /\ \A i \in PidConfigs(line[q])' : HeldPids(q, i)' => iface' = "OS"
    BY <1>1, <1>3, <2>1, StepMovesOne, HeldByOthers DEF LoopInv, OsInv
  <2>2. Loop(p)' /\ \A i \in PidConfigs(line[p])' : HeldPids(p, i)' => iface' = "OS"
    <3>1. Loop(p) /\ \A i \in PidConfigs(line[p]) : i \in DOMAIN Configs(p) /\ (HeldPids(p, i) => iface = "OS")
      BY LineFacts DEF LoopInv, OsInv, BaseInv, TypeOK, MachineTypeOK
    <3>2. PidConfigs(line[p])' = PidConfigs(line[p])
      BY <1>1
    <3>3. HoldsNothing(p)' => Loop(p)' /\ \A i : ~HeldPids(p, i)'
      BY DEF HoldsNothing, Loop, HeldPids, Placed, AtIt, Configuring
    <3>4. Quiet(p) => \A i \in DOMAIN Configs(p) : HeldPids(p, i)' => HeldPids(p, i)
      BY DEF Quiet, HeldPids
    <3>5. CASE TakesCores(p)
      <4>1. pc[p] = "assign" /\ pc'[p] = "define" /\ left'[p] = left[p] /\ Cfg(p)' = Cfg(p) /\ ~InPlace(p)'
            /\ ~IsPid(Cfg(p)) /\ \A i : /\ Placed(p, i)' <=> Placed(p, i)
                                        /\ AtIt(p, i)' <=> AtIt(p, i)
        BY <1>1, <3>5, TakingKeepsPlace DEF TakesCores, InPlace
      <4>2. Loop(p)'
        BY <1>1, <3>1, <4>1 DEF Loop, Configuring
      <4>3. \A i \in PidConfigs(line[p]) : ~AtIt(p, i)
        BY <4>1 DEF AtIt, PidConfigs, Cfg, Configs
      <4>4. QED
        BY <1>1, <3>1, <3>2, <4>1, <4>2, <4>3 DEF HeldPids
    <3>6. CASE TakesTasks(p)
      <4>1. pc[p] = "assign" /\ pc'[p] = "define" /\ left'[p] = left[p] /\ Cfg(p)' = Cfg(p) /\ ~InPlace(p)'
            /\ iface = "OS"
        BY <1>1, <3>6, TakingKeepsPlace DEF TakesTasks, InPlace
      <4>2. Loop(p)'
        BY <1>1, <3>1, <4>1 DEF Loop, Configuring
      <4>3. QED
        BY <1>1, <4>1, <4>2
    <3>7. CASE Writes(p)
      BY <1>1, <3>1, <3>2, <3>7, WritingLoops
    <3>8. CASE Drops(p)
      BY <3>2, <3>3, <3>8 DEF Drops
    <3>9. CASE Quiet(p)
      <4>1. Loop(p)'
        <5>1. CASE ResetDone(p) \/ Validated(p)
          BY <3>3, <5>1, ValidationKinds
        <5>2. CASE AssignCores(p) \/ AssignPids(p) \/ DefineClass(p)
          BY <1>1, <3>1, <3>3, <3>5, <3>6, <3>7, <5>2, AssignCoresKinds, AssignPidsKinds, DefineKinds DEF Drops
        <5>3. CASE ~Loops(p)
          <6>1. HoldsNothing(p)' \/ (InPlace(p) /\ ~Configuring(p)')
            BY <1>3, <5>3, OutsideKinds DEF Drops
          <6>2. Apart(line[p])' <=> Apart(line[p])
            BY <1>1 DEF Apart
          <6>3. QED
            BY <3>1, <3>3, <6>1, <6>2 DEF Loop, Configuring
        <5>4. QED
          BY <5>1, <5>2, <5>3 DEF Loops
      <4>2. QED
        BY <1>1, <3>1, <3>2, <3>4, <3>9, <4>1
    <3>10. QED
      BY <1>3, <3>5, <3>6, <3>7, <3>8, <3>9, StepKinds
  <2>3. QED
    BY <1>1, <2>1, <2>2 DEF LoopInv, OsInv
<1>4. QED
  BY <1>2, <1>3, NextSplit

-----------------------------------------------------------------------------
(* Classes are shared by none that they were not given for.                *)

LEMMA NearKept ==
  ASSUME line' = line, iface' = iface
  PROVE  /\ \A c, d : Near(c, d)' <=> Near(c, d)
         /\ \A p : Alone(p)' <=> Alone(p)
         /\ AllAlone' <=> AllAlone
         /\ L2Asked' <=> L2Asked
         /\ L2Searches' <=> L2Searches
<1>1. L2Asked' <=> L2Asked
  BY DEF L2Asked, Configs
<1>2. L2Searches' <=> L2Searches
  BY <1>1 DEF L2Searches
<1>3. \A c, d : Near(c, d)' <=> Near(c, d)
  BY <1>2 DEF Near
<1>4. \A p : Names(p)' = Names(p) /\ TasksOf(p)' = TasksOf(p)
  BY DEF Names, TasksOf, Configs
<1>5. \A p : Alone(p)' <=> Alone(p)
  BY <1>4 DEF Alone
<1>6. AllAlone' <=> AllAlone
  BY <1>5 DEF AllAlone
<1>7. QED
  BY <1>1, <1>2, <1>3, <1>5, <1>6

(* What others move does not come into a class that is somebody's own.     *)
LEMMA CoresMovedElsewhere ==
  ASSUME TypeOK, line' = line, iface' = iface, live' \subseteq live, UNCHANGED task,
         NEW cs, NEW k, Associate(cs, k), SafeFor(cs, k), NEW own
  PROVE  /\ \A c \in Cores : c \notin cs /\ Isolated(c, own) => Isolated(c, own)'
         /\ iface = "OS" => \A x \in live' : TaskIsolated(x, own) => TaskIsolated(x, own)'
<1>1. \A c \in Cores : cos'[c] = IF c \in cs THEN k ELSE cos[c]
  BY DEF Associate
<1>2. ASSUME NEW c \in Cores, c \notin cs, Isolated(c, own) PROVE Isolated(c, own)'
  <2>1. cos'[c] = cos[c] /\ cos'[c] # COS0
    BY <1>1, <1>2 DEF Isolated
  <2>2. ASSUME NEW d \in Cores \ own, Near(c, d)' PROVE cos'[d] # cos'[c]
    <3>1. Near(c, d)
      BY <2>2, NearKept
    <3>2. CASE d \in cs
      BY <1>1, <2>1, <3>1, <3>2 DEF SafeFor
    <3>3. CASE d \notin cs
      BY <1>1, <1>2, <2>1, <3>1, <3>3 DEF Isolated
    <3>4. QED
      BY <3>2, <3>3
  <2>3. iface' = "OS" => \A x \in live' : task'[x] # cos'[c]
    BY <1>2, <2>1 DEF Isolated
  <2>4. QED
    BY <2>1, <2>2, <2>3 DEF Isolated
<1>3. ASSUME iface = "OS", NEW x \in live', TaskIsolated(x, own) PROVE TaskIsolated(x, own)'
  <2>1. x \in live /\ k # task[x]
    BY <1>3 DEF SafeFor, TaskIsolated
  <2>2. \A c \in Cores : cos'[c] # task'[x]
    BY <1>1, <1>3, <2>1 DEF TaskIsolated
  <2>3. QED
    BY <1>3, <2>2 DEF TaskIsolated
<1>4. QED
  BY <1>2, <1>3

LEMMA TasksMovedElsewhere ==
  ASSUME TypeOK, line' = line, iface' = iface, live' \subseteq live, UNCHANGED cos,
         NEW xs, NEW k, AssociateTasks(xs, k), SafeForTasks(k), NEW own
  PROVE  /\ \A c \in Cores : Isolated(c, own) => Isolated(c, own)'
         /\ \A x \in live' : x \notin xs /\ TaskIsolated(x, own) => TaskIsolated(x, own)'
<1>1. live \subseteq Tasks /\ \A x \in Tasks : task'[x] = IF x \in xs THEN k ELSE task[x]
  BY DEF AssociateTasks, TypeOK, MachineTypeOK
<1>2. ASSUME NEW c \in Cores, Isolated(c, own) PROVE Isolated(c, own)'
  <2>1. k # cos[c]
    BY <1>2 DEF SafeForTasks, Isolated
  <2>2. iface' = "OS" => \A x \in live' : task'[x] # cos'[c]
    BY <1>1, <1>2, <2>1 DEF Isolated
  <2>3. \A d \in Cores \ own : Near(c, d)' => cos'[d] # cos'[c]
    BY <1>2, NearKept DEF Isolated
  <2>4. QED
    BY <1>2, <2>2, <2>3 DEF Isolated
<1>3. ASSUME NEW x \in live', x \notin xs, TaskIsolated(x, own) PROVE TaskIsolated(x, own)'
  <2>1. x \in live /\ x \in Tasks /\ task'[x] = task[x] /\ k # task[x]
    BY <1>1, <1>3 DEF SafeForTasks, TaskIsolated
  <2>2. \A y \in live' \ own : task'[y] # task'[x]
    BY <1>1, <1>3, <2>1 DEF TaskIsolated
  <2>3. QED
    BY <1>3, <2>1, <2>2 DEF TaskIsolated
<1>4. QED
  BY <1>2, <1>3

(* Nor is a class that was just found anybody else's. *)
LEMMA CoresMovedTogether ==
  ASSUME TypeOK, line' = line, iface' = iface, live' = live, UNCHANGED task,
         NEW own, NEW cs \in SUBSET own, NEW k, k # COS0, Associate(cs, k), SafeFor(cs, k),
         NEW c \in cs, c \in Cores
  PROVE  Isolated(c, own)'
<1>1. \A d \in Cores : cos'[d] = IF d \in cs THEN k ELSE cos[d]
  BY DEF Associate
<1>2. ASSUME NEW d \in Cores \ own, Near(c, d)' PROVE cos'[d] # cos'[c]
  <2>1. Near(c, d)
    BY <1>2, NearKept
  <2>2. Near(d, c)
    BY <2>1 DEF Near
  <2>3. QED
    BY <1>1, <2>2 DEF SafeFor
<1>3. iface' = "OS" => \A x \in live' : task'[x] # cos'[c]
  BY <1>1 DEF SafeFor
<1>4. QED
  BY <1>1, <1>2, <1>3 DEF Isolated

LEMMA TasksMovedTogether ==
  ASSUME TypeOK, live' = live, UNCHANGED cos,
         NEW xs, NEW k, k # COS0, AssociateTasks(xs, k), SafeForTasks(k), NEW x \in xs, x \in Tasks
  PROVE  TaskIsolated(x, xs)'
<1>1. live \subseteq Tasks /\ \A y \in Tasks : task'[y] = IF y \in xs THEN k ELSE task[y]
  BY DEF AssociateTasks, TypeOK, MachineTypeOK
<1>2. QED
  BY <1>1 DEF SafeForTasks, TaskIsolated

(* A step moves cores and tasks of its own process only. *)
LEMMA StepsMove ==
  ASSUME NoGaps, BaseInv, LoopInv, NEW p \in Procs, Moves(p)
  PROVE  (MoveCores(p) \/ MoveTasks(p)) /\ live' = live
<1>1. TypeOK
  BY DEF BaseInv
<1>2. CASE TakesCores(p)
  <2>1. pc[p] = "assign" /\ Unused(AssignSet(p), Tech(Cfg(p))) # {}
    BY <1>2 DEF TakesCores
  <2>2. AssignSet(p) \in SUBSET Names(p) /\ AssignSet(p) \in SUBSET Cores
    BY <2>1, CfgFacts, AssignSetInConfig
  <2>3. SafeFor(AssignSet(p), FirstUnused(AssignSet(p), Tech(Cfg(p))))
        /\ FirstUnused(AssignSet(p), Tech(Cfg(p))) \in Classes
    BY <2>1, <2>2, UnusedIsSafe
  <2>4. QED
    BY <1>2, <2>2, <2>3 DEF TakesCores, MoveCores
<1>3. CASE TakesTasks(p)
  <2>1. SafeForTasks(FirstUnused({}, Tech(Cfg(p)))) /\ FirstUnused({}, Tech(Cfg(p))) \in Classes
    BY <1>3, UnusedIsSafeForTasks DEF TakesTasks
  <2>2. QED
    BY <1>3, <2>1 DEF TakesTasks, MoveTasks
<1>4. CASE Quiet(p) \/ Writes(p)
  BY <1>1, <1>4, NoMove DEF Quiet, Writes
<1>5. CASE Drops(p)
  BY <1>5 DEF Drops
<1>6. QED
  BY <1>2, <1>3, <1>4, <1>5, StepKinds

Good(p) == CoresHeld(p) /\ TasksHeld(p) /\ Current(p)

LEMMA GoodOfOthers ==
  ASSUME BaseInv, OsInv, line' = line, iface' = iface, live' = live, NEW p \in Procs, NEW q \in Procs \ {p},
         Alone(p), Good(p), OthersStay(q), MoveCores(q) \/ MoveTasks(q)
  PROVE  Good(p)'
<1>1. TypeOK /\ iface \in Interfaces /\ LineInv /\ live \subseteq Tasks
  BY DEF BaseInv, TypeOK, MachineTypeOK
<1>2. /\ \A i, c : Held(p, i, c)' <=> Held(p, i, c)
      /\ \A i : HeldPids(p, i)' <=> HeldPids(p, i)
      /\ Configs(p)' = Configs(p) /\ TasksOf(p)' = TasksOf(p) /\ Cfg(p)' = Cfg(p)
      /\ PidConfigs(line[p])' = PidConfigs(line[p])
  BY HeldByOthers
<1>3. pc'[p] = pc[p] /\ left'[p] = left[p] /\ cls'[p] = cls[p]
  BY DEF OthersStay
<1>4. Names(p) \intersect Names(q) = {} /\ TasksOf(p) \intersect TasksOf(q) = {}
  BY DEF Alone
<1>5. \A i \in DOMAIN Configs(p) : Configs(p)[i].cpus \subseteq Names(p) /\ Configs(p)[i].cpus \subseteq Cores
  BY <1>1, LineFacts, ConfigFacts
<1>6. pc[p] = "define" => Cfg(p).cpus \subseteq Names(p) /\ Cfg(p).cpus \subseteq Cores
  BY CfgFacts
<1>7. CASE MoveCores(q)
  <2>1. PICK cs \in SUBSET Names(q), k \in Classes : Associate(cs, k) /\ SafeFor(cs, k) /\ UNCHANGED task
    BY <1>7 DEF MoveCores
  <2>2. CoresHeld(p)'
    <3> SUFFICES ASSUME NEW i \in DOMAIN Configs(p), NEW c \in Configs(p)[i].cpus, Held(p, i, c)
                 PROVE  Isolated(c, Configs(p)[i].cpus)'
      BY <1>2 DEF CoresHeld
    <3>1. Isolated(c, Configs(p)[i].cpus) /\ c \in Cores /\ c \notin cs
      BY <1>4, <1>5 DEF Good, CoresHeld
    <3> DEFINE own == Configs(p)[i].cpus
    <3>2. own' = own
      BY <1>2
    <3> HIDE DEF own
    <3>3. \A s : Isolated(c, s) => Isolated(c, s)'
      BY <1>1, <2>1, <3>1, CoresMovedElsewhere
    <3>4. Isolated(c, own) => Isolated(c, own)'
      BY <3>2, <3>3 DEF Isolated
    <3>5. QED
      BY <3>1, <3>4 DEF own
  <2>3. TasksHeld(p)'
    <3> SUFFICES ASSUME NEW i \in PidConfigs(line[p]), HeldPids(p, i), NEW x \in TasksOf(p) \intersect live
                 PROVE  TaskIsolated(x, TasksOf(p))'
      BY <1>2 DEF TasksHeld
    <3> DEFINE own == TasksOf(p)
    <3>1. TaskIsolated(x, own) /\ x \in live' /\ iface = "OS" /\ own' = own
      BY <1>2 DEF Good, TasksHeld, OsInv
    <3> HIDE DEF own
    <3>2. \A s : TaskIsolated(x, s) => TaskIsolated(x, s)'
      BY <1>1, <2>1, <3>1, CoresMovedElsewhere
    <3>3. TaskIsolated(x, own) => TaskIsolated(x, own)'
      BY <3>1, <3>2 DEF TaskIsolated
    <3>4. QED
      BY <3>1, <3>3 DEF own
  <2>4. Current(p)'
    <3>1. \A c \in Cores \ cs : cos'[c] = cos[c]
      BY <2>1 DEF Associate
    <3>2. pc[p] = "define" => \A c \in Cfg(p).cpus : cos'[c] = cos[c]
      BY <1>4, <1>6, <2>1, <3>1
    <3>3. Current(p)
      BY DEF Good
    <3>4. QED
      BY <1>2, <1>3, <2>1, <3>2, <3>3 DEF Current, SearchRes
  <2>5. QED
    BY <2>2, <2>3, <2>4 DEF Good
<1>8. CASE MoveTasks(q)
  <2>1. PICK xs \in SUBSET TasksOf(q), k \in Classes : AssociateTasks(xs, k) /\ SafeForTasks(k) /\ UNCHANGED cos
    BY <1>8 DEF MoveTasks
  <2>2. CoresHeld(p)'
    <3> SUFFICES ASSUME NEW i \in DOMAIN Configs(p), NEW c \in Configs(p)[i].cpus, Held(p, i, c)
                 PROVE  Isolated(c, Configs(p)[i].cpus)'
      BY <1>2 DEF CoresHeld
    <3> DEFINE own == Configs(p)[i].cpus
    <3>1. Isolated(c, own) /\ c \in Cores /\ own' = own
      BY <1>2, <1>5 DEF Good, CoresHeld
    <3> HIDE DEF own
    <3>2. \A s : Isolated(c, s) => Isolated(c, s)'
      BY <1>1, <2>1, <3>1, TasksMovedElsewhere
    <3>3. Isolated(c, own) => Isolated(c, own)'
      BY <3>1, <3>2 DEF Isolated
    <3>4. QED
      BY <3>1, <3>3 DEF own
  <2>3. TasksHeld(p)'
    <3> SUFFICES ASSUME NEW i \in PidConfigs(line[p]), HeldPids(p, i), NEW x \in TasksOf(p) \intersect live
                 PROVE  TaskIsolated(x, TasksOf(p))'
      BY <1>2 DEF TasksHeld
    <3> DEFINE own == TasksOf(p)
    <3>1. TaskIsolated(x, own) /\ x \in live' /\ x \notin xs /\ own' = own
      BY <1>2, <1>4, <2>1 DEF Good, TasksHeld
    <3> HIDE DEF own
    <3>2. \A s : TaskIsolated(x, s) => TaskIsolated(x, s)'
      BY <1>1, <2>1, <3>1, TasksMovedElsewhere
    <3>3. TaskIsolated(x, own) => TaskIsolated(x, own)'
      BY <3>1, <3>2 DEF TaskIsolated
    <3>4. QED
      BY <3>1, <3>3 DEF own
  <2>4. Current(p)'
    <3>1. \A x \in TasksOf(p) \intersect live : task'[x] = task[x]
      BY <1>1, <1>4, <2>1 DEF AssociateTasks
    <3>2. Current(p)
      BY DEF Good
    <3>3. QED
      BY <1>2, <1>3, <2>1, <3>1, <3>2 DEF Current, SearchRes
  <2>5. QED
    BY <2>2, <2>3, <2>4 DEF Good
<1>9. QED
  BY <1>7, <1>8

(* What a process holds after a step of its own, when it does not take a   *)
(* new class.                                                              *)
LEMMA GoodOfSame ==
  ASSUME BaseInv, line' = line, iface' = iface, live' \subseteq live, NEW p \in Procs, Good(p),
         UNCHANGED <<cos, task>>, Current(p)',
         \A i \in DOMAIN Configs(p), c \in Cores : c \in Configs(p)[i].cpus /\ Held(p, i, c)' => Held(p, i, c),
         \A i \in DOMAIN Configs(p) : HeldPids(p, i)' => HeldPids(p, i)
  PROVE  Good(p)'
<1>1. /\ Configs(p)' = Configs(p) /\ TasksOf(p)' = TasksOf(p) /\ PidConfigs(line[p])' = PidConfigs(line[p])
      /\ PidConfigs(line[p]) \subseteq DOMAIN Configs(p)
      /\ \A i \in DOMAIN Configs(p) : Configs(p)[i].cpus \subseteq Cores
  BY LineFacts, ConfigFacts DEF Configs, TasksOf, BaseInv, TypeOK, MachineTypeOK
<1>2. \A c, s : Isolated(c, s) => Isolated(c, s)'
  BY NearKept DEF Isolated
<1>3. \A x, s : TaskIsolated(x, s) => TaskIsolated(x, s)'
  BY DEF TaskIsolated
<1>4. CoresHeld(p)'
  <2> SUFFICES ASSUME NEW i \in DOMAIN Configs(p), NEW c \in Configs(p)[i].cpus, Held(p, i, c)'
               PROVE  Isolated(c, Configs(p)[i].cpus)'
    BY <1>1 DEF CoresHeld
  <2> DEFINE own == Configs(p)[i].cpus
  <2>1. Isolated(c, own) /\ own' = own
    BY <1>1 DEF Good, CoresHeld
  <2> HIDE DEF own
  <2>2. Isolated(c, own) => Isolated(c, own)'
    BY <1>2, <2>1 DEF Isolated
  <2>3. QED
    BY <2>1, <2>2 DEF own
<1>5. TasksHeld(p)'
  <2> SUFFICES ASSUME NEW i \in PidConfigs(line[p]), HeldPids(p, i)', NEW x \in TasksOf(p) \intersect live'
               PROVE  TaskIsolated(x, TasksOf(p))'
    BY <1>1 DEF TasksHeld
  <2> DEFINE own == TasksOf(p)
  <2>1. TaskIsolated(x, own) /\ own' = own
    BY <1>1 DEF Good, TasksHeld
  <2> HIDE DEF own
  <2>2. TaskIsolated(x, own) => TaskIsolated(x, own)'
    BY <1>3, <2>1 DEF TaskIsolated
  <2>3. QED
    BY <2>1, <2>2 DEF own
<1>6. QED
  BY <1>4, <1>5 DEF Good

(* What a process holds after it took a class for cores: what it held      *)
(* before, and these cores.                                                *)
LEMMA HeldAfterTaking ==
  ASSUME BaseInv, NEW p \in Procs, TakesCores(p), line' = line, iface' = iface,
         NEW i \in DOMAIN Configs(p), NEW c \in Configs(p)[i].cpus, Held(p, i, c)'
  PROVE  Held(p, i, c) \/ (i = at[p] /\ c \in AssignSet(p))
<1>1. /\ pc[p] = "assign" /\ pc'[p] = "define" /\ left'[p] = left[p] /\ Cfg(p)' = Cfg(p)
      /\ Placed(p, i)' <=> Placed(p, i)
      /\ AtIt(p, i)' <=> AtIt(p, i)
  BY TakingKeepsPlace DEF TakesCores
<1>2. CASE Placed(p, i)
  BY <1>2 DEF Held
<1>3. CASE AtIt(p, i) /\ SearchRes(c, Tech(Cfg(p))) \notin Todo(p)'
  <2>1. i = at[p] /\ c \in Cfg(p).cpus
    BY <1>3 DEF AtIt, Cfg
  <2>2. CASE iface = "MSR"
    <3>1. Todo(p)' = left[p] \ {Min(left[p])} /\ Todo(p) = left[p]
      BY <1>1, <2>2 DEF Todo
    <3>2. CASE SearchRes(c, Tech(Cfg(p))) \notin left[p]
      BY <1>3, <3>1, <3>2 DEF Held
    <3>3. CASE SearchRes(c, Tech(Cfg(p))) = Min(left[p])
      BY <2>1, <2>2, <3>3 DEF AssignSet, CoresAt
    <3>4. QED
      BY <1>3, <3>1, <3>2, <3>3
  <2>3. CASE iface # "MSR"
    BY <2>1, <2>3 DEF AssignSet
  <2>4. QED
    BY <2>2, <2>3
<1>4. Cfg(p)' = Cfg(p) => SearchRes(c, Tech(Cfg(p)))' = SearchRes(c, Tech(Cfg(p)))
  BY DEF SearchRes, Tech
<1>5. QED
  BY <1>1, <1>2, <1>3, <1>4 DEF Held

LEMMA GoodAfterTakingCores ==
  ASSUME BaseInv, OsInv, NEW p \in Procs, Loop(p), TakesCores(p), line' = line, iface' = iface, Good(p)
  PROVE  Good(p)'
<1> DEFINE cs == AssignSet(p)
           k == FirstUnused(cs, Tech(Cfg(p)))
<1>1. /\ TypeOK /\ iface \in {"MSR", "OS"} /\ LineInv /\ live' = live /\ live' \subseteq live /\ UNCHANGED task
      /\ pc[p] = "assign" /\ ~IsPid(Cfg(p)) /\ Associate(cs, k) /\ GotClass(p, k) /\ Apart(line[p])
  BY DEF BaseInv, TypeOK, MachineTypeOK, Interfaces, TakesCores, Loop, Configuring
<1>2. /\ at[p] \in DOMAIN Configs(p) /\ Cfg(p) = Configs(p)[at[p]]
      /\ Cfg(p).cpus \subseteq Cores
  BY <1>1, CfgFacts
<1>3. cs \subseteq Cfg(p).cpus /\ cs \in SUBSET Cores
  BY <1>2, AssignSetInConfig
<1>4. SafeFor(cs, k) /\ k # COS0
  BY <1>1, <1>3, UnusedIsSafe DEF TakesCores
<1>5. /\ pc'[p] = "define" /\ left'[p] = left[p] /\ Cfg(p)' = Cfg(p) /\ Configs(p)' = Configs(p)
      /\ \A i : (Placed(p, i)' <=> Placed(p, i)) /\ (AtIt(p, i)' <=> AtIt(p, i))
  BY TakingKeepsPlace
<1>6. PidConfigs(line[p])' = PidConfigs(line[p]) /\ TasksOf(p)' = TasksOf(p)
      /\ \A i \in DOMAIN Configs(p) : Configs(p)[i].cpus \subseteq Cores
  <2>1. iface \in Interfaces /\ LineInv
    BY <1>1 DEF TypeOK, MachineTypeOK
  <2>2. \A i \in DOMAIN Configs(p) : Configs(p)[i].cpus \subseteq Cores
    BY <2>1, LineFacts, ConfigFacts
  <2>3. QED
    BY <2>2 DEF TasksOf
<1> HIDE DEF cs, k
<1>7. CoresHeld(p)'
  <2> SUFFICES ASSUME NEW i \in DOMAIN Configs(p), NEW c \in Configs(p)[i].cpus, Held(p, i, c)'
               PROVE  Isolated(c, Configs(p)[i].cpus)'
    BY <1>5 DEF CoresHeld
  <2> DEFINE own == Configs(p)[i].cpus
  <2>1. own' = own /\ c \in Cores
    BY <1>5, <1>6
  <2>2. CASE i = at[p] /\ c \in cs
    <3>1. own = Cfg(p).cpus /\ cs \in SUBSET own
      BY <1>2, <1>3, <2>2
    <3> HIDE DEF own
    <3>2. \A s : cs \in SUBSET s => Isolated(c, s)'
      BY <1>1, <1>4, <2>1, <2>2, CoresMovedTogether
    <3>3. Isolated(c, own)'
      BY <2>1, <3>1, <3>2 DEF Isolated
    <3>4. QED
      BY <3>3 DEF own
  <2>3. CASE Held(p, i, c) /\ ~(i = at[p] /\ c \in cs)
    <3>1. c \notin cs
      <4>1. Configs(p) = line[p].configs
        BY DEF Configs
      <4>2. QED
        BY <1>1, <1>2, <1>3, <2>3, <4>1 DEF Apart
    <3>2. Isolated(c, own)
      BY <2>3 DEF Good, CoresHeld
    <3> HIDE DEF own
    <3>3. \A s : Isolated(c, s) => Isolated(c, s)'
      BY <1>1, <1>4, <2>1, <3>1, CoresMovedElsewhere
    <3>4. Isolated(c, own)'
      BY <2>1, <3>2, <3>3 DEF Isolated
    <3>5. QED
      BY <3>4 DEF own
  <2>4. QED
    BY <2>2, <2>3, HeldAfterTaking DEF cs
<1>8. TasksHeld(p)'
  <2> SUFFICES ASSUME NEW i \in PidConfigs(line[p]), HeldPids(p, i)', NEW x \in TasksOf(p) \intersect live
               PROVE  TaskIsolated(x, TasksOf(p))'
    BY <1>1, <1>6 DEF TasksHeld
  <2> DEFINE own == TasksOf(p)
  <2>1. ~AtIt(p, i)
    BY <1>1 DEF AtIt, PidConfigs, Cfg, Configs
  <2>2. HeldPids(p, i)
    BY <1>5, <2>1 DEF HeldPids
  <2>3. TaskIsolated(x, own) /\ iface = "OS" /\ own' = own /\ x \in live'
    BY <1>1, <1>6, <2>2 DEF Good, TasksHeld, OsInv
  <2> HIDE DEF own
  <2>4. \A s : TaskIsolated(x, s) => TaskIsolated(x, s)'
    BY <1>1, <1>4, <2>3, CoresMovedElsewhere
  <2>5. TaskIsolated(x, own)'
    BY <2>3, <2>4 DEF TaskIsolated
  <2>6. QED
    BY <2>5 DEF own
<1>9. Current(p)'
  <2>1. cls'[p] = k
    BY <1>1 DEF GotClass, TypeOK
  <2>2. ASSUME NEW c \in Cfg(p).cpus, iface = "OS" \/ SearchRes(c, Tech(Cfg(p))) = Min(left[p]) PROVE cos'[c] = k
    <3>1. c \in cs
      BY <1>1, <2>2 DEF AssignSet, CoresAt, cs
    <3>2. QED
      BY <1>1, <1>3, <3>1 DEF Associate
  <2>3. QED
    BY <1>1, <1>5, <2>1, <2>2 DEF Current, SearchRes
<1>10. QED
  BY <1>7, <1>8, <1>9 DEF Good

LEMMA GoodAfterTakingTasks ==
  ASSUME BaseInv, NEW p \in Procs, TakesTasks(p), line' = line, iface' = iface, Good(p)
  PROVE  Good(p)'
<1> DEFINE k == FirstUnused({}, Tech(Cfg(p)))
<1>1. /\ TypeOK /\ LineInv /\ live' = live /\ live' \subseteq live /\ UNCHANGED cos /\ iface = "OS"
      /\ iface \in Interfaces /\ pc[p] = "assign" /\ IsPid(Cfg(p)) /\ AssociateTasks(TasksOf(p), k)
      /\ GotClass(p, k)
  BY DEF BaseInv, TypeOK, MachineTypeOK, TakesTasks
<1>2. Cfg(p) = Configs(p)[at[p]]
  BY DEF Cfg
<1>3. SafeForTasks(k) /\ k # COS0
  BY <1>1, UnusedIsSafeForTasks DEF TakesTasks
<1>4. /\ pc'[p] = "define" /\ Cfg(p)' = Cfg(p) /\ Configs(p)' = Configs(p)
      /\ \A i : (Placed(p, i)' <=> Placed(p, i)) /\ (AtIt(p, i)' <=> AtIt(p, i))
  BY TakingKeepsPlace
<1>5. TasksOf(p)' = TasksOf(p) /\ TasksOf(p) \subseteq Tasks
      /\ \A i \in DOMAIN Configs(p) : Configs(p)[i].cpus \subseteq Cores
  BY <1>1, LineFacts, ConfigFacts DEF TasksOf
<1> HIDE DEF k
<1>6. CoresHeld(p)'
  <2> SUFFICES ASSUME NEW i \in DOMAIN Configs(p), NEW c \in Configs(p)[i].cpus, Held(p, i, c)'
               PROVE  Isolated(c, Configs(p)[i].cpus)'
    BY <1>4 DEF CoresHeld
  <2> DEFINE own == Configs(p)[i].cpus
  <2>1. ~AtIt(p, i)
    BY <1>1, <1>2 DEF AtIt, IsPid
  <2>2. Held(p, i, c)
    BY <1>4, <2>1 DEF Held
  <2>3. Isolated(c, own) /\ own' = own /\ c \in Cores
    BY <1>4, <1>5, <2>2 DEF Good, CoresHeld
  <2> HIDE DEF own
  <2>4. \A s : Isolated(c, s) => Isolated(c, s)'
    BY <1>1, <1>3, <2>3, TasksMovedElsewhere
  <2>5. Isolated(c, own)'
    BY <2>3, <2>4 DEF Isolated
  <2>6. QED
    BY <2>5 DEF own
<1>7. TasksHeld(p)'
  <2> SUFFICES ASSUME NEW x \in TasksOf(p)
               PROVE  TaskIsolated(x, TasksOf(p))'
    BY <1>5 DEF TasksHeld
  <2> DEFINE own == TasksOf(p)
  <2>1. own' = own /\ x \in own /\ x \in Tasks /\ AssociateTasks(own, k)
    BY <1>1, <1>5
  <2> HIDE DEF own
  <2>2. \A s : AssociateTasks(s, k) /\ x \in s => TaskIsolated(x, s)'
    BY <1>1, <1>3, <2>1, TasksMovedTogether
  <2>3. TaskIsolated(x, own)'
    BY <2>1, <2>2 DEF TaskIsolated
  <2>4. QED
    BY <2>3 DEF own
<1>8. Current(p)'
  <2>1. cls'[p] = k
    BY <1>1 DEF GotClass, TypeOK
  <2>2. \A x \in TasksOf(p) : task'[x] = k
    BY <1>1, <1>5 DEF AssociateTasks
  <2>3. QED
    BY <1>1, <1>4, <1>5, <2>1, <2>2 DEF Current
<1>9. QED
  BY <1>6, <1>7, <1>8 DEF Good

LEMMA CurrentAfterWriting ==
  ASSUME BaseInv, OsInv, NEW p \in Procs, Writes(p), line' = line, iface' = iface, Current(p)
  PROVE  Current(p)'
<1>1. TypeOK /\ pc[p] = "define" /\ UNCHANGED <<cos, task, live, cls>>
  BY DEF BaseInv, Writes
<1>2. TasksOf(p)' = TasksOf(p)
  BY DEF TasksOf
<1>3. CASE pc'[p] # "define"
  BY <1>3 DEF Current
<1>4. CASE UNCHANGED <<pc, at, left>>
  BY <1>1, <1>2, <1>4 DEF Current, Cfg, Configs, SearchRes
<1>5. CASE UNCHANGED at /\ iface = "OS"
  BY <1>1, <1>2, <1>5 DEF Current, Cfg, Configs
<1>6. QED
  <2>1. Goto(p, "assign") => pc'[p] = "assign"
    BY <1>1 DEF Goto, TypeOK
  <2>2. Advance(p, at[p] + 1) => pc'[p] # "define"
    BY <1>1 DEF Advance, Goto, Configured, TypeOK
  <2>3. iface \in {"MSR", "OS"}
    BY <1>1 DEF TypeOK, MachineTypeOK, Interfaces
  <2>4. QED
    BY <1>3, <1>4, <1>5, <2>1, <2>2, <2>3 DEF Writes, NextResource

LEMMA IsolationKept ==
  ASSUME NoGaps, BaseInv, LoopInv, OsInv, IsolInv, [RdtsetNext]_vars
  PROVE  IsolInv'
<1>1. line' = line /\ iface' = iface /\ TypeOK
  BY LineKept DEF BaseInv
<1>2. SUFFICES ASSUME NEW p \in Procs, Alone(p), Good(p) PROVE Good(p)'
  BY <1>1, NearKept DEF IsolInv, Good
<1>3. CASE UNCHANGED vars \/ \E x \in Tasks : TaskEnds(x)
  <2>1. UNCHANGED <<cos, task, procVars>> /\ live' \subseteq live
    BY <1>3 DEF vars, machineVars, TaskEnds
  <2>2. /\ \A i, c : Held(p, i, c)' => Held(p, i, c)
        /\ \A i : HeldPids(p, i)' => HeldPids(p, i)
        /\ Current(p) => Current(p)'
    <3>1. \A i : (Placed(p, i)' <=> Placed(p, i)) /\ (AtIt(p, i)' <=> AtIt(p, i))
      BY <2>1 DEF procVars, Placed, AtIt, Configuring, InPlace
    <3>2. Cfg(p)' = Cfg(p) /\ Todo(p)' = Todo(p) /\ TasksOf(p)' = TasksOf(p)
      BY <1>1, <2>1 DEF procVars, Cfg, Configs, Todo, TasksOf
    <3>3. \A i, c : Held(p, i, c)' => Held(p, i, c)
      BY <3>1, <3>2 DEF Held, SearchRes
    <3>4. \A i : HeldPids(p, i)' => HeldPids(p, i)
      BY <2>1, <3>1 DEF HeldPids, procVars
    <3>5. Current(p) => Current(p)'
      BY <1>1, <2>1, <3>2 DEF Current, procVars, SearchRes
    <3>6. QED
      BY <3>3, <3>4, <3>5
  <2>3. QED
    BY <1>1, <1>2, <2>1, <2>2, GoodOfSame DEF Good
<1>4. ASSUME NEW q \in Procs, Moves(q) PROVE Good(p)'
  <2>1. CASE q # p
    BY <1>1, <1>2, <1>4, <2>1, StepsMove, StepMovesOne, GoodOfOthers
  <2>2. CASE q = p
    <3>1. Loop(p)
      BY DEF LoopInv
    <3>2. CASE Drops(p)
      BY <3>2 DEF Drops, HoldsNothing, Good, CoresHeld, TasksHeld, Current, Held, HeldPids, Placed, AtIt, Configuring
    <3>3. CASE Quiet(p)
      <4>1. Current(p)'
        BY <3>3 DEF Quiet, Current
      <4>2. \A i \in DOMAIN Configs(p), c \in Cores : c \in Configs(p)[i].cpus /\ Held(p, i, c)' => Held(p, i, c)
        BY <3>3 DEF Quiet, Held
      <4>3. \A i \in DOMAIN Configs(p) : HeldPids(p, i)' => HeldPids(p, i)
        BY <3>3 DEF Quiet, HeldPids
      <4>4. UNCHANGED <<cos, task>> /\ live' \subseteq live
        BY <3>3 DEF Quiet
      <4>5. QED
        BY <1>1, <1>2, <4>1, <4>2, <4>3, <4>4, GoodOfSame
    <3>4. CASE TakesCores(p)
      BY <1>1, <1>2, <3>1, <3>4, GoodAfterTakingCores
    <3>5. CASE TakesTasks(p)
      BY <1>1, <1>2, <3>5, GoodAfterTakingTasks
    <3>6. CASE Writes(p)
      <4>1. Current(p)'
        BY <1>1, <1>2, <3>6, CurrentAfterWriting DEF Good
      <4>2. UNCHANGED <<cos, task>> /\ live' \subseteq live
        BY <3>6 DEF Writes
      <4>3. QED
        BY <1>1, <1>2, <3>1, <3>6, <4>1, <4>2, WritingLoops, GoodOfSame
    <3>7. QED
      BY <1>4, <2>2, <3>2, <3>3, <3>4, <3>5, <3>6, StepKinds
  <2>3. QED
    BY <2>1, <2>2
<1>5. QED
  BY <1>3, <1>4, NextSplit

IsolationInv == BaseInv /\ LoopInv /\ OsInv /\ IsolInv

LEMMA IsolationHolds ==
  ASSUME NoGaps
  PROVE  Spec => []IsolationInv
<1>1. Init => LoopInv /\ OsInv /\ IsolInv
  <2> SUFFICES ASSUME Init, NEW p \in Procs PROVE pc[p] = "off"
    BY DEF LoopInv, Loop, OsInv, IsolInv, CoresHeld, TasksHeld, Current, Held, HeldPids, Placed, AtIt,
           Configuring, InPlace
  <2>1. QED
    BY DEF Init, RdtsetInit
<1>2. IsolationInv /\ [RdtsetNext]_vars => LoopInv' /\ OsInv' /\ IsolInv'
  BY LoopsKept, IsolationKept DEF IsolationInv
<1>3. BaseInv /\ BaseInv' /\ LoopInv /\ OsInv /\ IsolInv /\ [RdtsetNext]_vars => LoopInv' /\ OsInv' /\ IsolInv'
  BY <1>2 DEF IsolationInv
<1>4. Spec => [](LoopInv /\ OsInv /\ IsolInv)
  BY <1>1, <1>3, BaseHolds, PTL DEF Spec
<1>5. BaseInv /\ LoopInv /\ OsInv /\ IsolInv => IsolationInv
  BY DEF IsolationInv
<1>6. QED
  BY <1>4, <1>5, BaseHolds, PTL

(* While the configuration of an rdtset whose cores and tasks nobody else  *)
(* names is in place, no core outside of it that can share definitions     *)
(* with one of its cores is in that core's class, whatever others assign,  *)
(* release or fail to do.  The ids of the resources have no gaps, as the   *)
(* loops over them assume.                                                 *)
THEOREM ClassIsItsOwnHolds ==
  ASSUME NoGaps
  PROVE  Spec => []ClassIsItsOwn
<1>1. IsolationInv => ClassIsItsOwn
  <2> SUFFICES ASSUME IsolationInv, NEW p \in Procs, InPlace(p), Alone(p), NEW i \in DOMAIN Configs(p),
                      NEW c \in Configs(p)[i].cpus, NEW d \in Cores, Near(c, d), cos[d] = cos[c]
               PROVE  d \in Configs(p)[i].cpus
    BY DEF ClassIsItsOwn
  <2>1. Isolated(c, Configs(p)[i].cpus)
    BY DEF IsolationInv, IsolInv, CoresHeld, Held, Placed
  <2>2. QED
    BY <2>1 DEF Isolated
<1>2. QED
  BY <1>1, IsolationHolds, PTL

-----------------------------------------------------------------------------
(* What has been defined.                                                  *)

(* Nobody moves the cores and tasks of somebody else. *)
LEMMA OwnCoresStay ==
  ASSUME BaseInv, NEW p \in Procs, NEW q \in Procs \ {p}, Alone(p), MoveCores(q) \/ MoveTasks(q)
  PROVE  /\ \A i \in DOMAIN Configs(p) : \A c \in Configs(p)[i].cpus : cos'[c] = cos[c]
         /\ \A x \in TasksOf(p) : task'[x] = task[x]
<1>1. TypeOK /\ iface \in Interfaces /\ LineInv
  BY DEF BaseInv, TypeOK, MachineTypeOK
<1>2. Names(p) \intersect Names(q) = {} /\ TasksOf(p) \intersect TasksOf(q) = {} /\ TasksOf(p) \subseteq Tasks
  BY <1>1, LineFacts DEF Alone
<1>3. \A i \in DOMAIN Configs(p) : Configs(p)[i].cpus \subseteq Names(p) /\ Configs(p)[i].cpus \subseteq Cores
  BY <1>1, LineFacts, ConfigFacts
<1>4. CASE MoveCores(q)
  BY <1>2, <1>3, <1>4 DEF MoveCores, Associate
<1>5. CASE MoveTasks(q)
  BY <1>2, <1>5 DEF MoveTasks, AssociateTasks
<1>6. QED
  BY <1>4, <1>5

LEMMA PidsAfterTakingCores ==
  ASSUME BaseInv, NEW p \in Procs, TakesCores(p), line' = line, iface' = iface,
         NEW i \in PidConfigs(line[p])
  PROVE  /\ i # at[p]
         /\ HeldPids(p, i)' => Placed(p, i)
<1>1. i # at[p]
  BY DEF TakesCores, PidConfigs, Cfg, Configs
<1>2. (Placed(p, i)' <=> Placed(p, i)) /\ (AtIt(p, i)' <=> AtIt(p, i))
  BY TakingKeepsPlace
<1>3. QED
  BY <1>1, <1>2 DEF HeldPids, AtIt

LEMMA CoresAfterTakingTasks ==
  ASSUME BaseInv, NEW p \in Procs, TakesTasks(p), line' = line, iface' = iface,
         NEW i \in DOMAIN Configs(p), NEW c \in Configs(p)[i].cpus, Held(p, i, c)'
  PROVE  Placed(p, i)
<1>1. i # at[p]
  BY DEF TakesTasks, IsPid, Cfg
<1>2. (Placed(p, i)' <=> Placed(p, i)) /\ (AtIt(p, i)' <=> AtIt(p, i))
  BY TakingKeepsPlace
<1>3. QED
  BY <1>1, <1>2 DEF Held, AtIt

(* A class is being defined for tasks. *)
Pending(q) == pc[q] = "define" /\ IsPid(Cfg(q))

(* The class that has just been found for tasks is nobody else's. *)
LEMMA SparedAfterTaking ==
  ASSUME BaseInv, AllAlone, line' = line, iface' = iface, NEW q \in Procs, TakesTasks(q), OthersStay(q),
         NEW p \in Procs
  PROVE  Spared(q, p)'
<1> DEFINE k == FirstUnused({}, Tech(Cfg(q)))
<1>1. /\ TypeOK /\ live' = live /\ live \subseteq Tasks /\ UNCHANGED cos /\ cls'[q] = k
      /\ AssociateTasks(TasksOf(q), k)
  BY DEF BaseInv, TypeOK, MachineTypeOK, TakesTasks, GotClass
<1>2. k # COS0 /\ SafeForTasks(k)
  BY UnusedIsSafeForTasks DEF TakesTasks
<1>3. Configs(p)' = Configs(p) /\ TasksOf(p)' = TasksOf(p)
      /\ \A i \in DOMAIN Configs(p) : Configs(p)[i].cpus \subseteq Cores
  BY LineFacts, ConfigFacts DEF BaseInv, TypeOK, MachineTypeOK, Configs, TasksOf
<1> HIDE DEF k
<1>4. \A i \in DOMAIN Configs(p) : \A c \in Configs(p)[i].cpus : cos'[c] # k
  BY <1>1, <1>2, <1>3 DEF SafeForTasks
<1>5. p # q => \A x \in TasksOf(p) \intersect live : task'[x] # k
  BY <1>1, <1>2 DEF SafeForTasks, AssociateTasks, AllAlone, Alone
<1>6. QED
  BY <1>1, <1>3, <1>4, <1>5 DEF Spared

(* What is spared stays so. *)
LEMMA SparedStays ==
  ASSUME BaseInv, line' = line, iface' = iface, live' \subseteq live, NEW q \in Procs, NEW p \in Procs,
         Spared(q, p), cls'[q] = cls[q],
         \A i \in DOMAIN Configs(p) : \A c \in Configs(p)[i].cpus :
           Held(p, i, c)' => (Held(p, i, c) /\ cos'[c] = cos[c]) \/ cos'[c] # cls[q],
         p # q => \A i \in PidConfigs(line[p]) : \A x \in TasksOf(p) \intersect live :
                    HeldPids(p, i)' => (HeldPids(p, i) /\ task'[x] = task[x]) \/ task'[x] # cls[q]
  PROVE  Spared(q, p)'
<1>1. Configs(p)' = Configs(p) /\ TasksOf(p)' = TasksOf(p) /\ PidConfigs(line[p])' = PidConfigs(line[p])
  BY DEF Configs, TasksOf
<1>2. QED
  BY <1>1 DEF Spared

LEMMA PendingKept ==
  ASSUME NoGaps, IsolationInv, PendingInv, [RdtsetNext]_vars
  PROVE  PendingInv'
<1>1. line' = line /\ iface' = iface /\ TypeOK /\ BaseInv /\ LoopInv /\ OsInv /\ IsolInv
      /\ iface \in Interfaces /\ LineInv
  BY LineKept DEF BaseInv, IsolationInv, TypeOK, MachineTypeOK
<1>2. SUFFICES ASSUME AllAlone, NEW q \in Procs, Pending(q)', NEW p \in Procs, p = q \/ p \notin contested'
               PROVE  Spared(q, p)'
  BY <1>1, NearKept DEF PendingInv, Pending
<1>3. \A o \in Procs : Alone(o)
  BY <1>2 DEF AllAlone
<1>4. CASE UNCHANGED vars \/ \E x \in Tasks : TaskEnds(x)
  <2>1. UNCHANGED <<cos, task, procVars, contested>> /\ live' \subseteq live
    BY <1>4 DEF vars, machineVars, historyVars, TaskEnds
  <2>2. Pending(q) /\ Spared(q, p)
    BY <1>1, <1>2, <2>1 DEF PendingInv, Pending, procVars, Cfg, Configs
  <2>3. \A i, c : Held(p, i, c)' => Held(p, i, c)
    BY <1>1, <2>1 DEF procVars, Held, Placed, AtIt, Todo, Configuring, InPlace, Cfg, Configs, SearchRes
  <2>4. \A i : HeldPids(p, i)' => HeldPids(p, i)
    BY <1>1, <2>1 DEF procVars, HeldPids, Placed, AtIt, Configuring, InPlace
  <2>5. cls' = cls
    BY <2>1 DEF procVars
  <2>6. QED
    BY <1>1, <2>1, <2>2, <2>3, <2>4, <2>5, SparedStays
<1>5. ASSUME NEW s \in Procs, Moves(s) PROVE Spared(q, p)'
  <2>1. OthersStay(s) /\ (MoveCores(s) \/ MoveTasks(s)) /\ live' = live /\ live' \subseteq live
    BY <1>1, <1>5, StepMovesOne, StepsMove
  <2>2. DOMAIN Configs(p) \subseteq Nat /\ PidConfigs(line[p]) \subseteq DOMAIN Configs(p)
        /\ \A i \in DOMAIN Configs(p) : Configs(p)[i].cpus \subseteq Cores
    BY <1>1, LineFacts, ConfigFacts
  <2>3. CASE s = q
    <3>1. CASE TakesTasks(q)
      BY <1>1, <1>2, <2>1, <2>3, <3>1, SparedAfterTaking
    <3>2. CASE Writes(q)
      <4>1. UNCHANGED <<cos, task, cls, contested>> /\ pc[q] = "define"
        BY <3>2 DEF Writes
      <4>2. at'[q] = at[q]
        BY <1>1, <1>2, <3>2 DEF Writes, NextResource, Advance, Goto, Configured, Pending, TypeOK
      <4>3. Pending(q) /\ Spared(q, p)
        BY <1>1, <1>2, <4>1, <4>2 DEF Pending, Cfg, Configs, PendingInv
      <4>4. \A i \in DOMAIN Configs(p), c \in Cores : c \in Configs(p)[i].cpus /\ Held(p, i, c)' => Held(p, i, c)
        BY <1>1, <2>1, <2>3, <3>2, HeldByOthers, WritingLoops DEF LoopInv
      <4>5. \A i \in DOMAIN Configs(p) : HeldPids(p, i)' => HeldPids(p, i)
        BY <1>1, <2>1, <2>3, <3>2, HeldByOthers, WritingLoops DEF LoopInv
      <4>6. QED
        BY <1>1, <2>1, <2>2, <4>1, <4>3, <4>4, <4>5, SparedStays
    <3>3. CASE Drops(q)
      BY <1>2, <3>3 DEF Drops, HoldsNothing, Configuring, Pending
    <3>4. CASE Quiet(q)
      BY <1>2, <3>4 DEF Quiet, Pending
    <3>5. CASE TakesCores(q)
      <4>1. Cfg(q)' = Cfg(q)
        BY <1>1, <3>5, TakingKeepsPlace
      <4>2. QED
        BY <1>2, <3>5, <4>1 DEF TakesCores, Pending, IsPid
    <3>6. QED
      BY <1>1, <1>5, <2>3, <3>1, <3>2, <3>3, <3>4, <3>5, StepKinds
  <2>4. CASE s # q
    <3>1. pc'[q] = pc[q] /\ at'[q] = at[q] /\ cls'[q] = cls[q]
      BY <2>1, <2>4 DEF OthersStay
    <3>2. Pending(q)
      BY <1>1, <1>2, <3>1 DEF Pending, Cfg, Configs
    <3>3. CASE p # s
      <4>1. contested' = contested \/ contested' = contested \union {s}
        BY <1>1, <1>5, StepKinds DEF Drops, Quiet, TakesCores, TakesTasks, Writes, GotClass
      <4>2. Spared(q, p)
        BY <1>2, <3>2, <3>3, <4>1 DEF PendingInv, Pending
      <4>3. /\ \A i, c : Held(p, i, c)' <=> Held(p, i, c)
            /\ \A i : HeldPids(p, i)' <=> HeldPids(p, i)
        BY <1>1, <2>1, <3>3, HeldByOthers
      <4>4. /\ \A i \in DOMAIN Configs(p) : \A c \in Configs(p)[i].cpus : cos'[c] = cos[c]
            /\ \A x \in TasksOf(p) : task'[x] = task[x]
        BY <1>1, <1>3, <2>1, <3>3, OwnCoresStay
      <4>5. QED
        BY <1>1, <2>1, <3>1, <4>2, <4>3, <4>4, SparedStays
    <3>4. CASE p = s
      <4>1. CASE Drops(p)
        BY <4>1 DEF Drops, HoldsNothing, Spared, Held, HeldPids, Placed, AtIt, Configuring
      <4>2. contested' = contested => Spared(q, p)
        BY <1>2, <2>4, <3>2, <3>4 DEF PendingInv, Pending
      <4>3. CASE Quiet(p)
        BY <1>1, <2>1, <2>2, <3>1, <4>2, <4>3, SparedStays DEF Quiet, Held, HeldPids
      <4>4. CASE Writes(p)
        <5>1. /\ \A i \in DOMAIN Configs(p), c \in Cores : c \in Configs(p)[i].cpus /\ Held(p, i, c)' => Held(p, i, c)
              /\ \A i \in DOMAIN Configs(p) : HeldPids(p, i)' => HeldPids(p, i)
          BY <1>1, <4>4, WritingLoops DEF LoopInv
        <5>2. UNCHANGED <<cos, task, contested>>
          BY <4>4 DEF Writes
        <5>3. QED
          BY <1>1, <2>1, <2>2, <3>1, <4>2, <5>1, <5>2, SparedStays
      <4>5. CASE TakesCores(p)
        <5> DEFINE k == FirstUnused(AssignSet(p), Tech(Cfg(p)))
        <5>1. UNCHANGED task /\ Associate(AssignSet(p), k) /\ GotClass(p, k)
          BY <4>5 DEF TakesCores
        <5> HIDE DEF k
        <5>2. k # cls[q] /\ contested' = contested
          BY <1>2, <2>4, <3>2, <3>4, <5>1 DEF GotClass, StillToDefine, Pending
        <5>3. \A i \in DOMAIN Configs(p) : \A c \in Configs(p)[i].cpus :
                Held(p, i, c)' => (Held(p, i, c) /\ cos'[c] = cos[c]) \/ cos'[c] # cls[q]
          <6> SUFFICES ASSUME NEW i \in DOMAIN Configs(p), NEW c \in Configs(p)[i].cpus, Held(p, i, c)'
                       PROVE  (Held(p, i, c) /\ cos'[c] = cos[c]) \/ cos'[c] # cls[q]
            OBVIOUS
          <6>1. Held(p, i, c) \/ c \in AssignSet(p)
            BY <1>1, <4>5, HeldAfterTaking
          <6>2. c \in Cores
            BY <2>2
          <6>3. QED
            BY <5>1, <5>2, <6>1, <6>2 DEF Associate
        <5>4. \A i \in PidConfigs(line[p]) : HeldPids(p, i)' => HeldPids(p, i)
          BY <1>1, <4>5, PidsAfterTakingCores DEF HeldPids
        <5>5. QED
          BY <1>1, <2>1, <3>1, <4>2, <5>1, <5>2, <5>3, <5>4, SparedStays
      <4>6. CASE TakesTasks(p)
        <5> DEFINE k == FirstUnused({}, Tech(Cfg(p)))
        <5>1. UNCHANGED cos /\ AssociateTasks(TasksOf(p), k) /\ GotClass(p, k) /\ TasksOf(p) \subseteq Tasks
          BY <1>1, <4>6, LineFacts DEF TakesTasks
        <5> HIDE DEF k
        <5>2. k # cls[q] /\ contested' = contested
          BY <1>2, <2>4, <3>2, <3>4, <5>1 DEF GotClass, StillToDefine, Pending
        <5>3. \A i \in DOMAIN Configs(p) : \A c \in Configs(p)[i].cpus : Held(p, i, c)' => Held(p, i, c)
          BY <1>1, <4>6, CoresAfterTakingTasks DEF Held
        <5>4. \A x \in TasksOf(p) : task'[x] # cls[q]
          BY <5>1, <5>2 DEF AssociateTasks
        <5>5. QED
          BY <1>1, <2>1, <3>1, <4>2, <5>1, <5>2, <5>3, <5>4, SparedStays
      <4>7. QED
        BY <1>1, <1>5, <3>4, <4>1, <4>3, <4>4, <4>5, <4>6, StepKinds
    <3>5. QED
      BY <3>3, <3>4
  <2>5. QED
    BY <2>3, <2>4
<1>6. QED
  BY <1>4, <1>5, NextSplit

(* Where L2 CAT is asked for by nobody it stays as it was. *)
LEMMA L2StaysFull ==
  ASSUME BaseInv, NEW p \in Procs, Writes(p), line' = line, ~L2Asked,
         \A r \in Resources("l2"), k \in Classes : def["l2"][r][k] = Full
  PROVE  \A r \in Resources("l2"), k \in Classes : def'["l2"][r][k] = Full
<1> DEFINE t == NextTech(p)
           r0 == ResOf(CoreAt(Cfg(p), Min(left[p])), t)
           v == Wanted(Cfg(p), t)
<1>1. def' = [def EXCEPT ![t][r0][cls[p]] = v] /\ pc[p] = "define"
  BY DEF Writes, Define
<1>2. DOMAIN def = Technologies /\ "l2" \in Technologies /\ def["l2"] \in [Resources("l2") -> [Classes -> Values]]
  BY DEF BaseInv, TypeOK, MachineTypeOK, Technologies
<1>3. "l2" \notin Tech(Cfg(p))
  BY <1>1, CfgFacts DEF L2Asked
<1>4. t = "l2" => v = Full
  BY <1>2, <1>3 DEF Wanted, Tech
<1> HIDE DEF t, r0, v
<1>5. CASE t # "l2"
  BY <1>1, <1>2, <1>5
<1>6. CASE t = "l2"
  <2>1. def'["l2"] = [def["l2"] EXCEPT ![r0][cls[p]] = Full]
    BY <1>1, <1>2, <1>4, <1>6
  <2>2. SUFFICES ASSUME NEW r \in Resources("l2"), NEW k \in Classes PROVE def'["l2"][r][k] = Full
    OBVIOUS
  <2>3. def["l2"][r] \in [Classes -> Values] /\ def["l2"][r][k] = Full
    BY <1>2
  <2>4. CASE r # r0
    BY <1>2, <2>1, <2>3, <2>4
  <2>5. CASE r = r0
    <3>1. def'["l2"][r] = [def["l2"][r] EXCEPT ![cls[p]] = Full]
      BY <1>2, <2>1, <2>5
    <3>2. QED
      BY <2>3, <3>1
  <2>6. QED
    BY <2>4, <2>5
<1>7. QED
  BY <1>5, <1>6

(* What a definition does to the definitions. *)
LEMMA OneDefinition ==
  ASSUME BaseInv, NEW t0, NEW r0, NEW k0, NEW v, Define(t0, r0, k0, v),
         NEW t \in Technologies, NEW r \in Resources(t), NEW k \in Classes
  PROVE  def'[t][r][k] = IF t = t0 /\ r = r0 /\ k = k0 THEN v ELSE def[t][r][k]
<1>1. DOMAIN def = Technologies /\ def[t] \in [Resources(t) -> [Classes -> Values]]
  BY DEF BaseInv, TypeOK, MachineTypeOK
<1>2. def' = [def EXCEPT ![t0][r0][k0] = v]
  BY DEF Define
<1>3. def[t][r] \in [Classes -> Values] /\ DOMAIN def[t] = Resources(t)
  BY <1>1
<1>4. CASE t # t0
  BY <1>1, <1>2, <1>4
<1>5. CASE t = t0
  <2>1. def'[t] = [def[t] EXCEPT ![r0][k0] = v]
    BY <1>1, <1>2, <1>5
  <2>2. CASE r # r0
    BY <1>3, <2>1, <2>2
  <2>3. CASE r = r0
    <3>1. def'[t][r] = [def[t][r] EXCEPT ![k0] = v]
      BY <1>3, <2>1, <2>3
    <3>2. QED
      BY <1>3, <1>5, <2>3, <3>1
  <2>4. QED
    BY <2>2, <2>3
<1>6. QED
  BY <1>4, <1>5

(* The resources at which cores of one search resource are the same, but   *)
(* for L2 clusters when the search goes by sockets.                        *)
LEMMA SameResource ==
  ASSUME NEW c \in Cores, NEW d \in Cores, NEW tech, SearchRes(c, tech) = SearchRes(d, tech),
         NEW t \in Technologies, t = "l2" => "l2" \in tech
  PROVE  ResOf(c, t) = ResOf(d, t)
BY L2InSocket DEF SearchRes, ResOf

(* Without searches by clusters, cores at one resource are near.           *)
LEMMA ResourceIsNear ==
  ASSUME iface \in Interfaces, ~L2Searches, NEW c \in Cores, NEW d \in Cores, NEW t \in Technologies,
         ResOf(c, t) = ResOf(d, t)
  PROVE  Near(c, d)
BY L2InSocket DEF ResOf, Near, Interfaces

(* Which definitions a step adds to those that are done. *)
LEMMA DefinedByWriting ==
  ASSUME BaseInv, NEW p \in Procs, Loop(p), Writes(p), line' = line, iface' = iface,
         NEW i \in DOMAIN Configs(p), i <= at[p], NEW r \in Nat, NEW t, Defined(p, i, r, t)'
  PROVE  \/ Defined(p, i, r, t)
         \/ i = at[p] /\ r = Min(left[p]) /\ t = NextTech(p)
         \/ i = at[p] /\ iface = "OS" /\ t \notin Defines(cls[p])
<1>1. TypeOK /\ LineInv /\ pc[p] = "define" /\ left[p] # {} /\ left[p] \subseteq Nat /\ child' = child
  BY DEF BaseInv, TypeOK, Writes, Loop, Configuring
<1>2. /\ at[p] \in DOMAIN Configs(p) /\ at[p] \in Nat /\ at[p] >= 1 /\ at[p] + 1 \in Nat /\ at[p] + 1 >= 1
      /\ Configs(p)' = Configs(p) /\ DOMAIN Configs(p) \subseteq Nat
  BY <1>1, CfgFacts, LineFacts DEF Configs, TypeOK, MachineTypeOK
<1>3. iface = "OS" \/ iface = "MSR"
  BY <1>1 DEF TypeOK, MachineTypeOK, Interfaces
<1> DEFINE rest == left[p] \ {Min(left[p])}
           u == NextTech(p)
<1>4. CASE i < at[p]
  BY <1>1, <1>4 DEF Defined, Placed, Configuring
<1>5. CASE i = at[p]
  <2>1. AtIt(p, i)
    BY <1>1, <1>5 DEF AtIt, Configuring
  <2>2. CASE techs' = [techs EXCEPT ![p] = @ \ {u}] /\ UNCHANGED <<pc, at, left>>
    <3>1. techs'[p] = techs[p] \ {u} /\ ~Placed(p, i)'
      BY <1>1, <1>5, <2>2 DEF TypeOK, Placed, InPlace
    <3>2. r \notin left[p] \/ (r = Min(left[p]) /\ t \notin techs[p] \ {u})
      BY <2>2, <3>1 DEF Defined
    <3>3. QED
      BY <1>1, <1>5, <2>1, <3>2 DEF Defined
  <2>3. CASE /\ techs[p] = {u} /\ rest # {} /\ left' = [left EXCEPT ![p] = rest] /\ UNCHANGED at
             /\ IF iface = "MSR" THEN Goto(p, "assign") /\ techs' = [techs EXCEPT ![p] = {}]
                                 ELSE techs' = [techs EXCEPT ![p] = Defines(cls[p])] /\ UNCHANGED pc
    <3>1. left'[p] = rest /\ at'[p] = at[p] /\ pc'[p] \in {"assign", "define"}
          /\ (pc'[p] = "define" => iface = "OS" /\ techs'[p] = Defines(cls[p]))
      BY <1>1, <1>3, <2>3 DEF Goto, TypeOK
    <3>2. ~Placed(p, i)'
      BY <1>2, <1>5, <3>1 DEF Placed, InPlace
    <3>3. r \notin rest \/ (iface = "OS" /\ t \notin Defines(cls[p]))
      BY <3>1, <3>2 DEF Defined
    <3>4. CASE r \notin left[p]
      BY <2>1, <3>4 DEF Defined
    <3>5. CASE r = Min(left[p])
      BY <1>1, <1>5, <2>1, <2>3, <3>5 DEF Defined
    <3>6. QED
      BY <1>5, <3>3, <3>4, <3>5
  <2>4. CASE techs[p] = {u} /\ rest = {}
    <3>1. CASE r \notin left[p]
      BY <2>1, <3>1 DEF Defined
    <3>2. CASE r = Min(left[p])
      BY <1>1, <1>5, <2>1, <2>4, <3>2 DEF Defined
    <3>3. QED
      BY <2>4, <3>1, <3>2
  <2>5. QED
    BY <2>2, <2>3, <2>4 DEF Writes, NextResource
<1>6. QED
  BY <1>2, <1>4, <1>5

(* Nothing is defined of a class that has just been taken. *)
LEMMA DefinedAfterTaking ==
  ASSUME NoGaps, BaseInv, NEW p \in Procs, Loop(p), TakesCores(p) \/ TakesTasks(p),
         line' = line, iface' = iface,
         NEW i \in DOMAIN Configs(p), NEW r, NEW t, Defined(p, i, r, t)'
  PROVE  \/ Placed(p, i)
         \/ i = at[p] /\ r \notin left[p]
         \/ i = at[p] /\ r = Min(left[p]) /\ t \notin Defines(cls'[p])
<1>1. /\ pc'[p] = "define" /\ left'[p] = left[p]
      /\ (Placed(p, i)' <=> Placed(p, i)) /\ (AtIt(p, i)' <=> AtIt(p, i))
  BY TakingKeepsPlace
<1>2. techs'[p] = Defines(cls'[p])
  BY DEF BaseInv, TypeOK, TakesCores, TakesTasks, GotClass
<1>3. QED
  BY <1>1, <1>2 DEF Defined, AtIt

(* What is defined as it was asked for stays so, or is what is written. *)
LEMMA CoresDefinedStay ==
  ASSUME line' = line, NEW p \in Procs, CoresDefined(p),
         \A i \in DOMAIN Configs(p) : \A c \in Configs(p)[i].cpus :
           Held(p, i, c)' =>
             \A t \in Defines(cos'[c]) \intersect Told(Configs(p)[i]) :
               Defined(p, i, SearchRes(c, Tech(Configs(p)[i])), t)' =>
                 \/ /\ Held(p, i, c) /\ cos'[c] = cos[c]
                    /\ Defined(p, i, SearchRes(c, Tech(Configs(p)[i])), t)
                    /\ def'[t][ResOf(c, t)][cos[c]] = def[t][ResOf(c, t)][cos[c]]
                 \/ def'[t][ResOf(c, t)][cos'[c]] = Wanted(Configs(p)[i], t)
  PROVE  CoresDefined(p)'
<1>1. Configs(p)' = Configs(p) /\ (L2Asked' <=> L2Asked)
  BY DEF Configs, L2Asked
<1>2. \A cfg : Told(cfg)' = Told(cfg)
  BY <1>1 DEF Told
<1> SUFFICES ASSUME NEW i \in DOMAIN Configs(p), NEW c \in Configs(p)[i].cpus, Held(p, i, c)',
                    NEW t \in Defines(cos'[c]) \intersect Told(Configs(p)[i]),
                    Defined(p, i, SearchRes(c, Tech(Configs(p)[i])), t)'
             PROVE  def'[t][ResOf(c, t)][cos'[c]] = Wanted(Configs(p)[i], t)
  <2> DEFINE told(i) == Told(Configs(p)[i])
             want(i, t) == Wanted(Configs(p)[i], t)
             res(i, c) == SearchRes(c, Tech(Configs(p)[i]))
  <2>1. \A i : told(i)' = told(i)
    BY <1>1 DEF Told
  <2>2. \A i, t : want(i, t)' = want(i, t)
    BY <1>1 DEF Wanted
  <2>3. \A i, c : res(i, c)' = res(i, c)
    BY <1>1 DEF SearchRes, Tech
  <2> QED
    BY <1>1, <2>1, <2>2, <2>3 DEF CoresDefined, ResOf
<1>3. CASE /\ Held(p, i, c) /\ cos'[c] = cos[c]
           /\ Defined(p, i, SearchRes(c, Tech(Configs(p)[i])), t)
           /\ def'[t][ResOf(c, t)][cos[c]] = def[t][ResOf(c, t)][cos[c]]
  BY <1>3 DEF CoresDefined
<1>4. QED
  BY <1>3

LEMMA TasksDefinedStay ==
  ASSUME line' = line, live' \subseteq live, NEW p \in Procs, TasksDefined(p),
         \A i \in PidConfigs(line[p]) :
           HeldPids(p, i)' =>
             \A x \in TasksOf(p) \intersect live, c \in Cores :
               \A t \in Defines(task'[x]) \intersect Told(Configs(p)[i]) :
                 Defined(p, i, SearchRes(c, Tech(Configs(p)[i])), t)' =>
                   \/ /\ HeldPids(p, i) /\ task'[x] = task[x]
                      /\ Defined(p, i, SearchRes(c, Tech(Configs(p)[i])), t)
                      /\ def'[t][ResOf(c, t)][task[x]] = def[t][ResOf(c, t)][task[x]]
                   \/ def'[t][ResOf(c, t)][task'[x]] = Wanted(Configs(p)[i], t)
  PROVE  TasksDefined(p)'
<1>1. Configs(p)' = Configs(p) /\ (L2Asked' <=> L2Asked) /\ TasksOf(p)' = TasksOf(p)
      /\ PidConfigs(line[p])' = PidConfigs(line[p])
  BY DEF Configs, L2Asked, TasksOf
<1> SUFFICES ASSUME NEW i \in PidConfigs(line[p]), HeldPids(p, i)', NEW x \in TasksOf(p) \intersect live,
                    NEW c \in Cores, NEW t \in Defines(task'[x]) \intersect Told(Configs(p)[i]),
                    Defined(p, i, SearchRes(c, Tech(Configs(p)[i])), t)'
             PROVE  def'[t][ResOf(c, t)][task'[x]] = Wanted(Configs(p)[i], t)
  <2> DEFINE told(i) == Told(Configs(p)[i])
             want(i, t) == Wanted(Configs(p)[i], t)
             res(i, c) == SearchRes(c, Tech(Configs(p)[i]))
  <2>1. \A i : told(i)' = told(i)
    BY <1>1 DEF Told
  <2>2. \A i, t : want(i, t)' = want(i, t)
    BY <1>1 DEF Wanted
  <2>3. \A i, c : res(i, c)' = res(i, c)
    BY <1>1 DEF SearchRes, Tech
  <2> QED
    BY <1>1, <2>1, <2>2, <2>3 DEF TasksDefined, ResOf
<1>3. CASE /\ HeldPids(p, i) /\ task'[x] = task[x]
           /\ Defined(p, i, SearchRes(c, Tech(Configs(p)[i])), t)
           /\ def'[t][ResOf(c, t)][task[x]] = def[t][ResOf(c, t)][task[x]]
  BY <1>3 DEF TasksDefined
<1>4. QED
  BY <1>3

(* A definition is written for a class that no other configuration in      *)
(* place uses on that resource.                                            *)
LEMMA CoreUntouched ==
  ASSUME NoGaps, IsolationInv, PendingInv, AllAlone, ~L2Searches, NEW s \in Procs, Writes(s),
         NEW p \in Procs, p = s \/ p \notin contested, NEW i \in DOMAIN Configs(p), p # s \/ i # at[s],
         NEW c \in Configs(p)[i].cpus, Held(p, i, c), NEW t \in Technologies,
         ResOf(c, t) = ResOf(CoreAt(Cfg(s), Min(left[s])), t)
  PROVE  cos[c] # cls[s]
<1> DEFINE d == CoreAt(Cfg(s), Min(left[s]))
<1>1. /\ pc[s] = "define" /\ BaseInv /\ iface \in Interfaces /\ LineInv /\ Alone(s) /\ Alone(p)
      /\ Current(s) /\ CoresHeld(p) /\ left[s] # {} /\ left[s] \subseteq IdsToVisit(Cfg(s)) /\ Apart(line[s])
  BY DEF Writes, IsolationInv, BaseInv, TypeOK, MachineTypeOK, AllAlone, IsolInv, LoopInv, Loop, Configuring
<1>2. Cfg(s) \in Config /\ Cfg(s) = Configs(s)[at[s]] /\ at[s] \in DOMAIN Configs(s) /\ Cfg(s).cpus \subseteq Names(s)
  BY <1>1, CfgFacts
<1>3. Min(left[s]) \in left[s] /\ left[s] \subseteq Nat
  <2>1. left[s] \subseteq Nat
    BY <1>1 DEF BaseInv, TypeOK
  <2>2. QED
    BY <1>1, <2>1, LeastNatural
<1>4. d \in Cores /\ SearchRes(d, Tech(Cfg(s))) = Min(left[s]) /\ (~IsPid(Cfg(s)) => d \in Cfg(s).cpus)
  BY <1>1, <1>2, <1>3, VisitFacts
<1>5. c \in Cores /\ c \in Names(p)
  BY <1>1, LineFacts, ConfigFacts
<1> HIDE DEF d
<1>6. CASE IsPid(Cfg(s))
  <2>1. Spared(s, p)
    BY <1>1, <1>6 DEF PendingInv
  <2>2. QED
    BY <2>1 DEF Spared
<1>7. CASE ~IsPid(Cfg(s))
  <2>1. cos[d] = cls[s]
    BY <1>1, <1>4, <1>7 DEF Current
  <2>2. d \notin Configs(p)[i].cpus
    <3>1. CASE p # s
      BY <1>1, <1>2, <1>4, <1>7, <3>1, LineFacts DEF Alone
    <3>2. CASE p = s
      BY <1>1, <1>2, <1>4, <1>7, <3>2 DEF Apart, Configs
    <3>3. QED
      BY <3>1, <3>2
  <2>3. Near(c, d)
    BY <1>1, <1>4, <1>5, ResourceIsNear DEF d
  <2>4. Isolated(c, Configs(p)[i].cpus)
    BY <1>1 DEF CoresHeld
  <2>5. QED
    BY <1>4, <2>1, <2>2, <2>3, <2>4 DEF Isolated
<1>8. QED
  BY <1>6, <1>7

LEMMA TaskUntouched ==
  ASSUME NoGaps, IsolationInv, PendingInv, AllAlone, NEW s \in Procs, Writes(s),
         NEW p \in Procs, p = s \/ p \notin contested, NEW i \in PidConfigs(line[p]), p # s \/ i # at[s],
         HeldPids(p, i), NEW x \in TasksOf(p) \intersect live
  PROVE  task[x] # cls[s]
<1> DEFINE d == CoreAt(Cfg(s), Min(left[s]))
<1>1. /\ pc[s] = "define" /\ BaseInv /\ iface \in Interfaces /\ LineInv
      /\ Current(s) /\ TasksHeld(p) /\ left[s] # {} /\ left[s] \subseteq IdsToVisit(Cfg(s))
  BY DEF Writes, IsolationInv, BaseInv, TypeOK, MachineTypeOK, AllAlone, IsolInv, LoopInv, Loop, Configuring
<1>2. Cfg(s) \in Config /\ Cfg(s) = Configs(s)[at[s]] /\ at[s] \in DOMAIN Configs(s)
  BY <1>1, CfgFacts
<1>3. Min(left[s]) \in left[s] /\ left[s] \subseteq Nat
  <2>1. left[s] \subseteq Nat
    BY <1>1 DEF BaseInv, TypeOK
  <2>2. QED
    BY <1>1, <2>1, LeastNatural
<1>4. d \in Cores /\ SearchRes(d, Tech(Cfg(s))) = Min(left[s]) /\ (~IsPid(Cfg(s)) => d \in Cfg(s).cpus)
  BY <1>1, <1>2, <1>3, VisitFacts
<1> HIDE DEF d
<1>5. CASE IsPid(Cfg(s))
  <2>1. at[s] \in PidConfigs(line[s])
    BY <1>2, <1>5 DEF PidConfigs, Configs
  <2>2. p # s
    BY <1>1, <2>1, OnePidConfig
  <2>3. Spared(s, p)
    BY <1>1, <1>5, <2>2 DEF PendingInv
  <2>4. QED
    BY <2>2, <2>3 DEF Spared
<1>6. CASE ~IsPid(Cfg(s))
  <2>1. cos[d] = cls[s]
    BY <1>1, <1>4, <1>6 DEF Current
  <2>2. TaskIsolated(x, TasksOf(p))
    BY <1>1 DEF TasksHeld
  <2>3. QED
    BY <1>4, <2>1, <2>2 DEF TaskIsolated
<1>7. QED
  BY <1>5, <1>6

(* For tasks every resource is visited. *)
LEMMA TasksVisitAll ==
  ASSUME NoGaps, NEW cfg \in Config, IsPid(cfg), NEW c \in Cores
  PROVE  SearchRes(c, Tech(cfg)) \in IdsToVisit(cfg)
<1>1. Tech(cfg) \in (SUBSET Technologies) \ {{}}
  BY ConfigFacts
<1>2. {SearchRes(d, Tech(cfg)) : d \in Cores} = 0 .. MaxRes(Tech(cfg)) - 1
  BY <1>1 DEF NoGaps
<1>3. QED
  BY <1>2 DEF IdsToVisit

(* What is defined is not undone by taking a class, for cores or tasks.    *)
LEMMA DefinedAfterTakingCores ==
  ASSUME NoGaps, BaseInv, NEW p \in Procs, Loop(p), TakesCores(p), line' = line, iface' = iface,
         CoresDefined(p), TasksDefined(p)
  PROVE  CoresDefined(p)' /\ TasksDefined(p)'
<1> DEFINE cs == AssignSet(p)
           k == FirstUnused(cs, Tech(Cfg(p)))
<1>1. /\ TypeOK /\ iface \in Interfaces /\ LineInv /\ UNCHANGED <<task, live, def>> /\ pc[p] = "assign"
      /\ ~IsPid(Cfg(p)) /\ Associate(cs, k) /\ GotClass(p, k) /\ Apart(line[p])
      /\ left[p] # {} /\ left[p] \subseteq IdsToVisit(Cfg(p))
      /\ (iface = "OS" => left[p] = IdsToVisit(Cfg(p)))
  BY DEF BaseInv, TypeOK, MachineTypeOK, TakesCores, Loop, Configuring
<1>2. /\ at[p] \in DOMAIN Configs(p) /\ Cfg(p) = Configs(p)[at[p]] /\ Cfg(p) \in Config
      /\ \A i \in DOMAIN Configs(p) : Configs(p)[i].cpus \subseteq Cores
  BY <1>1, CfgFacts, LineFacts, ConfigFacts
<1>3. cs \subseteq Cfg(p).cpus
  BY AssignSetInConfig
<1>4. cls'[p] = k /\ \A c \in Cores : cos'[c] = IF c \in cs THEN k ELSE cos[c]
  BY <1>1 DEF GotClass, Associate, TypeOK
<1>5. Min(left[p]) \in left[p]
  <2>1. left[p] \subseteq Nat
    BY <1>1 DEF TypeOK
  <2>2. QED
    BY <1>1, <2>1, LeastNatural
<1>6. \A c \in cs : SearchRes(c, Tech(Cfg(p))) \in left[p]
  BY <1>1, <1>2, <1>3, <1>5, VisitFacts DEF cs, AssignSet, CoresAt, Interfaces
<1>7. \A c \in Cfg(p).cpus \ cs : SearchRes(c, Tech(Cfg(p))) # Min(left[p])
  BY DEF cs, AssignSet, CoresAt
<1>8. ~Placed(p, at[p]) /\ AtIt(p, at[p])
  BY <1>1, <1>2, LineFacts DEF Placed, InPlace, AtIt, Configuring
<1> HIDE DEF cs, k
<1>9. CoresDefined(p)'
  <2>1. ASSUME NEW i \in DOMAIN Configs(p), NEW c \in Configs(p)[i].cpus, Held(p, i, c)',
               NEW t \in Defines(cos'[c]) \intersect Told(Configs(p)[i]),
               Defined(p, i, SearchRes(c, Tech(Configs(p)[i])), t)'
        PROVE  /\ Held(p, i, c) /\ cos'[c] = cos[c]
               /\ Defined(p, i, SearchRes(c, Tech(Configs(p)[i])), t)
               /\ def'[t][ResOf(c, t)][cos[c]] = def[t][ResOf(c, t)][cos[c]]
    <3> DEFINE r == SearchRes(c, Tech(Configs(p)[i]))
    <3>1. \/ Placed(p, i)
          \/ i = at[p] /\ r \notin left[p]
          \/ i = at[p] /\ r = Min(left[p]) /\ t \notin Defines(k)
      <4>1. \A s : Defined(p, i, s, t)' => \/ Placed(p, i)
                                           \/ i = at[p] /\ s \notin left[p]
                                           \/ i = at[p] /\ s = Min(left[p]) /\ t \notin Defines(k)
        BY <1>4, DefinedAfterTaking
      <4>2. r' = r
        BY DEF SearchRes, Tech, Configs
      <4> HIDE DEF r
      <4>3. Defined(p, i, r, t)'
        BY <2>1 DEF r
      <4>4. QED
        BY <4>1, <4>2, <4>3 DEF Defined
    <3>2. c \in Cores
      BY <1>2
    <3>3. ~(i = at[p] /\ c \in cs)
      BY <1>2, <1>4, <1>6, <1>8, <3>1, <3>2
    <3>4. Held(p, i, c)
      BY <2>1, <3>3, HeldAfterTaking DEF cs
    <3>5. c \notin cs
      BY <1>1, <1>2, <1>3, <3>3 DEF Apart, Configs
    <3>6. Defined(p, i, r, t)
      BY <1>2, <1>7, <1>8, <3>1, <3>5 DEF Defined
    <3>7. QED
      BY <1>1, <1>4, <3>2, <3>4, <3>5, <3>6
  <2>2. QED
    BY <2>1, CoresDefinedStay
<1>10. TasksDefined(p)'
  <2>1. ASSUME NEW i \in PidConfigs(line[p]), HeldPids(p, i)' PROVE Placed(p, i)
    BY <2>1, PidsAfterTakingCores
  <2>2. QED
    BY <1>1, <2>1, TasksDefinedStay DEF HeldPids, Defined
<1>11. QED
  BY <1>9, <1>10

LEMMA DefinedAfterTakingTasks ==
  ASSUME NoGaps, BaseInv, NEW p \in Procs, Loop(p), TakesTasks(p), line' = line, iface' = iface,
         CoresDefined(p), TasksDefined(p)
  PROVE  CoresDefined(p)' /\ TasksDefined(p)'
<1> DEFINE k == FirstUnused({}, Tech(Cfg(p)))
<1>1. /\ TypeOK /\ iface \in Interfaces /\ LineInv /\ UNCHANGED <<cos, live, def>> /\ pc[p] = "assign"
      /\ IsPid(Cfg(p)) /\ AssociateTasks(TasksOf(p), k) /\ GotClass(p, k) /\ left[p] = IdsToVisit(Cfg(p))
      /\ TasksOf(p) \subseteq Tasks
  BY LineFacts DEF BaseInv, TypeOK, MachineTypeOK, TakesTasks, Loop, Configuring
<1>2. at[p] \in DOMAIN Configs(p) /\ Cfg(p) = Configs(p)[at[p]] /\ Cfg(p) \in Config
  BY <1>1, CfgFacts
<1>3. cls'[p] = k /\ \A x \in TasksOf(p) : task'[x] = k
  BY <1>1 DEF GotClass, AssociateTasks, TypeOK
<1>4. ~Placed(p, at[p]) /\ at[p] \in PidConfigs(line[p])
  BY <1>1, <1>2, LineFacts DEF Placed, InPlace, Configuring, PidConfigs, Configs
<1> HIDE DEF k
<1>5. CoresDefined(p)'
  <2>1. ASSUME NEW i \in DOMAIN Configs(p), NEW c \in Configs(p)[i].cpus, Held(p, i, c)' PROVE Placed(p, i)
    BY <2>1, CoresAfterTakingTasks
  <2>2. QED
    BY <1>1, <2>1, CoresDefinedStay DEF Held, Defined
<1>6. TasksDefined(p)'
  <2>1. ASSUME NEW i \in PidConfigs(line[p]), NEW x \in TasksOf(p) \intersect live, NEW c \in Cores,
               NEW t \in Defines(task'[x]), Defined(p, i, SearchRes(c, Tech(Configs(p)[i])), t)'
        PROVE  FALSE
    <3>1. i = at[p]
      BY <1>1, <1>4, OnePidConfig
    <3>2. SearchRes(c, Tech(Configs(p)[i])) \in left[p]
      BY <1>1, <1>2, <3>1, TasksVisitAll
    <3>3. t \in Defines(cls'[p])
      BY <1>3
    <3> DEFINE r == SearchRes(c, Tech(Configs(p)[i]))
    <3>4. \A s : Defined(p, i, s, t)' => \/ Placed(p, i)
                                         \/ i = at[p] /\ s \notin left[p]
                                         \/ i = at[p] /\ s = Min(left[p]) /\ t \notin Defines(cls'[p])
      BY <1>2, DefinedAfterTaking, <3>1
    <3>5. r' = r /\ r \in left[p]
      BY <3>2 DEF SearchRes, Tech, Configs
    <3> HIDE DEF r
    <3>6. Defined(p, i, r, t)'
      BY <2>1 DEF r
    <3>7. QED
      BY <1>4, <3>1, <3>3, <3>4, <3>5, <3>6 DEF Defined
  <2>2. live' \subseteq live
    BY <1>1
  <2>3. QED
    BY <2>1, <2>2, TasksDefinedStay
<1>7. QED
  BY <1>5, <1>6

(* A definition is what was asked for, wherever the class being defined is *)
(* used for it.                                                            *)
LEMMA WrittenAsWanted ==
  ASSUME NoGaps, BaseInv, NEW p \in Procs, Loop(p), Writes(p), line' = line, iface' = iface,
         ~L2Asked => \A r \in Resources("l2"), k \in Classes : def'["l2"][r][k] = Full,
         NEW c \in Cores, NEW k \in Classes, NEW t \in Defines(k) \intersect Told(Cfg(p)),
         NEW i, i = at[p], NEW s, s = SearchRes(c, Tech(Cfg(p))),
         iface = "OS" \/ s = Min(left[p]) => k = cls[p],
         Defined(p, i, s, t)'
  PROVE  \/ Defined(p, i, s, t) /\ def'[t][ResOf(c, t)][k] = def[t][ResOf(c, t)][k]
         \/ def'[t][ResOf(c, t)][k] = Wanted(Cfg(p), t)
<1> DEFINE cfg == Cfg(p)
           d == CoreAt(cfg, Min(left[p]))
           t0 == NextTech(p)
<1>1. /\ TypeOK /\ LineInv /\ iface \in Interfaces /\ pc[p] = "define" /\ left[p] # {}
      /\ left[p] \subseteq IdsToVisit(cfg) /\ left[p] \subseteq Nat /\ cls[p] \in Classes
  BY DEF BaseInv, TypeOK, MachineTypeOK, Writes, Loop, Configuring
<1>2. i \in DOMAIN Configs(p) /\ cfg \in Config /\ i <= at[p]
  <2>1. at[p] \in DOMAIN Configs(p) /\ cfg \in Config /\ DOMAIN Configs(p) \subseteq Nat
    BY <1>1, CfgFacts, LineFacts
  <2>2. QED
    BY <2>1
<1>3. Min(left[p]) \in left[p]
  BY <1>1, LeastNatural
<1>4. d \in Cores /\ SearchRes(d, Tech(cfg)) = Min(left[p])
  BY <1>1, <1>2, <1>3, VisitFacts
<1>5. t \in Technologies /\ ResOf(c, t) \in Resources(t) /\ s \in Nat
  BY MachineAssumption DEF Defines, Present, Resources, SearchRes
<1>6. Define(t0, ResOf(d, t0), cls[p], Wanted(cfg, t0))
  BY DEF Writes
<1>7. \/ Defined(p, i, s, t)
      \/ s = Min(left[p]) /\ t = t0
      \/ iface = "OS" /\ t \notin Defines(cls[p])
  BY <1>1, <1>2, <1>5, DefinedByWriting
<1> DEFINE v == Wanted(cfg, t0)
           r0 == ResOf(d, t0)
<1>8. def'[t][ResOf(c, t)][k] = IF t = t0 /\ ResOf(c, t) = r0 /\ k = cls[p]
                                THEN v ELSE def[t][ResOf(c, t)][k]
  <2> DEFINE u == t0
             r == ResOf(c, t)
             k0 == cls[p]
  <2>1. Define(u, r0, k0, v) /\ r \in Resources(t)
    BY <1>5, <1>6
  <2> HIDE DEF u, r, k0, r0, v
  <2>2. def' = [def EXCEPT ![u][r0][k0] = v]
    BY <2>1 DEF Define
  <2>3. def'[t][r][k] = IF t = u /\ r = r0 /\ k = k0 THEN v ELSE def[t][r][k]
    BY <1>5, <2>1, OneDefinition
  <2>4. QED
    BY <2>3 DEF u, r, k0
<1>9. CASE Defined(p, i, s, t)
  BY <1>8, <1>9
<1>10. CASE s = Min(left[p]) /\ t = t0
  <2>1. k = cls[p]
    BY <1>10
  <2>2. CASE t = "l2" => "l2" \in Tech(cfg)
    <3>1. ResOf(c, t) = ResOf(d, t)
      <4>1. SearchRes(c, Tech(cfg)) = SearchRes(d, Tech(cfg))
        BY <1>4, <1>10
      <4> DEFINE tech == Tech(cfg)
      <4> HIDE DEF d, cfg, t0, tech
      <4>2. QED
        BY <1>4, <1>5, <2>2, <4>1, SameResource DEF tech
    <3>2. QED
      BY <1>8, <1>10, <2>1, <3>1
  <2>3. CASE t = "l2" /\ "l2" \notin Tech(cfg)
    <3>1. ~L2Asked
      BY <2>3 DEF Told
    <3>2. Wanted(cfg, t) = Full
      BY <1>5, <2>3 DEF Wanted, Tech
    <3>3. def'["l2"][ResOf(c, "l2")][k] = Full
      BY <1>5, <2>3, <3>1
    <3>4. QED
      BY <2>3, <3>2, <3>3
  <2>4. QED
    BY <2>2, <2>3
<1>11. QED
  BY <1>7, <1>9, <1>10

(* The definitions of one process stay while another one, or it itself at  *)
(* a later configuration, defines a class.                                 *)
LEMMA DefinedBesideOthers ==
  ASSUME NoGaps, IsolationInv, PendingInv, AllAlone, ~L2Searches, line' = line, iface' = iface, live' = live,
         NEW s \in Procs, Moves(s), NEW p \in Procs \ {s}, p \notin contested,
         CoresDefined(p), TasksDefined(p)
  PROVE  CoresDefined(p)' /\ TasksDefined(p)'
<1>1. /\ BaseInv /\ TypeOK /\ LoopInv /\ OsInv /\ IsolInv /\ LineInv /\ iface \in Interfaces
      /\ Alone(p) /\ OthersStay(s) /\ (MoveCores(s) \/ MoveTasks(s)) /\ live' \subseteq live
  BY StepMovesOne, StepsMove DEF IsolationInv, BaseInv, TypeOK, MachineTypeOK, AllAlone
<1>2. /\ \A i, c : Held(p, i, c)' <=> Held(p, i, c)
      /\ \A i : HeldPids(p, i)' <=> HeldPids(p, i)
  BY <1>1, HeldByOthers
<1>3. /\ \A i \in DOMAIN Configs(p) : \A c \in Configs(p)[i].cpus : cos'[c] = cos[c]
      /\ \A x \in TasksOf(p) : task'[x] = task[x]
  BY <1>1, OwnCoresStay
<1>4. \A i, r, t : Defined(p, i, r, t)' => Defined(p, i, r, t)
  BY <1>1 DEF OthersStay, Defined, Placed, AtIt, Configuring, InPlace
<1>5. PidConfigs(line[p]) \subseteq DOMAIN Configs(p) /\ DOMAIN Configs(p) = DOMAIN Configs(p)'
      /\ \A i \in DOMAIN Configs(p) : Configs(p)[i].cpus \subseteq Cores
  BY <1>1, LineFacts, ConfigFacts DEF Configs
<1>6. ASSUME NEW i \in DOMAIN Configs(p), NEW c \in Cores, NEW t, Defined(p, i, SearchRes(c, Tech(Configs(p)[i])), t)'
      PROVE  Defined(p, i, SearchRes(c, Tech(Configs(p)[i])), t)
  <2> DEFINE r == SearchRes(c, Tech(Configs(p)[i]))
  <2>1. r' = r
    BY DEF SearchRes, Tech, Configs
  <2>2. Defined(p, i, r, t)'
    BY <1>6
  <2> HIDE DEF r
  <2>3. Defined(p, i, r, t)
    BY <1>4, <2>1, <2>2 DEF Defined
  <2>4. QED
    BY <2>3 DEF r
<1>7. ASSUME NEW i \in DOMAIN Configs(p), NEW c \in Configs(p)[i].cpus, Held(p, i, c), NEW t \in Technologies
      PROVE  def'[t][ResOf(c, t)][cos[c]] = def[t][ResOf(c, t)][cos[c]]
  <2>1. CASE UNCHANGED def
    BY <2>1
  <2>2. CASE Writes(s)
    <3> DEFINE t0 == NextTech(s)
               r0 == ResOf(CoreAt(Cfg(s), Min(left[s])), t0)
               k0 == cls[s]
               v == Wanted(Cfg(s), t0)
               r == ResOf(c, t)
               k == cos[c]
    <3>1. t = t0 /\ r = r0 => k # k0
      BY <1>7, <2>2, CoreUntouched
    <3>2. Define(t0, r0, k0, v) /\ r \in Resources(t) /\ k \in Classes
      BY <1>1, <1>5, <2>2 DEF Writes, Resources, TypeOK, MachineTypeOK
    <3> HIDE DEF t0, r0, k0, v, r, k
    <3>3. def'[t][r][k] = def[t][r][k]
      BY <1>1, <3>1, <3>2, OneDefinition
    <3>4. QED
      BY <3>3 DEF r, k
  <2>3. QED
    BY <1>1, <2>1, <2>2, StepKinds DEF Drops, Quiet, TakesCores, TakesTasks
<1>8. ASSUME NEW i \in PidConfigs(line[p]), HeldPids(p, i), NEW x \in TasksOf(p) \intersect live,
             NEW t \in Technologies, NEW c \in Cores
      PROVE  def'[t][ResOf(c, t)][task[x]] = def[t][ResOf(c, t)][task[x]]
  <2>1. CASE UNCHANGED def
    BY <2>1
  <2>2. CASE Writes(s)
    <3> DEFINE t0 == NextTech(s)
               r0 == ResOf(CoreAt(Cfg(s), Min(left[s])), t0)
               k0 == cls[s]
               v == Wanted(Cfg(s), t0)
               r == ResOf(c, t)
               k == task[x]
    <3>1. k # k0
      BY <1>8, <2>2, TaskUntouched
    <3>2. Define(t0, r0, k0, v) /\ r \in Resources(t) /\ k \in Classes
      BY <1>1, <2>2 DEF Writes, Resources, TypeOK, MachineTypeOK
    <3> HIDE DEF t0, r0, k0, v, r, k
    <3>3. def'[t][r][k] = def[t][r][k]
      BY <1>1, <3>1, <3>2, OneDefinition
    <3>4. QED
      BY <3>3 DEF r, k
  <2>3. QED
    BY <1>1, <2>1, <2>2, StepKinds DEF Drops, Quiet, TakesCores, TakesTasks
<1>9. \A k : Defines(k) \subseteq Technologies
  BY DEF Defines, Present
<1>10. CoresDefined(p)'
  <2>1. ASSUME NEW i \in DOMAIN Configs(p), NEW c \in Configs(p)[i].cpus, Held(p, i, c)',
               NEW t \in Defines(cos'[c]) \intersect Told(Configs(p)[i]),
               Defined(p, i, SearchRes(c, Tech(Configs(p)[i])), t)'
        PROVE  /\ Held(p, i, c) /\ cos'[c] = cos[c]
               /\ Defined(p, i, SearchRes(c, Tech(Configs(p)[i])), t)
               /\ def'[t][ResOf(c, t)][cos[c]] = def[t][ResOf(c, t)][cos[c]]
    BY <1>2, <1>3, <1>5, <1>6, <1>7, <1>9, <2>1
  <2>2. QED
    BY <2>1, CoresDefinedStay
<1>11. TasksDefined(p)'
  <2>1. ASSUME NEW i \in PidConfigs(line[p]), HeldPids(p, i)', NEW x \in TasksOf(p) \intersect live,
               NEW c \in Cores, NEW t \in Defines(task'[x]) \intersect Told(Configs(p)[i]),
               Defined(p, i, SearchRes(c, Tech(Configs(p)[i])), t)'
        PROVE  /\ HeldPids(p, i) /\ task'[x] = task[x]
               /\ Defined(p, i, SearchRes(c, Tech(Configs(p)[i])), t)
               /\ def'[t][ResOf(c, t)][task[x]] = def[t][ResOf(c, t)][task[x]]
    BY <1>2, <1>3, <1>5, <1>6, <1>8, <1>9, <2>1
  <2>2. QED
    BY <1>1, <2>1, TasksDefinedStay
<1>12. QED
  BY <1>10, <1>11

LEMMA DefinedWhileWriting ==
  ASSUME NoGaps, IsolationInv, PendingInv, AllAlone, ~L2Searches, line' = line, iface' = iface,
         NEW p \in Procs, Writes(p), CoresDefined(p), TasksDefined(p),
         ~L2Asked => \A r \in Resources("l2"), k \in Classes : def'["l2"][r][k] = Full
  PROVE  CoresDefined(p)' /\ TasksDefined(p)'
<1>1. /\ BaseInv /\ TypeOK /\ LoopInv /\ OsInv /\ LineInv /\ iface \in Interfaces /\ Loop(p) /\ Current(p)
      /\ UNCHANGED <<cos, task, live>> /\ live' \subseteq live /\ pc[p] = "define"
  BY DEF IsolationInv, BaseInv, TypeOK, MachineTypeOK, AllAlone, LoopInv, IsolInv, Writes
<1>2. /\ at[p] \in DOMAIN Configs(p) /\ Cfg(p) = Configs(p)[at[p]]
      /\ PidConfigs(line[p]) \subseteq DOMAIN Configs(p) /\ DOMAIN Configs(p) \subseteq Nat
      /\ \A i \in DOMAIN Configs(p) : Configs(p)[i].cpus \subseteq Cores
      /\ TasksOf(p) \subseteq Tasks
  BY <1>1, CfgFacts, LineFacts, ConfigFacts
<1>3. /\ \A i \in DOMAIN Configs(p), c \in Cores : c \in Configs(p)[i].cpus /\ Held(p, i, c)' => Held(p, i, c)
      /\ \A i \in DOMAIN Configs(p) : HeldPids(p, i)' => HeldPids(p, i)
  BY <1>1, WritingLoops
<1>4. \A i : /\ Placed(p, i) <=> i < at[p]
             /\ AtIt(p, i) <=> i = at[p]
  BY <1>1 DEF Placed, AtIt, Configuring, InPlace
<1>5. \A k : Defines(k) \subseteq Technologies
  BY DEF Defines, Present
(* Of the configuration being defined. *)
<1>6. ASSUME NEW i, i = at[p], NEW c \in Cores, NEW k \in Classes,
             iface = "OS" \/ SearchRes(c, Tech(Cfg(p))) = Min(left[p]) => k = cls[p],
             NEW t \in Defines(k) \intersect Told(Cfg(p)),
             Defined(p, i, SearchRes(c, Tech(Configs(p)[i])), t)'
      PROVE  \/ /\ Defined(p, i, SearchRes(c, Tech(Configs(p)[i])), t)
                /\ def'[t][ResOf(c, t)][k] = def[t][ResOf(c, t)][k]
             \/ def'[t][ResOf(c, t)][k] = Wanted(Configs(p)[i], t)
  <2> DEFINE r == SearchRes(c, Tech(Configs(p)[i]))
  <2>1. r' = r /\ r = SearchRes(c, Tech(Cfg(p)))
    BY <1>2, <1>6 DEF SearchRes, Tech, Configs
  <2>2. Defined(p, i, r, t)' /\ (iface = "OS" \/ r = Min(left[p]) => k = cls[p])
    BY <1>6, <2>1
  <2> HIDE DEF r
  <2>3. \A s : s = SearchRes(c, Tech(Cfg(p))) /\ (iface = "OS" \/ s = Min(left[p]) => k = cls[p]) /\ Defined(p, i, s, t)'
                 => \/ Defined(p, i, s, t) /\ def'[t][ResOf(c, t)][k] = def[t][ResOf(c, t)][k]
                    \/ def'[t][ResOf(c, t)][k] = Wanted(Cfg(p), t)
    BY <1>1, <1>6, WrittenAsWanted
  <2>4. \E s : s = r /\ Defined(p, i, s, t)'
    BY <2>1, <2>2 DEF Defined
  <2>5. \/ Defined(p, i, r, t) /\ def'[t][ResOf(c, t)][k] = def[t][ResOf(c, t)][k]
        \/ def'[t][ResOf(c, t)][k] = Wanted(Cfg(p), t)
    BY <2>1, <2>2, <2>3, <2>4
  <2>6. Cfg(p) = Configs(p)[i]
    BY <1>2, <1>6
  <2>7. QED
    BY <2>5, <2>6 DEF r
(* Of another one. *)
<1>7. ASSUME NEW c \in Cores, NEW k \in Classes, NEW t \in Technologies,
             ResOf(c, t) = ResOf(CoreAt(Cfg(p), Min(left[p])), t) => k # cls[p]
      PROVE  def'[t][ResOf(c, t)][k] = def[t][ResOf(c, t)][k]
  <2> DEFINE t0 == NextTech(p)
             r0 == ResOf(CoreAt(Cfg(p), Min(left[p])), t0)
             k0 == cls[p]
             v == Wanted(Cfg(p), t0)
             r == ResOf(c, t)
  <2>1. Define(t0, r0, k0, v) /\ r \in Resources(t) /\ (t = t0 /\ r = r0 => k # k0)
    BY <1>7 DEF Writes, Resources
  <2> HIDE DEF t0, r0, k0, v, r
  <2>2. def'[t][r][k] = def[t][r][k]
    BY <1>1, <2>1, OneDefinition
  <2>3. QED
    BY <2>2 DEF r
<1>8. CoresDefined(p)'
  <2>1. ASSUME NEW i \in DOMAIN Configs(p), NEW c \in Configs(p)[i].cpus, Held(p, i, c)',
               NEW t \in Defines(cos'[c]) \intersect Told(Configs(p)[i]),
               Defined(p, i, SearchRes(c, Tech(Configs(p)[i])), t)'
        PROVE  \/ /\ Held(p, i, c) /\ cos'[c] = cos[c]
                  /\ Defined(p, i, SearchRes(c, Tech(Configs(p)[i])), t)
                  /\ def'[t][ResOf(c, t)][cos[c]] = def[t][ResOf(c, t)][cos[c]]
               \/ def'[t][ResOf(c, t)][cos'[c]] = Wanted(Configs(p)[i], t)
    <3>1. c \in Cores /\ Held(p, i, c) /\ cos'[c] = cos[c] /\ cos[c] \in Classes /\ t \in Technologies
      BY <1>1, <1>2, <1>3, <1>5, <2>1 DEF TypeOK, MachineTypeOK
    <3> DEFINE k == cos[c]
    <3>2. CASE i = at[p]
      <4>1. iface = "OS" \/ SearchRes(c, Tech(Cfg(p))) = Min(left[p]) => k = cls[p]
        BY <1>1, <1>2, <3>2 DEF Current, IsPid
      <4>2. t \in Defines(k) \intersect Told(Cfg(p)) /\ k \in Classes
        BY <1>2, <2>1, <3>1, <3>2
      <4> HIDE DEF k
      <4>3. \/ /\ Defined(p, i, SearchRes(c, Tech(Configs(p)[i])), t)
               /\ def'[t][ResOf(c, t)][k] = def[t][ResOf(c, t)][k]
            \/ def'[t][ResOf(c, t)][k] = Wanted(Configs(p)[i], t)
        BY <1>6, <2>1, <3>1, <3>2, <4>1, <4>2
      <4>4. QED
        BY <3>1, <4>3 DEF k
    <3>3. CASE i # at[p]
      <4>1. Defined(p, i, SearchRes(c, Tech(Configs(p)[i])), t)
        BY <1>4, <3>1, <3>3 DEF Held, Defined
      <4>2. ResOf(c, t) = ResOf(CoreAt(Cfg(p), Min(left[p])), t) => k # cls[p]
        BY <3>1, <3>3, CoreUntouched
      <4>3. def'[t][ResOf(c, t)][k] = def[t][ResOf(c, t)][k]
        BY <1>7, <3>1, <4>2
      <4>4. QED
        BY <3>1, <4>1, <4>3
    <3>4. QED
      BY <3>2, <3>3
  <2>2. QED
    BY <2>1, CoresDefinedStay
<1>9. TasksDefined(p)'
  <2>1. ASSUME NEW i \in PidConfigs(line[p]), HeldPids(p, i)', NEW x \in TasksOf(p) \intersect live,
               NEW c \in Cores, NEW t \in Defines(task'[x]) \intersect Told(Configs(p)[i]),
               Defined(p, i, SearchRes(c, Tech(Configs(p)[i])), t)'
        PROVE  \/ /\ HeldPids(p, i) /\ task'[x] = task[x]
                  /\ Defined(p, i, SearchRes(c, Tech(Configs(p)[i])), t)
                  /\ def'[t][ResOf(c, t)][task[x]] = def[t][ResOf(c, t)][task[x]]
               \/ def'[t][ResOf(c, t)][task'[x]] = Wanted(Configs(p)[i], t)
    <3>1. HeldPids(p, i) /\ task'[x] = task[x] /\ task[x] \in Classes /\ t \in Technologies
      BY <1>1, <1>2, <1>3, <1>5, <2>1 DEF TypeOK, MachineTypeOK
    <3> DEFINE k == task[x]
    <3>2. CASE i = at[p]
      <4>1. iface = "OS" \/ SearchRes(c, Tech(Cfg(p))) = Min(left[p]) => k = cls[p]
        BY <1>1, <1>2, <3>2 DEF Current, PidConfigs, Configs
      <4>2. t \in Defines(k) \intersect Told(Cfg(p)) /\ k \in Classes
        BY <1>2, <2>1, <3>1, <3>2
      <4> HIDE DEF k
      <4>3. \/ /\ Defined(p, i, SearchRes(c, Tech(Configs(p)[i])), t)
               /\ def'[t][ResOf(c, t)][k] = def[t][ResOf(c, t)][k]
            \/ def'[t][ResOf(c, t)][k] = Wanted(Configs(p)[i], t)
        BY <1>6, <2>1, <3>1, <3>2, <4>1, <4>2
      <4>4. QED
        BY <3>1, <4>3 DEF k
    <3>3. CASE i # at[p]
      <4>1. Defined(p, i, SearchRes(c, Tech(Configs(p)[i])), t)
        BY <1>4, <3>1, <3>3 DEF HeldPids, Defined
      <4>2. k # cls[p]
        BY <3>1, <3>3, TaskUntouched
      <4>3. def'[t][ResOf(c, t)][k] = def[t][ResOf(c, t)][k]
        BY <1>7, <3>1, <4>2
      <4>4. QED
        BY <3>1, <4>1, <4>3
    <3>4. QED
      BY <3>2, <3>3
  <2>2. QED
    BY <1>1, <2>1, TasksDefinedStay
<1>10. QED
  BY <1>8, <1>9

LEMMA DefinedKept ==
  ASSUME NoGaps, IsolationInv, PendingInv, DefinedInv, [RdtsetNext]_vars
  PROVE  DefinedInv'
<1>1. line' = line /\ iface' = iface /\ TypeOK /\ BaseInv /\ LoopInv /\ OsInv /\ IsolInv
      /\ iface \in Interfaces /\ LineInv
  BY LineKept DEF BaseInv, IsolationInv, TypeOK, MachineTypeOK
<1>2. (L2Asked' <=> L2Asked) /\ (L2Searches' <=> L2Searches) /\ (AllAlone' <=> AllAlone)
  BY <1>1, NearKept
<1>3. ~L2Asked => \A r \in Resources("l2"), k \in Classes : def'["l2"][r][k] = Full
  <2> SUFFICES ASSUME ~L2Asked PROVE \A r \in Resources("l2"), k \in Classes : def'["l2"][r][k] = Full
    OBVIOUS
  <2>1. \A r \in Resources("l2"), k \in Classes : def["l2"][r][k] = Full
    BY DEF DefinedInv
  <2>2. CASE UNCHANGED def
    BY <2>1, <2>2
  <2>3. ASSUME NEW s \in Procs, Writes(s) PROVE \A r \in Resources("l2"), k \in Classes : def'["l2"][r][k] = Full
    BY <1>1, <2>1, <2>3, L2StaysFull
  <2>4. UNCHANGED vars \/ (\E x \in Tasks : TaskEnds(x)) => UNCHANGED def
    BY DEF vars, machineVars, TaskEnds
  <2>5. \A s \in Procs : Moves(s) => UNCHANGED def \/ Writes(s)
    BY <1>1, StepKinds DEF Drops, Quiet, TakesCores, TakesTasks
  <2>6. QED
    BY <2>2, <2>3, <2>4, <2>5, NextSplit
<1>4. ASSUME AllAlone, ~L2Searches, NEW p \in Procs, p \notin contested'
      PROVE  CoresDefined(p)' /\ TasksDefined(p)'
  <2>1. CASE UNCHANGED vars \/ \E x \in Tasks : TaskEnds(x)
    <3>1. UNCHANGED <<cos, task, def, procVars, contested>> /\ live' \subseteq live
      BY <2>1 DEF vars, machineVars, historyVars, TaskEnds
    <3>2. \A i : (Placed(p, i)' <=> Placed(p, i)) /\ (AtIt(p, i)' <=> AtIt(p, i))
      BY <3>1 DEF procVars, Placed, AtIt, Configuring, InPlace
    <3>3. Cfg(p)' = Cfg(p) /\ Todo(p)' = Todo(p) /\ Configs(p)' = Configs(p)
      BY <1>1, <3>1 DEF procVars, Cfg, Configs, Todo
    <3>4. \A i, c : Held(p, i, c)' => Held(p, i, c)
      BY <3>2, <3>3 DEF Held, SearchRes
    <3>5. \A i : HeldPids(p, i)' => HeldPids(p, i)
      BY <3>1, <3>2 DEF HeldPids, procVars
    <3>6. \A i, c, t : Defined(p, i, SearchRes(c, Tech(Configs(p)[i])), t)'
                         => Defined(p, i, SearchRes(c, Tech(Configs(p)[i])), t)
      BY <3>1, <3>2, <3>3 DEF Defined, SearchRes, procVars
    <3>7. CoresDefined(p) /\ TasksDefined(p)
      BY <1>4, <3>1 DEF DefinedInv
    <3>8. CoresDefined(p)'
      BY <1>1, <3>1, <3>4, <3>6, <3>7, CoresDefinedStay
    <3>9. TasksDefined(p)'
      BY <1>1, <3>1, <3>5, <3>6, <3>7, TasksDefinedStay
    <3>10. QED
      BY <3>8, <3>9
  <2>2. ASSUME NEW s \in Procs, Moves(s) PROVE CoresDefined(p)' /\ TasksDefined(p)'
    <3>1. contested \subseteq contested' /\ live' = live /\ live' \subseteq live
      BY <1>1, <2>2, StepKinds, StepsMove DEF Drops, Quiet, TakesCores, TakesTasks, Writes, GotClass
    <3>2. CoresDefined(p) /\ TasksDefined(p) /\ p \notin contested
      BY <1>4, <3>1 DEF DefinedInv
    <3>3. CASE s # p
      BY <1>1, <1>4, <2>2, <3>1, <3>2, <3>3, DefinedBesideOthers
    <3>4. CASE s = p
      <4>1. Loop(p)
        BY <1>1 DEF LoopInv
      <4>2. CASE Drops(p)
        BY <4>2 DEF Drops, HoldsNothing, CoresDefined, TasksDefined, Held, HeldPids, Placed, AtIt, Configuring
      <4>3. CASE Quiet(p)
        <5>1. \A i \in DOMAIN Configs(p) : /\ \A c \in Configs(p)[i].cpus : Held(p, i, c)' => Placed(p, i)
                                           /\ HeldPids(p, i)' => Placed(p, i)
          BY <4>3 DEF Quiet
        <5>2. UNCHANGED <<cos, task, def>>
          BY <4>3 DEF Quiet
        <5>3. \A i, r, t : Placed(p, i) => Defined(p, i, r, t)
          BY DEF Defined
        <5>4. CoresDefined(p)'
          BY <1>1, <3>2, <5>1, <5>2, <5>3, CoresDefinedStay DEF Held
        <5>5. PidConfigs(line[p]) \subseteq DOMAIN Configs(p)
          BY <1>1, LineFacts
        <5>6. TasksDefined(p)'
          BY <1>1, <3>1, <3>2, <5>1, <5>2, <5>3, <5>5, TasksDefinedStay DEF HeldPids
        <5>7. QED
          BY <5>4, <5>6
      <4>4. CASE TakesCores(p)
        BY <1>1, <3>2, <4>1, <4>4, DefinedAfterTakingCores
      <4>5. CASE TakesTasks(p)
        BY <1>1, <3>2, <4>1, <4>5, DefinedAfterTakingTasks
      <4>6. CASE Writes(p)
        BY <1>1, <1>3, <1>4, <3>2, <4>6, DefinedWhileWriting
      <4>7. QED
        BY <1>1, <2>2, <3>4, <4>2, <4>3, <4>4, <4>5, <4>6, StepKinds
    <3>5. QED
      BY <3>3, <3>4
  <2>3. QED
    BY <2>1, <2>2, NextSplit
<1>5. QED
  <2>1. Resources("l2")' = Resources("l2")
    BY DEF Resources, ResOf
  <2>2. ~L2Asked' => \A r \in Resources("l2")', k \in Classes : def'["l2"][r][k] = Full
    BY <1>2, <1>3, <2>1
  <2>3. AllAlone' /\ ~L2Searches' => \A p \in Procs \ contested' : CoresDefined(p)' /\ TasksDefined(p)'
    BY <1>2, <1>4
  <2>4. QED
    BY <2>2, <2>3 DEF DefinedInv

LEMMA DefinedHolds ==
  ASSUME NoGaps
  PROVE  Spec => [](PendingInv /\ DefinedInv)
<1>1. Init => PendingInv /\ DefinedInv
  <2> SUFFICES ASSUME Init PROVE PendingInv /\ DefinedInv
    OBVIOUS
  <2>1. \A p \in Procs : pc[p] = "off"
    BY DEF Init, RdtsetInit
  <2>2. PendingInv
    BY <2>1 DEF PendingInv
  <2>3. \A r \in Resources("l2"), k \in Classes : def["l2"][r][k] = Full
    BY DEF Init, MachineInit, Technologies
  <2>4. \A p \in Procs : CoresDefined(p) /\ TasksDefined(p)
    BY <2>1 DEF CoresDefined, TasksDefined, Held, HeldPids, Placed, AtIt, Configuring, InPlace
  <2>5. QED
    BY <2>2, <2>3, <2>4 DEF DefinedInv
<1>2. IsolationInv /\ PendingInv /\ DefinedInv /\ [RdtsetNext]_vars => PendingInv' /\ DefinedInv'
  BY PendingKept, DefinedKept
<1>3. QED
  BY <1>1, <1>2, IsolationHolds, PTL DEF Spec

(* While a command runs, and for good when an rdtset was given tasks, the  *)
(* cores of each configuration are in a class that means what its command  *)
(* line says, whatever other rdtsets do, and however they end; unless it   *)
(* got a class that another one had still to define.                       *)
THEOREM CoresUseWhatWasAskedHolds ==
  ASSUME NoGaps
  PROVE  Spec => []CoresUseWhatWasAsked
<1>1. DefinedInv => CoresUseWhatWasAsked
  BY DEF DefinedInv, CoresUseWhatWasAsked, CoresDefined, Meets, Held, Placed, Defined
<1>2. QED
  BY <1>1, DefinedHolds, PTL

(* The same for tasks, on every core. *)
THEOREM TasksUseWhatWasAskedHolds ==
  ASSUME NoGaps
  PROVE  Spec => []TasksUseWhatWasAsked
<1>1. OsInv /\ DefinedInv => TasksUseWhatWasAsked
  <2> SUFFICES ASSUME OsInv, DefinedInv, AllAlone, NEW p \in Procs \ contested, InPlace(p),
                      NEW i \in PidConfigs(line[p]), NEW x \in TasksOf(p) \intersect live, NEW c \in Cores
               PROVE  Meets(Configs(p)[i], task[x], c)
    BY DEF TasksUseWhatWasAsked
  <2>1. HeldPids(p, i) /\ Placed(p, i)
    BY DEF HeldPids, Placed
  <2>2. ~L2Searches
    BY <2>1 DEF OsInv, L2Searches
  <2>3. TasksDefined(p)
    BY <2>2 DEF DefinedInv
  <2>4. QED
    BY <2>1, <2>3 DEF TasksDefined, Meets, Defined
<1>2. QED
  BY <1>1, IsolationHolds, DefinedHolds, PTL DEF IsolationInv

-----------------------------------------------------------------------------
(* How an rdtset can get a class that another one has still to define.     *)

(* The task of a process has not ended before the process has. *)
LEMMA LiveKept ==
  ASSUME NoGaps, IsolationInv, LiveInv, [RdtsetNext]_vars
  PROVE  LiveInv'
<1>1. TypeOK /\ BaseInv /\ LoopInv
  BY DEF IsolationInv, BaseInv
<1> SUFFICES ASSUME NEW p \in Procs PROVE p \in live' \/ pc'[p] \in Over
  BY DEF LiveInv
<1>2. p \in live \/ pc[p] \in Over
  BY DEF LiveInv
<1>3. CASE UNCHANGED vars
  BY <1>2, <1>3 DEF vars, machineVars, procVars
<1>4. ASSUME NEW x \in Tasks, TaskEnds(x) PROVE p \in live' \/ pc'[p] \in Over
  BY <1>2, <1>4 DEF TaskEnds, procVars
<1>5. ASSUME NEW s \in Procs, Moves(s) PROVE p \in live' \/ pc'[p] \in Over
  <2>1. OthersStay(s) /\ live' = live
    BY <1>1, <1>5, StepMovesOne, StepsMove
  <2>2. CASE s # p
    BY <1>2, <2>1, <2>2 DEF OthersStay
  <2>3. CASE s = p /\ pc[p] \in Over
    <3>1. ~Start(p) /\ ~Step(p) /\ ~Interrupt(p) /\ ~InterruptInCall(p) /\ ~InterruptChild(p) /\ ~Kill(p)
      BY <2>3 DEF Over, Start, Step, ResetCore, ResetDone, CheckCore, Validated, AssignCores, AssignPids,
                  DefineClass, Unpid, Revert, Leave, SetAffinity, Fork, Wait, Exit, Interrupt, InterruptInCall,
                  InterruptChild, Kill, Running, Calling, Between, Asleep
    <3>2. ChildStep(p)
      BY <1>5, <2>3, <3>1 DEF Moves
    <3>3. pc' = pc
      BY <3>2 DEF ChildStep, ChildExec, CommandEnds, ChildReleases
    <3>4. QED
      BY <2>3, <3>3
  <2>4. QED
    BY <1>2, <2>1, <2>2, <2>3
<1>6. QED
  BY <1>3, <1>4, <1>5, NextSplit

(* A class that is found unused but is still to be defined for tasks has   *)
(* lost them all.                                                          *)
LEMMA ClassOfEndedTasks ==
  ASSUME IsolationInv, LiveInv, AllAlone, NEW cs, NEW tech, Unused(cs, tech) # {},
         NEW q \in StillToDefine(FirstUnused(cs, tech))
  PROVE  TasksGone(q)
<1>1. /\ q \in Procs /\ pc[q] = "define" /\ IsPid(Cfg(q)) /\ cls[q] = FirstUnused(cs, tech)
      /\ BaseInv /\ iface \in Interfaces /\ LineInv
  BY DEF StillToDefine, IsolationInv, BaseInv, TypeOK, MachineTypeOK
<1>2. at[q] \in PidConfigs(line[q]) /\ HeldPids(q, at[q])
  BY <1>1, CfgFacts DEF PidConfigs, Configs, HeldPids, AtIt, Configuring
<1>3. iface = "OS"
  BY <1>1, <1>2 DEF IsolationInv, OsInv
<1>4. FirstUnused(cs, tech) \in UnusedOs
  BY <1>3, FirstUnusedIsUnused DEF Unused
<1>5. \A x \in live : task[x] # cls[q]
  BY <1>1, <1>4 DEF UnusedOs
<1>6. \A x \in TasksOf(q) \intersect live : task[x] = cls[q]
  BY <1>1 DEF IsolationInv, IsolInv, AllAlone, Current
<1>7. q \in live
  BY <1>1 DEF LiveInv, Over
<1>8. QED
  BY <1>2, <1>5, <1>6, <1>7 DEF TasksGone, TasksOf

LEMMA ContestedKept ==
  ASSUME NoGaps, IsolationInv, LiveInv, ContestedInv, [RdtsetNext]_vars
  PROVE  ContestedInv'
<1>1. line' = line /\ iface' = iface /\ TypeOK /\ BaseInv /\ LoopInv /\ OsInv
  BY LineKept DEF BaseInv, IsolationInv
<1>2. SUFFICES ASSUME contested' # {}, AllAlone PROVE \E q \in Procs : TasksGone(q)'
  BY <1>1, NearKept DEF ContestedInv
<1>3. \A q \in Procs : live' \subseteq live /\ TasksGone(q) => TasksGone(q)'
  BY <1>1 DEF TasksGone
<1>4. contested' = contested /\ live' \subseteq live => \E q \in Procs : TasksGone(q)'
  BY <1>2, <1>3 DEF ContestedInv
<1>5. CASE UNCHANGED vars \/ \E x \in Tasks : TaskEnds(x)
  BY <1>4, <1>5 DEF vars, machineVars, historyVars, TaskEnds
<1>6. ASSUME NEW s \in Procs, Moves(s) PROVE \E q \in Procs : TasksGone(q)'
  <2>1. live' = live /\ live' \subseteq live
    BY <1>1, <1>6, StepsMove
  <2>2. CASE contested' = contested
    BY <1>4, <2>1, <2>2
  <2>3. CASE TakesCores(s) \/ TakesTasks(s)
    <3>1. PICK cs, tech : Unused(cs, tech) # {} /\ GotClass(s, FirstUnused(cs, tech))
      BY <2>3 DEF TakesCores, TakesTasks, Unused
    <3>2. CASE StillToDefine(FirstUnused(cs, tech)) = {}
      BY <2>2, <3>1, <3>2 DEF GotClass
    <3>3. CASE StillToDefine(FirstUnused(cs, tech)) # {}
      <4>1. PICK q \in StillToDefine(FirstUnused(cs, tech)) : TRUE
        BY <3>3
      <4>2. TasksGone(q) /\ q \in Procs
        BY <1>2, <3>1, <4>1, ClassOfEndedTasks DEF StillToDefine
      <4>3. QED
        BY <1>3, <2>1, <4>2
    <3>4. QED
      BY <3>2, <3>3
  <2>4. QED
    BY <1>1, <1>6, <2>2, <2>3, StepKinds DEF Drops, Quiet, Writes
<1>7. QED
  BY <1>5, <1>6, NextSplit

(* An rdtset gets a class that another one was given for tasks and has     *)
(* still to define only when all these tasks, named by -p, have ended      *)
(* meanwhile: nothing else keeps cores and tasks from what was asked for.  *)
THEOREM ContestedByEndedTasks ==
  ASSUME NoGaps
  PROVE  Spec => []ContestedInv
<1>1. Init => LiveInv /\ ContestedInv
  BY OwnTasks DEF Init, MachineInit, RdtsetInit, LiveInv, ContestedInv
<1>2. IsolationInv /\ LiveInv /\ ContestedInv /\ [RdtsetNext]_vars => LiveInv' /\ ContestedInv'
  BY LiveKept, ContestedKept DEF IsolationInv
<1>3. QED
  BY <1>1, <1>2, IsolationHolds, PTL DEF Spec
=============================================================================
