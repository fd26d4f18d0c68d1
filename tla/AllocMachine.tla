---------------------------- MODULE AllocMachine ----------------------------
(***************************************************************************)
(* The machine as the allocation calls of the library see it: which class  *)
(* of service (COS) a core or a task is in and what each class means, per  *)
(* technology and resource (socket or L2 cluster).  The programs that call *)
(* the library (Rdtset) are modules of their own over these variables.  A  *)
(* call of the library is one step, since it runs under the API lock       *)
(* (ApiLock); here the lock only matters when somebody keeps it.           *)
(***************************************************************************)
EXTENDS Naturals, FiniteSets, FiniteSetsExt

CONSTANTS Cores,        \* logical cores
          SocketOf,     \* the socket of a core
          L2Of,         \* the L2 cluster of a core
          NumCos,       \* classes of a technology, 0 when it is absent
          Values,       \* definitions of a class: cache masks, MBA rates
          Full,         \* the definition after a reset: all ways, 100%
          NotSet,       \* a technology a configuration says nothing about
          Tasks,        \* tasks of the system that may be put in a class
          Nobody        \* nobody holds the API lock, or owns a core

Technologies == {"l3", "l2", "mba"}
Interfaces == {"MSR", "OS"}
COS0 == 0
Classes == UNION {0 .. NumCos[t] - 1 : t \in Technologies}

ASSUME MachineAssumption == /\ SocketOf \in [Cores -> Nat]
                            /\ L2Of \in [Cores -> Nat]
                            /\ NumCos \in [Technologies -> Nat]
                            /\ COS0 \in Classes
                            /\ NumCos["l3"] + NumCos["l2"] > 0  \* no tool handles MBA alone
                            /\ Full \in Values
                            /\ NotSet \notin Values
ASSUME CoresAreNumbered == Cores \subseteq Nat /\ Cores # {} /\ IsFiniteSet(Cores)
ASSUME L2InSocket == \A c, d \in Cores : L2Of[c] = L2Of[d] => SocketOf[c] = SocketOf[d]

VARIABLES iface,        \* the interface the tools were told to use
          cos,          \* class of a core: PQOS_MSR_ASSOC, or its cpus file
          task,         \* class of a task: its tasks file (OS interface)
          live,         \* tasks that have not ended
          def,          \* definition of a class on a resource
          lock          \* who sleeps with the API lock taken

machineVars == <<iface, cos, task, live, def, lock>>

ResOf(c, t) == IF t = "l2" THEN L2Of[c] ELSE SocketOf[c]
Resources(t) == {ResOf(c, t) : c \in Cores}

MachineInit == /\ iface \in Interfaces
               /\ cos = [c \in Cores |-> COS0]
               /\ task = [x \in Tasks |-> COS0]
               /\ def = [t \in Technologies |-> [r \in Resources(t) |-> [k \in Classes |-> Full]]]
               /\ lock = Nobody

MachineTypeOK == /\ iface \in Interfaces
                 /\ cos \in [Cores -> Classes]
                 /\ task \in [Tasks -> Classes]
                 /\ live \subseteq Tasks
                 /\ DOMAIN def = Technologies
                 /\ \A t \in Technologies : def[t] \in [Resources(t) -> [Classes -> Values]]

-----------------------------------------------------------------------------
(* The resource whose cores pqos_alloc_assign looks at over MSRs: the L2   *)
(* cluster as soon as L2 CAT is asked for, the socket otherwise.           *)
SearchRes(c, tech) == IF "l2" \in tech THEN L2Of[c] ELSE SocketOf[c]

Present == {t \in Technologies : NumCos[t] > 0}

(* Variants of the definitions below, each a slip the code could have had. *)
UnusedMsrByThese(cs, tech) ==
  {k \in Classes \ {COS0} : /\ \A t \in tech : k < NumCos[t]
                            /\ \A c \in cs : cos[c] # k}

UnusedOsByCores == {k \in Classes \ {COS0} : /\ \A t \in Present : k < NumCos[t]
                                             /\ \A d \in Cores : cos[d] # k}

UnusedOsByTasks == {k \in Classes \ {COS0} : /\ \A t \in Present : k < NumCos[t]
                                             /\ \A x \in live : task[x] # k}

AssociateOverOld(cs, k) == cos' = [c \in Cores |-> IF c \in cs THEN cos[c] + k ELSE cos[c]]

(* get_unused_cos: over MSRs classes of the technologies asked for that no *)
(* core of the resource is in; through resctrl, groups with neither cores  *)
(* nor tasks.                                                              *)
UnusedMsr(cs, tech) ==
  {k \in Classes \ {COS0} :
     /\ \A t \in tech : k < NumCos[t]
     /\ \A c \in cs, d \in Cores : SearchRes(d, tech) = SearchRes(c, tech) => cos[d] # k}

UnusedOs == {k \in Classes \ {COS0} : /\ \A t \in Present : k < NumCos[t]
                                      /\ \A d \in Cores : cos[d] # k
                                      /\ \A x \in live : task[x] # k}

Unused(cs, tech) == IF iface = "MSR" THEN UnusedMsr(cs, tech) ELSE UnusedOs

(* get_unused_cos goes from the highest class down. *)
FirstUnused(cs, tech) == Max(Unused(cs, tech))

(* Associating cores or tasks with a class; a call that fails on the way   *)
(* has done only some of them.                                             *)
Associate(cs, k) == cos' = [c \in Cores |-> IF c \in cs THEN k ELSE cos[c]]
AssociateTasks(xs, k) == task' = [x \in Tasks |-> IF x \in xs THEN k ELSE task[x]]

(* pqos_l3ca_set, pqos_l2ca_set and pqos_mba_set of one class on one       *)
(* resource.                                                               *)
Define(t, r, k, v) == def' = [def EXCEPT ![t][r][k] = v]

(* The API lock can be had: no process sleeps in a call. *)
CanCall == lock = Nobody
=============================================================================
