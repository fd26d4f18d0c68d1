---------------------------- MODULE OsMonitoring ----------------------------
(***************************************************************************)
(* Monitoring over the OS interface: lib/os_monitoring.c on lib/perf.c,    *)
(* behind pqos_mon_start, pqos_mon_start_pid, pqos_mon_stop and            *)
(* pqos_mon_poll of lib/api.c, in one process of several threads.          *)
(*                                                                         *)
(* An event of a group needs one or two arrays of perf counters, each with *)
(* a file descriptor per core or task.  A call looks at the valid mark of  *)
(* its group, then waits for the API lock, then does its work; a start     *)
(* opens the arrays one after the other.  The kernel gives the lowest      *)
(* descriptors that are free, so a number that was closed comes back soon. *)
(***************************************************************************)
EXTENDS Naturals, FiniteSets

CONSTANTS Threads,      \* threads of the process
          Groups,       \* the pqos_mon_data structures it uses
          Fds,          \* file descriptors it may have for counters
          Sizes,        \* numbers of cores or tasks of a group
          EventSets,    \* combinations of events that are asked for
          SupportSets,  \* RDT events the kernel may support
          NoThread,     \* nobody has the API lock
          NoGroup       \* a thread that is in no call

ASSUME FdsType == Fds \subseteq Nat
ASSUME SizesType == Sizes \subseteq Nat \ {0}
ASSUME NoThreadType == NoThread \notin Threads

Events == {"llc", "lmem", "tmem", "rmem", "ipc", "misses"}
Arrays == {"llc", "mbl", "mbt", "inst", "cyc", "misses"}
RdtEvents == {"llc", "lmem", "tmem"}

ASSUME EventSetsType == EventSets \subseteq (SUBSET Events) \ {{}}
ASSUME SupportSetsType == SupportSets \subseteq SUBSET RdtEvents

VARIABLES supported,    \* RDT events of this kernel
          valid,        \* groups that carry the valid mark
          event,        \* events of each group
          size,         \* its number of cores or tasks, 0 without any
          fds,          \* the descriptors in each of its arrays, none if NULL
          open,         \* descriptors that are open
          lost,         \* history: those that failed starts, and starts of a
                        \*   group that was running, left behind
          pc,           \* what each thread does
          inside        \* the thread that has the API lock

group == <<valid, event, size, fds>>
monVars == <<supported, group, open, lost, pc, inside>>

Calls == [at : {"start", "opening"}, group : Groups, events : EventSets, size : Sizes]
           \union [at : {"stop", "poll"}, group : Groups, events : {{}}, size : {0}]
Idle == [at |-> "idle", group |-> NoGroup, events |-> {}, size |-> 0]
NoArrays == [a \in Arrays |-> {}]

MonInit == /\ supported \in SupportSets
           /\ valid = {}
           /\ event = [g \in Groups |-> {}]
           /\ size = [g \in Groups |-> 0]
           /\ fds = [g \in Groups |-> NoArrays]
           /\ open = {}
           /\ lost = {}
           /\ pc = [t \in Threads |-> Idle]
           /\ inside = NoThread

-----------------------------------------------------------------------------
(* The arrays that an event reads. *)
ArraysOf(e) == CASE e = "lmem" -> {"mbl"}
                 [] e = "tmem" -> {"mbt"}
                 [] e = "rmem" -> {"mbl", "mbt"}
                 [] e = "ipc"  -> {"inst", "cyc"}
                 [] OTHER      -> {e}
Needed(E) == {a \in Arrays : \E e \in E : a \in ArraysOf(e)}

(* The order of start_events.  Remote bandwidth comes last and opens what  *)
(* local and total bandwidth have not.                                     *)
TotalFirst(E) == {"tmem", "rmem"} \subseteq E /\ "lmem" \notin E
Rank(E, a) == CASE a = "llc"    -> 0
                [] a = "mbl"    -> IF TotalFirst(E) THEN 3 ELSE 1
                [] a = "mbt"    -> 2
                [] a = "inst"   -> 4
                [] a = "cyc"    -> 5
                [] a = "misses" -> 6
IsNext(g, a) == /\ a \in Needed(event[g])
                /\ fds[g][a] = {}
                /\ \A b \in Needed(event[g]) :
                     Rank(event[g], b) < Rank(event[g], a) => fds[g][b] # {}

(* The event on whose behalf start_events opens an array, and              *)
(* is_event_supported for it.                                              *)
Opener(E, a) == CASE a = "mbl" -> IF "lmem" \in E THEN "lmem" ELSE "rmem"
                  [] a = "mbt" -> IF "tmem" \in E THEN "tmem" ELSE "rmem"
                  [] a \in {"inst", "cyc"} -> "ipc"
                  [] OTHER -> a
IsSupported(e) == CASE e \in RdtEvents -> e \in supported
                    [] e = "rmem" -> {"lmem", "tmem"} \subseteq supported
                    [] OTHER -> TRUE

(* What start_events has recorded as started. *)
Started(g) == {e \in event[g] : \A a \in ArraysOf(e) : fds[g][a] # {}}

(* The arrays that stop_events closes.  The variant takes it that local    *)
(* and total bandwidth close what remote bandwidth has opened.             *)
StopArraysWithoutRemote(E) == Needed(E \ {"rmem"})
StopArrays(E) == Needed(E)

FdsOf(g, A) == UNION {fds[g][a] : a \in A}
Without(g, A) == [a \in Arrays |-> IF a \in A THEN {} ELSE fds[g][a]]

(* The n lowest descriptors that are free. *)
IsLowest(new, n) == /\ Cardinality(new) = n
                    /\ \A f \in new, h \in Fds \ (open \union new) : f < h

Live(g) == g \in valid \/ \E t \in Threads : pc[t].at = "opening" /\ pc[t].group = g

-----------------------------------------------------------------------------
(* A call looks at its parameters, without the lock. *)
CallStart(t) ==
  /\ pc[t] = Idle
  /\ \E g \in Groups \ valid, E \in EventSets, n \in Sizes :
       pc' = [pc EXCEPT ![t] = [at |-> "start", group |-> g, events |-> E, size |-> n]]
  /\ UNCHANGED <<supported, group, open, lost, inside>>

CallOther(t) ==
  /\ pc[t] = Idle
  /\ \E g \in valid, what \in {"stop", "poll"} :
       pc' = [pc EXCEPT ![t] = [at |-> what, group |-> g, events |-> {}, size |-> 0]]
  /\ UNCHANGED <<supported, group, open, lost, inside>>

(* With the lock: an event that is not in the capabilities. *)
StartDeclined(t) ==
  /\ inside = NoThread
  /\ pc[t].at = "start"
  /\ pc' = [pc EXCEPT ![t] = Idle]
  /\ UNCHANGED <<supported, group, open, lost, inside>>

(* The group is cleared first.  If it was started since the call looked,   *)
(* its descriptors are forgotten.                                          *)
Clear(g, E, n) ==
  /\ valid' = valid \ {g}
  /\ event' = [event EXCEPT ![g] = E]
  /\ size' = [size EXCEPT ![g] = n]
  /\ fds' = [fds EXCEPT ![g] = NoArrays]
Forgotten(g) == IF g \in valid THEN FdsOf(g, Arrays) ELSE {}

(* No such task, or no memory. *)
StartRefused(t) ==
  /\ inside = NoThread
  /\ pc[t].at = "start"
  /\ Clear(pc[t].group, pc[t].events, 0)
  /\ lost' = lost \union Forgotten(pc[t].group)
  /\ pc' = [pc EXCEPT ![t] = Idle]
  /\ UNCHANGED <<supported, open, inside>>

StartBegin(t) ==
  /\ inside = NoThread
  /\ pc[t].at = "start"
  /\ Clear(pc[t].group, pc[t].events, pc[t].size)
  /\ lost' = lost \union Forgotten(pc[t].group)
  /\ pc' = [pc EXCEPT ![t].at = "opening"]
  /\ inside' = t
  /\ UNCHANGED <<supported, open>>

(* start_perf_counters for the next array. *)
OpenArray(t) ==
  LET g == pc[t].group IN
  /\ inside = t
  /\ pc[t].at = "opening"
  /\ \E a \in Arrays, new \in SUBSET (Fds \ open) :
       /\ IsNext(g, a)
       /\ IsSupported(Opener(event[g], a))
       /\ IsLowest(new, size[g])
       /\ fds' = [fds EXCEPT ![g][a] = new]
       /\ open' = open \union new
  /\ UNCHANGED <<supported, valid, event, size, lost, pc, inside>>

StartDone(t) ==
  LET g == pc[t].group IN
  /\ inside = t
  /\ pc[t].at = "opening"
  /\ \A a \in Needed(event[g]) : fds[g][a] # {}
  /\ valid' = valid \union {g}
  /\ pc' = [pc EXCEPT ![t] = Idle]
  /\ inside' = NoThread
  /\ UNCHANGED <<supported, event, size, fds, open, lost>>

(* A core or task in the middle of an array has no counter, or there are   *)
(* no descriptors left, or remote bandwidth is not supported: the events   *)
(* started so far are stopped.  What was opened for the array that failed  *)
(* is forgotten, and so is the other array of the same event.              *)
OpenFails(t) ==
  LET g == pc[t].group
      closed == FdsOf(g, StopArrays(Started(g))) IN
  /\ inside = t
  /\ pc[t].at = "opening"
  /\ \E a \in Arrays, new \in SUBSET (Fds \ open), n \in 0 .. size[g] - 1 :
       /\ IsNext(g, a)
       /\ IsSupported(Opener(event[g], a)) \/ (Opener(event[g], a) = "rmem" /\ n = 0)
       /\ IsLowest(new, n)
       /\ open' = (open \union new) \ closed
       /\ lost' = lost \union new \union (FdsOf(g, Arrays) \ closed)
  /\ fds' = [fds EXCEPT ![g] = Without(g, StopArrays(Started(g)))]
  /\ pc' = [pc EXCEPT ![t] = Idle]
  /\ inside' = NoThread
  /\ UNCHANGED <<supported, valid, event, size>>

(* An event of its own array that the kernel does not have: start_events   *)
(* returns, and stops nothing.                                             *)
StartUnsupported(t) ==
  LET g == pc[t].group IN
  /\ inside = t
  /\ pc[t].at = "opening"
  /\ \E a \in Arrays : /\ IsNext(g, a)
                       /\ Opener(event[g], a) \in RdtEvents \ supported
  /\ lost' = lost \union FdsOf(g, Arrays)
  /\ pc' = [pc EXCEPT ![t] = Idle]
  /\ inside' = NoThread
  /\ UNCHANGED <<supported, group, open>>

(* os_mon_stop. *)
FindsArrays(g) == \A a \in Needed(event[g]) : fds[g][a] # {}

(* memset of the group at the end; the variant leaves the group as it was. *)
StopKeepsGroup(g) == UNCHANGED group
StopForgets(g) == Clear(g, {}, 0)

Stop(t) ==
  LET g == pc[t].group IN
  /\ inside = NoThread
  /\ pc[t].at = "stop"
  /\ size[g] > 0 => FindsArrays(g)
  /\ open' = IF size[g] > 0 THEN open \ FdsOf(g, StopArrays(event[g])) ELSE open
  /\ IF size[g] > 0 THEN StopForgets(g) ELSE UNCHANGED group
  /\ pc' = [pc EXCEPT ![t] = Idle]
  /\ UNCHANGED <<supported, lost, inside>>

(* pqos_mon_poll reads, and keeps no descriptor. *)
Poll(t) ==
  /\ inside = NoThread
  /\ pc[t].at = "poll"
  /\ size[pc[t].group] > 0 => FindsArrays(pc[t].group)
  /\ pc' = [pc EXCEPT ![t] = Idle]
  /\ UNCHANGED <<supported, group, open, lost, inside>>

(* A stop or poll that comes upon a group whose last start failed uses an  *)
(* array that is NULL.  The process ends, and the kernel closes all.       *)
Crash(t) ==
  /\ inside = NoThread
  /\ pc[t].at \in {"stop", "poll"}
  /\ size[pc[t].group] > 0 /\ ~FindsArrays(pc[t].group)
  /\ valid' = {}
  /\ event' = [g \in Groups |-> {}]
  /\ size' = [g \in Groups |-> 0]
  /\ fds' = [g \in Groups |-> NoArrays]
  /\ open' = {}
  /\ lost' = {}
  /\ pc' = [u \in Threads |-> Idle]
  /\ UNCHANGED <<supported, inside>>

MonNext == \E t \in Threads :
  \/ CallStart(t) \/ CallOther(t)
  \/ StartDeclined(t) \/ StartRefused(t) \/ StartBegin(t)
  \/ OpenArray(t) \/ StartDone(t) \/ OpenFails(t) \/ StartUnsupported(t)
  \/ Stop(t) \/ Poll(t) \/ Crash(t)

MonSpec == MonInit /\ [][MonNext]_monVars

-----------------------------------------------------------------------------
MonTypeOK == /\ supported \subseteq RdtEvents
             /\ valid \subseteq Groups
             /\ event \in [Groups -> EventSets \union {{}}]
             /\ size \in [Groups -> Sizes \union {0}]
             /\ fds \in [Groups -> [Arrays -> SUBSET Fds]]
             /\ open \subseteq Fds
             /\ lost \subseteq Fds
             /\ pc \in [Threads -> Calls \union {Idle}]
             /\ inside \in Threads \union {NoThread}

(* The descriptors of a group that runs are its own, whatever other        *)
(* threads start, stop and fail to start at the same time: each array it   *)
(* reads has one per core or task, they are open, and no other group,      *)
(* running or being started, has one of them, though numbers come back as  *)
(* soon as they are closed and calls act on a check made long before.      *)
CountersAreOurs ==
  /\ \A g \in valid : \A a \in Needed(event[g]) :
       /\ fds[g][a] \subseteq open
       /\ Cardinality(fds[g][a]) = size[g]
  /\ \A g, h \in Groups, a, b \in Arrays :
       Live(g) /\ Live(h) /\ <<g, a>> # <<h, b>> => fds[g][a] \intersect fds[h][b] = {}

(* A descriptor stays open only for a group that runs or is being started, *)
(* or as what a failed start, or a second start of a running group, has    *)
(* left behind: a start that succeeds and its stop leave nothing open, for *)
(* any events, and what was left behind is never taken for a counter.      *)
EveryFdAccounted ==
  /\ open = lost \union UNION {fds[h][a] : h \in {g \in Groups : Live(g)}, a \in Arrays}
  /\ \A g \in Groups : Live(g) => FdsOf(g, Arrays) \intersect lost = {}
=============================================================================
