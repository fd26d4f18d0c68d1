----------------------------- MODULE PollValues -----------------------------
(***************************************************************************)
(* The values of a monitored group: the memory traffic the hardware        *)
(* counts, the polls that read it context by context while it goes on, and *)
(* what they make of it (pqos_core_poll in lib/monitoring.c over MSRs,     *)
(* poll_perf_counters in lib/os_monitoring.c through perf).  Who polls and *)
(* when is said by the modules that extend this one (MonitorTool).         *)
(***************************************************************************)
EXTENDS Integers, Sequences, FiniteSets

CONSTANTS Cores,        \* logical cores
          ClusterOf,    \* the L3 cluster of a core
          Width,        \* values of a counter register: 2^24, MBM_MAX_VALUE
          Word,         \* values of a word of the program: 2^64
          Leftovers,    \* what earlier users of an RMID may have left in it
          Unavailable,  \* what a register gives while its data is unavailable
          MaxTraffic,   \* bound on the traffic while the group is monitored
          MaxFaults     \* bound on reads and calls that fail

ASSUME CoresAssumption == IsFiniteSet(Cores) /\ Cores # {} /\ ClusterOf \in [Cores -> Int]
ASSUME ValuesAssumption == /\ Width \in Nat \ {0}
                           /\ Word \in Nat \ {0}
                           /\ Leftovers \subseteq 0 .. Width - 1
                           /\ Unavailable \subseteq 0 .. Width - 1
                           /\ MaxTraffic \in Nat /\ MaxFaults \in Nat
(* A word holds the sum of the counters of all cores. *)
ASSUME SumsFitAWord == Cardinality(Cores) * (Width + MaxTraffic) < Word

VARIABLES iface,        \* interface the library was initialised with
          event,        \* events of the group
          ctxs,         \* poll contexts: L3 clusters (MSR), cores (perf)
          traffic,      \* what a context has moved so far, by kind
          pv,           \* struct pqos_event_values
          validRead,    \* valid_mbm_read: a poll has gone through
          stage,        \* what the current poll is reading
          todo,         \* contexts that this stage has still to read
          sum,          \* what it has summed up so far
          swept,        \* history: the traffic that is in sum
          seen,         \* history: the traffic when a kind was last stored
          span,         \* history: its traffic between the last two stores
          reports,      \* history: polls that went through, up to two
          lastPoll,     \* history: how the last poll ended
          still,        \* history: no traffic during the current poll
          calm,         \* history: polls in a row without, up to two
          flow,         \* history: traffic since the group was started
          faults        \* history: number of faults so far

valueVars == <<event, ctxs, traffic, pv, validRead>>
sweepVars == <<stage, todo, sum, swept>>
recordVars == <<seen, span, reports, lastPoll, still, calm, flow>>
pollVars == <<iface, valueVars, sweepVars, recordVars, faults>>

Kinds == {"local", "total"}
Events == {"llc", "lmem", "tmem", "rmem", "ipc"}

Fault == /\ faults < MaxFaults
         /\ faults' = faults + 1

Monus(a, b) == IF a > b THEN a - b ELSE 0

-----------------------------------------------------------------------------
ContextsOf(cs) == IF iface = "MSR" THEN {ClusterOf[c] : c \in cs} ELSE cs

(* What is read for the events of a group, and the order of the code. *)
Reads(e) == {s \in {"llc", "local", "total", "ipc"} :
               \/ s \in e
               \/ s = "local" /\ {"lmem", "rmem"} \intersect e # {}
               \/ s = "total" /\ {"tmem", "rmem"} \intersect e # {}}

Rank == [llc |-> 1, local |-> 2, total |-> 3, ipc |-> 4]

First(S) == {s \in S : \A t \in S : Rank[s] <= Rank[t]}
After(s) == {t \in Reads(event) : Rank[s] < Rank[t]}

(* An MSR counts modulo its width, a perf counter does not overflow. *)
Register(k, x) == IF iface = "MSR" THEN traffic[x][k] % Width ELSE traffic[x][k]
Turns(k, x) == IF iface = "MSR" THEN traffic[x][k] \div Width ELSE 0

(* Variants of the definitions below, each a slip the code could have had. *)
DeltaWithoutOverflow(old, new) == (new - old) % Word

DeltaSigned(old, new) == IF old > new THEN Width - old + new ELSE new - old

(* get_delta, in words: an overflow of the counter is taken into account   *)
(* once, whatever the number of counters in the sum.  MBM_MAX_VALUE is the *)
(* number of values of a register; the maximum of a word is one less.      *)
Delta(old, new) ==
  IF old > new THEN ((IF iface = "MSR" THEN Width ELSE Word - 1) - old + new) % Word
               ELSE new - old

NothingRead == [bytes |-> 0, turns |-> 0, exact |-> FALSE]

PollInit ==
  /\ iface \in {"MSR", "OS"}
  /\ event = {}
  /\ ctxs = {}
  /\ traffic = <<>>
  /\ pv = [local |-> 0, total |-> 0, dlocal |-> 0, dtotal |-> 0, dremote |-> 0]
  /\ validRead = FALSE
  /\ stage = "idle"
  /\ todo = {}
  /\ sum = 0
  /\ swept = NothingRead
  /\ seen = [k \in Kinds |-> NothingRead]
  /\ span = [k \in Kinds |-> NothingRead]
  /\ reports = 0
  /\ lastPoll = "none"
  /\ still = TRUE
  /\ calm = 0
  /\ flow = 0
  /\ faults = 0

(* A group starts to be monitored: an RMID keeps what it counted for its   *)
(* last user, a perf counter starts from 0.                                *)
StartGroup(cs, e) ==
  /\ event' = e
  /\ ctxs' = ContextsOf(cs)
  /\ \E before \in [ctxs' -> IF iface = "MSR" THEN Leftovers ELSE {0}] :
       traffic' = [x \in ctxs' |-> [k \in Kinds |-> before[x]]]
  /\ seen' = [k \in Kinds |-> [NothingRead EXCEPT !.exact = iface = "OS"]]
  /\ UNCHANGED <<iface, pv, validRead, sweepVars, span, reports, lastPoll, still, calm, flow>>

(* Memory traffic of a context, of a kind that the group counts; local     *)
(* traffic is part of the total.                                           *)
Traffic(x, k) ==
  /\ x \in ctxs
  /\ k \in Reads(event)
  /\ flow < MaxTraffic
  /\ flow' = flow + 1
  /\ traffic' = [traffic EXCEPT ![x] =
                   [j \in Kinds |-> IF j = "total" \/ k = "local" THEN @[j] + 1 ELSE @[j]]]
  /\ still' = (still /\ stage = "idle")
  /\ UNCHANGED <<iface, event, ctxs, pv, validRead, sweepVars, seen, span, reports,
                 lastPoll, calm, faults>>

-----------------------------------------------------------------------------
(* One of the things that are read; after the last one the poll has gone   *)
(* through.                                                                *)
Enter(s) == /\ stage' = s
            /\ todo' = IF s \in Kinds THEN ctxs ELSE {}
            /\ sum' = 0
            /\ swept' = [NothingRead EXCEPT !.exact = TRUE]

BeginPoll == /\ stage = "idle"
             /\ \E s \in First(Reads(event)) : Enter(s)
             /\ still' = TRUE
             /\ UNCHANGED <<iface, valueVars, seen, span, reports, lastPoll, calm, flow, faults>>

(* A read of one context; without one that is valid in three attempts the  *)
(* last value read is taken all the same (mon_read).                       *)
ReadContext(x) ==
  /\ x \in todo
  /\ \A y \in todo : x <= y
  /\ todo' = todo \ {x}
  /\ \E v \in {Register(stage, x)} \union (IF iface = "MSR" THEN Unavailable ELSE {}) :
       /\ IF v = Register(stage, x) THEN UNCHANGED faults ELSE Fault
       /\ sum' = (sum + v) % Word
       /\ swept' = [bytes |-> swept.bytes + traffic[x][stage],
                    turns |-> swept.turns + Turns(stage, x),
                    exact |-> swept.exact /\ v = Register(stage, x)]
  /\ UNCHANGED <<iface, valueVars, stage, recordVars>>

(* A variant of the definition below: the rest of the counters is taken *)
(* for the rest of what they moved by.                                  *)
StoredRestOfSums(k) ==
  LET d == Delta(pv[k], sum)
  IN IF k = "local"
     THEN [pv EXCEPT !.local = sum, !.dlocal = d]
     ELSE [pv EXCEPT !.total = sum, !.dtotal = d,
                     !.dremote = IF "rmem" \in event THEN Monus(sum, pv.local) ELSE @]

(* The values of a kind of bandwidth, when all its contexts are read. *)
Stored(k) ==
  LET d == Delta(pv[k], sum)
  IN IF k = "local"
     THEN [pv EXCEPT !.local = sum, !.dlocal = d]
     ELSE [pv EXCEPT !.total = sum, !.dtotal = d,
                     !.dremote = IF "rmem" \in event THEN Monus(d, pv.dlocal) ELSE @]

Recorded(k) == /\ seen' = [seen EXCEPT ![k] = swept]
               /\ span' = [span EXCEPT ![k] =
                    [bytes |-> swept.bytes - seen[k].bytes, turns |-> swept.turns - seen[k].turns,
                     exact |-> swept.exact /\ seen[k].exact]]

NoBandwidth(v) == [v EXCEPT !.dlocal = 0, !.dtotal = 0, !.dremote = 0]

(* A poll over MSRs reports no bandwidth the first time it goes through.   *)
Through(v) ==
  /\ pv' = IF iface = "MSR" /\ ~validRead THEN NoBandwidth(v) ELSE v
  /\ validRead' = (validRead \/ iface = "MSR")

(* The end of a stage. *)
StageDone ==
  /\ stage # "idle"
  /\ todo = {}
  /\ LET v == IF stage \in Kinds THEN Stored(stage) ELSE pv
     IN /\ IF stage \in Kinds THEN Recorded(stage) ELSE UNCHANGED <<seen, span>>
        /\ IF After(stage) # {}
           THEN /\ pv' = v
                /\ \E s \in First(After(stage)) : Enter(s)
                /\ UNCHANGED <<validRead, reports, lastPoll, calm>>
           ELSE /\ Through(v)
                /\ stage' = "idle"
                /\ reports' = IF reports < 2 THEN reports + 1 ELSE 2
                /\ lastPoll' = "through"
                /\ calm' = IF ~still THEN 0 ELSE IF calm < 2 THEN calm + 1 ELSE 2
                /\ sum' = 0
                /\ swept' = NothingRead
                /\ UNCHANGED todo
  /\ UNCHANGED <<iface, event, ctxs, traffic, still, flow, faults>>

(* A read fails: the poll is given up where it is, what it has stored      *)
(* before remains, and the caller hears of success.                        *)
ReadFails ==
  /\ stage # "idle"
  /\ Fault
  /\ stage' = "idle"
  /\ todo' = {}
  /\ sum' = 0
  /\ swept' = NothingRead
  /\ lastPoll' = "failed"
  /\ calm' = 0
  /\ UNCHANGED <<iface, valueVars, seen, span, reports, still, flow>>

Poll == StageDone \/ ReadFails \/ \E x \in ctxs : ReadContext(x)

-----------------------------------------------------------------------------
PollTypeOK ==
  /\ iface \in {"MSR", "OS"}
  /\ event \subseteq Events
  /\ traffic \in [ctxs -> [Kinds -> 0 .. Width - 1 + MaxTraffic]]
  /\ pv \in [{"local", "total", "dlocal", "dtotal", "dremote"} -> 0 .. Word - 1]
  /\ validRead \in BOOLEAN
  /\ stage \in {"idle", "llc", "local", "total", "ipc"}
  /\ todo \subseteq ctxs
  /\ sum \in 0 .. Word - 1
  /\ reports \in 0 .. 2 /\ calm \in 0 .. 2
  /\ lastPoll \in {"none", "through", "failed"}
  /\ faults \in 0 .. MaxFaults

(* What the sum of the counters can tell: one counter overflowed at most   *)
(* and all of them moved less than one counter holds.                      *)
Measurable(k) == span[k].exact /\ span[k].turns <= 1 /\ (iface = "MSR" => span[k].bytes < Width)

DeltaOf(k) == IF k = "local" THEN pv.dlocal ELSE pv.dtotal

(* The bandwidth that a poll reports after it went through is the traffic  *)
(* between the readings of this poll and those of the last poll that got   *)
(* so far, contexts read one after the other and overflow included,        *)
(* whatever polls failed in between and wherever; the first report over    *)
(* MSRs is 0 ("Report zero memory bandwidth with first read").             *)
ReportIsTraffic ==
  lastPoll = "through" /\ stage = "idle" =>
    \A k \in Kinds \intersect Reads(event) :
      IF iface = "MSR" /\ reports = 1 THEN DeltaOf(k) = 0
      ELSE Measurable(k) => DeltaOf(k) = span[k].bytes

(* The remote bandwidth is what is not local: two polls in a row that went *)
(* through and met no traffic while they read make it right again, however *)
(* far apart earlier polls had left the two readings it is made of.        *)
RemoteIsTheRest ==
  /\ "rmem" \in event
  /\ stage = "idle"
  /\ calm = 2
  /\ reports = 2
  /\ \A k \in Kinds : Measurable(k)
  => pv.dremote = span["total"].bytes - span["local"].bytes
=============================================================================
