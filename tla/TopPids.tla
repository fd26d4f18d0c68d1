------------------------------ MODULE TopPids ------------------------------
(***************************************************************************)
(* How pqos finds the busiest processes of the machine (top-pids mode of   *)
(* pqos/monitor.c): it goes over /proc twice, a while apart, and takes the *)
(* processes whose ticks moved most.  Processes run, end and come to life  *)
(* all the while, and the number of one that ended is given to another.    *)
(* It takes their lines of /proc apart at spaces, also those that are in   *)
(* the name of a process.                                                  *)
(***************************************************************************)
EXTENDS Integers, FiniteSets

CONSTANTS Pids,         \* numbers of processes
          Ages,         \* seconds since a process was started
          MaxTop,       \* TOP_PROC_MAX
          MaxTicks      \* bound on the ticks of a process

ASSUME TopAssumption == /\ IsFiniteSet(Pids) /\ Pids \subseteq Nat /\ Ages \subseteq Nat
                        /\ MaxTop \in Nat \ {0} /\ MaxTicks \in Nat

VARIABLES procs,        \* for each number, its process
          stats,        \* pslist
          unread,       \* numbers the code has still to come to
          top,          \* top_procs
          did           \* history: the ticks shown at the first and at the
                        \* second reading, and by whom

topVars == <<procs, stats, unread, top, did>>

Least(S) == {p \in S : \A q \in S : p <= q}
Greatest(S) == {p \in S : \A q \in S : q <= p}

(* Two processes may have a number, one after the other. *)
Lives == 0 .. 1

(* It is no more, or is a zombie or stopped; "plain": there is no space in *)
(* its name.                                                               *)
Gone(l, plain) == [runs |-> FALSE, life |-> l, ticks |-> 0, age |-> 0, plain |-> plain]

Absent == [ticks |-> -1, life |-> 0, plain |-> FALSE]

TopInit ==
  /\ procs \in [Pids -> {Gone(0, b) : b \in BOOLEAN} \union
                        [runs : {TRUE}, life : {0}, ticks : 0 .. MaxTicks, age : Ages, plain : BOOLEAN]]
  /\ stats = <<>>
  /\ unread = Pids
  /\ top = {}
  /\ did = [p \in Pids |-> [first |-> Absent, second |-> Absent]]

-----------------------------------------------------------------------------
ProcessRuns(p) ==
  /\ procs[p].runs
  /\ procs[p].ticks < MaxTicks
  /\ procs' = [procs EXCEPT ![p].ticks = @ + 1]

ProcessEnds(p) == /\ procs[p].runs
                  /\ procs' = [procs EXCEPT ![p] = Gone(@.life, @.plain)]

(* It runs another program, or gives itself another name. *)
ProcessRenamed(p) == /\ procs[p].runs
                     /\ procs' = [procs EXCEPT ![p].plain = ~@]

(* One that is forked from now on is younger than any before. *)
ProcessStarts(p) ==
  /\ ~procs[p].runs
  /\ procs[p].life + 1 \in Lives
  /\ \E b \in BOOLEAN :
       procs' = [procs EXCEPT ![p] = [runs |-> TRUE, life |-> @.life + 1,
                                      ticks |-> 0, age |-> 0, plain |-> b]]

(* What becomes of a process between its two readings comes just before    *)
(* the second one: the readings of others do not depend on it.             *)
Processes == /\ unread # {}
             /\ \E p \in Least(unread) : \/ ProcessRuns(p) \/ ProcessEnds(p)
                                         \/ ProcessRenamed(p) \/ ProcessStarts(p)
             /\ UNCHANGED <<stats, unread, top, did>>

-----------------------------------------------------------------------------
(* fill_cpu_avg_ratio, as a fraction *)
Ratio(ticks, age) == IF age = 0 THEN <<0, 1>> ELSE <<ticks, age>>

(* get_pid_cputicks: what the columns of the line show as ticks, if the    *)
(* process is not ignored.  A process counts when it runs or sleeps        *)
(* (proc_stat_whitelist).  A space in its name moves the columns: its      *)
(* status is then read from its name, its ticks from numbers of something  *)
(* else.                                                                   *)
Ignored == -1
Readings(p) ==
  IF procs[p].plain THEN {IF procs[p].runs THEN procs[p].ticks ELSE Ignored}
                    ELSE {Ignored} \union 0 .. MaxTicks

(* Variants of the definition below, each a slip the code could have had. *)
NewStatValid(p, ticks) == [ticks_delta |-> ticks, valid |-> TRUE,
                           cpu_avg_ratio |-> Ratio(ticks, procs[p].age)]

(* add_proc_cpu_stat *)
NewStat(p, ticks) == [ticks_delta |-> ticks, valid |-> FALSE,
                      cpu_avg_ratio |-> Ratio(ticks, procs[p].age)]

(* update_proc_cpu_stat: ticks that went back are those of another process *)
UpdatedStat(s, ticks) ==
  IF ticks >= s.ticks_delta
  THEN [s EXCEPT !.ticks_delta = ticks - @, !.valid = TRUE]
  ELSE [ticks_delta |-> 0, valid |-> FALSE, cpu_avg_ratio |-> <<0, 1>>]

Shown(p, ticks) == [ticks |-> ticks, life |-> procs[p].life, plain |-> procs[p].plain]

TakeReading(p, ticks, initialized) ==
  /\ unread' = unread \ {p}
  /\ stats' = IF ticks = Ignored THEN stats
              ELSE IF ~initialized
              THEN [q \in DOMAIN stats \union {p} |-> IF q = p THEN NewStat(p, ticks) ELSE stats[q]]
              ELSE IF p \in DOMAIN stats
              THEN [stats EXCEPT ![p] = UpdatedStat(@, ticks)]
              ELSE stats
  /\ did' = IF ticks = Ignored THEN did
            ELSE IF ~initialized THEN [did EXCEPT ![p].first = Shown(p, ticks)]
            ELSE [did EXCEPT ![p].second = Shown(p, ticks)]

(* get_proc_pids_stats, number by number; a list that is empty is filled. *)
Scan(initialized) ==
  /\ \E p \in Least(unread) : \E ticks \in Readings(p) : TakeReading(p, ticks, initialized)
  /\ UNCHANGED <<procs, top>>

ScanAgain == /\ unread = {}
             /\ unread' = Pids
             /\ UNCHANGED <<procs, stats, top, did>>

Greater(r, s) == r[1] * s[2] > s[1] * r[2]

(* proc_stats_cmp *)
Above(p, q) ==
  \/ stats[p].ticks_delta > stats[q].ticks_delta
  \/ /\ stats[p].ticks_delta = stats[q].ticks_delta
     /\ Greater(stats[p].cpu_avg_ratio, stats[q].cpu_avg_ratio)

Lowest(q) == q \in top /\ \A r \in top : ~Above(q, r)

(* fill_top_procs, number by number, the last one of the list first: once  *)
(* the table is full the lowest entry, any of them, makes room for one     *)
(* above it.                                                               *)
FillTop ==
  /\ \E p \in Greatest(unread) :
        /\ unread' = unread \ {p}
        /\ IF p \notin DOMAIN stats THEN UNCHANGED top
           ELSE IF ~stats[p].valid THEN UNCHANGED top
           ELSE IF Cardinality(top) < MaxTop THEN top' = top \union {p}
           ELSE \E q \in {r \in top : Lowest(r)} :
                  top' = IF Above(p, q) THEN (top \ {q}) \union {p} ELSE top
  /\ UNCHANGED <<procs, stats, did>>

(* The list is freed; nothing looks at the processes any more. *)
Forget == /\ procs' = <<>>
          /\ stats' = <<>>
          /\ unread' = {}
          /\ top' = {}
          /\ did' = <<>>

NoProcesses == procs = <<>> /\ stats = <<>> /\ unread = {} /\ top = {} /\ did = <<>>

-----------------------------------------------------------------------------
ReadTwice(p) == did[p].first # Absent /\ did[p].second # Absent
Worked(p) == did[p].second.ticks - did[p].first.ticks
OneProcess(p) == ReadTwice(p) /\ did[p].first.life = did[p].second.life
Legible(p) == did[p].first.plain /\ did[p].second.plain

(* The numbers chosen were all seen at both readings, and no process that  *)
(* was there both times, without a space in its name, is passed over for   *)
(* one that did less.  A number that was given to another process counts   *)
(* by the ticks it shows; a process with a space in its name by what       *)
(* stands in their place, if it is seen at all.                            *)
BusiestOf(chosen) ==
  /\ \A p \in chosen : ReadTwice(p) /\ Worked(p) >= 0
  /\ \A p \in Pids \ chosen :
       OneProcess(p) /\ Legible(p) =>
         Cardinality(chosen) = MaxTop /\ \A q \in chosen : Worked(q) >= Worked(p)
=============================================================================
