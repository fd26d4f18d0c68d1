----------------------------- MODULE MonitorTool -----------------------------
(***************************************************************************)
(* The programs that monitor groups (pqos/monitor.c): "pqos", the          *)
(* monitoring commands of the command line tool with monitor_loop, where   *)
(* a group is a set of cores or a single process; "top", the same for the  *)
(* busiest processes of the machine; and "profiling", what main() of Muses *)
(* does with -p: it puts the cores of the online task in a class, monitors *)
(* them and writes a row of training data per poll (monitor_loop_quxm).    *)
(* The values polled are those of the first group of the table             *)
(* (PollValues).                                                           *)
(***************************************************************************)
EXTENDS PollValues, TopPids, SequencesExt

CONSTANTS Options,      \* lists of options of -m and -p: events and groups of
                        \* cores, or of a process each
          Available     \* events of the machine

All == "all"            \* PQOS_MON_EVENT_ALL: all bits, the union with it is itself

(* What a group may be: cores, or one process. *)
CoreGroups == (SUBSET Cores) \ {{}}
PidGroups == {{p} : p \in Pids}

ASSUME OptionsAssumption ==
  /\ Available \subseteq Events /\ Cores \intersect Pids = {} /\ Cores \subseteq Int
  /\ Options \subseteq Seq([events : SUBSET (Events \union {All}),
                           groups : Seq(CoreGroups \union PidGroups)])

VARIABLES program,      \* "pqos", "top" or "profiling"
          opts,         \* its options
          table,        \* sel_monitor_core_tab and sel_monitor_pid_tab: groups
                        \* with their events
          at,           \* the option and its group that it takes next
          pc,           \* where the program is
          moved,        \* cores it has put in the class of the online task
          started,      \* groups that are monitored
          stop,         \* stop_monitoring_loop
          refused,      \* history: a group could not be started
          gaveUp        \* history: it ended between set-up and loop

toolVars == <<program, opts, table, at, moved, started, refused, gaveUp>>
vars == <<pollVars, topVars, toolVars, pc, stop>>

Scanning == {"scan", "rescan", "refill", "fill", "chosen"}
Over == {"ended", "dead"}
InLoop == {"loop", "poll", "show", "sleep"}

-----------------------------------------------------------------------------
(* cmp_cgrps *)
Same(a, b) == a = b
Clash(a, b) == a \intersect b # {} /\ a # b

(* Variants of the definition below, each a slip the code could have had. *)
AddedFirstEvents(tab, e, cs) ==
  IF \E i \in DOMAIN tab : Same(tab[i].cores, cs)
  THEN tab
  ELSE Append(tab, [cores |-> cs, events |-> e])

(* A group of an option: its events go to the group of the same cores that *)
(* is in the table already, or it is a new one.                            *)
Added(tab, e, cs) ==
  IF \E i \in DOMAIN tab : Same(tab[i].cores, cs)
  THEN [i \in DOMAIN tab |-> IF Same(tab[i].cores, cs)
                             THEN [tab[i] EXCEPT !.events = @ \union e] ELSE tab[i]]
  ELSE Append(tab, [cores |-> cs, events |-> e])

Accepts(tab, cs) == \A i \in DOMAIN tab : ~Clash(tab[i].cores, cs)

(* The groups that are named, and those that have been taken so far. *)
Named == UNION {{o} \X DOMAIN opts[o].groups : o \in DOMAIN opts}
Taken == {q \in Named : q[1] < at.option \/ (q[1] = at.option /\ q[2] < at.group)}
GroupOf(q) == opts[q[1]].groups[q[2]]

InOrder == {s \in SetToSeqs(Cores) : \A i, j \in DOMAIN s : i < j => s[i] < s[j]}
OneEach(s) == [i \in DOMAIN s |-> [cores |-> {s[i]}, events |-> {All}]]

(* The events a group is started with: all there are, or those asked for   *)
(* and the counters of the core.                                           *)
EventsOf(g) == IF All \in g.events THEN Available
               ELSE g.events \union (Available \intersect {"ipc"})

Init == /\ PollInit
        /\ program \in {"pqos", "top", "profiling"}
        /\ program = "profiling" => iface = "MSR"
        /\ opts \in Options
        /\ program = "top" => iface = "OS" /\ opts = <<>>
        /\ IF program = "top" THEN TopInit ELSE NoProcesses
        /\ program = "profiling" => /\ Len(opts) = 1 /\ opts[1].events = {All}
                                    /\ Len(opts[1].groups) = 1 /\ opts[1].groups[1] \in CoreGroups
        /\ table = <<>>
        /\ at = [option |-> 1, group |-> 1]
        /\ pc = IF program = "top" THEN "scan" ELSE "parse"
        /\ moved = {}
        /\ started = {}
        /\ stop = FALSE
        /\ refused = FALSE
        /\ gaveUp = FALSE

Goto(l) == pc' = l

-----------------------------------------------------------------------------
(* selfn_monitor_top_pids.  A scan that cannot open /proc ends the search, *)
(* with nothing chosen.                                                    *)
ScanStep(here) ==
  /\ pc = here
  /\ \/ /\ Scan(here = "rescan")
        /\ UNCHANGED <<pc, faults>>
     \/ /\ ScanAgain
        /\ Goto(IF here # "scan" THEN "fill" ELSE IF stats = <<>> THEN "refill" ELSE "rescan")
        /\ UNCHANGED faults
     \/ /\ unread = Pids
        /\ Fault
        /\ Goto("chosen")
        /\ UNCHANGED topVars
  /\ UNCHANGED <<iface, valueVars, sweepVars, recordVars, toolVars, stop>>

Fill ==
  /\ pc = "fill"
  /\ IF unread = {} THEN Goto("chosen") /\ UNCHANGED topVars
                    ELSE FillTop /\ UNCHANGED pc
  /\ UNCHANGED <<pollVars, toolVars, stop>>

(* add_pid_for_monitoring, from the highest down.  With nothing chosen the *)
(* cores are monitored, as without options.                                *)
TakeTop ==
  /\ pc = "chosen"
  /\ \E s \in SetToSeqs(top) :
       /\ \A i, j \in DOMAIN s : i < j => ~Above(s[j], s[i])
       /\ IF s = <<>> THEN \E cs \in InOrder : table' = OneEach(cs)
                      ELSE table' = OneEach(s)
  /\ Goto("setup")
  /\ Forget
  /\ UNCHANGED <<pollVars, program, opts, at, moved, started, stop, refused, gaveUp>>

(* selfn_monitor_cores and selfn_monitor_pids, group by group; groups of   *)
(* cores that overlap end the program.                                     *)
Parse ==
  /\ pc = "parse"
  /\ at.option <= Len(opts)
  /\ LET o == opts[at.option]
     IN IF at.group > Len(o.groups)
        THEN /\ at' = [option |-> at.option + 1, group |-> 1]
             /\ UNCHANGED <<table, pc>>
        ELSE IF Accepts(table, o.groups[at.group])
        THEN /\ table' = Added(table, o.events, o.groups[at.group])
             /\ at' = [at EXCEPT !.group = @ + 1]
             /\ UNCHANGED pc
        ELSE Goto("ended") /\ UNCHANGED <<table, at>>
  /\ UNCHANGED <<topVars, pollVars, program, opts, moved, started, stop, refused, gaveUp>>

(* With no group named all the cores are monitored, each of its own. *)
ParseDone ==
  /\ pc = "parse"
  /\ at.option > Len(opts)
  /\ IF table = <<>> THEN \E cs \in InOrder : table' = OneEach(cs) ELSE UNCHANGED table
  /\ Goto(IF program = "profiling" THEN "assoc" ELSE "setup")
  /\ UNCHANGED <<topVars, pollVars, program, opts, at, moved, started, stop, refused, gaveUp>>

(* set_allocation_assoc, core by core; the first failure ends the program. *)
Associate ==
  /\ pc = "assoc"
  /\ \/ /\ moved = table[1].cores
        /\ Goto("setup")
        /\ UNCHANGED <<moved, faults>>
     \/ \E c \in table[1].cores \ moved :
          /\ moved' = moved \union {c}
          /\ UNCHANGED <<pc, faults>>
     \/ /\ moved # table[1].cores
        /\ Fault
        /\ Goto("ended")
        /\ UNCHANGED moved
  /\ UNCHANGED <<topVars, iface, valueVars, sweepVars, recordVars, program, opts, table, at, started, stop, refused, gaveUp>>

OfProcesses == \A i \in DOMAIN table : table[i].cores \subseteq Pids
Mixed == ~OfProcesses /\ \E i \in DOMAIN table : table[i].cores \subseteq Pids

(* monitor_setup: cores and processes at a time are refused, *)
SetupMixed ==
  /\ pc = "setup"
  /\ Mixed
  /\ Goto("ended")
  /\ UNCHANGED <<topVars, pollVars, toolVars, stop>>

(* else it goes group by group.  A group that is refused, a core of it     *)
(* being monitored already, a process gone or the interface without        *)
(* processes, ends the program; groups before it go on.                    *)
SetupGroup ==
  /\ pc = "setup"
  /\ ~Mixed
  /\ \E i \in Least(DOMAIN table \ started) :
        \/ /\ OfProcesses => iface = "OS"
           /\ started' = started \union {i}
           /\ IF i = 1 THEN StartGroup(table[1].cores, EventsOf(table[1]))
                       ELSE UNCHANGED <<iface, valueVars, sweepVars, recordVars>>
           /\ UNCHANGED <<pc, refused, faults>>
        \/ /\ IF OfProcesses THEN UNCHANGED faults ELSE Fault
           /\ refused' = TRUE
           /\ Goto("ended")
           /\ UNCHANGED <<started, iface, valueVars, sweepVars, recordVars>>
  /\ UNCHANGED <<topVars, program, opts, table, at, moved, stop, gaveUp>>

GiveUp == Fault /\ Goto("ended") /\ gaveUp' = TRUE

(* The loop begins with get_mon_arrays: no memory ends the program where   *)
(* it is, all its groups monitored.                                        *)
SetupDone ==
  /\ pc = "setup"
  /\ ~Mixed
  /\ started = DOMAIN table
  /\ \/ /\ Goto(IF program = "profiling" THEN "open" ELSE "loop")
        /\ UNCHANGED <<gaveUp, faults>>
     \/ GiveUp
  /\ UNCHANGED <<topVars, iface, valueVars, sweepVars, recordVars,
                 program, opts, table, at, moved, started, stop, refused>>

(* monitor_loop_quxm opens a counter for the first task of the cgroup.     *)
(* Without the counter the program ends in the same way; without the file  *)
(* it dies, as the result of fopen is not tested.                          *)
OpenCounter ==
  /\ pc = "open"
  /\ \/ Goto("loop") /\ UNCHANGED <<gaveUp, faults>>
     \/ GiveUp
     \/ Fault /\ Goto("dead") /\ UNCHANGED gaveUp
  /\ UNCHANGED <<topVars, iface, valueVars, sweepVars, recordVars,
                 program, opts, table, at, moved, started, stop, refused>>

-----------------------------------------------------------------------------
LoopTest ==
  /\ pc = "loop"
  /\ IF stop
     THEN Goto("stop") /\ UNCHANGED pollVars
     ELSE Goto("poll") /\ BeginPoll
  /\ UNCHANGED <<topVars, toolVars, stop>>

PollStep ==
  /\ pc = "poll"
  /\ Poll
  /\ Goto(IF stage' = "idle" THEN "show" ELSE "poll")
  /\ UNCHANGED <<topVars, toolVars, stop>>

(* The row of a poll.  For the profiling one more register is read, and    *)
(* files of /proc and of the cgroup, of which a missing one ends the loop  *)
(* or, where the result of fopen is not tested, the program.               *)
Show ==
  /\ pc = "show"
  /\ \/ /\ Goto(IF stop THEN "stop" ELSE "sleep")
        /\ UNCHANGED faults
     \/ /\ program = "profiling"
        /\ Fault
        /\ Goto("stop") \/ Goto("dead")
  /\ UNCHANGED <<topVars, iface, valueVars, sweepVars, recordVars, toolVars, stop>>

(* nanosleep, and the end of the monitoring time. *)
Sleep ==
  /\ pc = "sleep"
  /\ Goto("loop") \/ Goto("stop")
  /\ UNCHANGED <<topVars, pollVars, toolVars, stop>>

(* Variants of the stop below, each a slip the code could have had. *)
StopFirstGroup ==
  /\ pc = "stop"
  /\ started' = started \ {1}
  /\ Goto("ended")
  /\ UNCHANGED <<topVars, pollVars, program, opts, table, at, moved, stop, refused, gaveUp>>

StopAgain ==
  /\ pc = "stop"
  /\ IF started = {} THEN started' = DOMAIN table
     ELSE \E i \in started : (\A j \in started : i <= j) /\ started' = started \ {i}
  /\ UNCHANGED <<topVars, pollVars, program, opts, table, at, moved, pc, stop, refused, gaveUp>>

(* monitor_stop, group by group; the group is given up whatever the call   *)
(* returns.                                                                *)
StopGroups ==
  /\ pc = "stop"
  /\ IF started = {}
     THEN Goto("ended") /\ UNCHANGED started
     ELSE /\ \E i \in started : (\A j \in started : i <= j) /\ started' = started \ {i}
          /\ UNCHANGED pc
  /\ UNCHANGED <<topVars, pollVars, program, opts, table, at, moved, stop, refused, gaveUp>>

-----------------------------------------------------------------------------
(* Ctrl-C: the handler is in place from the start of the loop on; before,  *)
(* the program dies of it.                                                 *)
Interrupt ==
  /\ pc \notin Over
  /\ ~stop
  /\ IF pc \in InLoop \union {"stop"}
     THEN stop' = TRUE /\ UNCHANGED <<pc, topVars>>
     ELSE Goto("dead") /\ Forget /\ UNCHANGED stop
  /\ UNCHANGED <<pollVars, toolVars>>

(* Processes come and go while they are looked at. *)
Elsewhere == /\ pc \in {"rescan", "refill"}
             /\ Processes
             /\ UNCHANGED <<pollVars, toolVars, pc, stop>>

(* The cores move memory while the group is monitored. *)
Work ==
  /\ pc \in InLoop
  /\ \E x \in ctxs, k \in Kinds : Traffic(x, k)
  /\ UNCHANGED <<topVars, toolVars, pc, stop>>

Step == \/ ScanStep("scan") \/ ScanStep("rescan") \/ ScanStep("refill") \/ Fill \/ TakeTop
        \/ Parse \/ ParseDone \/ Associate \/ SetupMixed \/ SetupGroup \/ SetupDone \/ OpenCounter
        \/ LoopTest \/ PollStep \/ Show \/ Sleep \/ StopGroups

Next == Step \/ Interrupt \/ Work \/ Elsewhere

Spec == Init /\ [][Next]_vars

(* The program is sequential and each of its calls returns. *)
FairSpec == Spec /\ WF_vars(Step)

-----------------------------------------------------------------------------
TypeOK ==
  /\ PollTypeOK
  /\ program \in {"pqos", "top", "profiling"}
  /\ pc \in {"parse", "assoc", "setup", "open", "stop"} \union Scanning \union InLoop \union Over
  /\ table \in Seq([cores : CoreGroups \union PidGroups, events : SUBSET (Events \union {All})])
  /\ at \in [option : Nat \ {0}, group : Nat \ {0}]
  /\ moved \subseteq Cores
  /\ started \subseteq DOMAIN table
  /\ stop \in BOOLEAN /\ refused \in BOOLEAN /\ gaveUp \in BOOLEAN

(* While the options are taken and ever after, the table has every group   *)
(* they named so far once, with the events of all the options that named   *)
(* it, and no core in two groups (the library refuses a core that is       *)
(* monitored already); no group is set up before all are taken.            *)
TableIsWhatWasAsked ==
  /\ \A i, j \in DOMAIN table : i # j => table[i].cores \intersect table[j].cores = {}
  /\ Taken # {} => \A i \in DOMAIN table :
       table[i].events = UNION {opts[q[1]].events : q \in {r \in Taken : GroupOf(r) = table[i].cores}}
  /\ \A q \in Taken : \E i \in DOMAIN table : table[i].cores = GroupOf(q)
  /\ pc \notin {"parse"} \union Over => Taken = Named

(* The processes that are monitored are the busiest of those that were     *)
(* there all the time, whatever ran, ended or came in between; one whose   *)
(* name holds a space is not seen, or taken for something else.            *)
TopAreBusiest == pc = "chosen" /\ unread = {} => BusiestOf(top)

(* A program that ends by itself leaves no group monitored, however its    *)
(* loop came to an end.  Two ends that are not of the loop do: a group     *)
(* that is refused leaves those before it, and an exit() between set-up    *)
(* and loop leaves all of them.                                            *)
NothingKept == pc = "ended" /\ ~refused /\ ~gaveUp => started = {}

(* Ctrl-C in the loop stops the groups and ends the program, wherever in a *)
(* round it comes.                                                         *)
StopsWhenAsked == stop ~> pc \in Over
=============================================================================
