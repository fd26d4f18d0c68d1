-------------------------- MODULE MonitorToolProofs --------------------------
(***************************************************************************)
(* The programs that monitor groups, for any cores, clusters, processes,   *)
(* options, widths of the counters and faults: the table is what was asked *)
(* for, the processes chosen are the busiest, the bandwidth reported is    *)
(* the traffic, and a program whose loop ends leaves no group monitored.   *)
(***************************************************************************)
EXTENDS MonitorTool, FiniteSetTheorems, TLAPS

-----------------------------------------------------------------------------
(* No group is monitored before the table is set up, none at all when      *)
(* cores and processes are mixed, and the loop is left with the groups     *)
(* stopped.                                                                *)
KeptInv == /\ pc \in {"parse", "assoc"} \union Scanning => started = {}
           /\ pc = "setup" /\ Mixed => started = {}
           /\ NothingKept

LEMMA KeptInit == Init => KeptInv
BY DEF Init, KeptInv, NothingKept, Scanning

LEMMA KeptStep == KeptInv /\ [Next]_vars => KeptInv'
<1> SUFFICES ASSUME KeptInv, [Next]_vars PROVE KeptInv'
  OBVIOUS
<1> USE DEF KeptInv, NothingKept, Scanning, Goto, toolVars, Over, InLoop
<1>1. CASE \/ ScanStep("scan") \/ ScanStep("rescan") \/ ScanStep("refill") \/ Fill
  BY <1>1 DEF ScanStep, Fill
<1>2. CASE TakeTop \/ Parse \/ ParseDone
  BY <1>2 DEF TakeTop, Parse, ParseDone
<1>3. CASE Associate
  BY <1>3 DEF Associate
<1>4. CASE SetupMixed \/ SetupGroup \/ SetupDone
  BY <1>4 DEF SetupMixed, SetupGroup, SetupDone, GiveUp, Mixed, OfProcesses
<1>5. CASE OpenCounter \/ LoopTest \/ PollStep \/ Show \/ Sleep \/ StopGroups
  BY <1>5 DEF GiveUp, OpenCounter, LoopTest, PollStep, Show, Sleep, StopGroups
<1>6. CASE Interrupt \/ Work \/ Elsewhere
  BY <1>6 DEF Interrupt, Work, Elsewhere, Mixed, OfProcesses
<1>7. CASE UNCHANGED vars
  BY <1>7 DEF vars, Mixed, OfProcesses
<1>8. QED
  BY <1>1, <1>2, <1>3, <1>4, <1>5, <1>6, <1>7 DEF Next, Step

(* A program that ends by itself, and not by exit() between its set-up and *)
(* its loop (get_mon_arrays, perf_event_open), leaves no group monitored,  *)
(* but for the groups before one that was refused (monitor_setup,          *)
(* monitor_stop).                                                          *)
THEOREM NothingKeptHolds == Spec => []NothingKept
<1>1. KeptInv => NothingKept
  BY DEF KeptInv
<1>2. QED
  BY <1>1, KeptInit, KeptStep, PTL DEF Spec

-----------------------------------------------------------------------------
(* What the search for the busiest processes goes by. *)
Proc == [runs : BOOLEAN, life : Nat, ticks : Nat, age : Nat, plain : BOOLEAN]
Stat == [ticks_delta : Nat, valid : BOOLEAN, cpu_avg_ratio : Nat \X Nat]
Sighting == [ticks : Int, life : Int, plain : BOOLEAN]

TopTypes == /\ procs \in [Pids -> Proc]
            /\ DOMAIN stats \subseteq Pids /\ stats \in [DOMAIN stats -> Stat]
            /\ did \in [Pids -> [first : Sighting, second : Sighting]]
            /\ unread \subseteq Pids

(* A number that was read once at most: if it is in the list, with the     *)
(* ticks it showed.                                                        *)
Once(p) == /\ did[p].second = Absent
           /\ (p \in DOMAIN stats) <=> (did[p].first # Absent)
           /\ p \in DOMAIN stats => ~stats[p].valid /\ stats[p].ticks_delta = did[p].first.ticks

(* A number shows the process that was read, with no fewer ticks if it     *)
(* showed its own, or a later process.                                     *)
GoesOn(p) == did[p].first # Absent =>
  /\ procs[p].life >= did[p].first.life
  /\ procs[p].life = did[p].first.life /\ procs[p].runs /\ did[p].first.plain =>
       procs[p].ticks >= did[p].first.ticks

(* What the list says of a number after both readings. *)
Settled(p) ==
  /\ (p \in DOMAIN stats) <=> (did[p].first # Absent)
  /\ OneProcess(p) /\ Legible(p) => Worked(p) >= 0
  /\ p \in DOMAIN stats =>
       /\ stats[p].valid <=> ReadTwice(p) /\ Worked(p) >= 0
       /\ stats[p].valid => stats[p].ticks_delta = Worked(p)

Counted == {p \in DOMAIN stats : stats[p].valid}

(* The table of the busiest: who counts and was come to is in it, or it is *)
(* full of those who did no less.                                          *)
TopSoFar ==
  /\ IsFiniteSet(top) /\ Cardinality(top) <= MaxTop
  /\ top \subseteq Counted \ unread
  /\ \A p \in Counted \ unread : p \notin top =>
       /\ Cardinality(top) = MaxTop
       /\ \A q \in top : stats[q].ticks_delta >= stats[p].ticks_delta

Sought == pc = "fill" \/ (pc = "chosen" /\ unread = {})

TopInv ==
  /\ pc \in Scanning => TopTypes
  /\ pc \in {"scan", "refill"} => \A p \in Pids : Once(p)
  /\ pc = "scan" => \A p \in Pids : GoesOn(p)
  /\ pc = "rescan" => \A p \in Pids : Settled(p) /\ (p \in unread => Once(p) /\ GoesOn(p))
  /\ pc \in {"scan", "rescan", "refill"} => top = {}
  /\ pc \in Scanning => top \subseteq Pids /\ IsFiniteSet(top)
  /\ Sought => TopSoFar /\ \A p \in Pids : Settled(p)

-----------------------------------------------------------------------------
LEMMA OnceIsSettled == ASSUME NEW p \in Pids, Once(p), did \in [Pids -> [first : Sighting, second : Sighting]]
                       PROVE  Settled(p)
BY DEF Once, Settled, ReadTwice, OneProcess, Worked

LEMMA TopInvInit == Init => TopInv
<1> SUFFICES ASSUME Init PROVE TopInv
  OBVIOUS
<1>1. CASE pc = "scan"
  <2>1. TopInit
    BY <1>1 DEF Init
  <2>2. procs \in [Pids -> Proc]
    <3>1. \A b \in BOOLEAN : Gone(0, b) \in Proc
      BY DEF Gone, Proc
    <3>2. [runs : {TRUE}, life : {0}, ticks : 0 .. MaxTicks, age : Ages, plain : BOOLEAN] \subseteq Proc
      <4>1. MaxTicks \in Nat /\ Ages \subseteq Nat
        BY TopAssumption
      <4>2. 0 .. MaxTicks \subseteq Nat /\ {TRUE} \subseteq BOOLEAN /\ {0} \subseteq Nat
        BY <4>1
      <4>3. QED
        BY <4>1, <4>2, Zenon DEF Proc
    <3>3. QED
      BY <2>1, <3>1, <3>2 DEF TopInit
  <2>3. stats = <<>> /\ unread = Pids /\ top = {}
        /\ did = [p \in Pids |-> [first |-> Absent, second |-> Absent]]
    BY <2>1 DEF TopInit
  <2>4. Absent \in Sighting
    BY DEF Absent, Sighting
  <2>5. TopTypes
    BY <2>2, <2>3, <2>4 DEF TopTypes
  <2>6. \A p \in Pids : Once(p) /\ GoesOn(p)
    BY <2>3 DEF Once, GoesOn
  <2>7. IsFiniteSet(top)
    BY <2>3, FS_EmptySet
  <2>8. QED
    BY <1>1, <2>3, <2>5, <2>6, <2>7 DEF TopInv, Sought
<1>2. CASE pc = "parse"
  BY <1>2 DEF TopInv, Scanning, Sought
<1>3. QED
  BY <1>1, <1>2 DEF Init

(* A process does what it does; those read before show no less. *)
LEMMA ElsewhereTop == TopInv /\ Elsewhere => TopInv'
<1> SUFFICES ASSUME TopInv, Elsewhere PROVE TopInv'
  OBVIOUS
<1>1. /\ pc \in {"rescan", "refill"} /\ pc' = pc
      /\ UNCHANGED <<stats, unread, top, did>>
      /\ TopTypes
  BY DEF Elsewhere, Processes, TopInv, Scanning
<1>2. PICK p \in Least(unread) : \/ ProcessRuns(p) \/ ProcessEnds(p)
                                \/ ProcessRenamed(p) \/ ProcessStarts(p)
  BY DEF Elsewhere, Processes
<1>3. p \in Pids /\ procs[p] \in Proc /\ procs \in [Pids -> Proc]
  BY <1>1, <1>2 DEF Least, TopTypes
<1>4. \E r \in Proc :
        /\ procs' = [procs EXCEPT ![p] = r]
        /\ \/ r.life = procs[p].life /\ (r.runs => procs[p].runs /\ r.ticks >= procs[p].ticks)
           \/ r.life > procs[p].life
  <2>1. CASE ProcessRuns(p)
    <3> DEFINE r == [procs[p] EXCEPT !.ticks = @ + 1]
    <3>1. r \in Proc /\ procs' = [procs EXCEPT ![p] = r]
      BY <2>1, <1>3 DEF ProcessRuns, Proc
    <3>2. r.life = procs[p].life /\ r.ticks >= procs[p].ticks /\ procs[p].runs
      BY <2>1, <1>3 DEF ProcessRuns, Proc
    <3>3. QED
      BY <3>1, <3>2
  <2>2. CASE ProcessEnds(p)
    <3> DEFINE r == Gone(procs[p].life, procs[p].plain)
    <3>1. procs' = [procs EXCEPT ![p] = r]
      BY <2>2 DEF ProcessEnds
    <3>2. r \in Proc /\ r.life = procs[p].life /\ ~r.runs
      BY <1>3 DEF Gone, Proc
    <3>3. QED
      BY <3>1, <3>2
  <2>3. CASE ProcessStarts(p)
    <3>1. PICK b \in BOOLEAN : procs' = [procs EXCEPT ![p] = [runs |-> TRUE, life |-> @.life + 1,
                                                              ticks |-> 0, age |-> 0, plain |-> b]]
      BY <2>3 DEF ProcessStarts
    <3> DEFINE r == [runs |-> TRUE, life |-> procs[p].life + 1, ticks |-> 0, age |-> 0, plain |-> b]
    <3>2. r \in Proc /\ r.life > procs[p].life
      BY <1>3 DEF Proc
    <3>3. QED
      BY <3>1, <3>2
  <2>4. CASE ProcessRenamed(p)
    <3> DEFINE r == [procs[p] EXCEPT !.plain = ~@]
    <3>1. r \in Proc /\ procs' = [procs EXCEPT ![p] = r]
      BY <2>4, <1>3 DEF ProcessRenamed, Proc
    <3>2. r.life = procs[p].life /\ r.ticks >= procs[p].ticks /\ procs[p].runs
      BY <2>4, <1>3 DEF ProcessRenamed, Proc
    <3>3. QED
      BY <3>1, <3>2
  <2>5. QED
    BY <1>2, <2>1, <2>2, <2>3, <2>4
<1>5. TopTypes'
  BY <1>1, <1>3, <1>4 DEF TopTypes
<1>6. \A q \in Pids : /\ Once(q)' <=> Once(q)
                      /\ Settled(q)' <=> Settled(q)
  BY <1>1 DEF Once, Settled, OneProcess, Legible, ReadTwice, Worked
<1>7. ASSUME NEW q \in Pids, GoesOn(q) PROVE GoesOn(q)'
  <2>1. procs'[q] \in Proc /\ did[q].first \in Sighting
    BY <1>5, <1>1 DEF TopTypes
  <2>2. \/ procs'[q] = procs[q]
        \/ /\ procs'[q].life = procs[q].life
           /\ procs'[q].runs => procs[q].runs /\ procs'[q].ticks >= procs[q].ticks
        \/ procs'[q].life > procs[q].life
    BY <1>3, <1>4
  <2>3. QED
    BY <2>1, <2>2, <1>1, <1>7 DEF GoesOn, TopTypes, Proc, Sighting
<1>8. QED
  BY <1>1, <1>5, <1>6, <1>7 DEF TopInv, Sought, Scanning

(* One number is read, for the first time or again. *)
LEMMA ScanTop ==
  ASSUME TopInv, NEW here \in {"scan", "rescan", "refill"}, pc = here, pc' = pc,
         Scan(here = "rescan")
  PROVE  TopInv'
<1>1. TopTypes /\ top = {} /\ top' = top /\ procs' = procs
  BY DEF TopInv, Scanning, Scan
<1>2. PICK p \in Least(unread) : \E n \in Readings(p) : TakeReading(p, n, here = "rescan")
  BY DEF Scan
<1>3. p \in Pids /\ p \in unread /\ procs[p] \in Proc
  BY <1>1, <1>2 DEF Least, TopTypes
<1>n. PICK n \in Readings(p) : TakeReading(p, n, here = "rescan")
  BY <1>2
<1>r. /\ unread' = unread \ {p}
      /\ stats' = IF n = Ignored THEN stats
                  ELSE IF here # "rescan"
                  THEN [q \in DOMAIN stats \union {p} |-> IF q = p THEN NewStat(p, n) ELSE stats[q]]
                  ELSE IF p \in DOMAIN stats
                  THEN [stats EXCEPT ![p] = UpdatedStat(@, n)]
                  ELSE stats
      /\ did' = IF n = Ignored THEN did
                ELSE IF here # "rescan" THEN [did EXCEPT ![p].first = Shown(p, n)]
                ELSE [did EXCEPT ![p].second = Shown(p, n)]
  BY <1>n DEF TakeReading
<1>c. n # Ignored => /\ n \in Nat
                     /\ procs[p].plain => procs[p].runs /\ n = procs[p].ticks
  BY <1>3, <1>n, TopAssumption DEF Readings, Ignored, Proc
<1>4. n # Ignored => /\ Shown(p, n) \in Sighting /\ Shown(p, n) # Absent
                     /\ Shown(p, n).ticks = n /\ Shown(p, n).life = procs[p].life
                     /\ Shown(p, n).plain = procs[p].plain
  BY <1>3, <1>c DEF Shown, Sighting, Absent, Proc
<1>5. n # Ignored => NewStat(p, n) \in Stat /\ ~NewStat(p, n).valid /\ NewStat(p, n).ticks_delta = n
  BY <1>3, <1>c DEF NewStat, Stat, Ratio, Proc
<1>6. ASSUME p \in DOMAIN stats, n # Ignored
      PROVE  LET u == UpdatedStat(stats[p], n)
             IN /\ u \in Stat
                /\ u.valid <=> n >= stats[p].ticks_delta
                /\ u.valid => u.ticks_delta = n - stats[p].ticks_delta
  <2>1. stats[p] \in Stat
    BY <1>1, <1>6 DEF TopTypes
  <2>2. stats[p].ticks_delta \in Nat /\ n \in Nat
    BY <2>1, <1>6, <1>c DEF Stat
  <2>3. CASE n >= stats[p].ticks_delta
    <3> DEFINE d == n - stats[p].ticks_delta
    <3>1. d \in Nat
      BY <2>2, <2>3
    <3>2. UpdatedStat(stats[p], n) = [stats[p] EXCEPT !.ticks_delta = d, !.valid = TRUE]
      BY <2>3 DEF UpdatedStat
    <3> HIDE DEF d
    <3> DEFINE u == [stats[p] EXCEPT !.ticks_delta = d, !.valid = TRUE]
    <3>3. u \in Stat /\ u.valid = TRUE /\ u.ticks_delta = d
      BY <2>1, <3>1 DEF Stat
    <3>4. QED
      BY <3>2, <3>3, <2>3 DEF d
  <2>4. CASE ~(n >= stats[p].ticks_delta)
    <3>1. UpdatedStat(stats[p], n) = [ticks_delta |-> 0, valid |-> FALSE, cpu_avg_ratio |-> <<0, 1>>]
      BY <2>4 DEF UpdatedStat
    <3>2. QED
      BY <3>1, <2>4 DEF Stat
  <2>5. QED
    BY <2>3, <2>4
<1>7. TopTypes'
  <2>1. did' \in [Pids -> [first : Sighting, second : Sighting]]
    BY <1>1, <1>r, <1>3, <1>4 DEF TopTypes
  <2>2. DOMAIN stats' \subseteq Pids /\ stats' \in [DOMAIN stats' -> Stat]
    BY <1>1, <1>r, <1>3, <1>5, <1>6 DEF TopTypes
  <2>3. QED
    BY <1>1, <1>r, <2>1, <2>2 DEF TopTypes
<1>8. \A q \in Pids \ {p} : /\ did'[q] = did[q]
                            /\ (q \in DOMAIN stats') <=> (q \in DOMAIN stats)
                            /\ q \in DOMAIN stats => stats'[q] = stats[q]
  BY <1>1, <1>r, <1>3 DEF TopTypes
<1>9. \A q \in Pids \ {p} : /\ Once(q) => Once(q)'
                            /\ GoesOn(q) => GoesOn(q)'
                            /\ Settled(q) => Settled(q)'
  BY <1>1, <1>8 DEF Once, GoesOn, Settled, OneProcess, Legible, ReadTwice, Worked
<1>10. CASE n = Ignored
  <2>1. UNCHANGED <<stats, did, procs>>
    BY <1>10, <1>1, <1>r
  <2>2. /\ Once(p) => Once(p)'
        /\ GoesOn(p) => GoesOn(p)'
        /\ Settled(p) => Settled(p)'
    BY <2>1 DEF Once, GoesOn, Settled, OneProcess, Legible, ReadTwice, Worked
  <2>3. QED
    BY <1>1, <1>r, <1>7, <1>9, <2>2 DEF TopInv, Sought, Scanning
<1>11. CASE n # Ignored /\ here # "rescan"
  <2>1. Once(p)
    BY <1>11, <1>3 DEF TopInv
  <2>2. /\ did'[p].first = Shown(p, n) /\ did'[p].second = did[p].second
        /\ p \in DOMAIN stats' /\ stats'[p] = NewStat(p, n)
    BY <1>11, <1>1, <1>r, <1>3 DEF TopTypes
  <2>3. Once(p)'
    BY <2>1, <2>2, <1>4, <1>5, <1>11 DEF Once
  <2>4. GoesOn(p)'
    BY <2>2, <1>1, <1>3, <1>4, <1>11, <1>c DEF GoesOn, Proc
  <2>5. QED
    BY <1>1, <1>r, <1>7, <1>9, <1>11, <2>3, <2>4 DEF TopInv, Sought, Scanning
<1>12. CASE n # Ignored /\ here = "rescan"
  <2>1. Once(p) /\ GoesOn(p) /\ Settled(p)
    BY <1>12, <1>3 DEF TopInv
  <2>2. /\ did'[p].second = Shown(p, n) /\ did'[p].first = did[p].first
        /\ (p \in DOMAIN stats') <=> (p \in DOMAIN stats)
        /\ p \in DOMAIN stats => stats'[p] = UpdatedStat(stats[p], n)
    BY <1>12, <1>1, <1>r, <1>3 DEF TopTypes
  <2>3. did[p].first \in Sighting
    BY <1>1, <1>3 DEF TopTypes
  <2>4. Settled(p)'
    <3>1. (p \in DOMAIN stats') <=> (did'[p].first # Absent)
      BY <2>1, <2>2 DEF Once
    <3>2. ASSUME OneProcess(p)', Legible(p)' PROVE Worked(p)' >= 0
      <4>1. /\ did[p].first # Absent /\ did[p].first.plain
            /\ did[p].first.life = procs[p].life /\ procs[p].plain
        BY <3>2, <2>2, <1>4, <1>12 DEF OneProcess, ReadTwice, Legible
      <4>2. procs[p].runs /\ n = procs[p].ticks /\ n \in Nat
        BY <4>1, <1>12, <1>c
      <4>3. n >= did[p].first.ticks
        BY <4>1, <4>2, <2>1 DEF GoesOn
      <4>4. Worked(p)' = n - did[p].first.ticks
        BY <2>2, <1>4, <1>12 DEF Worked
      <4>5. QED
        BY <4>2, <4>3, <4>4, <2>3 DEF Sighting
    <3>3. ASSUME p \in DOMAIN stats'
          PROVE  /\ stats'[p].valid <=> ReadTwice(p)' /\ Worked(p)' >= 0
                 /\ stats'[p].valid => stats'[p].ticks_delta = Worked(p)'
      BY <3>3, <2>1, <2>2, <2>3, <1>3, <1>4, <1>6, <1>12, <1>c DEF ReadTwice, Worked, Once, Proc, Sighting
    <3>4. QED
      BY <3>1, <3>2, <3>3 DEF Settled
  <2>5. QED
    BY <1>1, <1>r, <1>7, <1>9, <1>12, <2>4 DEF TopInv, Sought, Scanning
<1>13. QED
  BY <1>10, <1>11, <1>12

LEMMA ScanStepTop ==
  ASSUME TopInv, NEW here \in {"scan", "rescan", "refill"}, ScanStep(here)
  PROVE  TopInv'
<1>1. pc = here /\ TopTypes /\ top = {} /\ IsFiniteSet(top)
  BY DEF ScanStep, TopInv, Scanning
<1>2. CASE Scan(here = "rescan") /\ UNCHANGED pc
  BY <1>1, <1>2, ScanTop
<1>3. CASE ScanAgain /\ Goto(IF here # "scan" THEN "fill" ELSE IF stats = <<>> THEN "refill" ELSE "rescan")
  <2>1. UNCHANGED <<procs, stats, top, did>> /\ unread = {} /\ unread' = Pids
    BY <1>3 DEF ScanAgain
  <2>2. TopTypes'
    BY <1>1, <2>1 DEF TopTypes
  <2>3. \A p \in Pids : /\ Once(p) => Once(p)' /\ Settled(p)
                        /\ GoesOn(p) => GoesOn(p)'
                        /\ Settled(p) => Settled(p)'
    <3>1. \A p \in Pids : Once(p) => Settled(p)
      BY <1>1, OnceIsSettled DEF TopTypes
    <3>2. QED
      BY <2>1, <3>1 DEF Once, GoesOn, Settled, OneProcess, Legible, ReadTwice, Worked
  <2>4. \A p \in Pids : Settled(p)'
    BY <1>1, <2>3 DEF TopInv
  <2>5. TopSoFar'
    BY <1>1, <2>1, FS_EmptySet, TopAssumption DEF TopSoFar, Counted, TopTypes
  <2>6. QED
    BY <1>1, <1>3, <2>1, <2>2, <2>3, <2>4, <2>5 DEF TopInv, Sought, Scanning, Goto
<1>4. CASE unread = Pids /\ Goto("chosen") /\ UNCHANGED topVars
  <2>1. TopTypes'
    BY <1>1, <1>4 DEF TopTypes, topVars
  <2>2. unread' = {} => TopSoFar' /\ \A p \in Pids : Settled(p)'
    BY <1>1, <1>4, FS_EmptySet, TopAssumption DEF TopSoFar, Counted, TopTypes, topVars
  <2>3. QED
    BY <1>1, <1>4, <2>1, <2>2 DEF TopInv, Sought, Scanning, Goto, topVars
<1>5. QED
  BY <1>2, <1>3, <1>4 DEF ScanStep

(* One number is come to, and makes room for itself if it did more. *)
LEMMA FillStepTop == TopInv /\ Fill => TopInv'
<1> SUFFICES ASSUME TopInv, Fill PROVE TopInv'
  OBVIOUS
<1>1. pc = "fill" /\ TopTypes /\ TopSoFar /\ top \subseteq Pids /\ \A p \in Pids : Settled(p)
  BY DEF Fill, TopInv, Scanning, Sought
<1>2. CASE unread = {} /\ Goto("chosen") /\ UNCHANGED topVars
  <2>1. TopTypes' /\ TopSoFar'
    BY <1>1, <1>2 DEF TopTypes, TopSoFar, Counted, topVars
  <2>2. \A p \in Pids : Settled(p)'
    BY <1>1, <1>2 DEF Settled, OneProcess, Legible, ReadTwice, Worked, topVars
  <2>3. QED
    BY <1>1, <1>2, <2>1, <2>2 DEF TopInv, TopSoFar, Sought, Scanning, Goto, topVars
<1>3. CASE FillTop /\ UNCHANGED pc
  <2>1. PICK p \in Greatest(unread) :
          /\ unread' = unread \ {p}
          /\ IF p \notin DOMAIN stats THEN UNCHANGED top
             ELSE IF ~stats[p].valid THEN UNCHANGED top
             ELSE IF Cardinality(top) < MaxTop THEN top' = top \union {p}
             ELSE \E q \in {r \in top : Lowest(r)} :
                    top' = IF Above(p, q) THEN (top \ {q}) \union {p} ELSE top
    BY <1>3 DEF FillTop
  <2>2. UNCHANGED <<procs, stats, did>> /\ p \in unread /\ p \in Pids
    BY <1>1, <1>3, <2>1 DEF FillTop, Greatest, TopTypes
  <2>3. TopTypes' /\ Counted' = Counted
    BY <1>1, <2>1, <2>2 DEF TopTypes, Counted
  <2>4. \A x \in Pids : Settled(x)'
    BY <1>1, <2>2 DEF Settled, OneProcess, Legible, ReadTwice, Worked
  <2>5. \A x \in Counted : stats[x].ticks_delta \in Nat
    BY <1>1 DEF TopTypes, Counted, Stat
  <2>6. Cardinality(top) \in Nat /\ MaxTop \in Nat
    BY <1>1, FS_CardinalityType, TopAssumption DEF TopSoFar
  <2>7. TopSoFar'
    <3>1. CASE p \notin Counted
      <4>1. top' = top /\ Counted \ unread' = Counted \ unread
        BY <3>1, <2>1 DEF Counted
      <4>2. QED
        BY <4>1, <1>1, <2>2, <2>3 DEF TopSoFar
    <3>2. CASE p \in Counted /\ Cardinality(top) < MaxTop
      <4>1. top' = top \union {p} /\ p \notin top
        BY <3>2, <2>1, <2>2, <1>1 DEF Counted, TopSoFar
      <4>2. IsFiniteSet(top') /\ Cardinality(top') = Cardinality(top) + 1
        BY <4>1, <1>1, FS_AddElement DEF TopSoFar
      <4>3. top' \subseteq Counted \ unread'
        BY <3>2, <4>1, <1>1, <2>1 DEF TopSoFar
      <4>4. \A x \in Counted \ unread' : x \in top'
        BY <3>2, <4>1, <1>1, <2>1, <2>6 DEF TopSoFar
      <4>5. QED
        BY <3>2, <4>2, <4>3, <4>4, <2>3, <2>6 DEF TopSoFar
    <3>3. CASE p \in Counted /\ Cardinality(top) >= MaxTop
      <4>1. PICK q \in top : Lowest(q) /\ top' = IF Above(p, q) THEN (top \ {q}) \union {p} ELSE top
        BY <3>3, <2>1, <2>6 DEF Counted
      <4>2. \A r \in top : stats[q].ticks_delta <= stats[r].ticks_delta
        BY <4>1, <1>1, <2>5 DEF Lowest, Above, TopSoFar
      <4>3. Cardinality(top) = MaxTop
        BY <3>3, <1>1, <2>6 DEF TopSoFar
      <4>4. CASE ~Above(p, q)
        <5>1. top' = top /\ p \notin top
          BY <4>1, <4>4, <2>2, <1>1 DEF TopSoFar
        <5>2. \A r \in top : stats[p].ticks_delta <= stats[r].ticks_delta
          BY <3>3, <4>1, <4>2, <4>4, <1>1, <2>5 DEF Above, TopSoFar
        <5>3. QED
          BY <5>1, <5>2, <4>3, <3>3, <1>1, <2>1, <2>2, <2>3 DEF TopSoFar
      <4>5. CASE Above(p, q)
        <5>1. top' = (top \ {q}) \union {p} /\ p \notin top
          BY <4>1, <4>5, <2>2, <1>1 DEF TopSoFar
        <5>2. stats[p].ticks_delta >= stats[q].ticks_delta
          BY <3>3, <4>1, <4>5, <1>1, <2>5 DEF Above, TopSoFar
        <5>3. IsFiniteSet(top \ {q}) /\ Cardinality(top \ {q}) = Cardinality(top) - 1
          BY <4>1, <1>1, FS_RemoveElement DEF TopSoFar
        <5>4. IsFiniteSet(top') /\ Cardinality(top') = MaxTop
          <6>1. p \notin top \ {q}
            BY <5>1
          <6>2. IsFiniteSet((top \ {q}) \union {p})
                /\ Cardinality((top \ {q}) \union {p}) = Cardinality(top \ {q}) + 1
            BY <5>3, <6>1, FS_AddElement
          <6>3. QED
            BY <5>1, <5>3, <6>2, <4>3, <2>6
        <5>5. top' \subseteq Counted \ unread'
          BY <3>3, <5>1, <1>1, <2>1 DEF TopSoFar
        <5>6. ASSUME NEW x \in Counted \ unread', x \notin top', NEW r \in top'
              PROVE  stats[r].ticks_delta >= stats[x].ticks_delta
          <6>1. x # p /\ x \in Counted \ unread
            BY <5>6, <5>1, <2>1
          <6>2. x = q \/ x \notin top
            BY <5>6, <5>1
          <6>3. stats[q].ticks_delta >= stats[x].ticks_delta
            BY <6>1, <6>2, <4>1, <1>1, <2>5 DEF TopSoFar
          <6>4. r = p \/ r \in top
            BY <5>6, <5>1
          <6>5. stats[r].ticks_delta >= stats[q].ticks_delta
            BY <6>4, <5>2, <4>2
          <6>6. r \in Counted
            BY <5>5
          <6>7. q \in Counted
            BY <4>1, <1>1 DEF TopSoFar
          <6>8. QED
            BY <6>1, <6>3, <6>5, <6>6, <6>7, <2>5
        <5>7. QED
          BY <5>4, <5>5, <5>6, <2>2, <2>3, <2>6 DEF TopSoFar
      <4>6. QED
        BY <4>4, <4>5
    <3>4. QED
      BY <3>1, <3>2, <3>3, <2>6
  <2>8. top' \subseteq Pids
    BY <2>3, <2>7 DEF TopSoFar, Counted, TopTypes
  <2>9. QED
    BY <1>1, <1>3, <2>3, <2>4, <2>7, <2>8 DEF TopInv, TopSoFar, Sought, Scanning
<1>4. QED
  BY <1>2, <1>3 DEF Fill

LEMMA TopStep == TopInv /\ [Next]_vars => TopInv'
<1> SUFFICES ASSUME TopInv, [Next]_vars PROVE TopInv'
  OBVIOUS
<1>1. CASE ScanStep("scan") \/ ScanStep("rescan") \/ ScanStep("refill")
  BY <1>1, ScanStepTop
<1>2. CASE Fill
  BY <1>2, FillStepTop
<1>3. CASE Elsewhere
  BY <1>3, ElsewhereTop
<1>4. ASSUME pc' \notin Scanning PROVE TopInv'
  BY <1>4 DEF TopInv, Scanning, Sought
<1>5. CASE \/ TakeTop \/ Parse \/ ParseDone \/ Associate \/ SetupMixed \/ SetupGroup \/ SetupDone
           \/ OpenCounter \/ LoopTest \/ PollStep \/ Show \/ Sleep \/ StopGroups \/ Work
  <2>1. CASE TakeTop \/ Parse \/ ParseDone \/ Associate \/ SetupMixed \/ SetupGroup
    BY <1>4, <2>1 DEF TakeTop, Parse, ParseDone, Associate, SetupMixed, SetupGroup, Goto, Scanning
  <2>2. CASE SetupDone \/ OpenCounter
    BY <1>4, <2>2 DEF SetupDone, OpenCounter, GiveUp, Goto, Scanning
  <2>3. CASE LoopTest \/ PollStep \/ Show \/ Sleep \/ StopGroups \/ Work
    BY <1>4, <2>3 DEF LoopTest, PollStep, Show, Sleep, StopGroups, Work, Goto, InLoop, Scanning
  <2>4. QED
    BY <1>5, <2>1, <2>2, <2>3
<1>6. CASE Interrupt
  BY <1>4, <1>6 DEF Interrupt, Goto, InLoop, Scanning
<1>7. CASE UNCHANGED vars
  <2>1. UNCHANGED <<pc, procs, stats, unread, top, did>>
    BY <1>7 DEF vars, topVars
  <2>2. \A p \in Pids : /\ Once(p)' <=> Once(p)
                        /\ GoesOn(p)' <=> GoesOn(p)
                        /\ Settled(p)' <=> Settled(p)
    BY <2>1 DEF Once, GoesOn, Settled, OneProcess, Legible, ReadTwice, Worked
  <2>3. (TopTypes' <=> TopTypes) /\ (TopSoFar' <=> TopSoFar)
    BY <2>1 DEF TopTypes, TopSoFar, Counted
  <2>4. QED
    BY <2>1, <2>2, <2>3 DEF TopInv, Sought
<1>8. QED
  BY <1>1, <1>2, <1>3, <1>5, <1>6, <1>7 DEF Next, Step

LEMMA TopInvHolds == Spec => []TopInv
BY TopInvInit, TopStep, PTL DEF Spec

(* The processes that are monitored are the busiest of those that were     *)
(* there all the time without a space in their names                       *)
(* (selfn_monitor_top_pids), whatever ran, ended or came in between,       *)
(* however many there are, and whatever get_pid_cputicks reads in the      *)
(* lines of those with a space.                                            *)
THEOREM TopAreBusiestHolds == Spec => []TopAreBusiest
<1>1. TopInv => TopAreBusiest
  <2> SUFFICES ASSUME TopInv, pc = "chosen", unread = {} PROVE BusiestOf(top)
    BY DEF TopAreBusiest
  <2>1. TopSoFar /\ TopTypes /\ \A p \in Pids : Settled(p)
    BY DEF TopInv, Sought, Scanning
  <2>2. \A p \in Pids : OneProcess(p) /\ Legible(p) => p \in Counted
    BY <2>1 DEF Settled, Counted, OneProcess, ReadTwice
  <2>3. \A p \in Counted : ReadTwice(p) /\ Worked(p) >= 0 /\ stats[p].ticks_delta = Worked(p)
    BY <2>1 DEF Settled, Counted, TopTypes
  <2>4. QED
    BY <2>1, <2>2, <2>3 DEF BusiestOf, TopSoFar
<1>2. QED
  BY <1>1, TopInvHolds, PTL

-----------------------------------------------------------------------------
Entry == [cores : CoreGroups \union PidGroups, events : SUBSET (Events \union {All})]
Option == [events : SUBSET (Events \union {All}), groups : Seq(CoreGroups \union PidGroups)]

NoCoreTwice == \A i, j \in DOMAIN table : i # j => table[i].cores \intersect table[j].cores = {}

EventsAsked == \A i \in DOMAIN table : table[i].events =
  UNION {opts[q[1]].events : q \in {r \in Taken : GroupOf(r) = table[i].cores}}

EveryGroupTaken == \A q \in Taken : \E i \in DOMAIN table : table[i].cores = GroupOf(q)

(* The table is what the options taken so far ask for; it is empty before  *)
(* the first group.                                                        *)
TableInv ==
  /\ opts \in Seq(Option)
  /\ table \in Seq(Entry)
  /\ at \in [option : Nat \ {0}, group : Nat \ {0}]
  /\ pc = "parse" /\ Taken = {} => table = <<>>
  /\ NoCoreTwice
  /\ Taken # {} => EventsAsked
  /\ EveryGroupTaken
  /\ pc \in Scanning => opts = <<>>
  /\ pc \notin {"parse"} \union Over => Taken = Named

-----------------------------------------------------------------------------
LEMMA NamedMember ==
  ASSUME NEW q
  PROVE  q \in Named <=> \E o \in DOMAIN opts : \E g \in DOMAIN opts[o].groups : q = <<o, g>>
BY DEF Named

LEMMA GroupType ==
  ASSUME opts \in Seq(Option), NEW o \in DOMAIN opts
  PROVE  /\ opts[o] \in Option /\ opts[o].events \in SUBSET (Events \union {All})
         /\ Len(opts[o].groups) \in Nat /\ DOMAIN opts[o].groups = 1 .. Len(opts[o].groups)
         /\ \A g \in DOMAIN opts[o].groups : opts[o].groups[g] \in CoreGroups \union PidGroups
<1>1. opts[o] \in Option
  OBVIOUS
<1>2. opts[o].groups \in Seq(CoreGroups \union PidGroups) /\ opts[o].events \in SUBSET (Events \union {All})
  BY <1>1 DEF Option
<1>3. QED
  BY <1>1, <1>2

LEMMA NothingToAsk == ASSUME opts = <<>> PROVE Named = {} /\ Taken = {}
<1>1. \A q : q \notin Named
  BY NamedMember
<1>2. QED
  BY <1>1 DEF Taken

(* One entry for each of a set, of a single core or process each. *)
LEMMA OneEachType ==
  ASSUME NEW S, S \subseteq Cores \/ S \subseteq Pids, IsFiniteSet(S), NEW s \in SetToSeqs(S)
  PROVE  /\ OneEach(s) \in Seq(Entry)
         /\ DOMAIN OneEach(s) = 1 .. Cardinality(S)
         /\ \A i \in DOMAIN OneEach(s) : OneEach(s)[i].cores = {s[i]} /\ s[i] \in S
         /\ \A i, j \in DOMAIN OneEach(s) : i # j => s[i] # s[j]
<1>1. /\ DOMAIN s = 1 .. Cardinality(S) /\ \A i \in DOMAIN s : s[i] \in S
      /\ \A i, j \in DOMAIN s : i # j => s[i] # s[j]
  BY DEF SetToSeqs
<1>2. Cardinality(S) \in Nat
  BY FS_CardinalityType
<1>3. \A i \in DOMAIN s : [cores |-> {s[i]}, events |-> {All}] \in Entry
  <2> SUFFICES ASSUME NEW i \in DOMAIN s PROVE [cores |-> {s[i]}, events |-> {All}] \in Entry
    OBVIOUS
  <2>1. {s[i]} \in CoreGroups \union PidGroups
    <3>1. s[i] \in S
      BY <1>1
    <3>2. s[i] \in Cores => {s[i]} \in CoreGroups
      BY DEF CoreGroups
    <3>3. s[i] \in Pids => {s[i]} \in PidGroups
      BY DEF PidGroups
    <3>4. QED
      BY <3>1, <3>2, <3>3
  <2>2. {All} \in SUBSET (Events \union {All})
    OBVIOUS
  <2>3. QED
    BY <2>1, <2>2 DEF Entry
<1>4. OneEach(s) = [i \in DOMAIN s |-> [cores |-> {s[i]}, events |-> {All}]]
  BY DEF OneEach
<1>5. DOMAIN OneEach(s) = 1 .. Cardinality(S)
      /\ \A i \in DOMAIN s : OneEach(s)[i] = [cores |-> {s[i]}, events |-> {All}]
  BY <1>1, <1>4
<1>6. OneEach(s) \in Seq(Entry)
  <2>1. OneEach(s) \in [1 .. Cardinality(S) -> Entry]
    BY <1>1, <1>3, <1>4
  <2>2. QED
    BY <1>2, <2>1
<1>7. QED
  BY <1>1, <1>5, <1>6

LEMMA OneEachTable ==
  ASSUME NEW S, S \subseteq Cores \/ S \subseteq Pids, IsFiniteSet(S), NEW s \in SetToSeqs(S),
         table' = OneEach(s)
  PROVE  table' \in Seq(Entry) /\ NoCoreTwice'
BY OneEachType DEF NoCoreTwice

LEMMA AllCoresTable ==
  ASSUME \E cs \in InOrder : table' = OneEach(cs)
  PROVE  table' \in Seq(Entry) /\ NoCoreTwice' /\ table' # <<>>
<1>1. PICK cs \in SetToSeqs(Cores) : table' = OneEach(cs)
  BY DEF InOrder
<1>2. Cardinality(Cores) \in Nat /\ Cardinality(Cores) # 0
  BY CoresAssumption, FS_EmptySet, FS_CardinalityType
<1>3. DOMAIN OneEach(cs) = 1 .. Cardinality(Cores)
  BY CoresAssumption, OneEachType
<1>4. QED
  BY <1>1, <1>2, <1>3, OneEachTable, CoresAssumption

-----------------------------------------------------------------------------
(* What a group that is accepted does to a table of so many entries. *)
LEMMA AddedTable ==
  ASSUME table \in Seq(Entry), NEW e \in SUBSET (Events \union {All}),
         NEW cs \in CoreGroups \union PidGroups, Accepts(table, cs), NoCoreTwice
  PROVE  /\ Added(table, e, cs) \in Seq(Entry)
         /\ \A i, j \in DOMAIN Added(table, e, cs) :
              i # j => Added(table, e, cs)[i].cores \intersect Added(table, e, cs)[j].cores = {}
         /\ Added(table, e, cs) # <<>>
         /\ \A i \in DOMAIN table : /\ i \in DOMAIN Added(table, e, cs)
                                    /\ Added(table, e, cs)[i].cores = table[i].cores
                                    /\ Added(table, e, cs)[i].events =
                                         IF table[i].cores = cs THEN table[i].events \union e
                                                                ELSE table[i].events
         /\ \E i \in DOMAIN Added(table, e, cs) : Added(table, e, cs)[i].cores = cs
         /\ \A i \in DOMAIN Added(table, e, cs) : i \notin DOMAIN table =>
              /\ Added(table, e, cs)[i] = [cores |-> cs, events |-> e]
              /\ \A j \in DOMAIN table : table[j].cores # cs
<1> DEFINE new == [cores |-> cs, events |-> e]
           more(i) == [table[i] EXCEPT !.events = @ \union e]
<1>1. new \in Entry /\ new.cores = cs /\ new.events = e
  BY DEF Entry
<1>2. \A i \in DOMAIN table : /\ table[i] \in Entry
                              /\ table[i].cores \intersect cs = {} \/ table[i].cores = cs
  BY DEF Accepts, Clash
<1>3. \A i \in DOMAIN table : more(i) \in Entry /\ more(i).cores = table[i].cores
                              /\ more(i).events = table[i].events \union e
  BY <1>2 DEF Entry
<1>4. CASE \E i \in DOMAIN table : Same(table[i].cores, cs)
  <2> DEFINE tab == [i \in DOMAIN table |-> IF Same(table[i].cores, cs) THEN more(i) ELSE table[i]]
  <2>1. Added(table, e, cs) = tab
    BY <1>4 DEF Added
  <2>2. DOMAIN tab = DOMAIN table /\ \A i \in DOMAIN table :
          /\ tab[i] \in Entry /\ tab[i].cores = table[i].cores
          /\ tab[i].events = IF table[i].cores = cs THEN table[i].events \union e ELSE table[i].events
    <3> HIDE DEF more
    <3> QED
      BY <1>2, <1>3 DEF Same
  <2> HIDE DEF tab
  <2>3. DOMAIN table = 1 .. Len(table) /\ Len(table) \in Nat
    OBVIOUS
  <2>4. tab \in [1 .. Len(table) -> Entry]
    <3>1. \A i \in 1 .. Len(table) : tab[i] \in Entry
      BY <2>2, <2>3
    <3>2. QED
      BY <2>2, <2>3, <3>1 DEF tab
  <2>5. tab \in Seq(Entry)
    BY <2>3, <2>4
  <2>6. tab # <<>>
    BY <1>4, <2>2
  <2>7. QED
    BY <1>4, <2>1, <2>2, <2>5, <2>6 DEF Same, NoCoreTwice
<1>5. CASE ~\E i \in DOMAIN table : Same(table[i].cores, cs)
  <2>1. Added(table, e, cs) = Append(table, new)
    BY <1>5 DEF Added
  <2> HIDE DEF new
  <2>2. /\ Append(table, new) \in Seq(Entry)
        /\ DOMAIN Append(table, new) = 1 .. Len(table) + 1
        /\ \A i \in DOMAIN table : Append(table, new)[i] = table[i]
        /\ Append(table, new)[Len(table) + 1] = new
        /\ DOMAIN table = 1 .. Len(table) /\ Len(table) \in Nat
    BY <1>1
  <2>3. \A i \in DOMAIN table : table[i].cores # cs /\ table[i].cores \intersect cs = {}
    BY <1>2, <1>5 DEF Same
  <2>4. \A i \in DOMAIN Append(table, new) : i \in DOMAIN table \/ i = Len(table) + 1
    BY <2>2
  <2>5. Append(table, new) # <<>>
    BY <2>2
  <2>6. \A i, j \in DOMAIN Append(table, new) :
          i # j => Append(table, new)[i].cores \intersect Append(table, new)[j].cores = {}
    BY <1>1, <2>2, <2>3, <2>4 DEF NoCoreTwice
  <2>7. Append(table, new)[Len(table) + 1].cores = cs
    BY <1>1, <2>2
  <2>8. Len(table) + 1 \in DOMAIN Append(table, new)
    BY <2>2
  <2>9. \A i \in DOMAIN table : i \in DOMAIN Append(table, new)
    BY <2>2
  <2>10. QED
    BY <1>1, <2>1, <2>2, <2>3, <2>4, <2>5, <2>6, <2>7, <2>8, <2>9 DEF new
<1>6. QED
  BY <1>4, <1>5

LEMMA ParseTable == TableInv /\ Parse => TableInv'
<1> SUFFICES ASSUME TableInv, Parse PROVE TableInv'
  OBVIOUS
<1> DEFINE o == opts[at.option]
           cs == o.groups[at.group]
<1>1. /\ pc = "parse" /\ at.option \in DOMAIN opts /\ opts' = opts
      /\ at.option \in Nat \ {0} /\ at.group \in Nat \ {0}
      /\ opts \in Seq(Option)
  BY DEF Parse, TableInv
<1>2. Named' = Named
  BY <1>1 DEF Named
<1>3. \A q \in Named : q[1] \in Nat /\ q[2] \in Nat /\ q[1] \in DOMAIN opts
                       /\ q[2] \in DOMAIN opts[q[1]].groups /\ q = <<q[1], q[2]>>
  BY <1>1, NamedMember, GroupType
<1>4. \A q : GroupOf(q)' = GroupOf(q)
  BY <1>1 DEF GroupOf
<1>5. CASE at.group > Len(o.groups)
  <2>1. at' = [option |-> at.option + 1, group |-> 1] /\ UNCHANGED <<table, pc>>
    BY <1>5 DEF Parse
  <2>2. at'.option = at.option + 1 /\ at'.group = 1
        /\ at' \in [option : Nat \ {0}, group : Nat \ {0}]
    BY <1>1, <2>1
  <2>3. \A q \in Named : q[1] = at.option => q[2] < at.group
    BY <1>1, <1>3, <1>5, GroupType
  <2>4. \A q \in Named : q \in Taken' <=> q \in Taken
    <3> SUFFICES ASSUME NEW q \in Named PROVE q \in Taken' <=> q \in Taken
      OBVIOUS
    <3>1. q[1] \in Nat /\ q[2] \in Nat \ {0}
      BY <1>1, <1>3, GroupType
    <3>2. q \in Taken' <=> q[1] < at.option + 1 \/ (q[1] = at.option + 1 /\ q[2] < 1)
      BY <1>2, <2>2 DEF Taken
    <3>3. q \in Taken <=> q[1] < at.option \/ (q[1] = at.option /\ q[2] < at.group)
      BY DEF Taken
    <3>4. q[1] = at.option => q[2] < at.group
      BY <2>3
    <3>5. QED
      BY <1>1, <3>1, <3>2, <3>3, <3>4
  <2>5. Taken' = Taken
    BY <1>2, <2>4 DEF Taken
  <2>6. QED
    BY <1>1, <1>4, <2>1, <2>2, <2>5 DEF TableInv, NoCoreTwice, EventsAsked, EveryGroupTaken, Scanning
<1>6. CASE at.group <= Len(o.groups) /\ ~Accepts(table, cs)
  <2>1. UNCHANGED <<table, at>> /\ pc' = "ended"
    BY <1>1, <1>6, GroupType DEF Parse, Goto
  <2>2. Taken' = Taken
    BY <1>2, <2>1 DEF Taken
  <2>3. QED
    BY <1>1, <1>4, <2>1, <2>2 DEF TableInv, NoCoreTwice, EventsAsked, EveryGroupTaken, Scanning, Over
<1>7. CASE at.group <= Len(o.groups) /\ Accepts(table, cs)
  <2>1. /\ table' = Added(table, o.events, cs)
        /\ at' = [at EXCEPT !.group = @ + 1]
        /\ pc' = pc
    BY <1>1, <1>7, GroupType DEF Parse
  <2>2. at'.option = at.option /\ at'.group = at.group + 1
        /\ at' \in [option : Nat \ {0}, group : Nat \ {0}]
    <3> DEFINE n == at.group + 1
    <3>1. n \in Nat \ {0}
      BY <1>1
    <3>2. at' = [at EXCEPT !.group = n]
      BY <2>1
    <3> HIDE DEF n
    <3>3. at'.option = at.option /\ at'.group = n /\ at' \in [option : Nat \ {0}, group : Nat \ {0}]
      BY <3>1, <3>2 DEF TableInv
    <3>4. QED
      BY <3>3 DEF n
  <2>3. /\ cs \in CoreGroups \union PidGroups /\ o.events \in SUBSET (Events \union {All})
        /\ at.group \in DOMAIN opts[at.option].groups
    BY <1>1, <1>7, GroupType
  <2> DEFINE n == <<at.option, at.group>>
  <2>4. n \in Named /\ n[1] = at.option /\ n[2] = at.group /\ GroupOf(n) = cs
    BY <1>1, <2>3, NamedMember DEF GroupOf
  <2>5. n \notin Taken
    BY <1>1, <2>4 DEF Taken
  <2>6. Taken' = Taken \union {n}
    <3>1. \A q \in Named : q = n <=> (q[1] = at.option /\ q[2] = at.group)
      BY <1>3, <2>4
    <3>2. \A q \in Named : q \in Taken' <=> (q \in Taken \/ q = n)
      BY <1>1, <1>2, <1>3, <2>2, <3>1 DEF Taken
    <3>3. QED
      BY <1>2, <2>4, <3>2 DEF Taken
  <2> HIDE DEF n
  <2>7. table \in Seq(Entry) /\ NoCoreTwice
    BY DEF TableInv
  <2> HIDE DEF cs, o
  <2>8. /\ table' \in Seq(Entry) /\ NoCoreTwice' /\ table' # <<>>
        /\ \A i \in DOMAIN table :
             /\ i \in DOMAIN table' /\ table'[i].cores = table[i].cores
             /\ table'[i].events = IF table[i].cores = cs THEN table[i].events \union o.events
                                                          ELSE table[i].events
        /\ \E i \in DOMAIN table' : table'[i].cores = cs
        /\ \A i \in DOMAIN table' : i \notin DOMAIN table =>
             table'[i].cores = cs /\ table'[i].events = o.events /\ \A j \in DOMAIN table : table[j].cores # cs
    <3>1. [cores |-> cs, events |-> o.events].cores = cs /\ [cores |-> cs, events |-> o.events].events = o.events
      OBVIOUS
    <3> DEFINE tab == Added(table, o.events, cs)
    <3>2. /\ tab \in Seq(Entry)
          /\ \A i, j \in DOMAIN tab : i # j => tab[i].cores \intersect tab[j].cores = {}
          /\ tab # <<>>
          /\ \A i \in DOMAIN table : /\ i \in DOMAIN tab
                                     /\ tab[i].cores = table[i].cores
                                     /\ tab[i].events = IF table[i].cores = cs THEN table[i].events \union o.events
                                                                               ELSE table[i].events
          /\ \E i \in DOMAIN tab : tab[i].cores = cs
          /\ \A i \in DOMAIN tab : i \notin DOMAIN table =>
               tab[i] = [cores |-> cs, events |-> o.events] /\ \A j \in DOMAIN table : table[j].cores # cs
      BY <1>7, <2>3, <2>7, AddedTable
    <3>3. table' = tab
      BY <2>1
    <3> HIDE DEF tab
    <3>4. QED
      BY <3>1, <3>2, <3>3 DEF NoCoreTwice
  <2>9. EveryGroupTaken'
    <3> SUFFICES ASSUME NEW q \in Taken' PROVE \E i \in DOMAIN table' : table'[i].cores = GroupOf(q)
      BY <1>4 DEF EveryGroupTaken
    <3>1. CASE q = n
      BY <3>1, <2>4, <2>8
    <3>2. CASE q \in Taken
      BY <3>2, <2>8 DEF TableInv, EveryGroupTaken
    <3>3. QED
      BY <3>1, <3>2, <2>6
  <2>10. EventsAsked'
    <3> DEFINE of(T, c) == UNION {opts[q[1]].events : q \in {r \in T : GroupOf(r) = c}}
    <3> SUFFICES ASSUME NEW i \in DOMAIN table' PROVE table'[i].events = of(Taken', table'[i].cores)
      BY <1>1, <1>4 DEF EventsAsked
    <3>1. opts[n[1]].events = o.events
      BY <2>4 DEF o
    <3>2. \A c : of(Taken', c) = IF c = cs THEN of(Taken, c) \union o.events ELSE of(Taken, c)
      BY <2>4, <2>6, <3>1
    <3>3. CASE i \in DOMAIN table
      <4>1. table[i].events = of(Taken, table[i].cores)
        <5>1. Taken # {}
          BY <1>1, <3>3 DEF TableInv
        <5>2. QED
          BY <5>1, <3>3 DEF TableInv, EventsAsked
      <4> HIDE DEF of
      <4>2. QED
        BY <3>2, <3>3, <4>1, <2>8
    <3>4. CASE i \notin DOMAIN table
      <4>1. table'[i].cores = cs /\ table'[i].events = o.events /\ \A j \in DOMAIN table : table[j].cores # cs
        BY <2>8, <3>4
      <4>2. \A q \in Taken : GroupOf(q) # cs
        BY <4>1 DEF TableInv, EveryGroupTaken
      <4>3. of(Taken, cs) = {}
        BY <4>2
      <4> HIDE DEF of
      <4>4. QED
        BY <3>2, <4>1, <4>3
    <3>5. QED
      BY <3>3, <3>4
  <2>11. QED
    BY <1>1, <2>1, <2>2, <2>6, <2>8, <2>9, <2>10 DEF TableInv, Scanning
<1>8. QED
  BY <1>1, <1>5, <1>6, <1>7, GroupType

LEMMA SameTaken == ASSUME UNCHANGED <<opts, at>>
                   PROVE  Taken' = Taken /\ Named' = Named /\ \A q : GroupOf(q)' = GroupOf(q)
BY DEF Taken, Named, GroupOf

LEMMA ParseDoneTable == TableInv /\ ParseDone => TableInv'
<1> SUFFICES ASSUME TableInv, ParseDone PROVE TableInv'
  OBVIOUS
<1>1. /\ UNCHANGED <<opts, at>> /\ at.option > Len(opts) /\ pc = "parse" /\ pc' \in {"assoc", "setup"}
      /\ opts \in Seq(Option) /\ at.option \in Nat
      /\ IF table = <<>> THEN \E cs \in InOrder : table' = OneEach(cs) ELSE UNCHANGED table
  BY DEF ParseDone, TableInv, Goto
<1>2. Taken' = Taken /\ Named' = Named /\ \A q : GroupOf(q)' = GroupOf(q)
  BY <1>1, SameTaken
<1>3. Taken = Named
  <2>1. \A q \in Named : q[1] \in 1 .. Len(opts)
    BY <1>1, NamedMember
  <2>2. QED
    BY <1>1, <2>1 DEF Taken
<1>4. CASE table # <<>>
  BY <1>1, <1>2, <1>3, <1>4 DEF TableInv, NoCoreTwice, EventsAsked, EveryGroupTaken, Scanning
<1>5. CASE table = <<>>
  <2>1. Taken = {}
    BY <1>5 DEF TableInv, EveryGroupTaken
  <2>2. table' \in Seq(Entry) /\ NoCoreTwice'
    BY <1>1, <1>5, AllCoresTable
  <2>3. QED
    BY <1>1, <1>2, <1>3, <2>1, <2>2 DEF TableInv, EveryGroupTaken, Scanning
<1>6. QED
  BY <1>4, <1>5

LEMMA TakeTopTable == TableInv /\ TopInv /\ TakeTop => TableInv'
<1> SUFFICES ASSUME TableInv, TopInv, TakeTop PROVE TableInv'
  OBVIOUS
<1>1. pc = "chosen" /\ pc' = "setup" /\ UNCHANGED <<opts, at>> /\ opts = <<>>
  BY DEF TakeTop, TableInv, Goto, Scanning
<1>2. Taken = {} /\ Named = {} /\ Taken' = {} /\ Named' = {}
  BY <1>1, NothingToAsk, SameTaken
<1>3. top \subseteq Pids /\ IsFiniteSet(top)
  BY <1>1 DEF TopInv, Scanning
<1>4. PICK s \in SetToSeqs(top) : IF s = <<>> THEN \E cs \in InOrder : table' = OneEach(cs)
                                              ELSE table' = OneEach(s)
  BY DEF TakeTop
<1>5. table' \in Seq(Entry) /\ NoCoreTwice'
  BY <1>3, <1>4, OneEachTable, AllCoresTable
<1>6. QED
  BY <1>1, <1>2, <1>5 DEF TableInv, EveryGroupTaken, Scanning

LEMMA TableInit == Init => TableInv
<1> SUFFICES ASSUME Init PROVE TableInv
  OBVIOUS
<1>1. /\ opts \in Options /\ table = <<>> /\ at = [option |-> 1, group |-> 1]
      /\ pc \in {"scan", "parse"}
      /\ pc = "scan" => opts = <<>>
  BY DEF Init
<1>2. opts \in Seq(Option)
  BY <1>1, OptionsAssumption DEF Option
<1>3. Taken = {}
  <2>1. \A q \in Named : q[1] \in Nat \ {0} /\ q[2] \in Nat \ {0}
    BY <1>2, NamedMember, GroupType
  <2>2. at.option = 1 /\ at.group = 1
    BY <1>1
  <2>3. QED
    BY <2>1, <2>2 DEF Taken
<1>4. pc = "scan" => Named = {}
  BY <1>1, NothingToAsk
<1>5. table \in Seq(Entry) /\ at \in [option : Nat \ {0}, group : Nat \ {0}]
  BY <1>1
<1>6. NoCoreTwice /\ EveryGroupTaken
  BY <1>1, <1>3 DEF NoCoreTwice, EveryGroupTaken
<1>7. QED
  BY <1>1, <1>2, <1>3, <1>4, <1>5, <1>6 DEF TableInv, Scanning, Over

(* Only taking options, or the processes chosen, writes the table. *)
TableKept == /\ UNCHANGED <<opts, at, table>>
             /\ pc' = "parse" => pc = "parse"
             /\ pc' \in Scanning => pc \in Scanning
             /\ pc' \notin {"parse"} \union Over => pc \notin {"parse"} \union Over

LEMMA KeptTable == TableInv /\ TableKept => TableInv'
<1> SUFFICES ASSUME TableInv, TableKept PROVE TableInv'
  OBVIOUS
<1>1. Taken' = Taken /\ Named' = Named /\ \A q : GroupOf(q)' = GroupOf(q)
  BY SameTaken DEF TableKept
<1>2. QED
  BY <1>1 DEF TableKept, TableInv, NoCoreTwice, EventsAsked, EveryGroupTaken

LEMMA TableStep == TableInv /\ TopInv /\ [Next]_vars => TableInv'
<1> SUFFICES ASSUME TableInv, TopInv, [Next]_vars PROVE TableInv'
  OBVIOUS
<1> USE DEF TableKept, toolVars, Goto, Scanning, Over, InLoop
<1>1. CASE ScanStep("scan") \/ ScanStep("rescan") \/ ScanStep("refill") \/ Fill
  <2>1. TableKept
    BY <1>1 DEF ScanStep, Fill
  <2>2. QED
    BY <2>1, KeptTable
<1>2. CASE TakeTop
  BY <1>2, TakeTopTable
<1>3. CASE Parse \/ ParseDone
  BY <1>3, ParseTable, ParseDoneTable
<1>4. CASE Associate \/ SetupMixed \/ SetupGroup \/ SetupDone
  <2>1. TableKept
    BY <1>4 DEF Associate, SetupMixed, SetupGroup, SetupDone, GiveUp
  <2>2. QED
    BY <2>1, KeptTable
<1>5. CASE OpenCounter \/ LoopTest \/ PollStep \/ Show \/ Sleep \/ StopGroups
  <2>1. TableKept
    BY <1>5 DEF GiveUp, OpenCounter, LoopTest, PollStep, Show, Sleep, StopGroups
  <2>2. QED
    BY <2>1, KeptTable
<1>6. CASE Interrupt \/ Work \/ Elsewhere
  <2>1. TableKept
    BY <1>6 DEF Interrupt, Work, Elsewhere
  <2>2. QED
    BY <2>1, KeptTable
<1>7. CASE UNCHANGED vars
  <2>1. TableKept
    BY <1>7 DEF vars
  <2>2. QED
    BY <2>1, KeptTable
<1>8. QED
  BY <1>1, <1>2, <1>3, <1>4, <1>5, <1>6, <1>7 DEF Next, Step

LEMMA TableInvHolds == Spec => []TableInv
BY TableInit, TableStep, TopInvHolds, PTL DEF Spec

(* The table has every group that the options taken so far name once, with *)
(* the events of all of them (parse_monitor_event), and no core in two.    *)
THEOREM TableIsWhatWasAskedHolds == Spec => []TableIsWhatWasAsked
<1>1. TableInv => TableIsWhatWasAsked
  BY DEF TableInv, TableIsWhatWasAsked, NoCoreTwice, EventsAsked, EveryGroupTaken
<1>2. QED
  BY <1>1, TableInvHolds, PTL

-----------------------------------------------------------------------------
(* The sum of f over a finite set S, as the number of boxes of stacks that *)
(* are f[x] high: what finite sets are known for says of cardinalities     *)
(* what sums need.                                                         *)
Boxes(f, S) == {b \in S \X Nat : 1 <= b[2] /\ b[2] <= f[b[1]]}
Total(f, S) == Cardinality(Boxes(f, S))

LEMMA TotalType ==
  ASSUME NEW S, IsFiniteSet(S), NEW N \in Nat, NEW f, \A x \in S : f[x] \in 0 .. N
  PROVE  /\ IsFiniteSet(Boxes(f, S)) /\ Total(f, S) \in Nat
         /\ Total(f, S) <= Cardinality(S) * N
<1>1. IsFiniteSet(1 .. N) /\ Cardinality(1 .. N) = N
  BY FS_Interval
<1>2. IsFiniteSet(S \X (1 .. N)) /\ Cardinality(S \X (1 .. N)) = Cardinality(S) * N
  BY <1>1, FS_Product
<1>3. Boxes(f, S) \in SUBSET (S \X (1 .. N))
  <2> SUFFICES ASSUME NEW b \in Boxes(f, S) PROVE b \in S \X (1 .. N)
    OBVIOUS
  <2>1. b \in S \X Nat /\ 1 <= b[2] /\ b[2] <= f[b[1]]
    BY DEF Boxes
  <2>2. b[1] \in S /\ b[2] \in Nat /\ b = <<b[1], b[2]>> /\ f[b[1]] \in 0 .. N
    BY <2>1
  <2>3. b[2] \in 1 .. N
    BY <2>1, <2>2
  <2>4. QED
    BY <2>2, <2>3
<1>4. IsFiniteSet(Boxes(f, S)) /\ Cardinality(Boxes(f, S)) <= Cardinality(S \X (1 .. N))
  BY <1>2, <1>3, FS_Subset
<1>5. QED
  BY <1>2, <1>4, FS_CardinalityType DEF Total

LEMMA TotalNone == ASSUME NEW f PROVE Total(f, {}) = 0
<1>1. Boxes(f, {}) = {}
  BY DEF Boxes
<1>2. QED
  BY <1>1, FS_EmptySet DEF Total

LEMMA TotalZero == ASSUME NEW f, NEW S, \A x \in S : f[x] = 0 PROVE Total(f, S) = 0
<1>1. Boxes(f, S) = {}
  BY DEF Boxes
<1>2. QED
  BY <1>1, FS_EmptySet DEF Total

LEMMA TotalSame ==
  ASSUME NEW f, NEW g, NEW S, \A x \in S : f[x] = g[x]
  PROVE  Total(f, S) = Total(g, S)
<1>1. Boxes(f, S) = Boxes(g, S)
  BY DEF Boxes
<1>2. QED
  BY <1>1 DEF Total

LEMMA TotalGrows ==
  ASSUME NEW S, IsFiniteSet(S), NEW N \in Nat, NEW f, NEW g,
         \A x \in S : f[x] \in 0 .. N /\ g[x] \in 0 .. N /\ f[x] <= g[x]
  PROVE  Total(f, S) <= Total(g, S)
<1>1. Boxes(f, S) \in SUBSET Boxes(g, S)
  BY DEF Boxes
<1>2. IsFiniteSet(Boxes(g, S))
  BY TotalType
<1>3. QED
  BY <1>1, <1>2, FS_Subset DEF Total

LEMMA UpTo == ASSUME NEW n \in Nat PROVE IsFiniteSet(1 .. n) /\ Cardinality(1 .. n) = n
BY FS_Interval

LEMMA TotalAdds ==
  ASSUME NEW S, IsFiniteSet(S), NEW x, x \notin S, NEW N \in Nat, NEW f,
         \A y \in S \union {x} : f[y] \in 0 .. N
  PROVE  Total(f, S \union {x}) = Total(f, S) + f[x]
<1> DEFINE stack == {x} \X (1 .. f[x])
<1>1. f[x] \in Nat
  <2>1. f[x] \in 0 .. N
    OBVIOUS
  <2>2. QED
    BY <2>1
<1>2. IsFiniteSet(1 .. f[x]) /\ Cardinality(1 .. f[x]) = f[x]
  BY <1>1, UpTo
<1>3. IsFiniteSet({x}) /\ Cardinality({x}) = 1
  BY FS_Singleton
<1>4. IsFiniteSet(stack) /\ Cardinality(stack) = Cardinality({x}) * Cardinality(1 .. f[x])
  BY <1>2, <1>3, FS_Product
<1>5. Cardinality(stack) = f[x]
  BY <1>1, <1>2, <1>3, <1>4
<1>6. Boxes(f, S \union {x}) = Boxes(f, S) \union stack
  <2>1. ASSUME NEW b \in Boxes(f, S \union {x}) PROVE b \in Boxes(f, S) \union stack
    <3>1. b \in (S \union {x}) \X Nat /\ 1 <= b[2] /\ b[2] <= f[b[1]]
      BY <2>1 DEF Boxes
    <3>2. b = <<b[1], b[2]>> /\ b[2] \in Nat /\ b[1] \in S \union {x}
      BY <3>1
    <3>3. CASE b[1] \in S
      BY <3>1, <3>2, <3>3 DEF Boxes
    <3>4. CASE b[1] = x
      BY <1>1, <3>1, <3>2, <3>4
    <3>5. QED
      BY <3>2, <3>3, <3>4
  <2>2. ASSUME NEW b \in Boxes(f, S) \union stack PROVE b \in Boxes(f, S \union {x})
    BY <1>1, <2>2 DEF Boxes
  <2>3. QED
    BY <2>1, <2>2
<1>7. Boxes(f, S) \intersect stack = {}
  BY DEF Boxes
<1>8. IsFiniteSet(Boxes(f, S)) /\ Total(f, S) \in Nat
  BY TotalType
<1> HIDE DEF stack
<1>9. Cardinality(Boxes(f, S) \union stack) = Cardinality(Boxes(f, S)) + Cardinality(stack) - 0
  BY <1>4, <1>7, <1>8, FS_Union, FS_EmptySet
<1>10. Total(f, S \union {x}) = Total(f, S) + Cardinality(stack) - 0
  BY <1>6, <1>9 DEF Total
<1>11. QED
  BY <1>1, <1>5, <1>8, <1>10

LEMMA TotalPlus ==
  ASSUME NEW S, IsFiniteSet(S), NEW N \in Nat, NEW f, NEW g, NEW h,
         \A x \in S : f[x] \in 0 .. N /\ g[x] \in 0 .. N /\ h[x] = f[x] + g[x]
  PROVE  Total(h, S) = Total(f, S) + Total(g, S)
<1> DEFINE upper == {b \in S \X Nat : f[b[1]] + 1 <= b[2] /\ b[2] <= h[b[1]]}
           down == [b \in upper |-> <<b[1], b[2] - f[b[1]]>>]
<1>1. \A x \in S : h[x] \in 0 .. N + N
  OBVIOUS
<1>2. IsFiniteSet(Boxes(f, S)) /\ IsFiniteSet(Boxes(g, S)) /\ IsFiniteSet(Boxes(h, S))
  <2>1. N + N \in Nat
    OBVIOUS
  <2>2. QED
    BY <1>1, <2>1, TotalType
<1>3. Boxes(h, S) = Boxes(f, S) \union upper /\ Boxes(f, S) \intersect upper = {}
  <2>1. ASSUME NEW b \in S \X Nat
        PROVE  /\ b \in Boxes(h, S) <=> b \in Boxes(f, S) \/ b \in upper
               /\ ~(b \in Boxes(f, S) /\ b \in upper)
    <3>1. b[1] \in S /\ b[2] \in Nat
      OBVIOUS
    <3>2. f[b[1]] \in Nat /\ g[b[1]] \in Nat /\ h[b[1]] = f[b[1]] + g[b[1]]
      BY <3>1
    <3>3. QED
      BY <3>1, <3>2 DEF Boxes
  <2>2. QED
    BY <2>1 DEF Boxes
<1>4. down \in Bijection(upper, Boxes(g, S))
  <2>1. ASSUME NEW b \in upper
        PROVE  /\ b = <<b[1], b[2]>> /\ b[1] \in S /\ b[2] \in Nat
               /\ down[b] \in Boxes(g, S) /\ down[b][1] = b[1] /\ down[b][2] = b[2] - f[b[1]]
    <3>1. b[1] \in S /\ b[2] \in Nat /\ b = <<b[1], b[2]>>
          /\ f[b[1]] + 1 <= b[2] /\ b[2] <= h[b[1]]
      BY <2>1
    <3>2. f[b[1]] \in Nat /\ g[b[1]] \in Nat /\ h[b[1]] = f[b[1]] + g[b[1]]
      BY <3>1
    <3>3. b[2] - f[b[1]] \in Nat /\ 1 <= b[2] - f[b[1]] /\ b[2] - f[b[1]] <= g[b[1]]
      BY <3>1, <3>2
    <3>4. down[b] = <<b[1], b[2] - f[b[1]]>>
      BY <2>1
    <3> HIDE DEF down, upper
    <3>5. QED
      BY <3>1, <3>3, <3>4 DEF Boxes
  <2>2. ASSUME NEW a \in upper, NEW b \in upper, down[a] = down[b]
        PROVE  a = b
    <3>1. a[1] = b[1] /\ a[2] - f[a[1]] = b[2] - f[b[1]]
      BY <2>1, <2>2
    <3>2. f[a[1]] \in Nat /\ a[2] \in Nat /\ b[2] \in Nat
      BY <2>1
    <3>3. a[2] = b[2]
      BY <3>1, <3>2
    <3> HIDE DEF down, upper
    <3>4. QED
      BY <2>1, <3>1, <3>3
  <2>3. ASSUME NEW c \in Boxes(g, S)
        PROVE  \E b \in upper : down[b] = c
    <3>1. c[1] \in S /\ c[2] \in Nat /\ c = <<c[1], c[2]>> /\ 1 <= c[2] /\ c[2] <= g[c[1]]
      BY <2>3 DEF Boxes
    <3>2. f[c[1]] \in Nat /\ g[c[1]] \in Nat /\ h[c[1]] = f[c[1]] + g[c[1]]
      BY <3>1
    <3> DEFINE b == <<c[1], c[2] + f[c[1]]>>
    <3>3. b[1] = c[1] /\ b[2] = c[2] + f[c[1]] /\ b[2] \in Nat
      BY <3>1, <3>2
    <3>4. b \in upper
      BY <3>1, <3>2, <3>3
    <3>5. b[2] - f[b[1]] = c[2]
      BY <3>1, <3>2, <3>3
    <3>6. down[b] = <<b[1], b[2] - f[b[1]]>>
      BY <3>4
    <3>7. down[b] = c
      BY <3>1, <3>3, <3>5, <3>6
    <3>8. QED
      BY <3>4, <3>7
  <2> HIDE DEF upper
  <2>4. down \in [upper -> Boxes(g, S)]
    BY <2>1
  <2> HIDE DEF down
  <2>5. QED
    BY <2>2, <2>3, <2>4 DEF Bijection, Injection, Surjection, IsInjective
<1>5. IsFiniteSet(upper)
  BY <1>2, <1>3, FS_Subset
<1>6. Cardinality(upper) = Cardinality(Boxes(g, S))
  <2>1. ExistsBijection(upper, Boxes(g, S))
    BY <1>4 DEF ExistsBijection
  <2>2. QED
    BY <1>5, <2>1, FS_Bijection
<1> HIDE DEF upper
<1>7. Cardinality(Boxes(f, S) \union upper) = Cardinality(Boxes(f, S)) + Cardinality(upper) - 0
  BY <1>2, <1>3, <1>5, FS_Union, FS_EmptySet
<1>8. Total(f, S) \in Nat /\ Total(g, S) \in Nat
  BY TotalType
<1>9. QED
  BY <1>3, <1>6, <1>7, <1>8 DEF Total

-----------------------------------------------------------------------------
(* Values and readings of a group. *)
Tally == [bytes : Int, turns : Int, exact : BOOLEAN]
Fields == {"local", "total", "dlocal", "dtotal", "dremote"}

PollTypes ==
  /\ PollTypeOK
  /\ IsFiniteSet(ctxs) /\ Cardinality(ctxs) <= Cardinality(Cores)
  /\ \A x \in ctxs : \A k \in Kinds : traffic[x][k] <= Width - 1 + flow
  /\ flow \in 0 .. MaxTraffic
  /\ still \in BOOLEAN
  /\ seen \in [Kinds -> Tally] /\ span \in [Kinds -> Tally] /\ swept \in Tally
  /\ stage # "idle" => stage \in Reads(event)
  /\ stage \notin Kinds => todo = {}

(* No poll yet, nothing moved. *)
Fresh == /\ stage = "idle" /\ lastPoll = "none" /\ calm = 0 /\ reports = 0 /\ flow = 0
         /\ pv = [local |-> 0, total |-> 0, dlocal |-> 0, dtotal |-> 0, dremote |-> 0]
         /\ ~validRead

FreshInv == pc \in {"parse", "assoc", "setup", "open"} \union Scanning => Fresh

(* What the programs do to the values: start the group, once; poll; let    *)
(* the cores work; or nothing.                                             *)
Begins(cs, e) == /\ Fresh /\ cs \in CoreGroups \union PidGroups /\ (iface = "MSR" => cs \in CoreGroups)
                 /\ e \in SUBSET Events
                 /\ StartGroup(cs, e) /\ UNCHANGED faults

ValuesKept == UNCHANGED <<iface, valueVars, sweepVars, recordVars>> /\ (Fault \/ UNCHANGED faults)

ValuesNext == \/ \E cs, e : Begins(cs, e)
              \/ \E x \in ctxs, k \in Kinds : Traffic(x, k)
              \/ BeginPoll
              \/ Poll
              \/ ValuesKept

-----------------------------------------------------------------------------
LEMMA FreshInit == Init => FreshInv
BY DEF Init, PollInit, FreshInv, Fresh

LEMMA FreshStep == FreshInv /\ [Next]_vars => FreshInv'
<1> SUFFICES ASSUME FreshInv, [Next]_vars PROVE FreshInv'
  OBVIOUS
<1> DEFINE early == {"parse", "assoc", "setup", "open"} \union Scanning
           same == UNCHANGED <<stage, lastPoll, calm, reports, flow, pv, validRead>>
<1>1. pc' \in early => pc \in early /\ same
  <2> USE DEF Goto, Scanning, InLoop, Over, pollVars, valueVars, sweepVars, recordVars
  <2>1. CASE ScanStep("scan") \/ ScanStep("rescan") \/ ScanStep("refill") \/ Fill \/ TakeTop
    BY <2>1 DEF ScanStep, Fill, TakeTop
  <2>2. CASE Parse \/ ParseDone \/ Associate
    BY <2>2 DEF Parse, ParseDone, Associate
  <2>3. CASE SetupMixed \/ SetupDone \/ OpenCounter
    BY <2>3 DEF SetupMixed, SetupDone, OpenCounter
  <2>4. CASE SetupGroup
    BY <2>4 DEF SetupGroup, StartGroup
  <2>5. CASE LoopTest \/ PollStep \/ Show \/ Sleep \/ StopGroups
    BY <2>5 DEF LoopTest, PollStep, Show, Sleep, StopGroups
  <2>6. CASE Interrupt \/ Work \/ Elsewhere
    BY <2>6 DEF Interrupt, Work, Elsewhere
  <2>7. CASE UNCHANGED vars
    BY <2>7 DEF vars
  <2>8. QED
    BY <2>1, <2>2, <2>3, <2>4, <2>5, <2>6, <2>7 DEF Next, Step
<1>2. QED
  BY <1>1 DEF FreshInv, Fresh

LEMMA FreshHolds == Spec => []FreshInv
BY FreshInit, FreshStep, PTL DEF Spec

LEMMA EventsAreOfThePlatform ==
  ASSUME NEW g \in Entry PROVE EventsOf(g) \in SUBSET Events
<1>1. g.events \in SUBSET (Events \union {All})
  BY DEF Entry
<1>2. Available \subseteq Events
  BY OptionsAssumption
<1>3. QED
  BY <1>1, <1>2 DEF EventsOf

LEMMA ToolMovesValues == FreshInv /\ TableInv /\ [Next]_vars => ValuesNext
<1> SUFFICES ASSUME FreshInv, TableInv, [Next]_vars PROVE ValuesNext
  OBVIOUS
<1>1. CASE UNCHANGED <<iface, valueVars, sweepVars, recordVars>> /\ (Fault \/ UNCHANGED faults)
  BY <1>1 DEF ValuesNext, ValuesKept
<1>2. CASE ScanStep("scan") \/ ScanStep("rescan") \/ ScanStep("refill") \/ Fill \/ TakeTop
  BY <1>1, <1>2 DEF ScanStep, Fill, TakeTop, pollVars
<1>3. CASE Parse \/ ParseDone \/ Associate
  BY <1>1, <1>3 DEF Parse, ParseDone, Associate, pollVars
<1>4. CASE SetupMixed \/ SetupDone \/ OpenCounter
  BY <1>1, <1>4 DEF SetupMixed, SetupDone, GiveUp, OpenCounter, pollVars
<1>5. CASE SetupGroup
  <2>1. PICK i \in Least(DOMAIN table \ started) :
          \/ /\ OfProcesses => iface = "OS"
             /\ IF i = 1 THEN StartGroup(table[1].cores, EventsOf(table[1]))
                         ELSE UNCHANGED <<iface, valueVars, sweepVars, recordVars>>
             /\ UNCHANGED faults
          \/ /\ IF OfProcesses THEN UNCHANGED faults ELSE Fault
             /\ UNCHANGED <<iface, valueVars, sweepVars, recordVars>>
    BY <1>5 DEF SetupGroup
  <2>2. CASE i = 1 /\ (OfProcesses => iface = "OS") /\ StartGroup(table[1].cores, EventsOf(table[1]))
             /\ UNCHANGED faults
    <3>1. table[1] \in Entry
      BY <2>1, <2>2 DEF TableInv, Least
    <3>2. table[1].cores \in CoreGroups \union PidGroups /\ EventsOf(table[1]) \in SUBSET Events
      BY <3>1, EventsAreOfThePlatform DEF Entry
    <3>3. iface = "MSR" => table[1].cores \in CoreGroups
      <4> SUFFICES ASSUME iface = "MSR", table[1].cores \in PidGroups PROVE FALSE
        BY <3>2
      <4>1. ~OfProcesses
        BY <2>2
      <4>2. table[1].cores \subseteq Pids /\ 1 \in DOMAIN table
        BY <2>1, <2>2 DEF PidGroups, Least
      <4>3. QED
        BY <1>5, <4>1, <4>2 DEF SetupGroup, Mixed
    <3>4. Fresh
      BY <1>5 DEF SetupGroup, FreshInv
    <3>5. Begins(table[1].cores, EventsOf(table[1]))
      BY <2>2, <3>2, <3>3, <3>4 DEF Begins
    <3>6. QED
      BY <3>5 DEF ValuesNext
  <2>3. QED
    BY <1>1, <2>1, <2>2
<1>6. CASE LoopTest \/ PollStep
  BY <1>1, <1>6 DEF LoopTest, PollStep, ValuesNext, pollVars
<1>7. CASE Show \/ Sleep \/ StopGroups
  BY <1>1, <1>7 DEF Show, Sleep, StopGroups, pollVars
<1>8. CASE Interrupt \/ Elsewhere
  BY <1>1, <1>8 DEF Interrupt, Elsewhere, pollVars
<1>9. CASE Work
  BY <1>9 DEF Work, ValuesNext
<1>10. CASE UNCHANGED vars
  BY <1>1, <1>10 DEF vars, pollVars
<1>11. QED
  BY <1>2, <1>3, <1>4, <1>5, <1>6, <1>7, <1>8, <1>9, <1>10 DEF Next, Step

-----------------------------------------------------------------------------
LEMMA ModType == ASSUME NEW W \in Nat \ {0}, NEW x \in Int PROVE x % W \in 0 .. W - 1
OBVIOUS

LEMMA DeltaType ==
  ASSUME NEW a \in 0 .. Word - 1, NEW b \in 0 .. Word - 1 PROVE Delta(a, b) \in 0 .. Word - 1
<1>1. Word \in Nat \ {0} /\ Width \in Nat \ {0}
  BY ValuesAssumption
<1>2. (Width - a + b) % Word \in 0 .. Word - 1 /\ (Word - 1 - a + b) % Word \in 0 .. Word - 1
  <2>1. Width - a + b \in Int /\ Word - 1 - a + b \in Int
    BY <1>1
  <2>2. QED
    BY <1>1, <2>1, ModType
<1>3. CASE a > b
  BY <1>2, <1>3 DEF Delta
<1>4. CASE ~(a > b)
  BY <1>1, <1>4 DEF Delta
<1>5. QED
  BY <1>3, <1>4

LEMMA MonusType ==
  ASSUME NEW a \in 0 .. Word - 1, NEW b \in 0 .. Word - 1 PROVE Monus(a, b) \in 0 .. Word - 1
BY ValuesAssumption DEF Monus

LEMMA NothingReadType ==
  ASSUME NEW b \in BOOLEAN
  PROVE  /\ NothingRead \in Tally
         /\ [NothingRead EXCEPT !.exact = b] \in Tally
         /\ [NothingRead EXCEPT !.exact = b] = [bytes |-> 0, turns |-> 0, exact |-> b]
<1>1. [NothingRead EXCEPT !.exact = b] = [bytes |-> 0, turns |-> 0, exact |-> b]
  BY DEF NothingRead
<1>2. [bytes |-> 0, turns |-> 0, exact |-> b] \in Tally /\ NothingRead \in Tally
  BY DEF NothingRead, Tally
<1>3. QED
  BY <1>1, <1>2

(* The contexts of a group are no more than the cores. *)
LEMMA ContextsType ==
  ASSUME NEW cs \in CoreGroups \union PidGroups, iface = "MSR" => cs \in CoreGroups
  PROVE  IsFiniteSet(ContextsOf(cs)) /\ Cardinality(ContextsOf(cs)) <= Cardinality(Cores)
<1>1. IsFiniteSet(Cores) /\ Cardinality(Cores) \in Nat /\ Cardinality(Cores) # 0
  BY CoresAssumption, FS_EmptySet, FS_CardinalityType
<1>2. CASE cs \in CoreGroups
  <2>1. cs \in SUBSET Cores
    BY <1>2 DEF CoreGroups
  <2>2. IsFiniteSet(cs) /\ Cardinality(cs) <= Cardinality(Cores)
    BY <1>1, <2>1, FS_Subset
  <2>3. CASE iface = "MSR"
    <3> DEFINE K == {ClusterOf[c] : c \in cs}
               f == [c \in cs |-> ClusterOf[c]]
    <3>1. f \in Surjection(cs, K)
      BY DEF Surjection
    <3> HIDE DEF f
    <3>2. IsFiniteSet(K) /\ Cardinality(K) <= Cardinality(cs)
      BY <2>2, <3>1, FS_Surjection
    <3>3. Cardinality(cs) \in Nat /\ Cardinality(K) \in Nat
      BY <2>2, <3>2, FS_CardinalityType
    <3>4. Cardinality(K) <= Cardinality(Cores)
      BY <1>1, <2>2, <3>2, <3>3
    <3>5. QED
      BY <2>3, <3>2, <3>4 DEF ContextsOf
  <2>4. CASE iface # "MSR"
    BY <2>2, <2>4 DEF ContextsOf
  <2>5. QED
    BY <2>3, <2>4
<1>3. CASE cs \in PidGroups /\ iface # "MSR"
  <2>1. PICK p \in Pids : cs = {p}
    BY <1>3 DEF PidGroups
  <2>2. IsFiniteSet(cs) /\ Cardinality(cs) = 1
    BY <2>1, FS_Singleton
  <2>3. QED
    BY <1>1, <1>3, <2>2 DEF ContextsOf
<1>4. QED
  BY <1>2, <1>3

LEMMA BeginsTypes ==
  ASSUME PollTypes, NEW cs, NEW e, Begins(cs, e) PROVE PollTypes'
<1>1. /\ event' = e /\ ctxs' = ContextsOf(cs) /\ e \in SUBSET Events
      /\ \E before \in [ctxs' -> IF iface = "MSR" THEN Leftovers ELSE {0}] :
           traffic' = [x \in ctxs' |-> [k \in Kinds |-> before[x]]]
      /\ seen' = [k \in Kinds |-> [NothingRead EXCEPT !.exact = iface = "OS"]]
      /\ UNCHANGED <<iface, pv, validRead, stage, todo, sum, swept, span, reports, lastPoll, still, calm, flow, faults>>
      /\ stage = "idle" /\ flow = 0
  BY DEF Begins, StartGroup, sweepVars, Fresh
<1>2. IsFiniteSet(ctxs') /\ Cardinality(ctxs') <= Cardinality(Cores)
  BY <1>1, ContextsType DEF Begins
<1>3. PICK before \in [ctxs' -> 0 .. Width - 1] : traffic' = [x \in ctxs' |-> [k \in Kinds |-> before[x]]]
  <2>1. (IF iface = "MSR" THEN Leftovers ELSE {0}) \subseteq 0 .. Width - 1
    BY ValuesAssumption
  <2>2. QED
    BY <1>1, <2>1
<1>4. traffic' \in [ctxs' -> [Kinds -> 0 .. Width - 1 + MaxTraffic]]
  <2>1. \A x \in ctxs' : before[x] \in 0 .. Width - 1 + MaxTraffic
    BY <1>3, ValuesAssumption
  <2>2. QED
    BY <1>3, <2>1
<1>5. \A x \in ctxs' : \A k \in Kinds : traffic'[x][k] <= Width - 1 + flow'
  BY <1>1, <1>3, ValuesAssumption
<1>6. seen' \in [Kinds -> Tally]
  <2>1. [NothingRead EXCEPT !.exact = iface = "OS"] \in Tally
    BY NothingReadType, (iface = "OS") \in BOOLEAN
  <2>2. QED
    BY <1>1, <2>1
<1>7. todo' = {}
  BY <1>1 DEF PollTypes, Kinds
<1>8. PollTypeOK'
  BY <1>1, <1>4, <1>7 DEF PollTypes, PollTypeOK
<1>9. QED
  BY <1>1, <1>2, <1>5, <1>6, <1>7, <1>8 DEF PollTypes

LEMMA TrafficTypes ==
  ASSUME PollTypes, NEW x \in ctxs, NEW k \in Kinds, Traffic(x, k) PROVE PollTypes'
<1>1. /\ flow < MaxTraffic /\ flow' = flow + 1
      /\ traffic' = [traffic EXCEPT ![x] =
                       [j \in Kinds |-> IF j = "total" \/ k = "local" THEN @[j] + 1 ELSE @[j]]]
      /\ still' = (still /\ stage = "idle")
      /\ UNCHANGED <<iface, event, ctxs, pv, validRead, stage, todo, sum, swept, seen, span, reports,
                     lastPoll, calm, faults>>
  BY DEF Traffic, sweepVars
<1>2. /\ traffic \in [ctxs -> [Kinds -> 0 .. Width - 1 + MaxTraffic]]
      /\ flow \in 0 .. MaxTraffic /\ MaxTraffic \in Nat /\ Width \in Nat \ {0}
      /\ \A y \in ctxs : \A j \in Kinds : traffic[y][j] <= Width - 1 + flow
  BY ValuesAssumption DEF PollTypes, PollTypeOK
<1>3. \A y \in ctxs : \A j \in Kinds : /\ traffic[y][j] \in 0 .. Width - 1 + flow
                                       /\ traffic'[y][j] \in {traffic[y][j], traffic[y][j] + 1}
                                       /\ DOMAIN traffic'[y] = Kinds
  BY <1>1, <1>2
<1>4. \A y \in ctxs : \A j \in Kinds : traffic'[y][j] \in 0 .. Width - 1 + (flow + 1)
                                       /\ traffic'[y][j] \in 0 .. Width - 1 + MaxTraffic
  BY <1>1, <1>2, <1>3
<1>5. traffic' \in [ctxs -> [Kinds -> 0 .. Width - 1 + MaxTraffic]]
  <2>1. DOMAIN traffic' = ctxs
    BY <1>1, <1>2
  <2>2. \A y \in ctxs : traffic'[y] \in [Kinds -> 0 .. Width - 1 + MaxTraffic]
    <3> SUFFICES ASSUME NEW y \in ctxs PROVE traffic'[y] \in [Kinds -> 0 .. Width - 1 + MaxTraffic]
      OBVIOUS
    <3>1. CASE y = x
      <4>1. traffic'[y] = [j \in Kinds |-> IF j = "total" \/ k = "local" THEN traffic[x][j] + 1 ELSE traffic[x][j]]
        BY <1>1, <1>2, <3>1
      <4>2. QED
        BY <1>4, <4>1
    <3>2. CASE y # x
      BY <1>1, <1>2, <3>2
    <3>3. QED
      BY <3>1, <3>2
  <2>3. traffic' = [y \in ctxs |-> traffic'[y]]
    BY <1>1, <1>2
  <2>4. QED
    BY <2>2, <2>3
<1>6. flow' \in 0 .. MaxTraffic /\ still' \in BOOLEAN
  BY <1>1, <1>2 DEF PollTypes
<1>7. PollTypeOK'
  BY <1>1, <1>5 DEF PollTypes, PollTypeOK
<1>8. QED
  BY <1>1, <1>4, <1>6, <1>7 DEF PollTypes

(* A stage that is entered. *)
LEMMA EnterTypes ==
  ASSUME PollTypes, NEW s \in Reads(event), Enter(s), UNCHANGED <<event, ctxs>>
  PROVE  /\ stage' \in Reads(event') /\ stage' \in {"idle", "llc", "local", "total", "ipc"}
         /\ todo' \subseteq ctxs' /\ sum' \in 0 .. Word - 1 /\ swept' \in Tally
         /\ stage' \notin Kinds => todo' = {}
<1>1. swept' \in Tally
  BY NothingReadType, TRUE \in BOOLEAN DEF Enter
<1>2. QED
  BY <1>1, ValuesAssumption DEF Enter, Reads

LEMMA BeginPollTypes == PollTypes /\ BeginPoll => PollTypes'
<1> SUFFICES ASSUME PollTypes, BeginPoll PROVE PollTypes'
  OBVIOUS
<1>1. PICK s \in Reads(event) : Enter(s)
  BY DEF BeginPoll, First
<1>2. /\ still' = TRUE
      /\ UNCHANGED <<iface, event, ctxs, traffic, pv, validRead, seen, span, reports, lastPoll, calm, flow, faults>>
  BY DEF BeginPoll, valueVars
<1>3. /\ stage' \in Reads(event') /\ stage' \in {"idle", "llc", "local", "total", "ipc"}
      /\ todo' \subseteq ctxs' /\ sum' \in 0 .. Word - 1 /\ swept' \in Tally
      /\ stage' \notin Kinds => todo' = {}
  BY <1>1, <1>2, EnterTypes
<1>4. PollTypeOK'
  BY <1>2, <1>3 DEF PollTypes, PollTypeOK
<1>5. QED
  BY <1>2, <1>3, <1>4 DEF PollTypes

(* What a context shows: what it has counted since its counter turned. *)
Turned(n) == IF iface = "MSR" THEN n \div Width ELSE 0

LEMMA DivMod ==
  ASSUME NEW W \in Nat \ {0}, NEW n \in Nat
  PROVE  /\ n \div W \in Nat /\ n % W \in Nat /\ n = W * (n \div W) + (n % W) /\ n % W <= n
OBVIOUS

LEMMA RegisterShows ==
  ASSUME PollTypes, NEW x \in ctxs, NEW k \in Kinds
  PROVE  /\ traffic[x][k] \in Nat /\ Turned(traffic[x][k]) \in Nat
         /\ Turns(k, x) = Turned(traffic[x][k])
         /\ Register(k, x) \in 0 .. traffic[x][k]
         /\ Register(k, x) = traffic[x][k] - Width * Turned(traffic[x][k])
<1>1. traffic[x][k] \in Nat /\ Width \in Nat \ {0}
  BY ValuesAssumption DEF PollTypes, PollTypeOK
<1> DEFINE n == traffic[x][k]
<1>2. n \div Width \in Nat /\ n % Width \in Nat /\ n = Width * (n \div Width) + (n % Width) /\ n % Width <= n
  BY <1>1, DivMod
<1>3. Turns(k, x) = Turned(n)
  BY DEF Turns, Turned
<1>4. CASE iface = "MSR"
  <2>1. Register(k, x) = n % Width /\ Turned(n) = n \div Width
    BY <1>4 DEF Register, Turned
  <2> HIDE DEF n
  <2>2. Width * (n \div Width) \in Nat
    BY <1>1, <1>2
  <2>3. QED
    BY <1>1, <1>2, <1>3, <2>1, <2>2 DEF n
<1>5. CASE iface # "MSR"
  <2>1. Register(k, x) = n /\ Turned(n) = 0
    BY <1>5 DEF Register, Turned
  <2>2. QED
    BY <1>1, <1>3, <2>1
<1>6. QED
  BY <1>4, <1>5

LEMMA ReadContextTypes ==
  ASSUME PollTypes, NEW x \in ctxs, ReadContext(x)
  PROVE  /\ PollTypes'
         /\ stage \in Kinds /\ x \in todo /\ todo' = todo \ {x}
         /\ UNCHANGED <<iface, event, ctxs, traffic, pv, validRead, stage, seen, span, reports, lastPoll, still, calm, flow>>
         /\ \E v \in Nat : /\ sum' = (sum + v) % Word
                           /\ swept' = [bytes |-> swept.bytes + traffic[x][stage],
                                        turns |-> swept.turns + Turned(traffic[x][stage]),
                                        exact |-> swept.exact /\ v = Register(stage, x)]
<1>1. x \in todo /\ todo' = todo \ {x} /\ stage \in Kinds
  BY DEF ReadContext, PollTypes
<1>2. UNCHANGED <<iface, event, ctxs, traffic, pv, validRead, stage, seen, span, reports, lastPoll, still, calm, flow>>
  BY DEF ReadContext, valueVars, recordVars
<1>3. PICK v \in {Register(stage, x)} \union (IF iface = "MSR" THEN Unavailable ELSE {}) :
       /\ IF v = Register(stage, x) THEN UNCHANGED faults ELSE Fault
       /\ sum' = (sum + v) % Word
       /\ swept' = [bytes |-> swept.bytes + traffic[x][stage],
                    turns |-> swept.turns + Turns(stage, x),
                    exact |-> swept.exact /\ v = Register(stage, x)]
  BY DEF ReadContext
<1>4. /\ Register(stage, x) \in Nat /\ Turns(stage, x) = Turned(traffic[x][stage])
      /\ Turned(traffic[x][stage]) \in Nat /\ traffic[x][stage] \in Nat
  BY <1>1, RegisterShows
<1>5. v \in Nat
  <2>1. Unavailable \subseteq Nat
    BY ValuesAssumption
  <2>2. QED
    BY <1>3, <1>4, <2>1
<1>6. swept \in Tally /\ sum \in Nat /\ faults \in 0 .. MaxFaults /\ MaxFaults \in Nat /\ Word \in Nat \ {0}
  BY ValuesAssumption DEF PollTypes, PollTypeOK
<1>7. sum' \in 0 .. Word - 1
  <2>1. sum + v \in Int
    BY <1>5, <1>6
  <2>2. QED
    BY <1>3, <1>6, <2>1, ModType
<1>8. swept' \in Tally
  <2>1. swept.bytes + traffic[x][stage] \in Int /\ swept.turns + Turns(stage, x) \in Int
        /\ (swept.exact /\ v = Register(stage, x)) \in BOOLEAN
    BY <1>4, <1>6 DEF Tally
  <2>2. QED
    BY <1>3, <2>1 DEF Tally
<1>9. faults' \in 0 .. MaxFaults
  BY <1>3, <1>6 DEF Fault
<1>10. todo' \subseteq ctxs' /\ stage' \in Kinds
  BY <1>1, <1>2 DEF PollTypes, PollTypeOK
<1>11. PollTypeOK'
  BY <1>2, <1>7, <1>9, <1>10 DEF PollTypes, PollTypeOK
<1>12. PollTypes'
  BY <1>1, <1>2, <1>8, <1>10, <1>11 DEF PollTypes
<1>13. QED
  BY <1>1, <1>2, <1>3, <1>4, <1>5, <1>12


(* The values as they are stored. *)
LEMMA StoredTypes ==
  ASSUME PollTypes, NEW k \in Kinds
  PROVE  Stored(k) \in [Fields -> 0 .. Word - 1]
<1> DEFINE V == 0 .. Word - 1
           d == Delta(pv[k], sum)
           rest == IF "rmem" \in event THEN Monus(d, pv.dlocal) ELSE pv.dremote
<1>1. pv \in [Fields -> V] /\ sum \in V
  BY DEF PollTypes, PollTypeOK, Fields
<1>2. pv[k] \in V /\ pv.dlocal \in V /\ pv.dremote \in V
  BY <1>1 DEF Fields, Kinds
<1>3. d \in V
  BY <1>1, <1>2, DeltaType
<1>4. rest \in V
  BY <1>2, <1>3, MonusType
<1> HIDE DEF d, rest, V
<1>5. CASE k = "local"
  <2>1. Stored(k) = [pv EXCEPT !.local = sum, !.dlocal = d]
    BY <1>5 DEF Stored, d
  <2>2. QED
    BY <1>1, <1>3, <2>1 DEF Fields, V
<1>6. CASE k = "total"
  <2>1. Stored(k) = [pv EXCEPT !.total = sum, !.dtotal = d, !.dremote = rest]
    BY <1>6 DEF Stored, d, rest
  <2>2. QED
    BY <1>1, <1>3, <1>4, <2>1 DEF Fields, V
<1>7. QED
  BY <1>5, <1>6 DEF Kinds

LEMMA NoBandwidthTypes ==
  ASSUME NEW v \in [Fields -> 0 .. Word - 1] PROVE NoBandwidth(v) \in [Fields -> 0 .. Word - 1]
<1> DEFINE V == 0 .. Word - 1
<1>1. 0 \in V
  BY ValuesAssumption
<1> HIDE DEF V
<1>2. [v EXCEPT !.dlocal = 0, !.dtotal = 0, !.dremote = 0] \in [Fields -> V]
  <2>1. v \in [Fields -> V]
    BY DEF V
  <2>2. QED
    BY <1>1, <2>1 DEF Fields
<1>3. QED
  BY <1>2 DEF NoBandwidth, V

LEMMA RecordedTypes ==
  ASSUME PollTypes, NEW k \in Kinds, Recorded(k)
  PROVE  seen' \in [Kinds -> Tally] /\ span' \in [Kinds -> Tally]
<1>1. seen \in [Kinds -> Tally] /\ span \in [Kinds -> Tally] /\ swept \in Tally /\ seen[k] \in Tally
  BY DEF PollTypes
<1>2. [bytes |-> swept.bytes - seen[k].bytes, turns |-> swept.turns - seen[k].turns,
       exact |-> swept.exact /\ seen[k].exact] \in Tally
  <2>1. /\ swept.bytes \in Int /\ swept.turns \in Int /\ swept.exact \in BOOLEAN
        /\ seen[k].bytes \in Int /\ seen[k].turns \in Int /\ seen[k].exact \in BOOLEAN
    BY <1>1 DEF Tally
  <2>2. QED
    BY <2>1 DEF Tally
<1>3. QED
  BY <1>1, <1>2 DEF Recorded

(* What the end of a stage comes to. *)
Given == IF stage \in Kinds THEN Stored(stage) ELSE pv

LEMMA StageDoneTypes == PollTypes /\ StageDone => PollTypes'
<1> SUFFICES ASSUME PollTypes, StageDone PROVE PollTypes'
  OBVIOUS
<1>1. /\ UNCHANGED <<iface, event, ctxs, traffic, still, flow, faults>>
      /\ IF stage \in Kinds THEN Recorded(stage) ELSE UNCHANGED <<seen, span>>
      /\ stage # "idle" /\ todo = {}
  BY DEF StageDone
<1>2. seen' \in [Kinds -> Tally] /\ span' \in [Kinds -> Tally]
  BY <1>1, RecordedTypes DEF PollTypes
<1>3. Given \in [Fields -> 0 .. Word - 1]
  BY StoredTypes DEF Given, PollTypes, PollTypeOK, Fields
<1>4. CASE After(stage) # {}
  <2>1. /\ pv' = Given /\ \E s \in First(After(stage)) : Enter(s)
        /\ UNCHANGED <<validRead, reports, lastPoll, calm>>
    BY <1>4 DEF StageDone, Given
  <2>2. PICK s \in Reads(event) : Enter(s)
    BY <2>1 DEF First, After
  <2>3. /\ stage' \in Reads(event') /\ stage' \in {"idle", "llc", "local", "total", "ipc"}
        /\ todo' \subseteq ctxs' /\ sum' \in 0 .. Word - 1 /\ swept' \in Tally
        /\ stage' \notin Kinds => todo' = {}
    BY <1>1, <2>2, EnterTypes
  <2>4. PollTypeOK'
    BY <1>1, <1>3, <2>1, <2>3 DEF PollTypes, PollTypeOK, Fields
  <2>5. QED
    BY <1>1, <1>2, <2>3, <2>4 DEF PollTypes
<1>5. CASE After(stage) = {}
  <2>1. /\ Through(Given) /\ stage' = "idle" /\ reports' = (IF reports < 2 THEN reports + 1 ELSE 2)
        /\ lastPoll' = "through"
        /\ calm' = (IF ~still THEN 0 ELSE IF calm < 2 THEN calm + 1 ELSE 2)
        /\ sum' = 0 /\ swept' = NothingRead /\ todo' = todo
    BY <1>5 DEF StageDone, Given
  <2>2. pv' \in [Fields -> 0 .. Word - 1] /\ validRead' \in BOOLEAN
    BY <1>3, <2>1, NoBandwidthTypes DEF Through
  <2>3. reports' \in 0 .. 2 /\ calm' \in 0 .. 2 /\ sum' \in 0 .. Word - 1
    BY <2>1, ValuesAssumption DEF PollTypes, PollTypeOK
  <2>4. swept' \in Tally
    BY <2>1, NothingReadType, TRUE \in BOOLEAN
  <2>5. PollTypeOK'
    BY <1>1, <2>1, <2>2, <2>3 DEF PollTypes, PollTypeOK, Fields
  <2>6. QED
    BY <1>1, <1>2, <2>1, <2>4, <2>5 DEF PollTypes
<1>6. QED
  BY <1>4, <1>5

LEMMA ReadFailsTypes == PollTypes /\ ReadFails => PollTypes'
<1> SUFFICES ASSUME PollTypes, ReadFails PROVE PollTypes'
  OBVIOUS
<1>1. /\ stage' = "idle" /\ todo' = {} /\ sum' = 0 /\ swept' = NothingRead
      /\ lastPoll' = "failed" /\ calm' = 0 /\ faults < MaxFaults /\ faults' = faults + 1
      /\ UNCHANGED <<iface, event, ctxs, traffic, pv, validRead, seen, span, reports, still, flow>>
  BY DEF ReadFails, Fault, valueVars
<1>2. swept' \in Tally
  BY <1>1, NothingReadType, TRUE \in BOOLEAN
<1>3. faults' \in 0 .. MaxFaults /\ sum' \in 0 .. Word - 1
  BY <1>1, ValuesAssumption DEF PollTypes, PollTypeOK
<1>4. PollTypeOK'
  BY <1>1, <1>3 DEF PollTypes, PollTypeOK
<1>5. QED
  BY <1>1, <1>2, <1>4 DEF PollTypes

LEMMA PollTypesInit == PollInit => PollTypes
<1> SUFFICES ASSUME PollInit PROVE PollTypes
  OBVIOUS
<1>1. IsFiniteSet(ctxs) /\ Cardinality(ctxs) <= Cardinality(Cores)
  <2>1. Cardinality(Cores) \in Nat
    BY CoresAssumption, FS_CardinalityType
  <2>2. QED
    BY <2>1, FS_EmptySet DEF PollInit
<1>2. swept \in Tally /\ seen \in [Kinds -> Tally] /\ span \in [Kinds -> Tally]
  <2>1. NothingRead \in Tally
    BY NothingReadType, TRUE \in BOOLEAN
  <2>2. QED
    BY <2>1 DEF PollInit
<1>3. pv \in [Fields -> 0 .. Word - 1]
  BY ValuesAssumption DEF PollInit, Fields
<1>4. traffic \in [ctxs -> [Kinds -> 0 .. Width - 1 + MaxTraffic]]
  BY DEF PollInit
<1>5. PollTypeOK
  <2>1. 0 \in 0 .. Word - 1 /\ 0 \in 0 .. 2 /\ 0 \in 0 .. MaxFaults
    BY ValuesAssumption
  <2>2. QED
    BY <1>3, <1>4, <2>1 DEF PollInit, PollTypeOK, Fields
<1>6. QED
  BY <1>1, <1>2, <1>5, ValuesAssumption DEF PollInit, PollTypes, Kinds

LEMMA PollTypesStep == PollTypes /\ ValuesNext => PollTypes'
<1> SUFFICES ASSUME PollTypes, ValuesNext PROVE PollTypes'
  OBVIOUS
<1>1. CASE \E cs, e : Begins(cs, e)
  BY <1>1, BeginsTypes
<1>2. CASE \E x \in ctxs, k \in Kinds : Traffic(x, k)
  BY <1>2, TrafficTypes
<1>3. CASE BeginPoll
  BY <1>3, BeginPollTypes
<1>4. CASE Poll
  <2>1. CASE \E x \in ctxs : ReadContext(x)
    BY <2>1, ReadContextTypes
  <2>2. QED
    BY <1>4, <2>1, StageDoneTypes, ReadFailsTypes DEF Poll
<1>5. CASE ValuesKept
  <2>1. UNCHANGED <<iface, event, ctxs, traffic, pv, validRead, stage, todo, sum, swept, seen, span,
                    reports, lastPoll, still, calm, flow>>
        /\ faults' \in 0 .. MaxFaults
    BY <1>5, ValuesAssumption DEF ValuesKept, Fault, valueVars, sweepVars, recordVars, PollTypes, PollTypeOK
  <2>2. PollTypeOK'
    BY <2>1 DEF PollTypes, PollTypeOK
  <2>3. QED
    BY <2>1, <2>2 DEF PollTypes
<1>6. QED
  BY <1>1, <1>2, <1>3, <1>4, <1>5 DEF ValuesNext

(* The rest of the state: the profiling monitors cores only. *)
Pcs == {"parse", "assoc", "setup", "open", "stop"} \union Scanning \union InLoop \union Over

OnlyCores == /\ \A o \in DOMAIN opts : \A g \in DOMAIN opts[o].groups : opts[o].groups[g] \in CoreGroups
             /\ \A i \in DOMAIN table : table[i].cores \in CoreGroups

ToolInv ==
  /\ program \in {"pqos", "top", "profiling"}
  /\ pc \in Pcs
  /\ moved \subseteq Cores
  /\ started \subseteq DOMAIN table
  /\ stop \in BOOLEAN /\ refused \in BOOLEAN /\ gaveUp \in BOOLEAN
  /\ program = "profiling" => OnlyCores
  /\ program = "profiling" => pc \notin Scanning
  /\ pc = "assoc" => program = "profiling" /\ table # <<>>

LEMMA ToolInit == Init => ToolInv
<1> SUFFICES ASSUME Init PROVE ToolInv
  OBVIOUS
<1>1. program = "profiling" => OnlyCores
  <2> SUFFICES ASSUME program = "profiling" PROVE OnlyCores
    OBVIOUS
  <2>1. /\ Len(opts) = 1 /\ Len(opts[1].groups) = 1 /\ opts[1].groups[1] \in CoreGroups
        /\ table = <<>> /\ opts \in Seq(Option)
    BY OptionsAssumption DEF Init, Option
  <2>2. DOMAIN opts = {1}
    BY <2>1
  <2>3. DOMAIN opts[1].groups = {1}
    BY <2>1, <2>2, GroupType
  <2>4. QED
    BY <2>1, <2>2, <2>3 DEF OnlyCores
<1>2. QED
  BY <1>1 DEF Init, ToolInv, Pcs, Scanning, InLoop, Over

LEMMA ParseTool == ToolInv /\ TableInv /\ KeptInv /\ Parse => ToolInv'
<1> SUFFICES ASSUME ToolInv, TableInv, KeptInv, Parse PROVE ToolInv'
  OBVIOUS
<1>1. /\ UNCHANGED <<program, opts, moved, started, stop, refused, gaveUp>> /\ pc = "parse" /\ pc' \in {"parse", "ended"}
      /\ started = {} /\ at.option \in 1 .. Len(opts) /\ opts \in Seq(Option) /\ at.group \in Nat \ {0}
  BY DEF Parse, Goto, KeptInv, TableInv
<1> DEFINE cs == opts[at.option].groups[at.group]
           e == opts[at.option].events
<1>2. CASE UNCHANGED table
  BY <1>1, <1>2 DEF ToolInv, OnlyCores, Pcs, Scanning, InLoop, Over
<1>3. CASE table' # table
  <2>1. Accepts(table, cs) /\ table' = Added(table, e, cs) /\ ~(at.group > Len(opts[at.option].groups))
    BY <1>3 DEF Parse
  <2>2. cs \in CoreGroups \union PidGroups /\ e \in SUBSET (Events \union {All})
        /\ at.group \in DOMAIN opts[at.option].groups /\ at.option \in DOMAIN opts
    BY <1>1, <2>1, GroupType
  <2>3. program = "profiling" => cs \in CoreGroups
    BY <2>2 DEF ToolInv, OnlyCores
  <2> HIDE DEF cs, e
  <2> DEFINE tab == Added(table, e, cs)
  <2> HIDE DEF tab
  <2>4. /\ tab # <<>>
        /\ \A i \in DOMAIN table : i \in DOMAIN tab /\ tab[i].cores = table[i].cores
        /\ \A i \in DOMAIN tab : i \notin DOMAIN table => tab[i] = [cores |-> cs, events |-> e]
    <3>1. table \in Seq(Entry) /\ NoCoreTwice
      BY DEF TableInv
    <3>2. /\ tab \in Seq(Entry)
          /\ \A i, j \in DOMAIN tab : i # j => tab[i].cores \intersect tab[j].cores = {}
          /\ tab # <<>>
          /\ \A i \in DOMAIN table : /\ i \in DOMAIN tab
                                     /\ tab[i].cores = table[i].cores
                                     /\ tab[i].events = IF table[i].cores = cs THEN table[i].events \union e
                                                                               ELSE table[i].events
          /\ \E i \in DOMAIN tab : tab[i].cores = cs
          /\ \A i \in DOMAIN tab : i \notin DOMAIN table =>
               tab[i] = [cores |-> cs, events |-> e] /\ \A j \in DOMAIN table : table[j].cores # cs
      BY <2>1, <2>2, <3>1, AddedTable DEF tab
    <3>3. QED
      BY <3>2
  <2>5. table' = tab
    BY <2>1 DEF tab
  <2>6. \A i \in DOMAIN table' : table'[i].cores = cs \/ \E j \in DOMAIN table : table'[i].cores = table[j].cores
    BY <2>4, <2>5
  <2>7. program = "profiling" => OnlyCores'
    BY <1>1, <2>3, <2>6 DEF ToolInv, OnlyCores
  <2>8. QED
    BY <1>1, <2>7 DEF ToolInv, Pcs, Scanning, InLoop, Over
<1>4. QED
  BY <1>2, <1>3

LEMMA ParseDoneTool == ToolInv /\ KeptInv /\ ParseDone => ToolInv'
<1> SUFFICES ASSUME ToolInv, KeptInv, ParseDone PROVE ToolInv'
  OBVIOUS
<1>1. /\ UNCHANGED <<program, opts, moved, started, stop, refused, gaveUp>> /\ pc = "parse" /\ started = {}
      /\ pc' = IF program = "profiling" THEN "assoc" ELSE "setup"
  BY DEF ParseDone, Goto, KeptInv
<1>2. CASE table # <<>>
  <2>1. table' = table
    BY <1>2 DEF ParseDone
  <2>2. QED
    BY <1>1, <1>2, <2>1 DEF ToolInv, OnlyCores, Pcs, Scanning, InLoop, Over
<1>3. CASE table = <<>>
  <2>1. \E cs \in InOrder : table' = OneEach(cs)
    BY <1>3 DEF ParseDone
  <2>2. table' # <<>>
    BY <2>1, AllCoresTable
  <2>3. \A i \in DOMAIN table' : table'[i].cores \in CoreGroups
    <3>1. PICK cs \in SetToSeqs(Cores) : table' = OneEach(cs)
      BY <2>1 DEF InOrder
    <3>2. \A i \in DOMAIN table' : table'[i].cores = {cs[i]} /\ cs[i] \in Cores
      BY <3>1, OneEachType, CoresAssumption
    <3>3. QED
      BY <3>2 DEF CoreGroups
  <2>4. QED
    BY <1>1, <2>2, <2>3 DEF ToolInv, OnlyCores, Pcs, Scanning, InLoop, Over
<1>4. QED
  BY <1>2, <1>3

LEMMA AssociateTool == ToolInv /\ TableInv /\ Associate => ToolInv'
<1> SUFFICES ASSUME ToolInv, TableInv, Associate PROVE ToolInv'
  OBVIOUS
<1>1. table[1].cores \subseteq Cores
  <2>1. table \in Seq(Entry) /\ table # <<>> /\ program = "profiling"
    BY DEF TableInv, ToolInv, Associate
  <2>2. 1 \in DOMAIN table
    BY <2>1
  <2>3. table[1].cores \in CoreGroups
    BY <2>1, <2>2 DEF ToolInv, OnlyCores
  <2>4. QED
    BY <2>3 DEF CoreGroups
<1>2. /\ UNCHANGED <<program, opts, table, started, stop, refused, gaveUp>>
      /\ moved' \subseteq Cores /\ pc' \in {"assoc", "setup", "ended"} /\ pc = "assoc"
  BY <1>1 DEF Associate, Goto, ToolInv
<1>3. QED
  BY <1>2 DEF ToolInv, OnlyCores, Pcs, Scanning, InLoop, Over

LEMMA ToolStep == ToolInv /\ TableInv /\ KeptInv /\ [Next]_vars => ToolInv'
<1> SUFFICES ASSUME ToolInv, TableInv, KeptInv, [Next]_vars PROVE ToolInv'
  OBVIOUS
<1> USE DEF ToolInv, OnlyCores, Pcs, Goto, toolVars, Scanning, InLoop, Over
<1>1. CASE ScanStep("scan") \/ ScanStep("rescan") \/ ScanStep("refill") \/ Fill
  BY <1>1 DEF ScanStep, Fill
<1>2. CASE TakeTop
  BY <1>2 DEF TakeTop, KeptInv
<1>3. CASE Parse \/ ParseDone \/ Associate
  BY <1>3, ParseTool, ParseDoneTool, AssociateTool
<1>4. CASE SetupGroup
  <2>1. started' \subseteq DOMAIN table
    BY <1>4 DEF SetupGroup, Least
  <2>2. UNCHANGED <<program, opts, table, moved, stop, gaveUp>> /\ refused' \in BOOLEAN
        /\ pc = "setup" /\ pc' \in {"setup", "ended"}
    BY <1>4 DEF SetupGroup
  <2>3. QED
    BY <2>1, <2>2
<1>5. CASE SetupMixed \/ SetupDone \/ OpenCounter \/ Show \/ Sleep
  BY <1>5 DEF SetupMixed, SetupDone, GiveUp, OpenCounter, Show, Sleep
<1>6. CASE LoopTest \/ PollStep \/ StopGroups
  BY <1>6 DEF LoopTest, PollStep, StopGroups
<1>7. CASE Interrupt \/ Work \/ Elsewhere
  BY <1>7 DEF Interrupt, Work, Elsewhere
<1>8. CASE UNCHANGED vars
  BY <1>8 DEF vars
<1>9. QED
  BY <1>1, <1>2, <1>3, <1>4, <1>5, <1>6, <1>7, <1>8 DEF Next, Step

LEMMA KeptHolds == Spec => []KeptInv
BY KeptInit, KeptStep, PTL DEF Spec

LEMMA PollTypesHolds == Spec => []PollTypes
<1>1. Init => PollTypes
  BY PollTypesInit DEF Init
<1>2. PollTypes /\ FreshInv /\ TableInv /\ [Next]_vars => PollTypes'
  BY ToolMovesValues, PollTypesStep
<1>3. QED
  BY <1>1, <1>2, FreshHolds, TableInvHolds, PTL DEF Spec

(* The types of the state of the monitoring programs and of the values     *)
(* they poll, words that do not wrap included.                             *)
THEOREM TypeCorrect == Spec => []TypeOK
<1>1. Spec => []ToolInv
  BY ToolInit, ToolStep, TableInvHolds, KeptHolds, PTL DEF Spec
<1>2. PollTypes /\ ToolInv /\ TableInv => TypeOK
  BY DEF PollTypes, ToolInv, TableInv, Entry, TypeOK, Pcs
<1>3. QED
  BY <1>1, <1>2, PollTypesHolds, TableInvHolds, PTL

-----------------------------------------------------------------------------
(* What has been read: a reading gives what each context had moved when it *)
(* was read.                                                               *)
Most == Width + MaxTraffic
Reading == [ctxs -> 0 .. Most]
TurnsOf(R) == [x \in ctxs |-> Turned(R[x])]

Held(t, R, S) == t.bytes = Total(R, S) /\ t.turns = Total(TurnsOf(R), S)

(* An earlier reading, the one that is stored. *)
Past(k, R) == (\A x \in ctxs : R[x] <= traffic[x][k]) /\ Held(seen[k], R, ctxs)

(* The reading R that goes on, after P: of what it has come to, and up to  *)
(* date as long as nothing moves.                                          *)
Sweep(P, R) ==
  /\ Past(stage, P)
  /\ \A x \in ctxs \ todo : /\ P[x] <= R[x] /\ R[x] <= traffic[x][stage]
                            /\ still => R[x] = traffic[x][stage]
  /\ Held(swept, R, ctxs \ todo)

(* What counters that show n have counted. *)
Shows(t, n) == t.exact => n = t.bytes - Width * t.turns

ReadInv ==
  /\ \A k \in Kinds : Shows(seen[k], pv[k])
  /\ \A k \in Kinds : \E R \in Reading : Past(k, R)
  /\ stage \in Kinds => Shows(swept, sum)
  /\ stage \in Kinds => \E P, R \in Reading : Sweep(P, R)

-----------------------------------------------------------------------------
LEMMA TimesType == ASSUME NEW a \in Nat, NEW b \in Nat PROVE a * b \in Nat
OBVIOUS

LEMMA TimesGrows == ASSUME NEW a \in Nat, NEW b \in Nat, NEW n \in Nat, a <= b PROVE a * n <= b * n
<1> DEFINE e == b - a
<1>1. e \in Nat /\ b = a + e
  OBVIOUS
<1> HIDE DEF e
<1>2. b * n = a * n + e * n
  BY <1>1
<1>3. a * n \in Nat /\ e * n \in Nat
  BY <1>1, TimesType
<1>4. QED
  BY <1>2, <1>3

LEMMA DivGrows ==
  ASSUME NEW W \in Nat \ {0}, NEW a \in Nat, NEW b \in Nat, a <= b
  PROVE  a \div W <= b \div W
<1> DEFINE q == a \div W
           r == b \div W
           m == a % W
           n == b % W
<1>1. /\ q \in Nat /\ r \in Nat /\ a = W * q + m /\ b = W * r + n
      /\ m \in 0 .. W - 1 /\ n \in 0 .. W - 1
  <2>1. q \in Nat /\ a = W * q + m /\ r \in Nat /\ b = W * r + n
    BY DivMod
  <2>2. a \in Int /\ b \in Int
    OBVIOUS
  <2>3. m \in 0 .. W - 1 /\ n \in 0 .. W - 1
    BY <2>2, ModType
  <2>4. QED
    BY <2>1, <2>3
<1> HIDE DEF q, r, m, n
<1>2. SUFFICES ASSUME r < q PROVE FALSE
  BY <1>1 DEF q, r
<1>3. (r + 1) * W <= q * W
  BY <1>1, <1>2, TimesGrows
<1>4. (r + 1) * W = W * r + W /\ q * W = W * q /\ W * r \in Nat /\ W * q \in Nat
  BY <1>1
<1>5. QED
  BY <1>1, <1>3, <1>4

LEMMA TurnedGrows ==
  ASSUME NEW a \in Nat, NEW b \in Nat, a <= b
  PROVE  Turned(a) \in Nat /\ Turned(a) <= Turned(b) /\ Turned(a) <= a
<1>1. Width \in Nat \ {0}
  BY ValuesAssumption
<1>2. a \div Width \in Nat /\ b \div Width \in Nat /\ a \div Width <= b \div Width
  BY <1>1, DivMod, DivGrows
<1>3. a \div Width <= a
  <2>1. a = Width * (a \div Width) + (a % Width) /\ a % Width \in Nat
    BY <1>1, DivMod
  <2>2. 1 * (a \div Width) <= Width * (a \div Width)
    BY <1>1, <1>2, TimesGrows
  <2>3. Width * (a \div Width) \in Nat
    BY <1>1, <1>2
  <2>4. QED
    BY <1>2, <2>1, <2>2, <2>3
<1>4. QED
  BY <1>2, <1>3 DEF Turned

(* Sums of readings. *)
LEMMA ReadingType ==
  ASSUME PollTypes, NEW R \in Reading, NEW S \in SUBSET ctxs
  PROVE  /\ IsFiniteSet(S)
         /\ Most \in Nat
         /\ \A x \in S : R[x] \in 0 .. Most /\ R[x] \in Nat /\ TurnsOf(R)[x] \in 0 .. Most /\ TurnsOf(R)[x] = Turned(R[x])
         /\ Total(R, S) \in Nat /\ Total(R, S) < Word
         /\ Total(TurnsOf(R), S) \in Nat
<1>1. Most \in Nat /\ Word \in Nat
  BY ValuesAssumption DEF Most
<1>2. IsFiniteSet(S) /\ Cardinality(S) <= Cardinality(ctxs) /\ IsFiniteSet(ctxs)
      /\ Cardinality(ctxs) <= Cardinality(Cores)
  BY FS_Subset DEF PollTypes
<1>3. Cardinality(S) \in Nat /\ Cardinality(ctxs) \in Nat /\ Cardinality(Cores) \in Nat
  BY <1>2, CoresAssumption, FS_CardinalityType
<1>4. \A x \in S : R[x] \in 0 .. Most /\ R[x] \in Nat /\ TurnsOf(R)[x] \in 0 .. Most /\ TurnsOf(R)[x] = Turned(R[x])
  <2> SUFFICES ASSUME NEW x \in S
               PROVE  R[x] \in 0 .. Most /\ R[x] \in Nat /\ TurnsOf(R)[x] \in 0 .. Most /\ TurnsOf(R)[x] = Turned(R[x])
    OBVIOUS
  <2>1. R[x] \in 0 .. Most /\ R[x] \in Nat /\ TurnsOf(R)[x] = Turned(R[x])
    BY DEF Reading, TurnsOf
  <2>2. Turned(R[x]) \in Nat /\ Turned(R[x]) <= R[x]
    BY <2>1, TurnedGrows
  <2>3. QED
    BY <1>1, <2>1, <2>2
<1>5. Total(R, S) \in Nat /\ Total(R, S) <= Cardinality(S) * Most
  BY <1>1, <1>2, <1>4, TotalType
<1>6. Total(TurnsOf(R), S) \in Nat
  BY <1>1, <1>2, <1>4, TotalType
<1>7. Cardinality(S) * Most <= Cardinality(Cores) * Most
  BY <1>1, <1>2, <1>3, TimesGrows
<1>8. Cardinality(Cores) * Most < Word
  BY SumsFitAWord DEF Most
<1>9. Cardinality(S) * Most \in Nat /\ Cardinality(Cores) * Most \in Nat
  BY <1>1, <1>3, TimesType
<1>10. QED
  BY <1>1, <1>2, <1>4, <1>5, <1>6, <1>7, <1>8, <1>9

(* A later reading has counted no less. *)
LEMMA ReadingGrows ==
  ASSUME PollTypes, NEW P \in Reading, NEW R \in Reading, \A x \in ctxs : P[x] <= R[x]
  PROVE  Total(P, ctxs) <= Total(R, ctxs) /\ Total(TurnsOf(P), ctxs) <= Total(TurnsOf(R), ctxs)
<1>1. IsFiniteSet(ctxs) /\ Most \in Nat
  BY ReadingType
<1>2. \A x \in ctxs : /\ P[x] \in 0 .. Most /\ R[x] \in 0 .. Most /\ P[x] \in Nat /\ R[x] \in Nat
                      /\ TurnsOf(P)[x] \in 0 .. Most /\ TurnsOf(P)[x] = Turned(P[x])
                      /\ TurnsOf(R)[x] \in 0 .. Most /\ TurnsOf(R)[x] = Turned(R[x])
  BY ReadingType
<1>3. \A x \in ctxs : TurnsOf(P)[x] <= TurnsOf(R)[x]
  BY <1>2, TurnedGrows
<1>4. QED
  BY <1>1, <1>2, <1>3, TotalGrows

LEMMA ModSmall == ASSUME NEW W \in Nat \ {0}, NEW n \in 0 .. W - 1 PROVE n % W = n
OBVIOUS

(* The difference of two sums of registers is what they counted in between *)
(* when one of them turned at most, and less than a register holds.        *)
LEMMA DeltaTells ==
  ASSUME NEW b \in Nat, NEW c \in Nat, NEW s \in Nat, NEW t \in Nat, b <= c, c < Word, s <= t, t <= s + 1,
         iface = "MSR" => c - b < Width, iface # "MSR" => s = t,
         NEW old \in 0 .. Word - 1, NEW new \in 0 .. Word - 1,
         old = b - Width * s, new = c - Width * t
  PROVE  Delta(old, new) = c - b
<1>1. Word \in Nat \ {0} /\ Width \in Nat \ {0} /\ Width * s \in Nat
  BY ValuesAssumption
<1>2. CASE s = t
  <2>1. new - old = c - b /\ ~(old > new)
    BY <1>1, <1>2
  <2>2. QED
    BY <2>1 DEF Delta
<1>3. CASE t = s + 1
  <2>1. iface = "MSR"
    BY <1>3
  <2>2. Width * t = Width * s + Width
    BY <1>1, <1>3
  <2>3. Width - old + new = c - b
    BY <1>1, <2>2
  <2>4. old > new
    BY <1>1, <2>1, <2>3
  <2>5. c - b \in 0 .. Word - 1
    BY <1>1
  <2>6. Delta(old, new) = (Width - old + new) % Word
    BY <2>1, <2>4 DEF Delta
  <2>7. QED
    BY <1>1, <2>3, <2>5, <2>6, ModSmall
<1>4. QED
  BY <1>2, <1>3

-----------------------------------------------------------------------------
(* Readings are of what they were as long as contexts and counters are.    *)
LEMMA SameReadings ==
  ASSUME UNCHANGED <<iface, ctxs>>
  PROVE  /\ Reading' = Reading
         /\ \A R : TurnsOf(R)' = TurnsOf(R)
         /\ \A R, S : Total(TurnsOf(R), S)' = Total(TurnsOf(R), S')
BY DEF Reading, TurnsOf, Turned

(* Traffic only grows. *)
Grown == \A x \in ctxs : \A k \in Kinds : traffic[x][k] <= traffic'[x][k]

LEMMA PastStays ==
  ASSUME PollTypes, PollTypes', UNCHANGED <<iface, ctxs, seen>>, Grown, NEW k \in Kinds, NEW R \in Reading, Past(k, R)
  PROVE  R \in Reading' /\ Past(k, R)'
<1>1. Reading' = Reading /\ TurnsOf(R)' = TurnsOf(R)
  BY SameReadings
<1>2. Held(seen[k], R, ctxs)'
  BY <1>1 DEF Past, Held
<1>3. \A x \in ctxs : R[x] <= traffic'[x][k]
  <2> SUFFICES ASSUME NEW x \in ctxs PROVE R[x] <= traffic'[x][k]
    OBVIOUS
  <2>1. R[x] \in Nat /\ traffic[x][k] \in Nat /\ R[x] <= traffic[x][k]
    BY ReadingType, RegisterShows DEF Past
  <2>2. traffic'[x][k] \in Nat
    BY DEF PollTypes, PollTypeOK
  <2>3. traffic[x][k] <= traffic'[x][k]
    BY DEF Grown
  <2>4. QED
    BY <2>1, <2>2, <2>3
<1>4. QED
  BY <1>1, <1>2, <1>3 DEF Past

LEMMA PastsStay ==
  ASSUME PollTypes, PollTypes', UNCHANGED <<iface, ctxs, seen, pv>>, Grown, ReadInv
  PROVE  /\ \A k \in Kinds : Shows(seen'[k], pv'[k])
         /\ \A k \in Kinds : \E R \in Reading' : Past(k, R)'
BY PastStays DEF ReadInv

LEMMA KeepsReads ==
  ASSUME PollTypes, PollTypes', ReadInv, UNCHANGED <<iface, ctxs, seen, pv, traffic>>, stage' \notin Kinds
  PROVE  ReadInv'
<1>1. Grown
  <2>1. \A x \in ctxs : \A k \in Kinds : traffic[x][k] \in Nat
    BY RegisterShows
  <2>2. QED
    BY <2>1 DEF Grown
<1>2. QED
  BY <1>1, PastsStay DEF ReadInv, Shows

LEMMA ReadInit == PollInit => ReadInv
<1> SUFFICES ASSUME PollInit PROVE ReadInv
  OBVIOUS
<1> DEFINE R == [x \in ctxs |-> 0]
<1>1. ctxs = {} /\ stage = "idle" /\ seen = [k \in Kinds |-> NothingRead]
      /\ pv = [local |-> 0, total |-> 0, dlocal |-> 0, dtotal |-> 0, dremote |-> 0]
  BY DEF PollInit
<1>2. R \in Reading
  BY <1>1 DEF Reading
<1>3. \A k \in Kinds : Past(k, R)
  BY <1>1, TotalNone DEF Past, Held, NothingRead
<1>4. \A k \in Kinds : Shows(seen[k], pv[k])
  BY <1>1, ValuesAssumption DEF Shows, NothingRead, Kinds
<1>5. QED
  BY <1>1, <1>2, <1>3, <1>4 DEF ReadInv, Kinds

LEMMA BeginsReads ==
  ASSUME PollTypes, PollTypes', ReadInv, NEW cs, NEW e, Begins(cs, e) PROVE ReadInv'
<1>1. /\ \E before \in [ctxs' -> IF iface = "MSR" THEN Leftovers ELSE {0}] :
           traffic' = [x \in ctxs' |-> [k \in Kinds |-> before[x]]]
      /\ seen' = [k \in Kinds |-> [NothingRead EXCEPT !.exact = iface = "OS"]]
      /\ UNCHANGED <<iface, pv, stage>>
      /\ stage = "idle" /\ pv = [local |-> 0, total |-> 0, dlocal |-> 0, dtotal |-> 0, dremote |-> 0]
  BY DEF Begins, StartGroup, sweepVars, Fresh
<1>2. \A k \in Kinds : seen'[k].bytes = 0 /\ seen'[k].turns = 0
  BY <1>1, NothingReadType, (iface = "OS") \in BOOLEAN
<1>3. \A k \in Kinds : pv'[k] = 0
  BY <1>1 DEF Kinds
<1>4. PICK R \in Reading' : \A x \in ctxs' : R[x] = 0
  <2>1. [x \in ctxs' |-> 0] \in Reading'
    BY ValuesAssumption DEF Reading, Most
  <2>2. QED
    BY <2>1
<1>5. \A x \in ctxs' : R[x] = 0 /\ TurnsOf(R)'[x] = 0
  BY <1>4, ValuesAssumption DEF TurnsOf, Turned
<1>6. Total(R, ctxs') = 0 /\ Total(TurnsOf(R)', ctxs') = 0
  <2>1. \A f : (\A x \in ctxs' : f[x] = 0) => Total(f, ctxs') = 0
    BY TotalZero
  <2>2. QED
    BY <1>5, <2>1
<1>7. \A x \in ctxs' : \A k \in Kinds : traffic'[x][k] \in Nat
  BY DEF PollTypes, PollTypeOK
<1>8. \A k \in Kinds : Past(k, R)'
  <2>1. \A k \in Kinds : \A x \in ctxs' : R[x] <= traffic'[x][k]
    BY <1>5, <1>7
  <2>2. QED
    BY <1>2, <1>6, <2>1 DEF Past, Held
<1>9. \A k \in Kinds : Shows(seen[k], pv[k])'
  BY <1>2, <1>3, ValuesAssumption DEF Shows
<1>10. stage' \notin Kinds
  BY <1>1 DEF Kinds
<1>11. QED
  BY <1>4, <1>8, <1>9, <1>10 DEF ReadInv

LEMMA TrafficGrows ==
  ASSUME PollTypes, NEW y \in ctxs, NEW j \in Kinds, Traffic(y, j)
  PROVE  \A x \in ctxs : /\ \A k \in Kinds : /\ traffic[x][k] \in Nat /\ traffic'[x][k] \in Nat
                                             /\ traffic[x][k] <= traffic'[x][k]
                         /\ traffic'[x]["local"] + traffic[x]["total"] <= traffic'[x]["total"] + traffic[x]["local"]
<1>1. /\ traffic' = [traffic EXCEPT ![y] =
                       [k \in Kinds |-> IF k = "total" \/ j = "local" THEN @[k] + 1 ELSE @[k]]]
      /\ traffic \in [ctxs -> [Kinds -> 0 .. Width - 1 + MaxTraffic]]
  BY DEF Traffic, PollTypes, PollTypeOK
<1> SUFFICES ASSUME NEW x \in ctxs
             PROVE  /\ \A k \in Kinds : /\ traffic[x][k] \in Nat /\ traffic'[x][k] \in Nat
                                        /\ traffic[x][k] <= traffic'[x][k]
                    /\ traffic'[x]["local"] + traffic[x]["total"] <= traffic'[x]["total"] + traffic[x]["local"]
  OBVIOUS
<1>2. \A k \in Kinds : traffic[x][k] \in Nat
  BY RegisterShows
<1>3. CASE x = y
  <2>1. traffic'[x] = [k \in Kinds |-> IF k = "total" \/ j = "local" THEN traffic[x][k] + 1 ELSE traffic[x][k]]
    BY <1>1, <1>3
  <2>2. \A k \in Kinds : traffic'[x][k] = IF k = "total" \/ j = "local" THEN traffic[x][k] + 1 ELSE traffic[x][k]
    BY <2>1
  <2>3. QED
    BY <1>2, <2>2 DEF Kinds
<1>4. CASE x # y
  <2>1. traffic'[x] = traffic[x]
    BY <1>1, <1>4
  <2>2. QED
    BY <1>2, <2>1 DEF Kinds
<1>5. QED
  BY <1>3, <1>4

LEMMA TrafficReads ==
  ASSUME PollTypes, PollTypes', ReadInv, NEW x \in ctxs, NEW k \in Kinds, Traffic(x, k) PROVE ReadInv'
<1>1. UNCHANGED <<iface, ctxs, pv, seen, stage, todo, sum, swept>> /\ still' = (still /\ stage = "idle")
  BY DEF Traffic, sweepVars
<1>2. Grown
  BY TrafficGrows DEF Grown
<1>3. stage \in Kinds => \E P, R \in Reading : Sweep(P, R)'
  <2> SUFFICES ASSUME stage \in Kinds PROVE \E P, R \in Reading : Sweep(P, R)'
    OBVIOUS
  <2>1. PICK P \in Reading, R \in Reading : Sweep(P, R)
    BY DEF ReadInv
  <2>2. Past(stage, P)'
    <3> DEFINE s == stage
    <3>1. s \in Kinds /\ Past(s, P)
      BY <2>1 DEF Sweep
    <3>2. Past(stage, P)' <=> ((\A y \in ctxs : P[y] <= traffic'[y][s]) /\ Held(seen[s], P, ctxs)')
      BY <1>1 DEF Past, Held
    <3>3. Held(seen[s], P, ctxs)'
      BY <1>1, <3>1, SameReadings DEF Past, Held
    <3>4. \A y \in ctxs : P[y] \in Nat /\ traffic[y][s] \in Nat /\ traffic'[y][s] \in Nat
                          /\ P[y] <= traffic[y][s] /\ traffic[y][s] <= traffic'[y][s]
      BY <3>1, TrafficGrows, ReadingType DEF Past
    <3>5. QED
      BY <3>2, <3>3, <3>4
  <2>3. ~still'
    BY <1>1 DEF Kinds
  <2>4. \A y \in ctxs : R[y] \in Nat /\ traffic[y][stage] \in Nat /\ traffic'[y][stage] \in Nat
                        /\ traffic[y][stage] <= traffic'[y][stage]
    BY TrafficGrows, ReadingType
  <2>5. \A y \in ctxs' \ todo' : P[y] <= R[y] /\ R[y] <= traffic'[y][stage']
    <3>1. \A y \in ctxs \ todo : P[y] <= R[y] /\ R[y] <= traffic[y][stage]
      BY <2>1 DEF Sweep
    <3>2. QED
      BY <1>1, <2>4, <3>1
  <2>6. Held(swept, R, ctxs \ todo)'
    BY <1>1, <2>1, SameReadings DEF Sweep, Held
  <2>7. QED
    BY <2>2, <2>3, <2>5, <2>6 DEF Sweep
<1>4. QED
  BY <1>1, <1>2, <1>3, PastsStay, SameReadings DEF ReadInv, Shows

LEMMA ReadContextReads ==
  ASSUME PollTypes, ReadInv, NEW x \in ctxs, ReadContext(x) PROVE ReadInv'
<1>1. /\ PollTypes'
      /\ stage \in Kinds /\ x \in todo /\ todo' = todo \ {x}
      /\ UNCHANGED <<iface, event, ctxs, traffic, pv, validRead, stage, seen, span, reports, lastPoll, still, calm, flow>>
  BY ReadContextTypes
<1>2. PICK v \in Nat : /\ sum' = (sum + v) % Word
                       /\ swept' = [bytes |-> swept.bytes + traffic[x][stage],
                                    turns |-> swept.turns + Turned(traffic[x][stage]),
                                    exact |-> swept.exact /\ v = Register(stage, x)]
  BY ReadContextTypes
<1>3. PICK P \in Reading, R \in Reading : Sweep(P, R)
  BY <1>1 DEF ReadInv
<1> DEFINE n == traffic[x][stage]
           S == ctxs \ todo
           T == S \union {x}
<1>4. n \in Nat /\ n \in 0 .. Most /\ Turned(n) \in Nat
      /\ Register(stage, x) \in 0 .. n /\ Register(stage, x) = n - Width * Turned(n)
  <2>1. n \in 0 .. Width - 1 + MaxTraffic
    BY <1>1 DEF PollTypes, PollTypeOK
  <2>2. QED
    BY <1>1, <2>1, RegisterShows, ValuesAssumption DEF Most
<1>5. PICK Q \in Reading : Q = [R EXCEPT ![x] = n]
  BY <1>4 DEF Reading
<1>6. S \in SUBSET ctxs /\ T \in SUBSET ctxs /\ x \notin S /\ ctxs' \ todo' = T
  BY <1>1 DEF PollTypes, PollTypeOK
<1>7. Q[x] = n /\ \A y \in S : Q[y] = R[y]
  BY <1>5, <1>6 DEF Reading
<1> HIDE DEF n, S, T
<1>8. Total(Q, T) = Total(R, S) + n /\ Total(TurnsOf(Q), T) = Total(TurnsOf(R), S) + Turned(n)
  <2>1. IsFiniteSet(S) /\ Most \in Nat /\ T = S \union {x}
        /\ \A y \in T : Q[y] \in 0 .. Most /\ TurnsOf(Q)[y] \in 0 .. Most /\ TurnsOf(Q)[y] = Turned(Q[y])
    BY <1>6, ReadingType DEF T
  <2>2. Total(Q, T) = Total(Q, S) + Q[x] /\ Total(TurnsOf(Q), T) = Total(TurnsOf(Q), S) + TurnsOf(Q)[x]
    BY <1>6, <2>1, TotalAdds
  <2>3. TurnsOf(Q)[x] = Turned(n) /\ \A y \in S : TurnsOf(Q)[y] = TurnsOf(R)[y]
    <3>1. x \in T /\ \A y \in S : TurnsOf(Q)[y] = Turned(Q[y]) /\ TurnsOf(R)[y] = Turned(R[y])
      BY <1>6, ReadingType DEF T
    <3>2. QED
      BY <1>7, <2>1, <3>1
  <2>4. Total(Q, S) = Total(R, S) /\ Total(TurnsOf(Q), S) = Total(TurnsOf(R), S)
    BY <1>7, <2>3, TotalSame
  <2>5. QED
    BY <1>7, <2>2, <2>3, <2>4
<1>9. swept.bytes = Total(R, S) /\ swept.turns = Total(TurnsOf(R), S)
  BY <1>3 DEF Sweep, Held, S
<1>10. swept'.bytes = Total(Q, T) /\ swept'.turns = Total(TurnsOf(Q), T)
       /\ swept'.exact = (swept.exact /\ v = Register(stage, x))
  BY <1>2, <1>8, <1>9 DEF n
<1>11. Sweep(P, Q)'
  <2>1. Held(swept, Q, ctxs \ todo)'
    BY <1>1, <1>6, <1>10, SameReadings DEF Held
  <2>2. Past(stage, P)'
    <3>1. Past(stage, P)
      BY <1>3 DEF Sweep
    <3>2. Held(seen[stage], P, ctxs)'
      BY <1>1, <3>1, SameReadings DEF Past, Held
    <3>3. QED
      BY <1>1, <3>1, <3>2 DEF Past
  <2>3. \A y \in T : P[y] <= Q[y] /\ Q[y] <= traffic[y][stage] /\ (still => Q[y] = traffic[y][stage])
    <3> SUFFICES ASSUME NEW y \in T
                 PROVE  P[y] <= Q[y] /\ Q[y] <= traffic[y][stage] /\ (still => Q[y] = traffic[y][stage])
      OBVIOUS
    <3>1. CASE y \in S
      BY <1>3, <1>7, <3>1 DEF Sweep, S
    <3>2. CASE y = x
      <4>1. P[x] <= n
        BY <1>3 DEF Sweep, Past, n
      <4>2. QED
        BY <1>4, <1>7, <3>2, <4>1 DEF n
    <3>3. QED
      BY <3>1, <3>2 DEF T
  <2>4. QED
    BY <1>1, <1>6, <2>1, <2>2, <2>3 DEF Sweep
<1>12. Shows(swept', sum')
  <2> SUFFICES ASSUME swept'.exact PROVE sum' = swept'.bytes - Width * swept'.turns
    BY DEF Shows
  <2>1. swept.exact /\ v = Register(stage, x)
    BY <1>10
  <2>2. sum = swept.bytes - Width * swept.turns
    BY <1>1, <2>1 DEF ReadInv, Shows
  <2>3. /\ Total(R, S) \in Nat /\ Total(TurnsOf(R), S) \in Nat /\ Total(Q, T) \in Nat /\ Total(Q, T) < Word
        /\ Width \in Nat /\ Word \in Nat \ {0} /\ sum \in Nat
    BY <1>6, ReadingType, ValuesAssumption DEF PollTypes, PollTypeOK
  <2>4. Width * (Total(TurnsOf(R), S) + Turned(n)) = Width * Total(TurnsOf(R), S) + Width * Turned(n)
        /\ Width * Total(TurnsOf(R), S) \in Nat /\ Width * Turned(n) \in Nat
    BY <1>4, <2>3
  <2>5. sum + v = swept'.bytes - Width * swept'.turns
    BY <1>4, <1>8, <1>9, <1>10, <2>1, <2>2, <2>3, <2>4
  <2>6. sum + v \in 0 .. Word - 1
    BY <1>4, <1>8, <1>9, <1>10, <2>1, <2>2, <2>3, <2>4
  <2>7. QED
    BY <1>2, <2>3, <2>5, <2>6, ModSmall
<1>13. Grown
  <2>1. \A y \in ctxs : \A k \in Kinds : traffic[y][k] \in Nat
    BY RegisterShows
  <2>2. QED
    BY <1>1, <2>1 DEF Grown
<1>14. /\ \A k \in Kinds : Shows(seen'[k], pv'[k])
       /\ \A k \in Kinds : \E W \in Reading' : Past(k, W)'
  BY <1>1, <1>13, PastsStay
<1>15. P \in Reading' /\ Q \in Reading'
  BY <1>1, SameReadings
<1>16. QED
  BY <1>11, <1>12, <1>14, <1>15 DEF ReadInv, Shows

(* A sweep begins with nothing read. *)
LEMMA EnterReads ==
  ASSUME PollTypes', NEW s \in Reads(event), Enter(s), UNCHANGED <<iface, ctxs>>,
         \A k \in Kinds : Shows(seen'[k], pv'[k]),
         \A k \in Kinds : \E R \in Reading' : Past(k, R)'
  PROVE  ReadInv'
<1>1. /\ stage' = s /\ sum' = 0 /\ swept'.bytes = 0 /\ swept'.turns = 0
      /\ s \in Kinds => todo' = ctxs'
  BY NothingReadType, TRUE \in BOOLEAN DEF Enter
<1>2. Shows(swept', sum')
  BY <1>1, ValuesAssumption DEF Shows
<1>3. ASSUME s \in Kinds PROVE \E P, R \in Reading' : Sweep(P, R)'
  <2>1. PICK P \in Reading' : Past(s, P)'
    BY <1>3
  <2>2. Held(swept, P, {})'
    BY <1>1, TotalNone DEF Held
  <2>3. ctxs' \ todo' = {}
    BY <1>1, <1>3
  <2>4. Past(stage, P)'
    BY <1>1, <2>1 DEF Past
  <2>5. Sweep(P, P)'
    BY <2>2, <2>3, <2>4 DEF Sweep
  <2>6. QED
    BY <2>1, <2>5
<1>4. QED
  BY <1>1, <1>2, <1>3 DEF ReadInv, Shows

(* What the end of a sweep stores. *)
LEMMA StageDoneStores ==
  ASSUME PollTypes, StageDone
  PROVE  /\ \A k \in Kinds : /\ pv'[k] = IF k = stage THEN sum ELSE pv[k]
                             /\ seen'[k] = IF k = stage THEN swept ELSE seen[k]
         /\ UNCHANGED <<iface, event, ctxs, traffic, still, flow, faults>>
         /\ stage # "idle" /\ todo = {}
<1>1. /\ UNCHANGED <<iface, event, ctxs, traffic, still, flow, faults>> /\ stage # "idle" /\ todo = {}
      /\ IF stage \in Kinds THEN Recorded(stage) ELSE UNCHANGED <<seen, span>>
      /\ pv' \in {Given, NoBandwidth(Given)}
  BY DEF StageDone, Through, Given
<1>2. seen \in [Kinds -> Tally] /\ pv \in [Fields -> 0 .. Word - 1] /\ Given \in [Fields -> 0 .. Word - 1]
  BY StoredTypes DEF PollTypes, PollTypeOK, Fields, Given
<1>3. \A k \in Kinds : seen'[k] = IF k = stage THEN swept ELSE seen[k]
  BY <1>1, <1>2 DEF Recorded
<1>4. \A k \in Kinds : NoBandwidth(Given)[k] = Given[k]
  BY <1>2 DEF NoBandwidth, Fields, Kinds
<1>5. \A k \in Kinds : Given[k] = IF k = stage THEN sum ELSE pv[k]
  BY <1>2 DEF Given, Stored, Fields, Kinds
<1>6. QED
  BY <1>1, <1>3, <1>4, <1>5

(* A sweep that is over gives a reading later than the one that is stored, *)
(* and the code gets from the two sums what was counted in between.        *)
Swept(P, R) ==
  /\ Past(stage, P) /\ Held(swept, R, ctxs)
  /\ \A x \in ctxs : P[x] <= R[x] /\ R[x] <= traffic[x][stage] /\ (still => R[x] = traffic[x][stage])

LEMMA SweepOver ==
  ASSUME PollTypes, ReadInv, stage \in Kinds, todo = {}
  PROVE  /\ \E P, R \in Reading : Swept(P, R)
         /\ \/ ~swept.exact \/ ~seen[stage].exact \/ swept.turns - seen[stage].turns > 1
            \/ iface = "MSR" /\ ~(swept.bytes - seen[stage].bytes < Width)
            \/ Delta(pv[stage], sum) = swept.bytes - seen[stage].bytes
<1>1. PICK P \in Reading, R \in Reading : Swept(P, R)
  BY DEF ReadInv, Sweep, Swept
<1>2. /\ seen[stage].bytes = Total(P, ctxs) /\ seen[stage].turns = Total(TurnsOf(P), ctxs)
      /\ swept.bytes = Total(R, ctxs) /\ swept.turns = Total(TurnsOf(R), ctxs)
  BY <1>1 DEF Swept, Past, Held
<1>3. Total(P, ctxs) <= Total(R, ctxs) /\ Total(TurnsOf(P), ctxs) <= Total(TurnsOf(R), ctxs)
  BY <1>1, ReadingGrows DEF Swept
<1>4. /\ Total(P, ctxs) \in Nat /\ Total(R, ctxs) \in Nat /\ Total(R, ctxs) < Word
      /\ Total(TurnsOf(P), ctxs) \in Nat /\ Total(TurnsOf(R), ctxs) \in Nat
  BY ReadingType
<1>5. iface # "MSR" => Total(TurnsOf(P), ctxs) = 0 /\ Total(TurnsOf(R), ctxs) = 0
  <2> SUFFICES ASSUME iface # "MSR" PROVE Total(TurnsOf(P), ctxs) = 0 /\ Total(TurnsOf(R), ctxs) = 0
    OBVIOUS
  <2>1. \A x \in ctxs : TurnsOf(P)[x] = 0 /\ TurnsOf(R)[x] = 0
    BY DEF TurnsOf, Turned
  <2>2. QED
    BY <2>1, TotalZero
<1>6. ASSUME swept.exact, seen[stage].exact, ~(swept.turns - seen[stage].turns > 1),
             iface = "MSR" => swept.bytes - seen[stage].bytes < Width
      PROVE  Delta(pv[stage], sum) = swept.bytes - seen[stage].bytes
  <2>1. pv[stage] = Total(P, ctxs) - Width * Total(TurnsOf(P), ctxs)
        /\ sum = Total(R, ctxs) - Width * Total(TurnsOf(R), ctxs)
    BY <1>2, <1>6 DEF ReadInv, Shows
  <2>2. pv[stage] \in 0 .. Word - 1 /\ sum \in 0 .. Word - 1
    BY DEF PollTypes, PollTypeOK, Kinds
  <2>3. Total(TurnsOf(R), ctxs) <= Total(TurnsOf(P), ctxs) + 1
    BY <1>2, <1>4, <1>6
  <2>4. iface = "MSR" => Total(R, ctxs) - Total(P, ctxs) < Width
    BY <1>2, <1>6
  <2>5. QED
    BY <1>2, <1>3, <1>4, <1>5, <2>1, <2>2, <2>3, <2>4, DeltaTells
<1>7. QED
  BY <1>1, <1>6

LEMMA StageDoneReads == ASSUME PollTypes, PollTypes', ReadInv, StageDone PROVE ReadInv'
<1>1. /\ \A k \in Kinds : /\ pv'[k] = IF k = stage THEN sum ELSE pv[k]
                          /\ seen'[k] = IF k = stage THEN swept ELSE seen[k]
      /\ UNCHANGED <<iface, event, ctxs, traffic, still, flow, faults>>
      /\ stage # "idle" /\ todo = {}
  BY StageDoneStores
<1>2. Reading' = Reading /\ \A R : TurnsOf(R)' = TurnsOf(R)
  BY <1>1, SameReadings
<1>3. \A k \in Kinds : Shows(seen'[k], pv'[k])
  BY <1>1 DEF ReadInv
<1>4. \A k \in Kinds : \E R \in Reading' : Past(k, R)'
  <2> SUFFICES ASSUME NEW k \in Kinds PROVE \E R \in Reading' : Past(k, R)'
    OBVIOUS
  <2>1. CASE k = stage
    <3>1. PICK P \in Reading, R \in Reading : Swept(P, R)
      BY <1>1, <2>1, SweepOver
    <3>2. Past(k, R)'
      BY <1>1, <1>2, <2>1, <3>1 DEF Past, Swept, Held
    <3>3. QED
      BY <1>2, <3>2
  <2>2. CASE k # stage
    <3>1. PICK R \in Reading : Past(k, R)
      BY DEF ReadInv
    <3>2. Past(k, R)'
      BY <1>1, <1>2, <2>2, <3>1 DEF Past, Held
    <3>3. QED
      BY <1>2, <3>2
  <2>3. QED
    BY <2>1, <2>2
<1>5. CASE After(stage) # {}
  <2>1. PICK s \in Reads(event) : Enter(s)
    BY <1>5 DEF StageDone, First, After
  <2>2. QED
    BY <1>1, <1>3, <1>4, <2>1, EnterReads
<1>6. CASE After(stage) = {}
  <2>1. stage' \notin Kinds
    BY <1>6 DEF StageDone, Kinds
  <2>2. QED
    BY <1>3, <1>4, <2>1 DEF ReadInv, Shows
<1>7. QED
  BY <1>5, <1>6

LEMMA ReadStep == ASSUME PollTypes, PollTypes', ReadInv, ValuesNext PROVE ReadInv'
<1>1. CASE \E cs, e : Begins(cs, e)
  BY <1>1, BeginsReads
<1>2. CASE \E x \in ctxs, k \in Kinds : Traffic(x, k)
  BY <1>2, TrafficReads
<1>3. CASE BeginPoll
  <2>1. PICK s \in Reads(event) : Enter(s)
    BY <1>3 DEF BeginPoll, First
  <2>2. UNCHANGED <<iface, ctxs, traffic, seen, pv>>
    BY <1>3 DEF BeginPoll, valueVars
  <2>3. Grown
    <3>1. \A x \in ctxs : \A k \in Kinds : traffic[x][k] \in Nat
      BY RegisterShows
    <3>2. QED
      BY <2>2, <3>1 DEF Grown
  <2>4. QED
    BY <2>1, <2>2, <2>3, PastsStay, EnterReads
<1>4. CASE \E x \in ctxs : ReadContext(x)
  BY <1>4, ReadContextReads
<1>5. CASE StageDone
  BY <1>5, StageDoneReads
<1>6. CASE ReadFails
  BY <1>6, KeepsReads DEF ReadFails, valueVars, Kinds
<1>7. CASE ValuesKept
  <2>1. UNCHANGED <<iface, ctxs, traffic, seen, pv, stage, todo, sum, swept, still>>
    BY <1>7 DEF ValuesKept, valueVars, sweepVars, recordVars
  <2>2. CASE stage \notin Kinds
    BY <2>1, <2>2, KeepsReads
  <2>3. CASE stage \in Kinds
    <3>1. Reading' = Reading /\ \A R : TurnsOf(R)' = TurnsOf(R)
      BY <2>1, SameReadings
    <3>2. \A k, R : Past(k, R)' <=> Past(k, R)
      BY <2>1, <3>1 DEF Past, Held
    <3>3. \A P, R : Sweep(P, R)' <=> Sweep(P, R)
      BY <2>1, <3>1, <3>2 DEF Sweep, Held
    <3>4. (\A k \in Kinds : Shows(seen[k], pv[k]))' /\ Shows(swept, sum)'
      BY <2>1, <2>3 DEF ReadInv, Shows
    <3>5. QED
      BY <2>1, <2>3, <3>1, <3>2, <3>3, <3>4 DEF ReadInv
  <2>4. QED
    BY <2>2, <2>3
<1>8. QED
  BY <1>1, <1>2, <1>3, <1>4, <1>5, <1>6, <1>7 DEF ValuesNext, Poll

-----------------------------------------------------------------------------
(* What a poll has read of so far is told right; over MSRs the first poll  *)
(* that goes through is the one that finds no valid reading.               *)
Told(k) == Measurable(k) => DeltaOf(k) = span[k].bytes

ToldInv ==
  /\ stage # "idle" => \A k \in Kinds \intersect Reads(event) : Rank[k] < Rank[stage] => Told(k)
  /\ iface = "MSR" => (validRead <=> reports > 0)
  /\ ReportIsTraffic

-----------------------------------------------------------------------------
(* What comes before the next stage, or before the end, is this stage and  *)
(* what came before it.                                                    *)
LEMMA StageOrder ==
  ASSUME PollTypes, stage # "idle", NEW k \in Reads(event),
         After(stage) = {} \/ \E s \in First(After(stage)) : Rank[k] < Rank[s]
  PROVE  k = stage \/ Rank[k] < Rank[stage]
<1>1. stage \in {"llc", "local", "total", "ipc"} /\ k \in {"llc", "local", "total", "ipc"}
  BY DEF PollTypes, Reads
<1>2. Rank[k] \in Nat /\ Rank[stage] \in Nat /\ (Rank[k] = Rank[stage] => k = stage)
  BY <1>1 DEF Rank
<1>3. k \notin After(stage)
  <2>1. CASE After(stage) = {}
    BY <2>1
  <2>2. CASE \E s \in First(After(stage)) : Rank[k] < Rank[s]
    <3>1. PICK s \in First(After(stage)) : Rank[k] < Rank[s]
      BY <2>2
    <3>2. s \in {"llc", "local", "total", "ipc"}
      BY <3>1 DEF First, After, Reads
    <3>3. Rank[s] \in Nat
      BY <3>2 DEF Rank
    <3>4. SUFFICES ASSUME k \in After(stage) PROVE FALSE
      OBVIOUS
    <3>5. Rank[s] <= Rank[k]
      BY <3>1, <3>4 DEF First
    <3>6. QED
      BY <1>2, <3>1, <3>3, <3>5
  <2>3. QED
    BY <2>1, <2>2
<1>4. ~(Rank[stage] < Rank[k])
  BY <1>3 DEF After
<1>5. QED
  BY <1>2, <1>4

GivenDelta(k) == IF k = "local" THEN Given.dlocal ELSE Given.dtotal
Measured(t) == t.exact /\ t.turns <= 1 /\ (iface = "MSR" => t.bytes < Width)

LEMMA StageDoneTells ==
  ASSUME PollTypes, ReadInv, StageDone, NEW k \in Kinds
  PROVE  /\ k # stage => span'[k] = span[k] /\ GivenDelta(k) = DeltaOf(k)
         /\ k = stage => /\ span'[k].bytes = swept.bytes - seen[k].bytes
                         /\ GivenDelta(k) = Delta(pv[k], sum)
                         /\ Measured(span'[k]) => GivenDelta(k) = span'[k].bytes
         /\ Measurable(k)' <=> Measured(span'[k])
         /\ Measurable(k) <=> Measured(span[k])
<1>1. /\ iface' = iface /\ todo = {}
      /\ IF stage \in Kinds THEN Recorded(stage) ELSE UNCHANGED <<seen, span>>
  BY DEF StageDone
<1>2. span \in [Kinds -> Tally] /\ seen \in [Kinds -> Tally] /\ swept \in Tally
      /\ pv \in [Fields -> 0 .. Word - 1]
  BY DEF PollTypes, PollTypeOK, Fields
<1>3. k # stage => span'[k] = span[k]
  BY <1>1, <1>2 DEF Recorded
<1>4. k # stage => GivenDelta(k) = DeltaOf(k)
  BY <1>2 DEF GivenDelta, Given, Stored, DeltaOf, Kinds, Fields
<1>5. ASSUME k = stage
      PROVE  /\ span'[k].bytes = swept.bytes - seen[k].bytes
             /\ GivenDelta(k) = Delta(pv[k], sum)
             /\ Measured(span'[k]) => GivenDelta(k) = span'[k].bytes
  <2>1. span'[k] = [bytes |-> swept.bytes - seen[k].bytes, turns |-> swept.turns - seen[k].turns,
                    exact |-> swept.exact /\ seen[k].exact]
    BY <1>1, <1>2, <1>5 DEF Recorded
  <2>2. /\ span'[k].bytes = swept.bytes - seen[k].bytes
        /\ span'[k].turns = swept.turns - seen[k].turns
        /\ span'[k].exact = (swept.exact /\ seen[k].exact)
    BY <2>1
  <2>3. swept.turns - seen[k].turns \in Int
    BY <1>2, <1>5 DEF Tally
  <2>4. GivenDelta(k) = Delta(pv[k], sum)
    BY <1>2, <1>5 DEF GivenDelta, Given, Stored, Kinds, Fields
  <2>5. \/ ~swept.exact \/ ~seen[k].exact \/ swept.turns - seen[k].turns > 1
        \/ iface = "MSR" /\ ~(swept.bytes - seen[k].bytes < Width)
        \/ Delta(pv[k], sum) = swept.bytes - seen[k].bytes
    BY <1>1, <1>5, SweepOver
  <2>6. ASSUME Measured(span'[k]) PROVE GivenDelta(k) = span'[k].bytes
    <3>1. swept.exact /\ seen[k].exact
      BY <2>2, <2>6 DEF Measured
    <3>2. swept.turns - seen[k].turns <= 1 /\ (iface = "MSR" => swept.bytes - seen[k].bytes < Width)
      BY <2>2, <2>6 DEF Measured
    <3>3. ~(swept.turns - seen[k].turns > 1)
      BY <2>3, <3>2
    <3>4. QED
      BY <2>2, <2>4, <2>5, <3>1, <3>2, <3>3
  <2>7. QED
    BY <2>2, <2>4, <2>6
<1>6. Measurable(k)' <=> Measured(span'[k])
  BY <1>1 DEF Measurable, Measured
<1>7. Measurable(k) <=> Measured(span[k])
  BY DEF Measurable, Measured
<1>8. QED
  BY <1>3, <1>4, <1>5, <1>6, <1>7

(* All that is read when a stage is over is told by the values it stores. *)
LEMMA StageDoneTold ==
  ASSUME PollTypes, ReadInv, ToldInv, StageDone, NEW k \in Kinds \intersect Reads(event),
         After(stage) = {} \/ \E s \in First(After(stage)) : Rank[k] < Rank[s]
  PROVE  Measurable(k)' => GivenDelta(k) = span'[k].bytes
<1>1. stage # "idle"
  BY DEF StageDone
<1>2. CASE k = stage
  BY <1>2, StageDoneTells
<1>3. CASE k # stage
  <2>1. Rank[k] < Rank[stage]
    BY <1>1, <1>3, StageOrder
  <2>2. Told(k)
    BY <1>1, <2>1 DEF ToldInv
  <2>3. QED
    BY <1>3, <2>2, StageDoneTells DEF Told
<1>4. QED
  BY <1>2, <1>3

LEMMA StageDoneReport == ASSUME PollTypes, ReadInv, ToldInv, StageDone PROVE ToldInv'
<1>1. /\ UNCHANGED <<iface, event>> /\ reports \in 0 .. 2 /\ stage # "idle"
      /\ pv \in [Fields -> 0 .. Word - 1] /\ Given \in [Fields -> 0 .. Word - 1]
      /\ validRead \in BOOLEAN
  BY StoredTypes DEF StageDone, PollTypes, PollTypeOK, Fields, Given
<1>2. Reads(event)' = Reads(event)
  BY <1>1 DEF Reads
<1>3. CASE After(stage) # {}
  <2>1. /\ pv' = Given /\ \E s \in First(After(stage)) : Enter(s)
        /\ UNCHANGED <<validRead, reports, lastPoll, calm>>
    BY <1>3 DEF StageDone, Given
  <2>2. stage' \in First(After(stage)) /\ stage' # "idle"
    BY <2>1 DEF Enter, First, After, Reads
  <2>3. \A k \in Kinds : DeltaOf(k)' = GivenDelta(k)
    BY <2>1 DEF DeltaOf, GivenDelta
  <2>4. \A k \in Kinds \intersect Reads(event) : Rank[k] < Rank[stage'] => Told(k)'
    BY <2>2, <2>3, StageDoneTold DEF Told
  <2>5. QED
    BY <1>1, <1>2, <2>1, <2>2, <2>4 DEF ToldInv, ReportIsTraffic
<1>4. CASE After(stage) = {}
  <2>1. /\ pv' = (IF iface = "MSR" /\ ~validRead THEN NoBandwidth(Given) ELSE Given)
        /\ validRead' = (validRead \/ iface = "MSR")
        /\ stage' = "idle" /\ reports' = (IF reports < 2 THEN reports + 1 ELSE 2)
    BY <1>4 DEF StageDone, Through, Given
  <2>2. iface = "MSR" => (validRead' <=> reports' > 0)
    <3>1. reports' > 0
      BY <1>1, <2>1
    <3>2. iface = "MSR" => validRead'
      BY <2>1
    <3>3. QED
      BY <3>1, <3>2
  <2>3. ASSUME NEW k \in Kinds \intersect Reads(event)
        PROVE  IF iface = "MSR" /\ reports' = 1 THEN DeltaOf(k)' = 0
               ELSE Measurable(k)' => DeltaOf(k)' = span'[k].bytes
    <3>1. CASE iface = "MSR" /\ ~validRead
      <4>1. reports' = 1
        BY <1>1, <2>1, <3>1 DEF ToldInv
      <4>2. DeltaOf(k)' = 0
        BY <1>1, <2>1, <3>1 DEF DeltaOf, NoBandwidth, Fields
      <4>3. QED
        BY <3>1, <4>1, <4>2
    <3>2. CASE ~(iface = "MSR" /\ ~validRead)
      <4>1. ~(iface = "MSR" /\ reports' = 1)
        BY <1>1, <2>1, <3>2 DEF ToldInv
      <4>2. DeltaOf(k)' = GivenDelta(k)
        BY <2>1, <3>2 DEF DeltaOf, GivenDelta
      <4>3. QED
        BY <1>4, <4>1, <4>2, StageDoneTold
    <3>3. QED
      BY <3>1, <3>2
  <2>4. QED
    BY <1>1, <1>2, <2>1, <2>2, <2>3 DEF ToldInv, ReportIsTraffic
<1>5. QED
  BY <1>3, <1>4

LEMMA ToldInit == PollInit => ToldInv
BY DEF PollInit, ToldInv, ReportIsTraffic

LEMMA ToldStep == ASSUME PollTypes, PollTypes', ReadInv, ToldInv, ValuesNext PROVE ToldInv'
<1>1. CASE \E cs, e : Begins(cs, e)
  BY <1>1 DEF Begins, StartGroup, Fresh, ToldInv, ReportIsTraffic, sweepVars
<1>2. CASE UNCHANGED <<iface, event, stage, pv, validRead, span, reports, lastPoll>>
  <2>1. \A k : Told(k)' <=> Told(k)
    BY <1>2 DEF Told, Measurable, DeltaOf
  <2>2. \A k : (Measurable(k)' <=> Measurable(k)) /\ DeltaOf(k)' = DeltaOf(k)
    BY <1>2 DEF Measurable, DeltaOf
  <2>3. Reads(event)' = Reads(event)
    BY <1>2 DEF Reads
  <2>4. QED
    BY <1>2, <2>1, <2>2, <2>3 DEF ToldInv, ReportIsTraffic
<1>3. CASE \E x \in ctxs, k \in Kinds : Traffic(x, k)
  BY <1>2, <1>3 DEF Traffic, sweepVars
<1>4. CASE BeginPoll
  <2>1. PICK s \in First(Reads(event)) : Enter(s)
    BY <1>4 DEF BeginPoll
  <2>2. UNCHANGED <<iface, event, validRead, reports>> /\ stage' = s
    BY <1>4, <2>1 DEF BeginPoll, valueVars, Enter
  <2>3. Reads(event)' = Reads(event)
    BY <2>2 DEF Reads
  <2>4. \A k \in Kinds \intersect Reads(event) : ~(Rank[k] < Rank[s])
    <3> SUFFICES ASSUME NEW k \in Kinds \intersect Reads(event) PROVE ~(Rank[k] < Rank[s])
      OBVIOUS
    <3>1. Rank[s] <= Rank[k]
      BY <2>1 DEF First
    <3>2. Rank[s] \in Nat /\ Rank[k] \in Nat
      BY <2>1 DEF First, Reads, Rank, Kinds
    <3>3. QED
      BY <3>1, <3>2
  <2>5. stage' # "idle"
    BY <2>1, <2>2 DEF First, Reads
  <2>6. QED
    BY <2>2, <2>3, <2>4, <2>5 DEF ToldInv, ReportIsTraffic
<1>5. CASE \E x \in ctxs : ReadContext(x)
  BY <1>2, <1>5 DEF ReadContext, valueVars, recordVars
<1>6. CASE StageDone
  BY <1>6, StageDoneReport
<1>7. CASE ReadFails
  BY <1>7 DEF ReadFails, valueVars, ToldInv, ReportIsTraffic
<1>8. CASE ValuesKept
  BY <1>2, <1>8 DEF ValuesKept, valueVars, sweepVars, recordVars
<1>9. QED
  BY <1>1, <1>3, <1>4, <1>5, <1>6, <1>7, <1>8 DEF ValuesNext, Poll

LEMMA ReadHolds == Spec => []ReadInv
<1>1. Init => ReadInv
  BY ReadInit DEF Init
<1>2. PollTypes /\ PollTypes' /\ ReadInv /\ FreshInv /\ TableInv /\ [Next]_vars => ReadInv'
  BY ToolMovesValues, ReadStep
<1>3. QED
  BY <1>1, <1>2, PollTypesHolds, FreshHolds, TableInvHolds, PTL DEF Spec

LEMMA ToldHolds == Spec => []ToldInv
<1>1. Init => ToldInv
  BY ToldInit DEF Init
<1>2. PollTypes /\ PollTypes' /\ ReadInv /\ ToldInv /\ FreshInv /\ TableInv /\ [Next]_vars => ToldInv'
  BY ToolMovesValues, ToldStep
<1>3. QED
  BY <1>1, <1>2, PollTypesHolds, ReadHolds, FreshHolds, TableInvHolds, PTL DEF Spec

(* The bandwidth reported is the traffic between the readings it is made   *)
(* of (get_delta), for any sums of counters, overflow and earlier polls    *)
(* that failed included, and 0 the first time over MSRs.                   *)
THEOREM ReportIsTrafficHolds == Spec => []ReportIsTraffic
<1>1. ToldInv => ReportIsTraffic
  BY DEF ToldInv
<1>2. QED
  BY <1>1, ToldHolds, PTL

-----------------------------------------------------------------------------
(* What the contexts have moved by now. *)
Now(k) == [x \in ctxs |-> traffic[x][k]]

NowHeld(k) == Held(seen[k], Now(k), ctxs)

(* Of the total no less was moved since T than of the local since L. *)
Covers(L, T) == \A x \in ctxs : traffic[x]["local"] + T[x] <= traffic[x]["total"] + L[x]

(* Two readings of the same time are stored. *)
Together(L, T) == Past("local", L) /\ Past("total", T) /\ Covers(L, T)

(* The local traffic is that since L, the total is still to be read.       *)
Apart(L, T) == /\ Past("total", T) /\ Covers(L, T)
               /\ \A x \in ctxs : L[x] <= traffic[x]["local"]
               /\ span["local"].bytes = Total(Now("local"), ctxs) - Total(L, ctxs)

Rest == (\A k \in Kinds : Measurable(k)) => pv.dremote = span["total"].bytes - span["local"].bytes

(* After a poll without traffic the two readings are of the same time, and *)
(* one more poll without traffic makes the remote bandwidth their rest.    *)
RestInv ==
  /\ stage # "idle" /\ still =>
       \A k \in Kinds \intersect Reads(event) : Rank[k] < Rank[stage] => NowHeld(k)
  /\ calm >= 1 /\ "rmem" \in event /\ stage \in {"idle", "llc", "local"} =>
       \E L, T \in Reading : Together(L, T)
  /\ calm >= 1 /\ "rmem" \in event /\ still /\ stage = "total" => \E L, T \in Reading : Apart(L, T)
  /\ calm >= 1 /\ "rmem" \in event /\ still /\ stage = "ipc" => Rest
  /\ stage = "idle" /\ calm = 2 /\ reports = 2 /\ "rmem" \in event => Rest

-----------------------------------------------------------------------------
LEMMA NowType == ASSUME PollTypes, NEW k \in Kinds PROVE Now(k) \in Reading
<1>1. \A x \in ctxs : traffic[x][k] \in 0 .. Most
  <2>1. \A x \in ctxs : traffic[x][k] \in 0 .. Width - 1 + MaxTraffic
    BY DEF PollTypes, PollTypeOK
  <2>2. QED
    BY <2>1, ValuesAssumption DEF Most
<1>2. QED
  BY <1>1 DEF Now, Reading

LEMMA RemoteReads ==
  ASSUME "rmem" \in event
  PROVE  /\ "local" \in Reads(event) /\ "total" \in Reads(event)
         /\ \A s \in First(Reads(event)) : s \in {"llc", "local"}
         /\ \A s \in First(After("llc")) : s = "local"
         /\ \A s \in First(After("local")) : s = "total"
         /\ \A s \in First(After("total")) : s = "ipc"
         /\ After("ipc") = {}
         /\ After("llc") # {} /\ After("local") # {}
BY DEF Reads, First, After, Rank

LEMMA SameNow ==
  ASSUME UNCHANGED <<iface, ctxs, traffic, seen>>
  PROVE  /\ Reading' = Reading
         /\ \A k : Now(k)' = Now(k)
         /\ \A k : NowHeld(k)' <=> NowHeld(k)
         /\ \A k, R : Past(k, R)' <=> Past(k, R)
         /\ \A L, T : Covers(L, T)' <=> Covers(L, T)
         /\ \A L, T : Together(L, T)' <=> Together(L, T)
<1>1. Reading' = Reading /\ \A R : TurnsOf(R)' = TurnsOf(R)
  BY SameReadings
<1>2. \A k : Now(k)' = Now(k)
  BY DEF Now
<1>3. \A k : NowHeld(k)' <=> NowHeld(k)
  <2> SUFFICES ASSUME NEW k PROVE NowHeld(k)' <=> NowHeld(k)
    OBVIOUS
  <2>1. TurnsOf(Now(k))' = TurnsOf(Now(k))
    BY <1>2 DEF TurnsOf, Turned
  <2>2. QED
    BY <1>2, <2>1 DEF NowHeld, Held
<1>4. \A k, R : Past(k, R)' <=> Past(k, R)
  BY <1>1 DEF Past, Held
<1>5. \A L, T : Covers(L, T)' <=> Covers(L, T)
  BY DEF Covers
<1>6. QED
  BY <1>1, <1>2, <1>3, <1>4, <1>5 DEF Together

LEMMA SameRest ==
  ASSUME RestInv, UNCHANGED <<iface, event, ctxs, traffic, pv, stage, seen, span, reports, still, calm>>
  PROVE  RestInv'
<1>1. /\ Reading' = Reading /\ \A k : Now(k)' = Now(k) /\ (NowHeld(k)' <=> NowHeld(k))
      /\ \A L, T : Together(L, T)' <=> Together(L, T)
  BY SameNow
<1>2. \A L, T : Apart(L, T)' <=> Apart(L, T)
  BY SameNow DEF Apart
<1>3. Rest' <=> Rest
  BY DEF Rest, Measurable
<1>4. Reads(event)' = Reads(event)
  BY DEF Reads
<1>5. QED
  BY <1>1, <1>2, <1>3, <1>4 DEF RestInv

LEMMA RestInit == PollInit => RestInv
BY DEF PollInit, RestInv

LEMMA TrafficRest ==
  ASSUME PollTypes, PollTypes', RestInv, NEW x \in ctxs, NEW k \in Kinds, Traffic(x, k) PROVE RestInv'
<1>1. UNCHANGED <<iface, event, ctxs, pv, stage, seen, span, reports, calm>> /\ still' = (still /\ stage = "idle")
  BY DEF Traffic, sweepVars
<1>2. Rest' <=> Rest
  BY <1>1 DEF Rest, Measurable
<1>3. ASSUME calm >= 1, "rmem" \in event, stage \in {"idle", "llc", "local"}
      PROVE  \E L, T \in Reading' : Together(L, T)'
  <2>1. PICK L \in Reading, T \in Reading : Together(L, T)
    BY <1>3 DEF RestInv
  <2>2. Grown
    BY TrafficGrows DEF Grown
  <2>3. L \in Reading' /\ T \in Reading' /\ Past("local", L)' /\ Past("total", T)'
    BY <1>1, <2>1, <2>2, PastStays DEF Together, Kinds
  <2>4. Covers(L, T)'
    <3> SUFFICES ASSUME NEW y \in ctxs PROVE traffic'[y]["local"] + T[y] <= traffic'[y]["total"] + L[y]
      BY <1>1 DEF Covers
    <3>1. L[y] \in Nat /\ T[y] \in Nat /\ traffic[y]["local"] + T[y] <= traffic[y]["total"] + L[y]
      BY <2>1, ReadingType DEF Together, Covers
    <3>2. /\ traffic[y]["local"] \in Nat /\ traffic[y]["total"] \in Nat
          /\ traffic'[y]["local"] \in Nat /\ traffic'[y]["total"] \in Nat
          /\ traffic'[y]["local"] + traffic[y]["total"] <= traffic'[y]["total"] + traffic[y]["local"]
      BY TrafficGrows DEF Kinds
    <3>3. QED
      BY <3>1, <3>2
  <2>5. QED
    BY <2>3, <2>4 DEF Together
<1>4. stage # "idle" => ~still'
  BY <1>1
<1>5. QED
  BY <1>1, <1>2, <1>3, <1>4 DEF RestInv

LEMMA BeginPollRest == ASSUME PollTypes, RestInv, BeginPoll PROVE RestInv'
<1>1. PICK s \in First(Reads(event)) : Enter(s)
  BY DEF BeginPoll
<1>2. stage = "idle" /\ stage' = s
      /\ UNCHANGED <<iface, event, ctxs, traffic, pv, seen, span, reports, calm>>
  BY <1>1 DEF BeginPoll, valueVars, Enter
<1>3. Reading' = Reading /\ \A L, T : Together(L, T)' <=> Together(L, T)
  BY <1>2, SameNow
<1>4. \A k \in Kinds \intersect Reads(event) : ~(Rank[k] < Rank[s])
  <2> SUFFICES ASSUME NEW k \in Kinds \intersect Reads(event) PROVE ~(Rank[k] < Rank[s])
    OBVIOUS
  <2>1. Rank[s] <= Rank[k]
    BY <1>1 DEF First
  <2>2. Rank[s] \in Nat /\ Rank[k] \in Nat
    BY <1>1 DEF First, Reads, Rank, Kinds
  <2>3. QED
    BY <2>1, <2>2
<1>5. "rmem" \in event => s \in {"llc", "local"}
  BY <1>1, RemoteReads
<1>6. Reads(event)' = Reads(event) /\ s # "idle"
  BY <1>1, <1>2 DEF Reads, First
<1>7. QED
  BY <1>2, <1>3, <1>4, <1>5, <1>6 DEF RestInv

(* What is stored without traffic since the poll began is what the         *)
(* contexts have moved by now.                                             *)
LEMMA StoresNow ==
  ASSUME PollTypes, ReadInv, RestInv, StageDone, still, NEW k \in Kinds \intersect Reads(event),
         After(stage) = {} \/ \E s \in First(After(stage)) : Rank[k] < Rank[s]
  PROVE  Held(seen'[k], Now(k), ctxs)
<1>1. stage # "idle" /\ todo = {} /\ seen'[k] = IF k = stage THEN swept ELSE seen[k]
  BY StageDoneStores
<1>2. CASE k = stage
  <2>1. PICK P \in Reading, R \in Reading : Swept(P, R)
    BY <1>1, <1>2, SweepOver
  <2>2. \A x \in ctxs : R[x] = Now(k)[x] /\ TurnsOf(R)[x] = TurnsOf(Now(k))[x]
    BY <1>2, <2>1 DEF Swept, Now, TurnsOf
  <2>3. Total(R, ctxs) = Total(Now(k), ctxs) /\ Total(TurnsOf(R), ctxs) = Total(TurnsOf(Now(k)), ctxs)
    BY <2>2, TotalSame
  <2>4. QED
    BY <1>1, <1>2, <2>1, <2>3 DEF Swept, Held
<1>3. CASE k # stage
  <2>1. Rank[k] < Rank[stage]
    BY <1>1, <1>3, StageOrder
  <2>2. QED
    BY <1>1, <1>3, <2>1 DEF RestInv, NowHeld
<1>4. QED
  BY <1>2, <1>3

(* The rest of two differences of sums. *)
LEMMA RestOfTotals ==
  ASSUME PollTypes, NEW L \in Reading, NEW T \in Reading, Covers(L, T)
  PROVE  Total(Now("local"), ctxs) + Total(T, ctxs) <= Total(Now("total"), ctxs) + Total(L, ctxs)
<1> DEFINE f == Now("local")
           g == Now("total")
           p == [x \in ctxs |-> f[x] + T[x]]
           q == [x \in ctxs |-> g[x] + L[x]]
<1>1. f \in Reading /\ g \in Reading /\ IsFiniteSet(ctxs) /\ Most \in Nat
  BY NowType, ReadingType DEF Kinds
<1>2. \A x \in ctxs : /\ f[x] \in 0 .. Most /\ g[x] \in 0 .. Most /\ T[x] \in 0 .. Most /\ L[x] \in 0 .. Most
                      /\ f[x] + T[x] <= g[x] + L[x]
  BY <1>1 DEF Reading, Covers, Now
<1> HIDE DEF f, g
<1>3. \A x \in ctxs : p[x] = f[x] + T[x] /\ q[x] = g[x] + L[x]
  OBVIOUS
<1>4. Most + Most \in Nat /\ \A x \in ctxs : p[x] \in 0 .. Most + Most /\ q[x] \in 0 .. Most + Most /\ p[x] <= q[x]
  BY <1>1, <1>2, <1>3
<1> HIDE DEF p, q
<1>5. Total(p, ctxs) = Total(f, ctxs) + Total(T, ctxs)
  BY <1>1, <1>2, <1>3, TotalPlus
<1>6. Total(q, ctxs) = Total(g, ctxs) + Total(L, ctxs)
  BY <1>1, <1>2, <1>3, TotalPlus
<1>7. Total(p, ctxs) <= Total(q, ctxs)
  BY <1>1, <1>4, TotalGrows
<1>8. QED
  BY <1>5, <1>6, <1>7 DEF f, g

(* The remote bandwidth as the total is stored. *)
LEMMA StoresRest ==
  ASSUME PollTypes, ReadInv, ToldInv, RestInv, StageDone, stage = "total", still, calm >= 1,
         "rmem" \in event, \A k \in Kinds : Measured(span'[k])
  PROVE  Given.dremote = span'["total"].bytes - span'["local"].bytes
<1>1. PICK L \in Reading, T \in Reading : Apart(L, T)
  BY DEF RestInv
<1>2. /\ span'["local"] = span["local"] /\ span'["total"].bytes = swept.bytes - seen["total"].bytes
      /\ GivenDelta("total") = Delta(pv["total"], sum) /\ GivenDelta("total") = span'["total"].bytes
      /\ Measurable("local")
  BY StageDoneTells DEF Kinds
<1>3. pv.dlocal = span["local"].bytes
  <2>1. "local" \in Kinds \intersect Reads(event) /\ Rank["local"] < Rank[stage]
    BY RemoteReads DEF Kinds, Rank
  <2>2. Told("local")
    BY <2>1 DEF ToldInv
  <2>3. QED
    BY <1>2, <2>2 DEF Told, DeltaOf
<1>4. swept.bytes = Total(Now("total"), ctxs)
  <2>1. "total" \in Kinds \intersect Reads(event)
    BY RemoteReads DEF Kinds
  <2>2. After(stage) = {} \/ \E s \in First(After(stage)) : Rank["total"] < Rank[s]
    <3>1. \A s \in First(After("total")) : s = "ipc"
      BY RemoteReads
    <3>2. Rank["total"] < Rank["ipc"]
      BY DEF Rank
    <3>3. After("total") # {} => First(After("total")) # {}
      BY DEF First, After, Reads, Rank
    <3>4. QED
      BY <3>1, <3>2, <3>3
  <2>3. Held(seen'["total"], Now("total"), ctxs)
    BY <2>1, <2>2, StoresNow
  <2>4. seen'["total"] = swept
    BY StageDoneStores DEF Kinds
  <2>5. QED
    BY <2>3, <2>4 DEF Held
<1>5. seen["total"].bytes = Total(T, ctxs) /\ span["local"].bytes = Total(Now("local"), ctxs) - Total(L, ctxs)
  BY <1>1 DEF Apart, Past, Held
<1>6. Total(Now("local"), ctxs) + Total(T, ctxs) <= Total(Now("total"), ctxs) + Total(L, ctxs)
  BY <1>1, RestOfTotals DEF Apart
<1>7. /\ Total(Now("local"), ctxs) \in Nat /\ Total(Now("total"), ctxs) \in Nat
      /\ Total(L, ctxs) \in Nat /\ Total(T, ctxs) \in Nat
  BY NowType, ReadingType DEF Kinds
<1> DEFINE d == Delta(pv["total"], sum)
<1>8. d = Total(Now("total"), ctxs) - Total(T, ctxs)
      /\ pv.dlocal = Total(Now("local"), ctxs) - Total(L, ctxs)
  BY <1>2, <1>3, <1>4, <1>5
<1>9. Given.dremote = Monus(d, pv.dlocal)
  <2>1. pv \in [Fields -> 0 .. Word - 1]
    BY DEF PollTypes, PollTypeOK, Fields
  <2>2. QED
    BY <2>1 DEF Given, Stored, Kinds, Fields
<1> HIDE DEF d
<1>10. Monus(d, pv.dlocal) = d - pv.dlocal
  BY <1>6, <1>7, <1>8 DEF Monus
<1>11. span'["total"].bytes = d /\ span'["local"].bytes = pv.dlocal
  BY <1>2, <1>3 DEF d
<1>12. QED
  BY <1>9, <1>10, <1>11

LEMMA StageDoneRest == ASSUME PollTypes, PollTypes', ReadInv, ToldInv, RestInv, StageDone PROVE RestInv'
<1>1. /\ \A k \in Kinds : /\ pv'[k] = IF k = stage THEN sum ELSE pv[k]
                          /\ seen'[k] = IF k = stage THEN swept ELSE seen[k]
      /\ UNCHANGED <<iface, event, ctxs, traffic, still, flow, faults>>
      /\ stage \in {"llc", "local", "total", "ipc"} /\ todo = {}
      /\ calm \in 0 .. 2 /\ reports \in 0 .. 2
  BY StageDoneStores DEF PollTypes, PollTypeOK
<1>2. Reading' = Reading /\ (\A R : TurnsOf(R)' = TurnsOf(R)) /\ Reads(event)' = Reads(event)
  BY <1>1, SameReadings DEF Reads
<1>3. \A k : Now(k)' = Now(k) /\ TurnsOf(Now(k))' = TurnsOf(Now(k))
  BY <1>1 DEF Now, TurnsOf, Turned
<1>4. \A k : NowHeld(k)' <=> Held(seen'[k], Now(k), ctxs)
  BY <1>1, <1>3 DEF NowHeld, Held
<1>5. \A L, T : Covers(L, T)' <=> Covers(L, T)
  BY <1>1 DEF Covers
<1>6. \A k \in Kinds : \A R : Past(k, R) /\ k # stage => Past(k, R)'
  BY <1>1, <1>2 DEF Past, Held
<1>7. CASE After(stage) # {}
  <2>1. /\ pv' = Given /\ \E s \in First(After(stage)) : Enter(s)
        /\ UNCHANGED <<validRead, reports, lastPoll, calm>>
    BY <1>7 DEF StageDone, Given
  <2>2. stage' \in First(After(stage)) /\ stage' \in {"llc", "local", "total", "ipc"}
    BY <2>1 DEF Enter, First, After, Reads
  <2>3. ASSUME "rmem" \in event
        PROVE  /\ stage = "llc" => stage' = "local"
               /\ stage = "local" => stage' = "total"
               /\ stage = "total" => stage' = "ipc"
               /\ stage # "ipc"
    <3>1. CASE stage = "llc"
      BY <2>2, <2>3, <3>1, RemoteReads
    <3>2. CASE stage = "local"
      BY <2>2, <2>3, <3>2, RemoteReads
    <3>3. CASE stage = "total"
      BY <2>2, <2>3, <3>3, RemoteReads
    <3>4. CASE stage = "ipc"
      BY <1>7, <2>3, <3>4, RemoteReads
    <3>5. QED
      BY <1>1, <3>1, <3>2, <3>3, <3>4
  <2>4. still' => \A k \in Kinds \intersect Reads(event) : Rank[k] < Rank[stage'] => NowHeld(k)'
    BY <1>1, <1>4, <2>2, StoresNow
  <2>5. ASSUME calm >= 1, "rmem" \in event, stage' \in {"llc", "local"}
        PROVE  \E L, T \in Reading : Together(L, T)'
    <3>1. stage = "llc"
      BY <1>1, <2>5, <2>3
    <3>2. PICK L \in Reading, T \in Reading : Together(L, T)
      BY <2>5, <3>1 DEF RestInv
    <3>3. Past("local", L)' /\ Past("total", T)'
      BY <1>6, <3>1, <3>2 DEF Together, Kinds
    <3>4. QED
      BY <1>5, <3>2, <3>3 DEF Together
  <2>6. ASSUME calm >= 1, "rmem" \in event, still, stage' = "total"
        PROVE  \E L, T \in Reading : Apart(L, T)'
    <3>1. stage = "local"
      BY <1>1, <2>6, <2>3
    <3>2. PICK L \in Reading, T \in Reading : Together(L, T)
      BY <2>6, <3>1 DEF RestInv
    <3>3. Past("total", T)'
      BY <1>6, <3>1, <3>2 DEF Together, Kinds
    <3>4. Held(seen'["local"], Now("local"), ctxs)
      <4>1. Rank["local"] < Rank["total"]
        BY DEF Rank
      <4>2. "local" \in Kinds \intersect Reads(event)
        BY <2>6, RemoteReads DEF Kinds
      <4>3. QED
        BY <2>2, <2>6, <4>1, <4>2, StoresNow
    <3>5. span'["local"].bytes = seen'["local"].bytes - seen["local"].bytes
      BY <1>1, <3>1, StageDoneTells DEF Kinds
    <3>6. span'["local"].bytes = Total(Now("local"), ctxs) - Total(L, ctxs)
      BY <3>2, <3>4, <3>5 DEF Together, Past, Held
    <3>7. \A x \in ctxs : L[x] <= traffic[x]["local"]
      BY <3>2 DEF Together, Past
    <3>8. QED
      BY <1>1, <1>3, <1>5, <3>2, <3>3, <3>6, <3>7 DEF Together, Apart
  <2>7. ASSUME calm >= 1, "rmem" \in event, still, stage' = "ipc" PROVE Rest'
    <3>1. stage = "total"
      BY <1>1, <2>7, <2>3
    <3>2. SUFFICES ASSUME \A k \in Kinds : Measured(span'[k])
                   PROVE  Given.dremote = span'["total"].bytes - span'["local"].bytes
      BY <2>1, StageDoneTells DEF Rest
    <3>3. QED
      BY <2>7, <3>1, <3>2, StoresRest
  <2>8. QED
    BY <1>1, <1>2, <2>1, <2>2, <2>4, <2>5, <2>6, <2>7 DEF RestInv
<1>8. CASE After(stage) = {}
  <2>1. /\ pv' = (IF iface = "MSR" /\ ~validRead THEN NoBandwidth(Given) ELSE Given)
        /\ stage' = "idle" /\ reports' = (IF reports < 2 THEN reports + 1 ELSE 2)
        /\ calm' = (IF ~still THEN 0 ELSE IF calm < 2 THEN calm + 1 ELSE 2)
    BY <1>8 DEF StageDone, Through, Given
  <2>2. ASSUME calm' >= 1, "rmem" \in event PROVE \E L, T \in Reading : Together(L, T)'
    <3>1. still
      BY <2>1, <2>2
    <3>2. \A k \in Kinds : Held(seen'[k], Now(k), ctxs)
      <4>1. Kinds \subseteq Reads(event)
        BY <2>2, RemoteReads DEF Kinds
      <4>2. QED
        BY <1>8, <3>1, <4>1, StoresNow
    <3>3. \A k \in Kinds : \A x \in ctxs : Now(k)[x] = traffic[x][k] /\ traffic[x][k] \in Nat
      BY RegisterShows DEF Now
    <3>4. \A k \in Kinds : Past(k, Now(k))'
      BY <1>1, <1>3, <3>2, <3>3 DEF Past, Held
    <3>5. Covers(Now("local"), Now("total"))
      BY <3>3 DEF Covers, Kinds
    <3>6. PICK L \in Reading, T \in Reading : L = Now("local") /\ T = Now("total")
      BY NowType DEF Kinds
    <3>7. Past("local", L)' /\ Past("total", T)'
      BY <1>3, <3>4, <3>6 DEF Kinds
    <3>8. QED
      BY <1>5, <3>5, <3>6, <3>7 DEF Together
  <2>3. ASSUME calm' = 2, reports' = 2, "rmem" \in event PROVE Rest'
    <3>1. still /\ calm >= 1 /\ reports >= 1
      BY <1>1, <2>1, <2>3
    <3>2. pv' = Given
      BY <1>1, <2>1, <3>1 DEF ToldInv
    <3>3. stage \in {"total", "ipc"}
      BY <1>1, <1>8, <2>3, RemoteReads
    <3>4. SUFFICES ASSUME \A k \in Kinds : Measured(span'[k])
                   PROVE  Given.dremote = span'["total"].bytes - span'["local"].bytes
      BY <3>2, StageDoneTells DEF Rest
    <3>5. CASE stage = "total"
      BY <2>3, <3>1, <3>4, <3>5, StoresRest
    <3>6. CASE stage = "ipc"
      <4>1. Given = pv /\ \A k \in Kinds : span'[k] = span[k]
        BY <3>6, StageDoneTells DEF Given, Kinds
      <4>2. \A k \in Kinds : Measurable(k)
        BY <3>4, <4>1, StageDoneTells
      <4>3. Rest
        BY <2>3, <3>1, <3>6 DEF RestInv
      <4>4. QED
        BY <4>1, <4>2, <4>3 DEF Rest, Kinds
    <3>7. QED
      BY <3>3, <3>5, <3>6
  <2>4. QED
    BY <1>1, <1>2, <2>1, <2>2, <2>3 DEF RestInv
<1>9. QED
  BY <1>7, <1>8

LEMMA RestStep == ASSUME PollTypes, PollTypes', ReadInv, ToldInv, RestInv, ValuesNext PROVE RestInv'
<1>1. CASE \E cs, e : Begins(cs, e)
  BY <1>1 DEF Begins, StartGroup, Fresh, RestInv, sweepVars
<1>2. CASE \E x \in ctxs, k \in Kinds : Traffic(x, k)
  BY <1>2, TrafficRest
<1>3. CASE BeginPoll
  BY <1>3, BeginPollRest
<1>4. CASE \E x \in ctxs : ReadContext(x)
  BY <1>4, SameRest DEF ReadContext, valueVars, recordVars
<1>5. CASE StageDone
  BY <1>5, StageDoneRest
<1>6. CASE ReadFails
  BY <1>6 DEF ReadFails, valueVars, RestInv
<1>7. CASE ValuesKept
  BY <1>7, SameRest DEF ValuesKept, valueVars, sweepVars, recordVars
<1>8. QED
  BY <1>1, <1>2, <1>3, <1>4, <1>5, <1>6, <1>7 DEF ValuesNext, Poll

(* The remote bandwidth of the second of two polls in a row that met no    *)
(* traffic is what is not local of the total, whatever failed before       *)
(* (pqos_core_poll, poll_perf_counters).                                   *)
THEOREM RemoteIsTheRestHolds == Spec => []RemoteIsTheRest
<1>1. Init => RestInv
  BY RestInit DEF Init
<1>2. PollTypes /\ PollTypes' /\ ReadInv /\ ToldInv /\ RestInv /\ FreshInv /\ TableInv /\ [Next]_vars => RestInv'
  BY ToolMovesValues, RestStep
<1>3. RestInv => RemoteIsTheRest
  BY DEF RestInv, Rest, RemoteIsTheRest
<1>4. QED
  BY <1>1, <1>2, <1>3, PollTypesHolds, ReadHolds, ToldHolds, FreshHolds, TableInvHolds, PTL DEF Spec
=============================================================================
