------------------------------ MODULE MCRdtset ------------------------------
(* Two rdtsets on a machine of two sockets: cores 1 and 2, each with an L2 *)
(* cluster of its own, on the first, core 3 on the second.                 *)
EXTENDS Rdtset, TLC

CONSTANTS A, B, task1, few, half, slow

MCSocketOf == (1 :> 0) @@ (2 :> 0) @@ (3 :> 1)
MCL2Of == (1 :> 0) @@ (2 :> 1) @@ (3 :> 2)
MCNumCos == [l3 |-> 3, l2 |-> 3, mba |-> 2]

L3(v) == [l3 |-> v, l2 |-> NotSet, mba |-> NotSet]
L3Mba(v, w) == [l3 |-> v, l2 |-> NotSet, mba |-> w]
L2L3(v, w) == [l3 |-> w, l2 |-> v, mba |-> NotSet]

On(cs, want) == [cpus |-> cs, want |-> want]
Command(configs) == [reset |-> {}, configs |-> configs, pids |-> {}, affinity |-> TRUE, cmd |-> TRUE]

(* Two sockets in one configuration; two configurations; a fresh start on  *)
(* a core of the others, for a task.                                       *)
TwoSockets == Command(<<On({1, 3}, L3(few))>>)
TwoClasses == Command(<<On({2}, L3(half)), On({1}, L3Mba(few, slow))>>)
FreshStart == [reset |-> {2}, configs |-> <<On({2}, L3(half))>>,
               pids |-> {task1}, affinity |-> TRUE, cmd |-> FALSE]

(* A configuration of its own command next to one of cores, in both        *)
(* orders, and one of a task that exists.                                  *)
OwnCommand == [Command(<<On({1, 3}, L3(few)), On({}, L3(half))>>) EXCEPT !.affinity = FALSE]
BothCaches == Command(<<On({2}, L2L3(few, half))>>)
BothCores == Command(<<On({1, 2}, L3(few))>>)
GivenTask == [reset |-> {}, configs |-> <<On({}, L3(half)), On({2}, L3(few))>>,
              pids |-> {task1}, affinity |-> FALSE, cmd |-> FALSE]

(* A task over the interface that has none, after a fresh start. *)
FreshTask == [FreshStart EXCEPT !.configs = Append(@, On({}, L3(few)))]

TaskCaches == [GivenTask EXCEPT !.configs = <<On({}, L2L3(few, half))>>]

(* The two processes are alike, so their order does not matter. *)
Pair(x, y) == (A :> x) @@ (B :> y)
MCLines == [MSR |-> {Pair(TwoSockets, TwoClasses), Pair(TwoSockets, FreshStart),
                     Pair(TwoClasses, FreshStart), Pair(FreshStart, FreshStart),
                     Pair(TwoSockets, BothCaches), Pair(TwoSockets, FreshTask)},
            OS |-> {Pair(OwnCommand, BothCaches), Pair(OwnCommand, GivenTask),
                    Pair(BothCaches, GivenTask), Pair(OwnCommand, OwnCommand),
                    Pair(BothCores, TaskCaches)}]

ASSUME NoGaps
=============================================================================
