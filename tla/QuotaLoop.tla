------------------------------ MODULE QuotaLoop ------------------------------
(***************************************************************************)
(* The monitoring loop of Muses (pqos/main.c, from isolation_start): every *)
(* round it counts the threads of the online containers, and it asks for a *)
(* new quota once a large change of that count has settled.                *)
(*                                                                         *)
(* One action is one stretch of the loop between two points where the      *)
(* load can matter or Ctrl-C can act.  Submitting a quota is one step here *)
(* and is taken apart in IsolationSubmit.                                  *)
(***************************************************************************)
EXTENDS Integers

CONSTANTS MaxTasks,     \* bound on the thread count
          Offset,       \* -TASKS_OFFSET, the threads that are not clients
          Jump,         \* largest change between two rounds to be ignored
          Started       \* clients needed for the task to count as started

ASSUME MaxTasksType == MaxTasks \in Nat
ASSUME OffsetType == Offset \in Nat
ASSUME JumpType == Jump \in Nat
ASSUME StartedType == Started \in Nat

VARIABLES phase,        \* where the loop is
          stop,         \* stop_loop, set by the SIGINT handler
          load,         \* threads in the online containers now
          cur,          \* cur_task_count
          last,         \* last_tasks
          trigger,      \* adjust_trigger
          asked,        \* tasks argument of the last get_online_cores
          drifted       \* history: counts of successive rounds differed by
                        \*   Jump or less since the last quota

loopVars == <<phase, stop, load, cur, last, trigger, asked, drifted>>

Tasks == 0 .. MaxTasks
Arguments == -Offset .. MaxTasks

Distance(m, n) == IF m < n THEN n - m ELSE m - n

-----------------------------------------------------------------------------
LoopInit == /\ phase = "init"
            /\ stop = FALSE
            /\ load \in Tasks
            /\ cur = 0 /\ last = 0
            /\ trigger = FALSE
            /\ asked = 0
            /\ drifted = FALSE

(* get_online_cores(0, 0) and isolation_submit before the loop. *)
FirstQuota == /\ phase = "init"
              /\ phase' = "loop"
              /\ asked' = 0
              /\ UNCHANGED <<stop, load, cur, last, trigger, drifted>>

(* A change worth a new quota, once it has settled. *)
RisesBy(new) == new - last > Jump /\ new - Offset > Started
IsJump(new) == Distance(new, last) > Jump /\ new - Offset > Started

(* The count is the number the script prints, or that of the round before  *)
(* when the script prints nothing.                                         *)
Counted(new) == new \in {load, cur}

(* A round that finds another count than the round before.  The trigger is *)
(* set by a jump and is kept when the load goes on moving.                 *)
CountChanged == /\ phase = "loop" /\ ~stop
                /\ \E new \in Tasks :
                     /\ Counted(new)
                     /\ new # last
                     /\ cur' = new
                     /\ last' = new
                     /\ trigger' = (trigger \/ IsJump(new))
                     /\ drifted' = (drifted \/ Distance(new, last) <= Jump)
                /\ phase' = "sleep"
                /\ UNCHANGED <<stop, load, asked>>

(* A round that finds the same count and has nothing to do. *)
CountSteady == /\ phase = "loop" /\ ~stop
               /\ Counted(last)
               /\ cur' = last
               /\ phase' = IF trigger THEN "adjust" ELSE "sleep"
               /\ UNCHANGED <<stop, load, last, trigger, asked, drifted>>

(* A variant of Adjust, a slip the code could have had. *)
AdjustKeepsTrigger == /\ phase = "adjust"
                      /\ asked' = cur - Offset
                      /\ drifted' = FALSE
                      /\ phase' = "sleep"
                      /\ UNCHANGED <<stop, load, cur, last, trigger>>

(* get_online_cores(0, cur_task_count + TASKS_OFFSET), isolation_submit,   *)
(* and the reset of the trigger.                                           *)
Adjust == /\ phase = "adjust"
          /\ asked' = cur - Offset
          /\ trigger' = FALSE
          /\ drifted' = FALSE
          /\ phase' = "sleep"
          /\ UNCHANGED <<stop, load, cur, last>>

(* The end of a round, and of the two-second sleep unless interrupted. *)
NextRound == /\ phase = "sleep" /\ ~stop
             /\ phase' = "loop"
             /\ UNCHANGED <<stop, load, cur, last, trigger, asked, drifted>>

(* The loop is left at its two tests of stop_loop. *)
Leave == /\ phase \in {"loop", "sleep"} /\ stop
         /\ phase' = "stopped"
         /\ UNCHANGED <<stop, load, cur, last, trigger, asked, drifted>>

LoopStep == FirstQuota \/ CountChanged \/ CountSteady \/ Adjust \/ NextRound \/ Leave

(* my_handler; it is installed before the first quota. *)
Interrupt == /\ phase # "stopped" /\ ~stop
             /\ stop' = TRUE
             /\ UNCHANGED <<phase, load, cur, last, trigger, asked, drifted>>

(* Clients come and go, and containers start and end, at any time. *)
LoadChanges == /\ phase # "stopped"
               /\ load' \in Tasks \ {load}
               /\ UNCHANGED <<phase, stop, cur, last, trigger, asked, drifted>>

LoopNext == LoopStep \/ Interrupt \/ LoadChanges

LoopSpec == LoopInit /\ [][LoopNext]_loopVars

(* The loop is sequential code with a bounded sleep: it keeps going.  The  *)
(* load and the user are under no obligation.                              *)
FairSpec == LoopSpec /\ WF_loopVars(LoopStep)

-----------------------------------------------------------------------------
LoopTypeOK == /\ phase \in {"init", "loop", "adjust", "sleep", "stopped"}
              /\ stop \in BOOLEAN
              /\ load \in Tasks /\ cur \in Tasks /\ last \in Tasks
              /\ trigger \in BOOLEAN
              /\ asked \in Arguments
              /\ drifted \in BOOLEAN

(* No burst is missed: when nothing is pending, a started task runs with   *)
(* the quota of its present count, unless the count got there by changes   *)
(* of Jump or less since that quota.  It covers a load that falls as well  *)
(* as one that rises, a count read before the load moved again, and        *)
(* excursions through counts too small to be acted on.                     *)
BurstsGetTheirQuota ==
  phase \in {"loop", "sleep"} /\ ~trigger /\ ~drifted /\ cur - Offset > Started
    => asked = cur - Offset

(* A load that stops moving gets the quota it triggered: the trigger does  *)
(* not stay set for ever unless the loop is stopped.                       *)
SettledLoadIsServed == <>[][FALSE]_load => []<>(~trigger \/ phase = "stopped")

(* And then the quotas stop: the loop does not keep adjusting to a load    *)
(* that does not move.                                                     *)
AdjustmentsEnd == <>[][FALSE]_load => <>[](phase # "adjust")
=============================================================================
