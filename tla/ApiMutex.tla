------------------------------ MODULE ApiMutex ------------------------------
(***************************************************************************)
(* What the library promises of its API lock (the comment above m_apilock  *)
(* in lib/cap.c, "API thread/process safe access is secured through these  *)
(* locks"): the body of an API call runs alone on the whole machine.       *)
(***************************************************************************)
CONSTANT Threads    \* every thread of every process that uses the library

VARIABLE inside     \* the threads that run the body of an API call

Init == inside = {}

Enter(t) == /\ inside = {}
            /\ inside' = {t}

(* The call returned, or its process died. *)
Leave(t) == /\ t \in inside
            /\ inside' = inside \ {t}

Next == \E t \in Threads : Enter(t) \/ Leave(t)

Spec == Init /\ [][Next]_inside
=============================================================================
