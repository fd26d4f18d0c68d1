----------------------------- MODULE ApiService -----------------------------
(***************************************************************************)
(* What pqos_init and pqos_fini promise of the library (lib/pqos.h): it is *)
(* initialised or not, calls are served between the two only, one at a     *)
(* time, and it is never shut down under a call.                           *)
(***************************************************************************)
CONSTANT Threads

VARIABLES on,       \* the library is initialised
          using     \* the threads whose call is served

Init == on = FALSE /\ using = {}

Start == ~on /\ on' = TRUE /\ using = {} /\ UNCHANGED using

Enter(t) == on /\ using = {} /\ using' = {t} /\ UNCHANGED on

Leave(t) == t \in using /\ using' = using \ {t} /\ UNCHANGED on

Stop == on /\ using = {} /\ on' = FALSE /\ UNCHANGED using

Next == Start \/ Stop \/ \E t \in Threads : Enter(t) \/ Leave(t)

Spec == Init /\ [][Next]_<<on, using>>
=============================================================================
