----------------------------- MODULE MCApiLock -----------------------------
(* An instance of ApiLock for TLC: one process of two threads next to two  *)
(* of a single thread.                                                     *)
EXTENDS ApiLock, TLC

CONSTANTS p1, p2, p3, t1, t2, t3, t4

TwoOneOne == (t1 :> p1) @@ (t2 :> p1) @@ (t3 :> p2) @@ (t4 :> p3)
=============================================================================
