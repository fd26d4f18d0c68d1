-------------------------- MODULE MCMsrAllocation --------------------------
(* Instances of MsrAllocation for TLC: two sockets, two processes.         *)
EXTENDS MsrAllocation, TLC

CONSTANTS p1, p2, c1

Symmetry == Permutations(Procs)
=============================================================================
