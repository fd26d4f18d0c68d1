-------------------------- MODULE MCIsolationSubmit --------------------------
(* Instances of IsolationSubmit for TLC: quotas that grow and shrink on    *)
(* four cores, one of them with a cpu and an llc share to round up, one     *)
(* that takes the whole cache and all the bandwidth.                       *)
EXTENDS IsolationSubmit, TLC

CONSTANTS a1, a2, b1, b2

MCQuotas == {[cpu |-> 10, llc |-> 2000, mba |-> 50],
             [cpu |-> 13, llc |-> 3072, mba |-> 100]}

Symmetry == Permutations({a1, a2}) \union Permutations({b1, b2})
=============================================================================
