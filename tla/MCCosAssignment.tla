--------------------------- MODULE MCCosAssignment ---------------------------
(* An instance of CosAssignment for TLC: one socket with two L2 clusters,  *)
(* one of them of a single core; fewer MBA classes than L3 classes, as on  *)
(* real parts.                                                             *)
EXTENDS CosAssignment, TLC

CONSTANTS c1, c2, c3, s1, s2, k1, k2, k3, a1, a2

MCSocketOf == (c1 :> s1) @@ (c2 :> s1) @@ (c3 :> s1)
MCL2Of == (c1 :> k1) @@ (c2 :> k1) @@ (c3 :> k2)
MCNumCos == [l3ca |-> 3, l2ca |-> 3, mba |-> 2]

MixedRequests == {{"l2ca"}, {"l3ca"}, {"l2ca", "l3ca"}, {"l3ca", "mba"}}

Symmetry == Permutations({a1, a2}) \union Permutations({c1, c2})
=============================================================================
