--------------------------- MODULE MCOsAllocation ---------------------------
(* An instance of OsAllocation for TLC: three classes without CDP, because *)
(* MBA has only three, and two with it.                                    *)
EXTENDS OsAllocation, TLC

CONSTANTS a1, a2, c1, c2, t1, t2

Symmetry == Permutations({a1, a2}) \union Permutations({c1, c2}) \union Permutations({t1, t2})
=============================================================================
