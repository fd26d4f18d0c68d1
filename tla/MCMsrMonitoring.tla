--------------------------- MODULE MCMsrMonitoring ---------------------------
(* An instance of MsrMonitoring for TLC: two cores share one L3 cluster    *)
(* and one has its own; one event has fewer RMIDs than the other, as CMT   *)
(* and MBM have on real parts.                                             *)
EXTENDS MsrMonitoring, TLC

CONSTANTS c1, c2, c3, k1, k2, g1, g2, llc, mbm

MCClusterOf == (c1 :> k1) @@ (c2 :> k1) @@ (c3 :> k2)
MCMaxRmid == (llc :> 2) @@ (mbm :> 3)

Symmetry == Permutations({g1, g2}) \union Permutations({c1, c2})
=============================================================================
