-------------------------- MODULE MCSharedRegister --------------------------
(* The instance of MCApiLock: the two threads of p1 change the schemata of *)
(* a class; the processes of a single thread use the registers of a core   *)
(* and the files that say which cores a class has.                         *)
EXTENDS SharedRegister, TLC

CONSTANTS p1, p2, p3, t1, t2, t3, t4, c1, d1, d2, schemata, cpus

TwoOneOne == (t1 :> p1) @@ (t2 :> p1) @@ (t3 :> p2) @@ (t4 :> p3)

MCParts == {{"l3"}, {"mb"}}

MCSetBy == (schemata :> {t1, t2}) @@ (c1 :> {t3, t4}) @@ (cpus :> {t3, t4})
=============================================================================
