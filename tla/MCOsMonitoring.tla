--------------------------- MODULE MCOsMonitoring ---------------------------
(* Two threads and two groups; combinations of events that share arrays,   *)
(* on a kernel with all RDT events and on one without local bandwidth.     *)
EXTENDS OsMonitoring, TLC

MCFds == 3 .. 7
MCSizes == {1, 2}
MCEventSets == {{"rmem"}, {"tmem", "rmem"}, {"llc", "lmem", "ipc"}}
MCSupportSets == {{"llc", "lmem", "tmem"}, {"llc", "tmem"}}

Symmetric == Permutations(Threads) \union Permutations(Groups)
=============================================================================
