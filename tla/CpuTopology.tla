---------------------------- MODULE CpuTopology ----------------------------
(***************************************************************************)
(* The topology that cpuinfo_build_topo (lib/cpuinfo.c) reads off the APIC *)
(* ids of the cpus.  A machine says by CPUID how many ids share a cache of *)
(* each level (0: there is none) and how far ids are to be shifted for the *)
(* levels of leaf 0xB, Absent when a level is not reported; place is where *)
(* its cpus really are.                                                    *)
(***************************************************************************)
EXTENDS Naturals, FiniteSets, FiniteSetsExt

Absent == 99            \* no shift of an id of 32 bits

(* A variant of the definition below, a slip the code could have had. *)
WholeBits(n) == IF n < 2 THEN n ELSE CHOOSE p \in 0 .. n : 2^p <= n /\ n < 2^(p + 1)

(* The bits that n ids need; for one id the code says 1. *)
nearest_pow2(n) == IF n < 2 THEN n ELSE Min({p \in 0 .. n : n <= 2^p})

CacheShift(m, level) == nearest_pow2(m.sharing[level])

PkgShift(m) == IF m.core = Absent THEN m.smt ELSE m.core

L3Shift(m) == IF m.sharing[3] = 0 THEN PkgShift(m) ELSE CacheShift(m, 3)

(* detect_apic_masks: without threads, L1 or L2 there is no topology. *)
HasMasks(m) == m.smt # Absent /\ m.sharing[1] # 0 /\ m.sharing[2] # 0

(* detect_cpu: struct pqos_coreinfo of a cpu. *)
CoreInfo(m, c) == [socket |-> m.apic[c] \div 2^PkgShift(m),
                   l3_id  |-> m.apic[c] \div 2^L3Shift(m),
                   l2_id  |-> m.apic[c] \div 2^CacheShift(m, 2)]

(* What the caches and sockets of the cpus are to the program is what they *)
(* are: ids are equal where something is shared, and only there.  A cache  *)
(* for one id is given a bit all the same and taken for shared by two.     *)
SaysWhatIsShared(m, cores) ==
  \A c, d \in DOMAIN cores : \A r \in {"socket", "l3_id", "l2_id"} :
    \/ cores[c][r] = cores[d][r] <=> m.place[c][r] = m.place[d][r]
    \/ r = "l2_id" /\ m.sharing[2] = 1

(* So it is when all cpus have been asked. *)
ReadsRight(m) == SaysWhatIsShared(m, [c \in DOMAIN m.apic |-> CoreInfo(m, c)])
=============================================================================
