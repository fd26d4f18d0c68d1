----------------------------- MODULE Discovery -----------------------------
(***************************************************************************)
(* What discover_capabilities and discover_os_capabilities (lib/cap.c)     *)
(* make of a processor and its kernel.  The facts of a machine: the        *)
(* features that CPUID enumerates and whether it does so at all (alloc),   *)
(* the brand and the mask registers the code falls back on, monitoring     *)
(* events, CDP of its sockets, classes of a technology, linearity of MBA,  *)
(* and of the kernel its flags, resctrl and the perf monitoring unit.      *)
(***************************************************************************)
EXTENDS CpuTopology

Features == {"mon", "l3", "l2", "mba"}
Allocation == {"l3", "l2", "mba"}

Cdp == {"none", "off", "on", "mixed"}   \* of L3 CAT, "mixed": sockets differ

HasCache(m, level) == m.sharing[level] # 0

(* discover_monitoring; total and local bandwidth together give remote. *)
MonEvents(m) == m.events \union IF {"lmem", "tmem"} \subseteq m.events THEN {"rmem"} ELSE {}

DiscoverMonitoring(m) == CASE "mon" \notin m.cpuid -> "resource"
                           [] ~HasCache(m, 3) \/ MonEvents(m) = {} -> "error"
                           [] OTHER -> "ok"

(* discover_alloc_l3: by CPUID, else by the brand, else by what registers  *)
(* can be read.                                                            *)
ByCpuid(m) == m.alloc
ByBrand(m) == ~m.alloc /\ m.brand
ByProbing(m) == ~m.alloc /\ ~m.brand

DiscoverL3(m) == CASE ByCpuid(m) /\ "l3" \notin m.cpuid -> "resource"
                   [] ByCpuid(m) /\ m.cdp = "mixed" -> "error"
                   [] ByProbing(m) /\ m.maskRegs = 0 -> "resource"
                   [] ~HasCache(m, 3) -> "resource"
                   [] OTHER -> "ok"

(* discover_alloc_l2, where CPUID is the only way *)
DiscoverL2(m) == CASE ~m.alloc \/ "l2" \notin m.cpuid -> "resource"
                   [] ~HasCache(m, 2) -> "error"
                   [] OTHER -> "ok"

(* discover_alloc_mba, likewise; a throttle that is not linear is none *)
DiscoverMba(m) == IF m.alloc /\ "mba" \in m.cpuid /\ m.linear THEN "ok" ELSE "resource"

Discovered(m, f) == CASE f = "mon" -> DiscoverMonitoring(m)
                      [] f = "l3" -> DiscoverL3(m)
                      [] f = "l2" -> DiscoverL2(m)
                      [] f = "mba" -> DiscoverMba(m)

(* num_classes of the technologies: CDP pairs the masks of L3 CAT. *)
NumClasses(m, f) == CASE f # "l3" -> m.classes[f]
                      [] ByCpuid(m) /\ m.cdp = "on" -> m.classes["l3"] \div 2
                      [] ByCpuid(m) -> m.classes["l3"]
                      [] ByBrand(m) -> 4
                      [] ByProbing(m) -> m.maskRegs

(* Of the features that were found, those the kernel supports: what its    *)
(* flags name and, where it has resctrl, L3 CAT in any case.               *)
OsSupport(m, found) == found \intersect (m.flags \union IF m.resctrl THEN {"l3"} ELSE {})

(* resctrl_alloc_get_grps_num, without the group that is always there. *)
GroupsNeeded(m, found) ==
  LET fs == OsSupport(m, found) \intersect Allocation
  IN IF fs = {} THEN 0 ELSE Min({NumClasses(m, f) : f \in fs}) - 1
=============================================================================
