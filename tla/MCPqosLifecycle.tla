-------------------------- MODULE MCPqosLifecycle --------------------------
(* An instance of PqosLifecycle for TLC: processors of different shapes,   *)
(* ages and features, on kernels that know more or less of them.           *)
EXTENDS PqosLifecycle, TLC

CONSTANTS t1, t2

Symmetry == Permutations({t1, t2})

At(s, l3, l2) == [socket |-> s, l3_id |-> l3, l2_id |-> l2]

(* Two sockets of up to six threads; one of two threads, without L3; one   *)
(* with two L3 clusters; a single core; cores whose L2 is for one id only. *)
TwoSockets == [apic |-> (0 :> 0) @@ (1 :> 4) @@ (2 :> 1) @@ (3 :> 8),
               smt |-> 1, core |-> 3, sharing |-> <<2, 2, 6>>,
               place |-> (0 :> At(0, 0, 0)) @@ (1 :> At(0, 0, 1)) @@ (2 :> At(0, 0, 0)) @@ (3 :> At(1, 1, 2))]
NoL3 == [apic |-> (0 :> 0) @@ (1 :> 1) @@ (2 :> 2), smt |-> 1, core |-> Absent, sharing |-> <<1, 2, 0>>,
         place |-> (0 :> At(0, 0, 0)) @@ (1 :> At(0, 0, 0)) @@ (2 :> At(1, 1, 1))]
TwoClusters == [apic |-> (0 :> 0) @@ (1 :> 2) @@ (2 :> 4), smt |-> 1, core |-> 3, sharing |-> <<2, 2, 4>>,
                place |-> (0 :> At(0, 0, 0)) @@ (1 :> At(0, 0, 1)) @@ (2 :> At(0, 1, 2))]
OneCore == [apic |-> 0 :> 0, smt |-> 1, core |-> 2, sharing |-> <<2, 2, 4>>,
            place |-> 0 :> At(0, 0, 0)]
NoThreads == [apic |-> (0 :> 0) @@ (1 :> 1), smt |-> 0, core |-> 2, sharing |-> <<1, 1, 4>>,
              place |-> (0 :> At(0, 0, 0)) @@ (1 :> At(0, 0, 1))]

Silent == [cpuid |-> {}, alloc |-> FALSE, brand |-> FALSE, maskRegs |-> 0, events |-> {},
           cdp |-> "none", classes |-> [l3 |-> 0, l2 |-> 0, mba |-> 0], linear |-> TRUE,
           flags |-> {}, resctrl |-> FALSE, perf |-> FALSE]

Modern == [Silent EXCEPT !.alloc = TRUE, !.resctrl = TRUE]

(* Monitoring only; L3 CAT by its brand, or by its registers, on an old    *)
(* kernel; L2 CAT and MBA; CDP switched on; everything.                    *)
MonitoringOnly == [Silent EXCEPT !.cpuid = {"mon"}, !.events = {"llc", "lmem", "tmem"},
                                 !.flags = {"mon"}, !.resctrl = TRUE, !.perf = TRUE] @@ TwoClusters
Branded == [Silent EXCEPT !.cpuid = {"mon"}, !.events = {"llc"}, !.brand = TRUE] @@ NoThreads
Probed == [Silent EXCEPT !.maskRegs = 2] @@ TwoClusters
Small == [Modern EXCEPT !.cpuid = {"l2", "mba"}, !.classes = [l3 |-> 0, l2 |-> 4, mba |-> 3],
                        !.flags = {"mba"}] @@ NoL3
CodeAndData == [Modern EXCEPT !.cpuid = {"l3", "mba"}, !.cdp = "on", !.flags = {"mon", "mba"},
                              !.classes = [l3 |-> 4, l2 |-> 0, mba |-> 3]] @@ TwoClusters
Everything == [Modern EXCEPT !.cpuid = {"mon", "l3"}, !.events = {"llc", "tmem"}, !.cdp = "off",
                             !.classes = [l3 |-> 3, l2 |-> 0, mba |-> 0],
                             !.flags = {"mon", "l3"}, !.perf = TRUE] @@ TwoSockets

(* Machines that are refused: nothing usable, sockets that differ in CDP,  *)
(* monitoring without an L3, one core, no L2.                              *)
Refused == {[Modern EXCEPT !.cpuid = {"mba"}, !.linear = FALSE] @@ TwoClusters,
            [Modern EXCEPT !.cpuid = {"mon", "l3"}, !.events = {"llc"}, !.cdp = "mixed"] @@ TwoSockets,
            [Silent EXCEPT !.cpuid = {"mon"}, !.events = {"llc"}] @@ NoL3,
            MonitoringOnly @@ OneCore,
            [TwoClusters EXCEPT !.sharing = <<2, 0, 4>>] @@ Silent}

MCMachines == {MonitoringOnly, Branded, Probed, Small, CodeAndData, Everything} \union Refused
=============================================================================
