--------------------------- MODULE MCMonitorTool ---------------------------
(* Three cores in two L3 clusters: cores 1 and 2 in one, 3 in the other. *)
EXTENDS MonitorTool

MCClusterOf == <<1, 1, 2>>

Opt(e, gs) == [events |-> e, groups |-> gs]

(* One core of a task, and two in two clusters; a group that is named      *)
(* twice, with different events; groups that overlap; processes, one of    *)
(* them named twice; cores and processes; no options.                      *)
MCOptions == {<<Opt({All}, <<{1}>>)>>,
              <<Opt({"rmem"}, <<{1, 3}>>)>>,
              <<Opt({"lmem"}, <<{1}, {2, 3}>>), Opt({"llc"}, <<{1}>>)>>,
              <<Opt({"llc"}, <<{2}>>), Opt({"rmem"}, <<{1, 2}>>)>>,
              <<Opt({"tmem"}, <<{11}>>), Opt({"llc"}, <<{12}, {11}>>)>>,
              <<Opt({"llc"}, <<{1}>>), Opt({"llc"}, <<{11}>>)>>,
              <<>>}
=============================================================================
