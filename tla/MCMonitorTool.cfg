CONSTANTS
  Cores = {1, 2, 3}
  ClusterOf <- MCClusterOf
  Width = 3
  Word = 64
  Leftovers = {2}
  Unavailable = {0}
  MaxTraffic = 2
  MaxFaults = 1
  Options <- MCOptions
  Available = {"lmem", "tmem", "rmem"}
  Pids = {11, 12}
  Ages = {1}
  MaxTop = 1
  MaxTicks = 2
SPECIFICATION FairSpec
INVARIANTS TypeOK ReportIsTraffic RemoteIsTheRest TableIsWhatWasAsked TopAreBusiest NothingKept
PROPERTY StopsWhenAsked
CHECK_DEADLOCK FALSE
