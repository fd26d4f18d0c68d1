CONSTANTS
  c1 = c1  c2 = c2  c3 = c3
  k1 = k1  k2 = k2
  g1 = g1  g2 = g2
  llc = llc  mbm = mbm
  MonCores = {c1, c2, c3}
  Clusters = {k1, k2}
  ClusterOf <- MCClusterOf
  Groups = {g1, g2}
  Events = {llc, mbm}
  MaxRmid <- MCMaxRmid
  RmidMax = 3
SPECIFICATION MonSpec
SYMMETRY Symmetry
INVARIANTS CountsExactlyItsCores EveryRmidAccounted
PROPERTY HijackOnlyByReset
