CONSTANTS
  c1 = c1  c2 = c2  c3 = c3
  s1 = s1  s2 = s2  k1 = k1  k2 = k2  k3 = k3
  a1 = a1  a2 = a2
  Cores = {c1, c2, c3}
  Sockets = {s1}
  SocketOf <- MCSocketOf
  L2Ids = {k1, k2}
  L2Of <- MCL2Of
  Apps = {a1, a2}
  NumCos <- MCNumCos
  Requests <- MixedRequests
SPECIFICATION Spec
SYMMETRY Symmetry
INVARIANTS
  ClassIsOursInCluster ClassIsSharedOnlyWithL2 EveryClassAccounted
