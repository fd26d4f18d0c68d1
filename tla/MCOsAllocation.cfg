CONSTANTS
  a1 = a1  a2 = a2
  c1 = c1  c2 = c2
  t1 = t1  t2 = t2
  Cores = {c1, c2}
  Tasks = {t1, t2}
  Apps = {a1, a2}
  L3Cos = 4
  L2Cos = 0
  MbaCos = 3
  NoApp = NoApp
SPECIFICATION Spec
SYMMETRY Symmetry
INVARIANTS ClassIsOurs KnowsGroups
