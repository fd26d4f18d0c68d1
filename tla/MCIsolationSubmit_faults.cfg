CONSTANTS
  a1 = a1  a2 = a2  b1 = b1  b2 = b2
  CoreNums = 4
  WayNums = 3
  Quotas <- MCQuotas
  Online = {a1, a2}
  Offline = {b1}
  Faults = TRUE
SPECIFICATION Spec
SYMMETRY Symmetry
INVARIANTS SettledClassesAreApart SettledCosMatchesCpus
