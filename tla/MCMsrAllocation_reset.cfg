CONSTANTS
  p1 = p1  p2 = p2  c1 = c1
  Procs = {p1, p2}
  NumSockets = 2
  NumRegs = 4
  NumL2Ids = 1
  NumL2Cos = 1
  NumMbaCos = 0
  Cores = {c1}
SPECIFICATION Spec
SYMMETRY Symmetry
INVARIANTS ResetRestoresDefaults
PROPERTY SetDefinesItsClass
