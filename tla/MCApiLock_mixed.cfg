CONSTANTS
  p1 = p1  p2 = p2  p3 = p3
  t1 = t1  t2 = t2  t3 = t3  t4 = t4
  NoProc = NoProc
  NoThread = NoThread
  Threads = {t1, t2, t3, t4}
  Procs = {p1, p2, p3}
  ProcOf <- TwoOneOne
SPECIFICATION Spec
INVARIANT ProcessExclusion
CHECK_DEADLOCK FALSE
