CONSTANTS
  p1 = p1  p2 = p2  p3 = p3
  t1 = t1  t2 = t2  t3 = t3  t4 = t4
  c1 = c1  d1 = d1  d2 = d2  schemata = schemata  cpus = cpus
  NoProc = NoProc
  NoThread = NoThread
  Threads = {t1, t2, t3, t4}
  Procs = {p1, p2, p3}
  ProcOf <- TwoOneOne
  Cores = {c1}
  Files = {schemata}
  Parts <- MCParts
  CpusFiles = cpus
  Cpus = {d1, d2}
  COS0 = 0
  Values = {0, 1}
  SetBy <- MCSetBy
SPECIFICATION FairSharedSpec
INVARIANTS NoUpdateLost ReadsItsOwnCounter
PROPERTIES ImplementsMutex SomeoneGetsIn
CHECK_DEADLOCK FALSE
