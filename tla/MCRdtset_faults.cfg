CONSTANTS
  A = A  B = B  task1 = task1
  few = few  half = half  slow = slow
  Full = Full
  NotSet = NotSet
  Nobody = Nobody
  Cores = {1, 2, 3}
  SocketOf <- MCSocketOf
  L2Of <- MCL2Of
  NumCos <- MCNumCos
  Values = {Full, few, half, slow}
  Procs = {A, B}
  Tasks = {A, B, task1}
  Lines <- MCLines
  MaxFaults = 1
SPECIFICATION FairSpec
INVARIANTS TypeOK NothingLeftBehind CoresUseWhatWasAsked TasksUseWhatWasAsked ClassIsItsOwn
PROPERTY ComesToItsEnd
CHECK_DEADLOCK FALSE
