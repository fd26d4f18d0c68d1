CONSTANTS
  MaxTasks = 8
  Offset = 2
  Jump = 1
  Started = 1
SPECIFICATION FairSpec
CHECK_DEADLOCK FALSE
INVARIANTS BurstsGetTheirQuota
PROPERTIES SettledLoadIsServed AdjustmentsEnd
