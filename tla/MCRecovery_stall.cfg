SPECIFICATION FairRecoverySpec
CONSTANTS
  j1 = j1
  j2 = j2
  l1 = l1
  l2 = l2
  None = None
  Job <- TwoJobs
  Lease <- NobodyDies
  Mortal <- NobodyDies
  Priority <- Priorities
  MaxPriority = 1
  OllamaInstalled = FALSE
  RunMayLeaveChild = FALSE
  MaxDowns = 1
PROPERTIES
  EveryJobSettlesDespiteRestarts
CHECK_DEADLOCK FALSE
