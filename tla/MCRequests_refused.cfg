SPECIFICATION RequestsSpec
CONSTANTS
  j1 = j1
  j2 = j2
  j3 = j3
  l1 = l1
  l2 = l2
  k1 = k1
  k2 = k2
  None = None
  Job <- TwoJobs
  Lease <- NoLease
  Mortal <- NoLease
  Priority <- OnePriority
  MaxPriority = 1
  OllamaInstalled = TRUE
  RunMayLeaveChild = FALSE
  Canceller <- OneCancel
  PruneStates <- RefusedStates
  QuickPrune = FALSE
PROPERTIES
  PruneSparesUnfinishedJobs
CHECK_DEADLOCK FALSE
