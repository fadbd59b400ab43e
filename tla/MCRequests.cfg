SPECIFICATION RequestsSpec
CONSTANTS
  j1 = j1
  j2 = j2
  j3 = j3
  l1 = l1
  l2 = l2
  k1 = k1
  k2 = k2
  None = None
  Job <- TwoJobs
  Lease <- NoLease
  Mortal <- NoLease
  Priority <- OnePriority
  MaxPriority = 1
  OllamaInstalled = TRUE
  RunMayLeaveChild = FALSE
  Canceller <- TwoCancels
  PruneStates <- SensibleStates
  QuickPrune = FALSE
SYMMETRY RequestSymmetry
INVARIANTS
  RequestsTypeOK
  PendingCancelAimsAtItsJob
PROPERTIES
  CancelOkMeansGone
  PruneSparesUnfinishedJobs
CHECK_DEADLOCK FALSE
