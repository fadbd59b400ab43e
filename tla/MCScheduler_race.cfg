SPECIFICATION Spec
CONSTANTS
  j1 = j1
  j2 = j2
  l1 = l1
  l2 = l2
  None = None
  Job <- TwoJobs
  Lease <- TwoLeases
  Mortal <- Nobody
  Priority <- Priorities
  MaxPriority = 2
  OllamaInstalled = TRUE
  RunMayLeaveChild = FALSE
INVARIANTS
  LeaseExcludesJobs
CHECK_DEADLOCK FALSE
