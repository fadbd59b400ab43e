SPECIFICATION Spec
CONSTANTS
  j1 = j1
  j2 = j2
  l1 = l1
  l2 = l2
  None = None
  Job <- TwoJobs
  Lease <- Nobody
  Mortal <- Nobody
  Priority <- Priorities
  MaxPriority = 2
  OllamaInstalled = FALSE
  RunMayLeaveChild = TRUE
INVARIANTS
  OneProcess
CHECK_DEADLOCK FALSE
