SPECIFICATION FairRecoverySpec
CONSTANTS
  j1 = j1
  j2 = j2
  l1 = l1
  l2 = l2
  None = None
  Job <- TwoJobs
  Lease <- TwoLeases
  Mortal <- OneMortal
  Priority <- Priorities
  MaxPriority = 1
  OllamaInstalled = TRUE
  RunMayLeaveChild = TRUE
  MaxDowns = 1
INVARIANTS
  RecoveryTypeOK
  LostRowsAreSettled
  NoProcessIsDone
PROPERTIES
  NeverRequeued
  TerminalIsFinalAcrossRestarts
  EveryActiveJobSettles
  EveryJobSettles
  EveryLeaseAnswered
CHECK_DEADLOCK FALSE
