SPECIFICATION RequestsSpec
CONSTANTS
  j1 = j1
  j2 = j2
  j3 = j3
  l1 = l1
  l2 = l2
  k1 = k1
  k2 = k2
  None = None
  Job <- ThreeJobs
  Lease <- TwoLeases
  Mortal <- OneMortal
  Priority <- TwoPriorities
  MaxPriority = 1
  OllamaInstalled = FALSE
  RunMayLeaveChild = FALSE
  Canceller <- OneCancel
  PruneStates <- NoPrune
  QuickPrune = FALSE
SYMMETRY JobSymmetry
INVARIANTS
  TypeOK
  OneActiveJob
  LeaseExcludesJobs
  NoLostWakeup
PROPERTIES
  ImplementsGpuLock
  TerminalIsFinal
  FrontMeansNext
  PositionsMoveByOne
CHECK_DEADLOCK FALSE
