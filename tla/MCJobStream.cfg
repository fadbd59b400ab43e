SPECIFICATION FairSpec
CONSTANTS
  Viewer <- TwoViewers
  FromStart <- OneViewer
  TailLines = 1
  MayHangUp <- Impatient
  MaxLines = 2
  OpenMayFail = TRUE
INVARIANTS
  TypeOK
  SubmitSeesItAll
  ViewerMissesNothing
PROPERTIES
  StreamsEnd
CHECK_DEADLOCK FALSE
