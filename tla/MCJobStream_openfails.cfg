SPECIFICATION FairSpec
CONSTANTS
  Viewer <- OneViewer
  FromStart <- OneViewer
  TailLines = 1
  MayHangUp <- Nobody
  MaxLines = 1
  OpenMayFail = TRUE
PROPERTIES
  SubmitReturns
CHECK_DEADLOCK FALSE
