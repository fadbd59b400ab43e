SPECIFICATION FairSpec
CONSTANTS
  MaxLines = 2
  Faulty <- AnyStatement
INVARIANTS
  TypeOK
  DoneMeansDone
  AnnouncedAsWritten
PROPERTIES
  SchedulerMovesOn
  SettledOnce
  RunsAsScheduled
CHECK_DEADLOCK FALSE
