SPECIFICATION Spec
CONSTANTS
  HeartbeatOn = TRUE
  DeadlineModes <- MCModes
  UpstreamIds = {"up1"}
  Failures <- MCFailures
  QueueCap = 1
  MaxBatches = 3
INVARIANTS
  TypeOK
  ClosedExactlyOnce
  ForcedOwnsClose
  EndedQuiescent
  RecordTellsTruth
  SummaryBeforeClose
PROPERTIES
  StopIsFinal
  ContractHolds
  StreamEventuallyClosed
  SessionEnds
