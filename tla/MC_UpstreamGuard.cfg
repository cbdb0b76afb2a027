SPECIFICATION Spec
CONSTANTS
  Modes <- MCModes
  HeartbeatOn = TRUE
  MaxChunks = 2
INVARIANTS
  NothingLeaks
  QuietOnceReleased
  TruncatedNeverComplete
  HeadersInTimeAnswered
PROPERTIES
  StopIsReported
  AbortReleases
