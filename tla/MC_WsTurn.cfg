SPECIFICATION Spec
CONSTANTS
  HeartbeatOn = TRUE
  MaxTokens = 2
INVARIANTS
  CancelReachesUpstream
  OneConnection
PROPERTIES
  TurnEnds
