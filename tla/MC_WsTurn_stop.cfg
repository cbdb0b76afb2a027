SPECIFICATION Spec
CONSTANTS
  HeartbeatOn = TRUE
  MaxTokens = 1
PROPERTIES
  InterruptedEndsAsStopped
