SPECIFICATION Spec
CONSTANTS
  Requests = {r1, r2}
  Keys = {"a", "b"}
  Plans <- MCPlans
  Operations <- MCMaybe
  MaxEntries = 1
  MaxUploads = 3
  MaxLives = 2
CHECK_DEADLOCK FALSE
INVARIANTS
  CacheConsistent
  PendingIsLed
  FilesMatch
PROPERTIES
  WaitersAnswered
