SPECIFICATION Spec
CONSTANTS
  Requests = {r1, r2}
  Keys = {"a"}
  Plans <- MCOnePlan
  Operations <- MCMaybe
  MaxEntries = 1
  MaxUploads = 1
  MaxLives = 2
CHECK_DEADLOCK FALSE
INVARIANTS
  GenerationIsolated
