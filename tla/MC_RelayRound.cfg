SPECIFICATION Spec
CONSTANTS
  Modes <- MCModes
  Sources <- MCSources
  Answers <- MCAnswers
INVARIANTS
  BatchAllOrNothing
  HistoryKeepsCalls
  RecordIsTrue
  NothingHeld
