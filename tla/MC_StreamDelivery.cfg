SPECIFICATION Spec
CONSTANTS
  Responses <- MCResponses
  MaxAnomalies = 1
INVARIANTS
  ExactlyTheResponse
  ClientCanFollow
  CleanStreamShown
PROPERTIES
  RegenerationUnseen
