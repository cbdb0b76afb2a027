SPECIFICATION Spec
CONSTANTS
  Requests = {r1, r2}
  Streaming = {r1}
  Stoppers = {s1}
  Configurers = {c1, c2}
  Export = x
  Timed = {r1, r2}
CHECK_DEADLOCK FALSE
INVARIANTS
  TypeOK
  AdmittingIsLive
  CleanStopIsQuiet
  HostTableUnused
PROPERTIES
  UnloadReturns
  StopEndsRequests
