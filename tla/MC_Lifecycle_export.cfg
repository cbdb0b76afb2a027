SPECIFICATION Spec
CONSTANTS
  Requests = {r1}
  Streaming = {}
  Stoppers = {}
  Configurers = {}
  Export = x
  Timed = {}
CHECK_DEADLOCK FALSE
PROPERTIES
  ShutdownInterrupts
