SPECIFICATION Spec
CONSTANTS
  Configurers = {c1, c2}
  HostSerializes = TRUE
  Requests <- MCRequests
  Dirs = {"d1", "d2"}
  DefaultDir = "d1"
  DefaultModel = "m1"
  Models = {"m1", "m2"}
  Files = {"f1"}
  InitialMirrors <- MCMirrors
  MaxCrashes = 1
INVARIANTS
  MirrorIsEffective
  RegisterAgain
PROPERTIES
  MarksKept
SYMMETRY MCSymmetry
