SPECIFICATION Spec
CONSTANTS
  PageSize = 2
  WordBits = 4
  WordBytes = 1
  LowMemory = 2
  Maps <- BothMaps
  Callers = {heap, vm}
  MaxRun = 3
INVARIANTS
  ReportsTrue
  FramesApart
PROPERTIES
  FirstFit
