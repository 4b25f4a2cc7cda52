CONSTANTS
  Outlines = {o1}
  Lessons = {}
  Standalone = {}
  Regens = {}
  Parents = {}
  ParentOf <- MCParentOf
  Workers = {w1}
  Callers = {c1}
  NoJob = NoJob
  MaxClaims = 1
  MaxCancels = 1
  MaxFaults = 0
  GenerationMayFail = FALSE
  LiveOverrun = FALSE
SPECIFICATION Spec
PROPERTIES CancelSticks
CHECK_DEADLOCK FALSE
