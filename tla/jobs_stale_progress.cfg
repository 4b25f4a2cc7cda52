CONSTANTS
  Outlines = {}
  Lessons = {l1, l2}
  Standalone = {}
  Regens = {}
  Parents = {p1}
  ParentOf <- MCParentOf
  Workers = {w1, w2}
  Callers = {c1}
  NoJob = NoJob
  MaxClaims = 1
  MaxCancels = 0
  MaxFaults = 0
  GenerationMayFail = FALSE
  LiveOverrun = FALSE
SPECIFICATION Spec
PROPERTIES CourseOutcomeStable
CHECK_DEADLOCK FALSE
