CONSTANTS
  Outlines = {}
  Lessons = {l1}
  Standalone = {}
  Regens = {}
  Parents = {p1}
  ParentOf <- MCParentOf
  Workers = {w1}
  Callers = {c1}
  NoJob = NoJob
  MaxClaims = 1
  MaxCancels = 0
  MaxFaults = 0
  GenerationMayFail = TRUE
  LiveOverrun = FALSE
SPECIFICATION FairSpec
PROPERTIES CourseSettles
CHECK_DEADLOCK FALSE
