CONSTANTS
  Outlines = {o1}
  Lessons = {l1}
  Standalone = {}
  Regens = {}
  Parents = {p1}
  ParentOf <- MCParentOf
  Workers = {w1}
  Callers = {c1}
  NoJob = NoJob
  MaxClaims = 2
  MaxCancels = 1
  MaxFaults = 1
  GenerationMayFail = TRUE
  LiveOverrun = FALSE
SPECIFICATION FairSpec
PROPERTIES JobsSettle
CHECK_DEADLOCK FALSE
