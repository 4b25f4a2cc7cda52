CONSTANTS
  Outlines = {}
  Lessons = {l1, l2, l3}
  Standalone = {}
  Regens = {}
  Parents = {p1}
  ParentOf <- MCParentOf
  Workers = {w1, w2, w3}
  Callers = {c1}
  NoJob = NoJob
  MaxClaims = 3
  MaxCancels = 0
  MaxFaults = 2
  GenerationMayFail = TRUE
  LiveOverrun = FALSE
SPECIFICATION Spec
SYMMETRY Symmetry
INVARIANTS TypeOK SingleOwner CourseMeansLessons AnnouncedWhenSettled
PROPERTIES OutcomeStable
CHECK_DEADLOCK FALSE
