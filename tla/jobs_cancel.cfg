CONSTANTS
  Outlines = {o1}
  Lessons = {}
  Standalone = {}
  Regens = {}
  Parents = {}
  ParentOf <- MCParentOf
  Workers = {w1, w2}
  Callers = {c1}
  NoJob = NoJob
  MaxClaims = 3
  MaxCancels = 2
  MaxFaults = 1
  GenerationMayFail = TRUE
  LiveOverrun = TRUE
SPECIFICATION Spec
SYMMETRY Symmetry
INVARIANTS CompletedHasResult ResultPerClaim
PROPERTIES NeverRequeued EarlyCancelSticks
CHECK_DEADLOCK FALSE
