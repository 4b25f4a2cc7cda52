CONSTANTS
  Existing = {b}
  Fresh = {a}
  None = None
  MaxEvents = 2
  MaxVersions = 2
SPECIFICATION FlowSpec
INVARIANTS SavesItsOwnCourse
CHECK_DEADLOCK FALSE
