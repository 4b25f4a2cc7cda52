CONSTANTS
  Regs = {r1, r2}
  Emails <- MCEmails
  EmailOf <- MCEmailOf
  Shared = TRUE
  Signups = {s1, s2}
  Hooks = {h1, h2}
  Workers = {w1, w2}
  NoReg = NoReg
  MaxDeliveries = 2
  MaxTasks = 1
  MaxFaults = 1
  Faults = {"error", "enqueue", "crash"}
  Punctual = FALSE
SPECIFICATION Spec
SYMMETRY Symmetry
INVARIANTS TypeOK AccountOnce HalfMadeTraceable
PROPERTIES PaidNeverDropped
CHECK_DEADLOCK FALSE
