CONSTANTS
  Regs = {r1}
  Emails <- MCEmails
  EmailOf <- MCEmailOf
  Shared = TRUE
  Signups = {s1}
  Hooks = {h1, h2}
  Workers = {w1, w2}
  NoReg = NoReg
  MaxDeliveries = 2
  MaxTasks = 1
  MaxFaults = 0
  Faults = {}
  Punctual = TRUE
SPECIFICATION Spec
INVARIANTS OneProvisioner
CHECK_DEADLOCK FALSE
