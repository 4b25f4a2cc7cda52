CONSTANTS
  Regs = {r1}
  Emails <- MCEmails
  EmailOf <- MCEmailOf
  Shared = TRUE
  Signups = {s1}
  Hooks = {h1, h2}
  Workers = {w1, w2}
  NoReg = NoReg
  MaxDeliveries = 2
  MaxTasks = 2
  MaxFaults = 2
  Faults = {"enqueue"}
  Punctual = TRUE
SPECIFICATION FairSpec
PROPERTIES PaidGetsAccount
CHECK_DEADLOCK FALSE
