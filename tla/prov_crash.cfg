CONSTANTS
  Regs = {r1}
  Emails <- MCEmails
  EmailOf <- MCEmailOf
  Shared = TRUE
  Signups = {s1}
  Hooks = {h1}
  Workers = {w1}
  NoReg = NoReg
  MaxDeliveries = 1
  MaxTasks = 1
  MaxFaults = 1
  Faults = {"crash"}
  Punctual = TRUE
SPECIFICATION FairSpec
PROPERTIES PaidGetsAccount
CHECK_DEADLOCK FALSE
