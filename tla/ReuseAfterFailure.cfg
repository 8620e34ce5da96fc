SPECIFICATION Spec
CONSTANTS
  Jobs = {j1, j2, j3}
  Slots = {s1}
  j1 = j1
  j2 = j2
  j3 = j3
  s1 = s1
  k1 = k1
  NoJob = NoJob
  NoSlot = NoSlot
  Keys <- OneKey
  KeyOf <- SameKey
  ApiThreads = 1
  MaxClock = 0
  StaleAfter = 0
  Budget <- PortBudget
CHECK_DEADLOCK FALSE
PROPERTY MissIsJustified
