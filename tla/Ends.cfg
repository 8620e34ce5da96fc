SPECIFICATION FairSpec
CONSTANTS
  Jobs = {j1, j2}
  Slots = {s1, s2}
  j1 = j1
  j2 = j2
  s1 = s1
  s2 = s2
  k1 = k1
  NoJob = NoJob
  NoSlot = NoSlot
  Keys <- OneKey
  KeyOf <- SameKey
  ApiThreads = 2
  MaxClock = 0
  StaleAfter = 0
  Budget <- PortBudget
CHECK_DEADLOCK FALSE
PROPERTIES
  AnsweredJobEnds
  EveryMessageSettles
