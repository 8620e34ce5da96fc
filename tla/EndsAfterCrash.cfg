SPECIFICATION FairSpec
CONSTANTS
  Jobs = {j1}
  Slots = {s1}
  j1 = j1
  s1 = s1
  k1 = k1
  NoJob = NoJob
  NoSlot = NoSlot
  Keys <- OneKey
  KeyOf <- SameKey
  ApiThreads = 1
  MaxClock = 0
  StaleAfter = 0
  Budget <- CrashBudget
CHECK_DEADLOCK FALSE
PROPERTY AnsweredJobEnds
