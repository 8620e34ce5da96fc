SPECIFICATION Spec
CONSTANTS
  Jobs = {j1}
  Slots = {s1, s2}
  j1 = j1
  s1 = s1
  s2 = s2
  k1 = k1
  NoJob = NoJob
  NoSlot = NoSlot
  Keys <- OneKey
  KeyOf <- SameKey
  ApiThreads = 2
  MaxClock = 0
  StaleAfter = 0
  Budget <- ChaosBudget
CHECK_DEADLOCK FALSE
SYMMETRY Interchangeable
INVARIANTS
  OutcomeRecorded
  OneOpenStage
