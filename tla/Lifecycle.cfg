SPECIFICATION Spec
CONSTANTS
  Jobs = {j1, j2}
  Slots = {s1, s2}
  j1 = j1
  j2 = j2
  s1 = s1
  s2 = s2
  k1 = k1
  NoJob = NoJob
  NoSlot = NoSlot
  Keys <- OneKey
  KeyOf <- SameKey
  ApiThreads = 2
  MaxClock = 1
  StaleAfter = 0
  Budget <- LifecycleBudget
CHECK_DEADLOCK FALSE
SYMMETRY Interchangeable
INVARIANTS
  TypeOK
  OneAttemptPerJob
  NoLostJob
  OutcomeRecorded
  TraceClosedAtRest
PROPERTY JobLifecycle
