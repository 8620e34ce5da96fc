SPECIFICATION FairSpec
CONSTANTS
  Jobs = {j1, j2}
  Slots = {s1, s2}
  j1 = j1
  j2 = j2
  s1 = s1
  s2 = s2
  Helpers = {h1}
  h1 = h1
  NoJob = NoJob
  Allowed = {"crash", "expire", "port", "queue", "state", "helper"}
  Troubles = 1
INVARIANTS
  WorkerTypeOK
  NoGhost
  StatusShowsWork
PROPERTIES
  PolledIsNotLost
  AttemptsSettle
  GhostsLeave
