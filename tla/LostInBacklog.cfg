SPECIFICATION Spec
CONSTANTS
  Jobs = {j1}
  Slots = {s1}
  j1 = j1
  s1 = s1
  Helpers = {}
  NoJob = NoJob
  Allowed = {}
  Troubles = 0
PROPERTY LostHasNoMessage
