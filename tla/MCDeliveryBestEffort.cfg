SPECIFICATION Spec
CONSTANTS
  d1 = d1
  d2 = d2
  Entries = {d1}
  Recoverers = {"reconnect"}
  Budgeted = {}
  MaxRetries = 2
  BestEffort = {d1}
  MaxScans = 1
  MaxCrashes = 0
INVARIANTS
  BestEffortNotLost
CHECK_DEADLOCK FALSE
