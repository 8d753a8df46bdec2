SPECIFICATION FairSpec
CONSTANTS
  c1 = c1
  c2 = c2
  Calls = {c1, c2}
  MaxAttempts = 4
  MAX_RESTART_ATTEMPTS = 1
PROPERTIES
  CallsReturn
INVARIANTS
  ServingIsTracked
  NoSecondTask
  StopHolds
CHECK_DEADLOCK FALSE
