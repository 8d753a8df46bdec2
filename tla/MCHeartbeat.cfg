SPECIFICATION FairSpec
CONSTANTS
  t1 = t1
  t2 = t2
  Targets = {t1, t2}
  Priorities = {1, 3}
  MaxRequests = 3
  MaxGenerations = 3
  MaxRetries = 2
INVARIANTS
  NoWakeLost
  PendingHasTimer
  SingleFlight
  HandlerStays
PROPERTIES
  WakeServed
CHECK_DEADLOCK FALSE
