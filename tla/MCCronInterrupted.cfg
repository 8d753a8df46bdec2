SPECIFICATION Spec
CONSTANTS
  daily = daily
  once = once
  m1 = m1
  m2 = m2
  Recurring = {daily}
  OneShot = {once}
  LongRuns = {}
  Manuals = {}
  MaxConcurrent = 1
  MaxImmediate = 1
  MaxCrashes = 1
  MaxEvents = 0
INVARIANTS
  InterruptedNotRetried
CHECK_DEADLOCK FALSE
