SPECIFICATION FairSpec
CONSTANTS
  daily = daily
  once = once
  m1 = m1
  m2 = m2
  Recurring = {daily}
  OneShot = {once}
  LongRuns = {once}
  Manuals = {m1}
  MaxConcurrent = 1
  MaxImmediate = 1
  MaxCrashes = 1
  MaxEvents = 1
PROPERTIES
  DueJobRuns
INVARIANTS
  NoOverlap
  MarkerHonest
  NoSlotSkipped
  UserChoiceHolds
CHECK_DEADLOCK FALSE
