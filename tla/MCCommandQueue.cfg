SPECIFICATION Spec
CONSTANTS
  a1 = a1
  m1 = m1
  a2 = a2
  m2 = m2
  c1 = c1
  b1 = b1
  n1 = n1
  none = none
  NoTask = none
  Tasks = {a1, m1, a2, m2}
  Waiters = {w1}
  Lanes <- MCLanes
  LaneOf <- MCLaneOf
  Inner <- MCInner
  SyncInner <- MCSyncInner
  ConcurrencyInputs = {0, 2}
  MaxGeneration = 1
INVARIANTS
  TypeOK
  WorkConserving
  SlotsExact
  QueueExact
  WaitersExact
PROPERTY
  RefinesLaneService
