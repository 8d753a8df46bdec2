SPECIFICATION GatewayFairSpec
CONSTANTS
  sessionLane = sessionLane
  Lanes = {sessionLane}
  Tasks = {t1, t2}
  NoTask = NoTask
  Waiters = {w1, w2}
  LaneOf <- MCLaneOf
  Inner <- MCInner
  SyncInner = {}
  ConcurrencyInputs = {}
  MaxGeneration = 2
  MayFailStart = TRUE
  MaxRequests = 2
INVARIANTS
  DrainFlagTemporary
  LockHeldWhileServing
  InFlightFinished
PROPERTIES
  RestartHonoured
  StopExits
CHECK_DEADLOCK FALSE
