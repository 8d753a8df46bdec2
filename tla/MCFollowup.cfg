SPECIFICATION FairSpec
CONSTANTS
  m1 = m1
  m2 = m2
  m3 = m3
  m4 = m4
  Messages = {m1, m2, m3, m4}
  Queues = {q1}
  NoQueue = NoQueue
  NoId = NoId
  MessageId <- MCNoIds
  Channel <- MCChannel
  AuthKey <- MCAuthKey
  Modes = {"collect", "followup"}
  Cap = 2
  DropPolicy = "new"
  MayClear = FALSE
  MaxThrows = 1
  MaxRollovers = 1
INVARIANTS
  NoMessageLost
  TurnsInOrder
  BatchUniform
  QueuedRunsFollow
PROPERTIES
  AcceptedGetsTurn
CHECK_DEADLOCK FALSE
