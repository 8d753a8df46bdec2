SPECIFICATION Spec
CONSTANTS
  m1 = m1
  m2 = m2
  m3 = m3
  m4 = m4
  Messages = {m1, m2, m3, m4}
  Queues = {q1, q2}
  NoQueue = NoQueue
  NoId = NoId
  MessageId <- MCRedelivered
  Channel <- MCChannel
  AuthKey <- MCAuthKey
  Modes = {"collect", "followup"}
  Cap = 2
  DropPolicy = "summarize"
  MayClear = TRUE
  MaxThrows = 1
  MaxRollovers = 0
INVARIANTS
  TypeOK
  TurnsOnce
PROPERTIES
  SummaryOnce
CHECK_DEADLOCK FALSE
