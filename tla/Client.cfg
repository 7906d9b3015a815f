CONSTANTS
  Cmds = {ridx, item}
  NoCmd = NoCmd
  Readers = {ridx}
  MaxRequests = 2
  MaxSessions = 2
  MaxUnasked = 1
  StartWaitsForJoiner = TRUE
SPECIFICATION ClientFairSpec
INVARIANTS
  ClientTypeOK
  PendingIsCurrent
  AnswerIsOwnOrLate
  AnswersKeepOrder
CHECK_DEADLOCK FALSE
