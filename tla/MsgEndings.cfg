CONSTANTS
  Stems = {0, 1}
  Texts = {t1, t2}
  NoText = NoText
  TableSize = 3
  Files <- MCFiles
  NoMessage <- MCNoMessage
SPECIFICATION MsgSpec
INVARIANT EndingsHandled
CHECK_DEADLOCK FALSE
