CONSTANTS
  Evts = {e1, e2}
  NoEvt = NoEvt
  ItemIds = {3, 65540}
  Indices = {0, 7}
  MAX_EFFS = 1
  MaxItems = 1
  MaxGameOffs = 1
  GamePreempts = FALSE
SPECIFICATION Spec
INVARIANT AnswerIsTheCommands
