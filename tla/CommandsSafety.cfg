CONSTANTS
  Evts = {e1, e2}
  NoEvt = NoEvt
  ItemIds = {3, 65540}
  Indices = {0}
  MAX_EFFS = 1
  MaxItems = 3
  MaxGameOffs = 2
  GamePreempts = TRUE
SPECIFICATION FairSpec
INVARIANTS
  TypeOK
  OneItemAtATime
  KeyHeldWhileDelivering
  GivenAsAsked
PROPERTY ItemKeyReturned
