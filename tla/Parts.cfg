CONSTANTS
  Cmds = {ridx, item}
  NoCmd = NoCmd
  Readers = {ridx}
  MaxRequests = 1
  MaxSessions = 2
  MaxUnasked = 0
  StartWaitsForJoiner = TRUE
  Image <- MCImage
  Heads <- MCHeads
  Parent = 1
  Children <- MCChildren
  Replacements <- MCReplacements
  PatchShorter = FALSE
  EVT_ENTRY_MAX = 1
  MaxPatches = 2
  MaxRuns = 2
  Fds = {0, 1, 2}
  InitTries = 3
  MAX_IP_RETRIES = 2
  MAX_OUTGOING = 4
  Packet = {a, b, c}
  NoPacket = NoPacket
  Stems = {0, 1}
  Texts = {t1, t2}
  NoText = NoText
  TableSize = 3
  Files <- MCFiles
  NoMessage <- MCNoMessage
  Args <- MCArgs
  SLOTS = 2
  MaxArgs = 3
  Effs = {e1, e2}
  Works = {w1, w2}
  MainFuncs = {f1, f2}
  Null = Null
  MAX_EFFS = 2
  MAX_MEM_ALLOC = 2
SPECIFICATION PartsFairSpec
INVARIANTS
  EvtTypeOK
  ReturnsToCaller
  DoesTheEditedLines
  NetInitTypeOK
  ReadyMeansStarted
  HandlesAccounted
  RingTypeOK
  WaitingWereWritten
  MsgTypeOK
  NoGaps
  NewestTextShown
  PayloadTypeOK
  ParamsAreTyped
  EffTypeOK
PROPERTIES
  StopEndsSession
  RequestResolved
  ImplementsQueue
  TableIsListWhenNotFull
  WalkMeetsEveryRow
CHECK_DEADLOCK FALSE
