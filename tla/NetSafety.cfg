CONSTANTS
  MAX_OUTGOING = 3
  Packet <- MCPackets
  NoPacket = NoPacket
  Conns = {c1, c2}
  NoConn = NoConn
  Fds = {f1, f2}
  NoFd = NoFd
  LISTEN_BACKLOG = 1
  MAX_INIT_RETRIES = 2
  MaxRequests = 2
  StrictPriority = FALSE
SYMMETRY Symmetry
SPECIFICATION Spec
INVARIANTS
  TypeOK
  PublishedIsServed
  StaleFrameFirst
  FramesContiguous
  AnsweredInOrder
  WrittenOnce
CHECK_DEADLOCK FALSE
