CONSTANTS
  N = 1
  Conn = {c1}
  NoConn = NoConn
  Acceptor = Acceptor
  Fd = {f1}
  NoFd = NoFd
  Kept = {}
  ReadReturns = {"positive", "zero", "negative"}
SPECIFICATION FairSpec
INVARIANT EveryUpHasDown
CHECK_DEADLOCK FALSE
