CONSTANTS
  N = 0
  Conn = {c1, c2, c3}
  NoConn = NoConn
  Acceptor = Acceptor
  Fd = {f1, f2}
  NoFd = NoFd
  Kept = {c1}
  ReadReturns = {"zero"}
SPECIFICATION FairSpec
INVARIANT EveryUpHasDown
PROPERTY EveryClientIsServed
CHECK_DEADLOCK FALSE
