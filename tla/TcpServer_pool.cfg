CONSTANTS
  N = 2
  Conn = {c1, c2}
  NoConn = NoConn
  Acceptor = Acceptor
  Fd = {f1, f2}
  NoFd = NoFd
  Kept = {c1}
  ReadReturns = {"positive", "zero", "negative"}
SPECIFICATION ThreadSpec
INVARIANTS TypeOK ActiveAreAlive PollersHoldLiveChannels DeadLoopsGetNoWork
PROPERTIES ChannelsStayInTheirThread NoCallbackAfterDestruction TableRefinement ClosedIsFreed ServerIsDestroyed
CHECK_DEADLOCK FALSE
