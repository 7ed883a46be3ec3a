CONSTANTS
  Senders = {}
  Closers = {}
  Msg = {m1}
  NoMsg = NoMsg
  MsgLen = 2
  HighWater = 2
  ReadReturns = {"positive"}
  KeepAlive = TRUE
SPECIFICATION FairSpec
PROPERTY PeerCloseIsReported
CHECK_DEADLOCK FALSE
