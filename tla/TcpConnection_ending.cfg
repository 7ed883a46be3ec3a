CONSTANTS
  Senders = {}
  Closers = {w1, w2}
  Msg = {m1}
  NoMsg = NoMsg
  MsgLen = 2
  HighWater = 2
  ReadReturns = {"positive", "zero", "negative"}
  KeepAlive = TRUE
SPECIFICATION FairSpec
INVARIANTS UpThenDown EndIsReported NotPolledAfterDestroyed
PROPERTIES OutputDrains ShutdownCompletes
CHECK_DEADLOCK FALSE
