CONSTANTS
  Senders = {w1}
  Closers = {w2}
  Msg = {m1, m2}
  NoMsg = NoMsg
  MsgLen = 2
  HighWater = 2
  ReadReturns = {"positive"}
  KeepAlive = TRUE
SPECIFICATION Spec
INVARIANT NotPolledAfterDestroyed
CHECK_DEADLOCK FALSE
