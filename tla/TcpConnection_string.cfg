CONSTANTS
  Senders = {w1}
  Closers = {}
  Msg = {m1, m2}
  NoMsg = NoMsg
  MsgLen = 2
  HighWater = 2
  ReadReturns = {"positive", "zero", "negative"}
  KeepAlive = FALSE
SPECIFICATION Spec
INVARIANT FunctorsFindTheirString
CHECK_DEADLOCK FALSE
