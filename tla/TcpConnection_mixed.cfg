CONSTANTS
  Senders = {w1}
  Closers = {w2}
  Msg = {m1, m2}
  NoMsg = NoMsg
  MsgLen = 2
  HighWater = 2
  ReadReturns = {"positive", "zero", "negative"}
  KeepAlive = TRUE
SPECIFICATION Spec
INVARIANTS TypeOK StreamIntact PollerInStep FinAfterOutput OutputIsWatched
PROPERTIES StreamRefinement HighWaterIsRisingEdge
CHECK_DEADLOCK FALSE
