CONSTANTS
  Posters = {p1, p2}
  Task = {t1, t2, t3}
  EventfdMax = 2
SPECIFICATION FairSpec
INVARIANTS TypeOK NoLostWakeup NoLostQuit
PROPERTIES FifoAtMostOnce QueuedFunctorsRun QuitEndsLoop EarlyFunctorsRun
CHECK_DEADLOCK FALSE
