CONSTANTS
  N = 3
  Quitters = {2}
  MaxDeals = 3
SPECIFICATION FairSpec
INVARIANTS TypeOK EvenDealing LoopsAreAlive ThreadsAreJoined
PROPERTIES StartReturns QuitThenJoin
CHECK_DEADLOCK FALSE
