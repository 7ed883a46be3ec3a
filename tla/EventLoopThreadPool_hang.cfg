CONSTANTS
  N = 2
  Quitters = {}
  MaxDeals = 2
SPECIFICATION FairSpec
PROPERTY DestructorReturns
CHECK_DEADLOCK FALSE
