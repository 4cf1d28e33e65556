SPECIFICATION FairSpec
CONSTANTS
  Post = {p1, p2}
  Message = {m1, m2}
  NoMessage = NoMessage
  PoolSize = 2
  MaxFaults = 0
PROPERTIES DispatchReturns
CHECK_DEADLOCK FALSE
