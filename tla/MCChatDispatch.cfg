SPECIFICATION FairSpec
CONSTANTS
  Post = {p1, p2}
  Message = {m1, m2}
  NoMessage = NoMessage
  PoolSize = 2
  MaxFaults = 2
INVARIANTS AcknowledgedIsDispatched TwiceOnlyIfRepeated
PROPERTIES EventuallyAnswered EventuallyStarted
CHECK_DEADLOCK FALSE
