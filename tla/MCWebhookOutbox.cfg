SPECIFICATION FairSpec
CONSTANTS
  Entry = {e1, e2}
  Worker = {w1, w2}
  Blocked = {e2}
  MAX_RETRIES = 2
  BatchLimit = 2
  MaxOverruns = 1
  MaxAbandons = 1
  MaxOperatorRetries = 1
  NoOwner = NoOwner
  GoneOwner = GoneOwner
CHECK_DEADLOCK FALSE
INVARIANTS
  NoLeakedLock
  AttemptsBounded
  NoConcurrentDispatch
PROPERTIES
  ImplementsTasks
  EventuallySettled
