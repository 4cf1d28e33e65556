SPECIFICATION FairSpec
CONSTANTS
  Job = {m1}
  UnknownKind = {}
  Worker = {w1, w2}
  MaxAttempts = 2
  BatchLimit = 1
  MaxOverruns = 1
  MaxFaults = 2
  MaxErrors = 1
  MaxCallbacks = 2
  NoOwner = NoOwner
  GoneOwner = GoneOwner
CHECK_DEADLOCK FALSE
INVARIANTS
  SendsAreAccounted
  CompletedWasAccepted
PROPERTIES
  EventuallyResolved
