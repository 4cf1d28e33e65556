SPECIFICATION FairJobSpec
CONSTANTS
  Job = {j1, j2}
  UnknownKind = {j2}
  Worker = {w1, w2}
  MaxAttempts = 2
  BatchLimit = 2
  MaxOverruns = 2
  MaxFaults = 2
  NoOwner = NoOwner
  GoneOwner = GoneOwner
CHECK_DEADLOCK FALSE
INVARIANTS
  NoLeakedLock
  StartsAccountedFor
  NoDoubleProcessing
PROPERTIES
  ImplementsTasks
  EventuallySettled
