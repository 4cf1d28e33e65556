SPECIFICATION FairSpec
CONSTANTS
  Client = {c1, c2}
  Edit = {e1, e2}
  Doc = {d1, d2}
  NoDoc = NoDoc
  Save = {v1, v2}
  MaxFaults = 1
INVARIANTS CleanIsStored JoinedIsServed
PROPERTIES StoredStays EventuallyStored
CHECK_DEADLOCK FALSE
