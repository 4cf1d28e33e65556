SPECIFICATION FairSpec
CONSTANTS
  Client = {c1}
  Edit = {e1, e2}
  Doc = {d1}
  NoDoc = NoDoc
  Save = {v1, v2}
  MaxFaults = 0
PROPERTY EveryEditIsStored
CHECK_DEADLOCK FALSE
