SPECIFICATION FairSpec
CONSTANTS
  Socket = {s1, s2, s3}
  Request = {q1}
  NoSocket = NoSocket
  MaxInits = 2
  MaxFaults = 2
  UpgradeHangs = FALSE
INVARIANTS OneChain ConnectedIsWatched PendingIsLive
PROPERTIES StaysConnected InitializeReturns
CHECK_DEADLOCK FALSE
