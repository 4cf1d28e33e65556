SPECIFICATION FairSpec
CONSTANTS
  Provider = {1}
  Call = {11, 12}
  MaxChanges = 1
  MaxFaults = 2
INVARIANTS NeverDeaf StrayIsExplained
PROPERTY Converges
CHECK_DEADLOCK FALSE
