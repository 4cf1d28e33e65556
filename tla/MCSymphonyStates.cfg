SPECIFICATION FairSpec
CONSTANTS
  Run = {r1}
  Orchestrator = {o1, o2}
  Caller = {c1}
  Targets <- AllStates
  MaxConcurrent = 1
  MaxLateBeats = 1
  MaxFaults = 1
  NoOwner = NoOwner
PROPERTIES MovesAreValid UnclaimedIsTaken
CHECK_DEADLOCK FALSE
