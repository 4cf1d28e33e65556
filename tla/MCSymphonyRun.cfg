SPECIFICATION Spec
CONSTANTS
  Run = {r1, r2}
  Orchestrator = {o1, o2}
  Caller = {c1}
  Targets = {"provisioning", "failed", "terminating", "terminated"}
  MaxConcurrent = 1
  MaxLateBeats = 1
  MaxFaults = 1
  NoOwner = NoOwner
SYMMETRY Perms
INVARIANTS CapacityRespected OverlookedWasClosed SweepSparesTheLiving
PROPERTIES ClaimIsFinal VersionedEndIsFinal
CHECK_DEADLOCK FALSE
