----------------------------- MODULE SymphonyRun -----------------------------
(***************************************************************************)
(* The rows of symphony_run and everything that writes their status:       *)
(* the state machine (src/symphony/state-machine.ts), the tick and the     *)
(* recovery sweep of an orchestrator (src/symphony-worker), the operator's *)
(* routes (src/api/symphony/routes.ts) and the reconciliation with GitHub  *)
(* (src/api/symphony/tracker/sync-service.ts).                             *)
(*                                                                         *)
(* state_version is a counter that only grows and is only compared for     *)
(* equality, so the model keeps what the comparison can tell: the set of   *)
(* pending calls whose version is still the row's.                         *)
(***************************************************************************)
EXTENDS Naturals, FiniteSets

CONSTANTS
  Run,           \* rows of symphony_run
  Orchestrator,  \* incarnations of the worker: the id is new at every start
  Caller,        \* callers of transition() that pass no client
  Targets,       \* states the callers of transition() ask for
  MaxConcurrent, \* maxConcurrentRuns
  MaxLateBeats,  \* bound: heartbeats of a running orchestrator that are late
  MaxFaults,     \* bound: orchestrators that stop and recoveries that fail
  NoOwner        \* orchestrator_id IS NULL

VALID_TRANSITIONS ==
  [unclaimed         |-> {"claimed", "cancelled"},
   claimed           |-> {"provisioning", "released", "orphaned", "cancelled", "terminating"},
   provisioning      |-> {"prompting", "failed", "orphaned", "cancelled", "terminating"},
   prompting         |-> {"running", "failed", "cancelled", "terminating"},
   running           |-> {"verifying_result", "awaiting_approval", "stalled", "failed",
                          "cancelled", "terminating"},
   awaiting_approval |-> {"running", "merge_pending", "verifying_result", "paused",
                          "cancelled", "terminating"},
   verifying_result  |-> {"merge_pending", "failed", "cancelled", "terminating"},
   merge_pending     |-> {"post_merge_verify", "awaiting_approval", "failed", "cancelled",
                          "terminating"},
   post_merge_verify |-> {"issue_closing", "failed", "cancelled", "terminating"},
   issue_closing     |-> {"succeeded", "released", "failed", "cancelled", "terminating"},
   continuation_wait |-> {"provisioning", "paused", "cancelled", "terminating"},
   stalled           |-> {"retry_queued", "paused", "failed", "cancelled", "terminating"},
   retry_queued      |-> {"provisioning", "paused", "cancelled", "terminating"},
   paused            |-> {"retry_queued", "cancelled", "terminating"},
   orphaned          |-> {"failed", "released", "cancelled"},
   terminating       |-> {"terminated", "released", "cleanup_failed"},
   failed            |-> {"retry_queued", "continuation_wait"},
   succeeded |-> {}, cancelled |-> {}, terminated |-> {}, released |-> {},
   cleanup_failed |-> {}]

RunState == DOMAIN VALID_TRANSITIONS

TERMINAL_STATES == {"succeeded", "cancelled", "terminated", "released", "cleanup_failed"}

\* Where the watchdog sends a run, for the states that have a timeout.
timeoutTargetState ==
  [claimed |-> "orphaned", provisioning |-> "failed", prompting |-> "failed",
   running |-> "stalled", verifying_result |-> "failed", merge_pending |-> "failed",
   post_merge_verify |-> "failed", issue_closing |-> "failed",
   awaiting_approval |-> "paused", terminating |-> "cleanup_failed"]

TimedStates == DOMAIN timeoutTargetState

RECOVERY_TRANSITIONS ==
  [claimed |-> "failed", provisioning |-> "failed", prompting |-> "failed",
   retry_queued |-> "failed", running |-> "stalled", awaiting_approval |-> "stalled",
   verifying_result |-> "stalled", merge_pending |-> "stalled",
   post_merge_verify |-> "stalled", issue_closing |-> "stalled",
   continuation_wait |-> "stalled", paused |-> "orphaned", terminating |-> "terminated"]

ASSUME RunAssumption ==
  /\ Targets \subseteq RunState
  /\ MaxConcurrent \in Nat /\ MaxLateBeats \in Nat /\ MaxFaults \in Nat
  /\ NoOwner \notin Orchestrator
  /\ IsFiniteSet(Run)

VARIABLES
  status,      \* status[r]: the column
  completedAt, \* completedAt[r]: completed_at IS NOT NULL
  owner,       \* owner[r]: orchestrator_id
  call,        \* call[c]: {<<r, s>>} when c has read status s of r, else {}
  fresh,       \* callers whose expected version is still the row's
  process,     \* process[o]: "new", "sweeping", "up" or "gone"
  heartbeat,   \* heartbeat[o]: "none", "fresh" or "late" (over 90 seconds)
  slots,       \* slots[o]: slotsAvailable of a tick that has counted
  batch,       \* batch[o]: unclaimed runs the tick has still to try
  victims,     \* victims[o]: stale orchestrators the sweep has still to do
  current,     \* current[o]: {p} while the runs of p are being recovered
  found,       \* found[o]: <<run, status>> pairs read and still to write
  unversioned, \* history: runs last written without a new state_version
  revived,     \* history: runs that left a terminal state
  recovered,   \* history: runs a recovery sweep has written
  lateBeats,   \* late heartbeats so far
  faults       \* faults so far

rows      == <<status, completedAt, owner>>
calls     == <<call, fresh>>
tick      == <<slots, batch>>
sweep     == <<victims, current, found>>
histories == <<unversioned, revived, recovered>>
vars == <<rows, calls, process, heartbeat, tick, sweep, histories, lateBeats, faults>>

Init ==
  /\ status = [r \in Run |-> "unclaimed"]
  /\ completedAt = [r \in Run |-> FALSE]
  /\ owner = [r \in Run |-> NoOwner]
  /\ call = [c \in Caller |-> {}]
  /\ fresh = {}
  /\ process = [o \in Orchestrator |-> "new"]
  /\ heartbeat = [o \in Orchestrator |-> "none"]
  /\ slots = [o \in Orchestrator |-> 0]
  /\ batch = [o \in Orchestrator |-> {}]
  /\ victims = [o \in Orchestrator |-> {}]
  /\ current = [o \in Orchestrator |-> {}]
  /\ found = [o \in Orchestrator |-> {}]
  /\ unversioned = {} /\ revived = {} /\ recovered = {}
  /\ lateBeats = 0 /\ faults = 0

-----------------------------------------------------------------------------
(* The state machine.                                                      *)

\* Mutant of Reading: the version read is never compared.
BugReading(R) == {}

\* Pending calls about the runs R.
Reading(R) == {c \in Caller : \E x \in call[c] : x[1] \in R}

\* Mutant of Move: completed_at is stamped by every transition.
BugMoveCloses(R, to) ==
  /\ status' = [r \in Run |-> IF r \in R THEN to[r] ELSE status[r]]
  /\ completedAt' = [r \in Run |-> completedAt[r] \/ r \in R]
  /\ fresh' = fresh \ Reading(R)
  /\ unversioned' = unversioned \ R
  /\ revived' = revived \cup {r \in R : status[r] \in TERMINAL_STATES}
  /\ UNCHANGED <<owner, recovered>>

\* The UPDATE of transition(): new status, next version, completed_at when the
\* new state is terminal.
Move(R, to) ==
  /\ status' = [r \in Run |-> IF r \in R THEN to[r] ELSE status[r]]
  /\ completedAt' = [r \in Run |->
       completedAt[r] \/ (r \in R /\ to[r] \in TERMINAL_STATES)]
  /\ fresh' = fresh \ Reading(R)
  /\ unversioned' = unversioned \ R
  /\ revived' = revived \cup {r \in R : status[r] \in TERMINAL_STATES}
  /\ UNCHANGED <<owner, recovered>>

\* transition() with a client: the lock taken by the SELECT is held until the
\* UPDATE has committed.  A refused call changes nothing.
transition(r, to) ==
  /\ status[r] \notin TERMINAL_STATES
  /\ to \in VALID_TRANSITIONS[status[r]]
  /\ Move({r}, [x \in {r} |-> to])
  /\ UNCHANGED <<call, process, heartbeat, tick, sweep, lateBeats, faults>>

\* transition() without a client: each statement is a transaction of its own,
\* so the lock of SELECT ... FOR UPDATE is gone when it returns.
SelectForUpdate(c, r) ==
  /\ call[c] = {}
  /\ status[r] \notin TERMINAL_STATES
  /\ call' = [call EXCEPT ![c] = {<<r, status[r]>>}]
  /\ fresh' = fresh \cup {c}
  /\ UNCHANGED <<rows, process, heartbeat, tick, sweep, histories, lateBeats, faults>>

\* ... WHERE id = $7 AND state_version = $8.
CompareAndSet(c, to) == \E x \in call[c] :
  /\ c \in fresh
  /\ to \in VALID_TRANSITIONS[x[2]]
  /\ Move({x[1]}, [r \in {x[1]} |-> to])
  /\ call' = [call EXCEPT ![c] = {}]
  /\ UNCHANGED <<process, heartbeat, tick, sweep, lateBeats, faults>>

\* No row has the version, or the target is not valid, or the caller died.
CallFails(c) ==
  /\ call[c] # {}
  /\ call' = [call EXCEPT ![c] = {}]
  /\ fresh' = fresh \ {c}
  /\ UNCHANGED <<rows, process, heartbeat, tick, sweep, histories, lateBeats, faults>>

Watched == {r \in Run : status[r] \in TimedStates /\ ~completedAt[r]}

\* One transaction moves the runs of the batch that have timed out.
watchdogSweep == \E R \in SUBSET Watched :
  /\ R # {}
  /\ Move(R, [r \in R |-> timeoutTargetState[status[r]]])
  /\ UNCHANGED <<call, process, heartbeat, tick, sweep, lateBeats, faults>>

-----------------------------------------------------------------------------
(* The operator's routes and the reconciliation: one UPDATE each, which    *)
(* leaves state_version alone.                                             *)

Overwrite(r, to) ==
  /\ status' = [status EXCEPT ![r] = to]
  /\ unversioned' = unversioned \cup {r}
  /\ UNCHANGED <<owner, calls, process, heartbeat, tick, sweep, revived, lateBeats, faults>>

cancelRun(r) ==
  /\ status[r] \notin TERMINAL_STATES
  /\ Overwrite(r, "cancelled")
  /\ completedAt' = [completedAt EXCEPT ![r] = TRUE]
  /\ UNCHANGED recovered

\* completed_at is not cleared.
retryRun(r) ==
  /\ status[r] \in {"failed", "stalled", "paused"}
  /\ Overwrite(r, "retry_queued")
  /\ UNCHANGED <<completedAt, recovered>>

approveRun(r) ==
  /\ status[r] = "awaiting_approval"
  /\ Overwrite(r, "running")
  /\ UNCHANGED <<completedAt, recovered>>

mergeRun(r) ==
  /\ status[r] \in {"verifying_result", "awaiting_approval"}
  /\ Overwrite(r, "merge_pending")
  /\ UNCHANGED <<completedAt, recovered>>

\* The issue is closed on GitHub: completed_at stays NULL.
reconcileActiveRun(r) ==
  /\ status[r] \notin TERMINAL_STATES
  /\ Overwrite(r, "cancelled")
  /\ UNCHANGED <<completedAt, recovered>>

-----------------------------------------------------------------------------
(* The tick of an orchestrator; tickInFlight keeps a second one out.       *)

Owned(o) == {r \in Run : owner[r] = o /\ status[r] \notin TERMINAL_STATES}

\* Mutant of Free: every tick may claim a full set.
BugFree(o) == MaxConcurrent

Free(o) == IF Cardinality(Owned(o)) < MaxConcurrent
           THEN MaxConcurrent - Cardinality(Owned(o)) ELSE 0

Claimable == {r \in Run : status[r] = "unclaimed" /\ owner[r] = NoOwner}

CountActive(o) ==
  /\ process[o] = "up"
  /\ slots[o] = 0 /\ batch[o] = {}
  /\ Free(o) > 0
  /\ slots' = [slots EXCEPT ![o] = Free(o)]
  /\ UNCHANGED <<rows, calls, process, heartbeat, batch, sweep, histories, lateBeats, faults>>

\* Mutant of SelectUnclaimed: LIMIT slotsAvailable - 1.
BugSelectOneLess(o) ==
  /\ slots[o] > 0
  /\ \E B \in SUBSET Claimable :
       /\ Cardinality(B) < slots[o]
       /\ B = Claimable \/ Cardinality(B) + 1 = slots[o]
       /\ batch' = [batch EXCEPT ![o] = B]
  /\ slots' = [slots EXCEPT ![o] = 0]
  /\ UNCHANGED <<rows, calls, process, heartbeat, sweep, histories, lateBeats, faults>>

\* ORDER BY created_at LIMIT slotsAvailable: which runs are the oldest is left
\* open.
SelectUnclaimed(o) ==
  /\ slots[o] > 0
  /\ \E B \in SUBSET Claimable :
       /\ Cardinality(B) <= slots[o]
       /\ B = Claimable \/ Cardinality(B) = slots[o]
       /\ batch' = [batch EXCEPT ![o] = B]
  /\ slots' = [slots EXCEPT ![o] = 0]
  /\ UNCHANGED <<rows, calls, process, heartbeat, sweep, histories, lateBeats, faults>>

\* Mutant of StillFree: the row is not looked at again.
BugStillFree(r) == TRUE

\* ... WHERE id = $3 AND status = 'unclaimed' AND orchestrator_id IS NULL.
StillFree(r) == status[r] = "unclaimed" /\ owner[r] = NoOwner

ClaimRun(o, r) ==
  /\ r \in batch[o]
  /\ batch' = [batch EXCEPT ![o] = @ \ {r}]
  /\ IF StillFree(r)
     THEN /\ owner' = [owner EXCEPT ![r] = o]
          /\ status' = [status EXCEPT ![r] = "claimed"]
          /\ fresh' = fresh \ Reading({r})
          /\ unversioned' = unversioned \ {r}
     ELSE UNCHANGED <<owner, status, fresh, unversioned>>
  /\ UNCHANGED <<completedAt, call, process, heartbeat, slots, sweep, revived,
                 recovered, lateBeats, faults>>

-----------------------------------------------------------------------------
(* Start, recovery sweep, heartbeat and end of an orchestrator.            *)

\* Mutant of Stale: the age of the heartbeat is not looked at.
BugStale == {p \in Orchestrator : heartbeat[p] # "none"}

Stale == {p \in Orchestrator : heartbeat[p] = "late"}

Start(o) ==
  /\ process[o] = "new"
  /\ process' = [process EXCEPT ![o] = "sweeping"]
  /\ victims' = [victims EXCEPT ![o] = Stale]
  /\ UNCHANGED <<rows, calls, heartbeat, tick, current, found, histories, lateBeats, faults>>


\* Runs whose status has no entry in the map are skipped.
recoverOrphanedRuns(o, p) ==
  /\ process[o] = "sweeping"
  /\ current[o] = {} /\ p \in victims[o]
  /\ victims' = [victims EXCEPT ![o] = @ \ {p}]
  /\ current' = [current EXCEPT ![o] = {p}]
  /\ found' = [found EXCEPT ![o] =
       {<<r, status[r]>> : r \in {x \in Owned(p) : status[x] \in DOMAIN RECOVERY_TRANSITIONS}}]
  /\ UNCHANGED <<rows, calls, process, heartbeat, tick, histories, lateBeats, faults>>

\* Mutant of Unmoved: the status read is not compared again.
BugUnmoved(r, s) == TRUE

\* ... WHERE id = $3 AND status = $4.
Unmoved(r, s) == status[r] = s

RecoverRun(o, x) ==
  /\ x \in found[o]
  /\ found' = [found EXCEPT ![o] = @ \ {x}]
  /\ IF Unmoved(x[1], x[2])
     THEN /\ status' = [status EXCEPT ![x[1]] = RECOVERY_TRANSITIONS[x[2]]]
          /\ completedAt' = [completedAt EXCEPT ![x[1]] = TRUE]
          /\ unversioned' = unversioned \cup {x[1]}
          /\ recovered' = recovered \cup {x[1]}
     ELSE UNCHANGED <<status, completedAt, unversioned, recovered>>
  /\ UNCHANGED <<owner, calls, process, heartbeat, tick, victims, current, revived,
                 lateBeats, faults>>

removeHeartbeat(o) ==
  /\ current[o] # {} /\ found[o] = {}
  /\ heartbeat' = [p \in Orchestrator |-> IF p \in current[o] THEN "none" ELSE heartbeat[p]]
  /\ current' = [current EXCEPT ![o] = {}]
  /\ UNCHANGED <<rows, calls, process, tick, victims, found, histories, lateBeats, faults>>

\* The sweep is over, or has thrown, which the start survives; the first
\* heartbeat is written before the first tick.
BeginTicking(o) ==
  /\ process[o] = "sweeping"
  /\ IF victims[o] = {} /\ current[o] = {}
     THEN UNCHANGED faults
     ELSE faults < MaxFaults /\ faults' = faults + 1
  /\ process' = [process EXCEPT ![o] = "up"]
  /\ heartbeat' = [heartbeat EXCEPT ![o] = "fresh"]
  /\ victims' = [victims EXCEPT ![o] = {}]
  /\ current' = [current EXCEPT ![o] = {}]
  /\ found' = [found EXCEPT ![o] = {}]
  /\ UNCHANGED <<rows, calls, tick, histories, lateBeats>>

\* ON CONFLICT (orchestrator_id) DO UPDATE, or a new row if a sweep removed it.
writeHeartbeat(o) ==
  /\ process[o] = "up"
  /\ heartbeat[o] # "fresh"
  /\ heartbeat' = [heartbeat EXCEPT ![o] = "fresh"]
  /\ UNCHANGED <<rows, calls, process, tick, sweep, histories, lateBeats, faults>>

HeartbeatAges(o) ==
  /\ heartbeat[o] = "fresh"
  /\ IF process[o] = "up"
     THEN lateBeats < MaxLateBeats /\ lateBeats' = lateBeats + 1
     ELSE UNCHANGED lateBeats
  /\ heartbeat' = [heartbeat EXCEPT ![o] = "late"]
  /\ UNCHANGED <<rows, calls, process, tick, sweep, histories, faults>>

\* A crash or a shutdown; the id never comes back.
Stop(o) ==
  /\ process[o] \in {"sweeping", "up"}
  /\ faults < MaxFaults /\ faults' = faults + 1
  /\ process' = [process EXCEPT ![o] = "gone"]
  /\ slots' = [slots EXCEPT ![o] = 0]
  /\ batch' = [batch EXCEPT ![o] = {}]
  /\ victims' = [victims EXCEPT ![o] = {}]
  /\ current' = [current EXCEPT ![o] = {}]
  /\ found' = [found EXCEPT ![o] = {}]
  /\ UNCHANGED <<rows, calls, heartbeat, histories, lateBeats>>

-----------------------------------------------------------------------------
StateMachine ==
  \/ \E r \in Run, to \in Targets : transition(r, to)
  \/ \E c \in Caller, r \in Run : SelectForUpdate(c, r)
  \/ \E c \in Caller, to \in Targets : CompareAndSet(c, to)
  \/ \E c \in Caller : CallFails(c)
  \/ watchdogSweep

Operator == \E r \in Run :
  cancelRun(r) \/ retryRun(r) \/ approveRun(r) \/ mergeRun(r) \/ reconcileActiveRun(r)

Tick(o) ==
  \/ CountActive(o)
  \/ SelectUnclaimed(o)
  \/ \E r \in Run : ClaimRun(o, r)

Startup(o) ==
  \/ Start(o)
  \/ \E p \in Orchestrator : recoverOrphanedRuns(o, p)
  \/ \E x \in found[o] : RecoverRun(o, x)
  \/ removeHeartbeat(o)
  \/ BeginTicking(o)

Process(o) == Tick(o) \/ Startup(o) \/ writeHeartbeat(o) \/ HeartbeatAges(o) \/ Stop(o)

Next == StateMachine \/ Operator \/ \E o \in Orchestrator : Process(o)

Spec == Init /\ [][Next]_vars

\* tickInFlight is cleared in a finally and the fallback timer re-arms itself,
\* so an orchestrator that runs keeps ticking; nothing else is promised to run.
FairSpec == Spec /\ \A o \in Orchestrator : WF_vars(Tick(o))

-----------------------------------------------------------------------------
\* The columns hold values of their CHECK constraints (migration 148).
TypeOK ==
  /\ status \in [Run -> RunState]
  /\ completedAt \in [Run -> BOOLEAN]
  /\ owner \in [Run -> Orchestrator \cup {NoOwner}]
  /\ call \in [Caller -> SUBSET (Run \X RunState)]
  /\ fresh \subseteq Caller
  /\ process \in [Orchestrator -> {"new", "sweeping", "up", "gone"}]
  /\ heartbeat \in [Orchestrator -> {"none", "fresh", "late"}]
  /\ slots \in [Orchestrator -> Nat]
  /\ batch \in [Orchestrator -> SUBSET Run]
  /\ victims \in [Orchestrator -> SUBSET Orchestrator]
  /\ current \in [Orchestrator -> SUBSET Orchestrator]
  /\ found \in [Orchestrator -> SUBSET (Run \X RunState)]
  /\ unversioned \subseteq Run /\ revived \subseteq Run /\ recovered \subseteq Run
  /\ lateBeats \in Nat /\ faults \in Nat

\* maxConcurrentRuns (config.ts) holds for every orchestrator, although the
\* count, the list and the claims of a tick are separate statements and other
\* writers move runs between them.  A run that came back from a terminal state
\* is outside the count the tick made.
CapacityRespected == \A o \in Orchestrator :
  Cardinality(Owned(o) \ revived) <= MaxConcurrent

\* The watchdog asks for completed_at IS NULL.  It overlooks a run in a timed
\* state only if a recovery sweep closed the run before it was retried, or the
\* run came back from a terminal state.
OverlookedWasClosed == \A r \in Run :
  status[r] \in TimedStates /\ completedAt[r] => r \in recovered \cup revived

\* While no heartbeat of a running orchestrator is late, the sweep that another
\* one makes at its start takes no run from it.
SweepSparesTheLiving ==
  lateBeats = 0 => \A r \in recovered : process[owner[r]] = "gone"

\* A run that is claimed stays with its orchestrator: two ticks that list the
\* same run do not both get it, and no late tick takes a run that moved on.
ClaimIsFinal == [][\A r \in Run : owner[r] # NoOwner => owner'[r] = owner[r]]_vars

\* Every new state that transition(), the watchdog or a tick writes over a
\* status which was itself written with a new version follows
\* VALID_TRANSITIONS: the comparison of versions replaces the lock that a call
\* without a client loses.
MovesAreValid == [][\A r \in Run :
  status'[r] # status[r] /\ r \notin unversioned \cup unversioned'
    => status'[r] \in VALID_TRANSITIONS[status[r]]]_vars

\* A terminal state is final once it was written with a new version.
VersionedEndIsFinal == [][\A r \in Run :
  status[r] \in TERMINAL_STATES /\ r \notin unversioned => status'[r] = status[r]]_vars

\* states.ts: "Terminal states - once reached, the run is complete and cannot
\* transition further."
TerminalIsFinal == [][\A r \in Run :
  status[r] \in TERMINAL_STATES => status'[r] = status[r]]_vars

\* An unclaimed run is taken, cancelled, or finds no running orchestrator with
\* room: no tick that loses a race or dies leaves it unseen for ever.
UnclaimedIsTaken == \A r \in Run :
  status[r] = "unclaimed" ~>
    (status[r] # "unclaimed" \/ \A o \in Orchestrator : process[o] # "up" \/ Free(o) = 0)
=============================================================================
