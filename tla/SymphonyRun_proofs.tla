-------------------------- MODULE SymphonyRun_proofs --------------------------
(***************************************************************************)
(* Proofs about SymphonyRun, for any runs, orchestrators, callers, targets *)
(* and limits.                                                             *)
(***************************************************************************)
EXTENDS SymphonyRun, FiniteSetTheorems, TLAPS

-----------------------------------------------------------------------------
(* The tables.                                                             *)

\* The 22 values of the CHECK constraint on symphony_run.status.
LEMMA StateNames == RunState =
  {"unclaimed", "claimed", "provisioning", "prompting", "running", "awaiting_approval",
   "verifying_result", "merge_pending", "post_merge_verify", "issue_closing",
   "continuation_wait", "stalled", "retry_queued", "paused", "orphaned", "terminating",
   "failed", "succeeded", "cancelled", "terminated", "released", "cleanup_failed"}
BY DEF RunState, VALID_TRANSITIONS

\* The recovery sweep writes only runs that it has not read in a terminal state.
LEMMA RecoveryStates == \A s \in DOMAIN RECOVERY_TRANSITIONS :
  s \notin TERMINAL_STATES /\ RECOVERY_TRANSITIONS[s] \in RunState
<1>1. \A s \in DOMAIN RECOVERY_TRANSITIONS :
        /\ s \notin TERMINAL_STATES
        /\ RECOVERY_TRANSITIONS[s] \in {"failed", "stalled", "orphaned", "terminated"}
  BY DEF RECOVERY_TRANSITIONS, TERMINAL_STATES
<1> QED BY <1>1, StateNames

\* Every timeout of the watchdog is a transition that the map allows.
LEMMA TimeoutStates == \A s \in TimedStates :
  /\ s \notin TERMINAL_STATES
  /\ timeoutTargetState[s] \in RunState
  /\ timeoutTargetState[s] \in VALID_TRANSITIONS[s]
<1>1. \A s \in TimedStates :
        /\ s \notin TERMINAL_STATES
        /\ timeoutTargetState[s] \in {"orphaned", "failed", "stalled", "paused", "cleanup_failed"}
  BY DEF TimedStates, timeoutTargetState, TERMINAL_STATES
<1>2. \A s \in TimedStates : timeoutTargetState[s] \in VALID_TRANSITIONS[s]
  BY DEF TimedStates, timeoutTargetState, VALID_TRANSITIONS
<1> QED BY <1>1, <1>2, StateNames

\* No transition leads out of a terminal state, and the first claim is one.
LEMMA TerminalStates ==
  /\ "claimed" \in VALID_TRANSITIONS["unclaimed"]
  /\ "unclaimed" \notin TERMINAL_STATES
  /\ "claimed" \notin TERMINAL_STATES
  /\ "unclaimed" \notin TimedStates
  /\ TERMINAL_STATES \cap TimedStates = {}
BY DEF VALID_TRANSITIONS, TERMINAL_STATES, TimedStates, timeoutTargetState

-----------------------------------------------------------------------------
(* Types.                                                                  *)

\* Only runs whose status is in the map are read for the sweep.
FoundInv == \A o \in Orchestrator : \A x \in found[o] : x[2] \in DOMAIN RECOVERY_TRANSITIONS

LEMMA TypeInit == Init => TypeOK
BY StateNames, RunAssumption DEF Init, TypeOK

\* What transition() and the watchdog do to a row.
LEMMA MoveType ==
  ASSUME TypeOK, NEW R \in SUBSET Run, NEW to, \A r \in R : to[r] \in RunState, Move(R, to)
  PROVE  /\ status' \in [Run -> RunState]
         /\ completedAt' \in [Run -> BOOLEAN]
         /\ owner' \in [Run -> Orchestrator \cup {NoOwner}]
         /\ fresh' \subseteq Caller
         /\ unversioned' \subseteq Run /\ revived' \subseteq Run /\ recovered' \subseteq Run
BY DEF TypeOK, Move

LEMMA TypeStep == ASSUME TypeOK, FoundInv, [Next]_vars PROVE TypeOK'
<1> USE DEF rows, calls, tick, sweep, histories
<1>1. ASSUME NEW r \in Run, NEW to \in Targets, transition(r, to) PROVE TypeOK'
  <2>1. to \in RunState BY RunAssumption
  <2> DEFINE f == [x \in {r} |-> to]
  <2>2. Move({r}, f) /\ \A x \in {r} : f[x] \in RunState BY <1>1, <2>1 DEF transition
  <2> QED BY <1>1, <2>2, MoveType DEF transition, TypeOK
<1>2. ASSUME NEW c \in Caller, NEW r \in Run, SelectForUpdate(c, r) PROVE TypeOK'
  BY <1>2 DEF SelectForUpdate, TypeOK
<1>3. ASSUME NEW c \in Caller, NEW to \in Targets, CompareAndSet(c, to) PROVE TypeOK'
  <2>1. to \in RunState BY RunAssumption
  <2>2. PICK x \in call[c] : /\ Move({x[1]}, [r \in {x[1]} |-> to])
                             /\ call' = [call EXCEPT ![c] = {}]
                             /\ UNCHANGED <<process, heartbeat, tick, sweep, lateBeats, faults>>
    BY <1>3 DEF CompareAndSet
  <2>3. x[1] \in Run BY <2>2 DEF TypeOK
  <2> DEFINE f == [r \in {x[1]} |-> to]
  <2>4. Move({x[1]}, f) /\ \A r \in {x[1]} : f[r] \in RunState BY <2>1, <2>2
  <2> QED BY <2>2, <2>3, <2>4, MoveType DEF TypeOK
<1>4. ASSUME NEW c \in Caller, CallFails(c) PROVE TypeOK'
  BY <1>4 DEF CallFails, TypeOK
<1>5. CASE watchdogSweep
  <2>1. PICK R \in SUBSET Watched :
          /\ Move(R, [r \in R |-> timeoutTargetState[status[r]]])
          /\ UNCHANGED <<call, process, heartbeat, tick, sweep, lateBeats, faults>>
    BY <1>5 DEF watchdogSweep
  <2> DEFINE f == [r \in R |-> timeoutTargetState[status[r]]]
  <2>2. R \in SUBSET Run /\ \A r \in R : f[r] \in RunState BY TimeoutStates DEF Watched
  <2> QED BY <2>1, <2>2, MoveType DEF TypeOK
<1>6. ASSUME NEW r \in Run, NEW to \in RunState, Overwrite(r, to),
             completedAt' \in [Run -> BOOLEAN], recovered' = recovered
      PROVE  TypeOK'
  BY <1>6 DEF Overwrite, TypeOK
<1>7. ASSUME NEW r \in Run,
             cancelRun(r) \/ retryRun(r) \/ approveRun(r) \/ mergeRun(r) \/ reconcileActiveRun(r)
      PROVE  TypeOK'
  <2>1. {"cancelled", "retry_queued", "running", "merge_pending"} \subseteq RunState
    BY StateNames
  <2>2. [completedAt EXCEPT ![r] = TRUE] \in [Run -> BOOLEAN] /\ completedAt \in [Run -> BOOLEAN]
    BY DEF TypeOK
  <2> QED BY <1>6, <1>7, <2>1, <2>2 DEF cancelRun, retryRun, approveRun, mergeRun, reconcileActiveRun
<1>8. ASSUME NEW o \in Orchestrator, CountActive(o) PROVE TypeOK'
  <2>1. Free(o) \in Nat
    <3>1. Owned(o) \subseteq Run BY DEF Owned
    <3>2. Cardinality(Owned(o)) \in Nat
      BY <3>1, RunAssumption, FS_Subset, FS_CardinalityType
    <3> QED BY <3>2, RunAssumption DEF Free
  <2> QED BY <1>8, <2>1 DEF CountActive, TypeOK
<1>9. ASSUME NEW o \in Orchestrator, SelectUnclaimed(o) PROVE TypeOK'
  BY <1>9 DEF SelectUnclaimed, Claimable, TypeOK
<1>10. ASSUME NEW o \in Orchestrator, NEW r \in Run, ClaimRun(o, r) PROVE TypeOK'
  <2>1. "claimed" \in RunState BY StateNames
  <2> QED BY <1>10, <2>1 DEF ClaimRun, TypeOK
<1>11. ASSUME NEW o \in Orchestrator, Start(o) PROVE TypeOK'
  BY <1>11 DEF Start, Stale, TypeOK
<1>12. ASSUME NEW o \in Orchestrator, NEW p \in Orchestrator, recoverOrphanedRuns(o, p) PROVE TypeOK'
  BY <1>12 DEF recoverOrphanedRuns, Owned, TypeOK
<1>13. ASSUME NEW o \in Orchestrator, NEW x \in found[o], RecoverRun(o, x) PROVE TypeOK'
  <2>1. x \in Run \X RunState BY DEF TypeOK
  <2>2. RECOVERY_TRANSITIONS[x[2]] \in RunState BY <1>13, RecoveryStates DEF FoundInv
  <2>3. found' \in [Orchestrator -> SUBSET (Run \X RunState)] BY <1>13 DEF RecoverRun, TypeOK
  <2>4. UNCHANGED <<owner, calls, process, heartbeat, tick, victims, current, revived,
                    lateBeats, faults>>
    BY <1>13 DEF RecoverRun
  <2>5. CASE Unmoved(x[1], x[2])
    <3> DEFINE r == x[1]
               s == RECOVERY_TRANSITIONS[x[2]]
    <3>1. r \in Run BY <2>1
    <3>2. /\ status' = [status EXCEPT ![r] = s]
          /\ completedAt' = [completedAt EXCEPT ![r] = TRUE]
          /\ unversioned' = unversioned \cup {r} /\ recovered' = recovered \cup {r}
      BY <1>13, <2>5, Zenon DEF RecoverRun
    <3>3. s \in RunState BY <2>2
    <3> HIDE DEF r, s
    <3>4. /\ status' \in [Run -> RunState]
          /\ completedAt' \in [Run -> BOOLEAN]
          /\ unversioned' \subseteq Run /\ recovered' \subseteq Run
      BY <3>1, <3>2, <3>3 DEF TypeOK
    <3> QED BY <2>3, <2>4, <3>4 DEF TypeOK
  <2>6. CASE ~Unmoved(x[1], x[2])
    <3>1. UNCHANGED <<status, completedAt, unversioned, recovered>>
      BY <1>13, <2>6 DEF RecoverRun
    <3> QED BY <2>3, <2>4, <3>1 DEF TypeOK
  <2> QED BY <2>5, <2>6
<1>14. ASSUME NEW o \in Orchestrator, removeHeartbeat(o) PROVE TypeOK'
  BY <1>14 DEF removeHeartbeat, TypeOK
<1>15. ASSUME NEW o \in Orchestrator, BeginTicking(o) PROVE TypeOK'
  BY <1>15 DEF BeginTicking, TypeOK
<1>16. ASSUME NEW o \in Orchestrator, writeHeartbeat(o) PROVE TypeOK'
  BY <1>16 DEF writeHeartbeat, TypeOK
<1>17. ASSUME NEW o \in Orchestrator, HeartbeatAges(o) PROVE TypeOK'
  BY <1>17 DEF HeartbeatAges, TypeOK
<1>18. ASSUME NEW o \in Orchestrator, Stop(o) PROVE TypeOK'
  BY <1>18 DEF Stop, TypeOK
<1>19. CASE UNCHANGED vars
  BY <1>19 DEF vars, TypeOK
<1> QED
  BY <1>1, <1>2, <1>3, <1>4, <1>5, <1>7, <1>8, <1>9, <1>10, <1>11, <1>12, <1>13, <1>14,
     <1>15, <1>16, <1>17, <1>18, <1>19
  DEF Next, StateMachine, Operator, Process, Tick, Startup

-----------------------------------------------------------------------------
(* What the readers of a row may still rely on when they write it.         *)

\* A pending call has read a state that is not terminal, and while its version
\* is the row's the state is still the one it read, unless a writer that leaves
\* the version alone came between.
CallInv == \A c \in Caller : \A x \in call[c] :
  /\ x[2] \notin TERMINAL_STATES
  /\ c \in fresh /\ x[1] \notin unversioned => status[x[1]] = x[2]

RowInv == TypeOK /\ FoundInv /\ CallInv

\* A versioned write makes every pending call about its rows stale.
LEMMA MoveCalls ==
  ASSUME TypeOK, CallInv, NEW R \in SUBSET Run, NEW to, Move(R, to),
         call' \in [Caller -> SUBSET (Run \X RunState)],
         \A c \in Caller : call'[c] \subseteq call[c]
  PROVE  CallInv'
<1> SUFFICES ASSUME NEW c \in Caller, NEW x \in call'[c]
             PROVE  /\ x[2] \notin TERMINAL_STATES
                    /\ c \in fresh' /\ x[1] \notin unversioned' => status'[x[1]] = x[2]
  BY DEF CallInv
<1>1. x \in call[c] /\ x[1] \in Run BY DEF TypeOK
<1>2. ASSUME c \in fresh', x[1] \notin unversioned' PROVE status'[x[1]] = x[2]
  <2>1. c \in fresh /\ x[1] \notin R BY <1>1, <1>2 DEF Move, Reading
  <2>2. x[1] \notin unversioned /\ status'[x[1]] = status[x[1]] BY <1>1, <1>2, <2>1 DEF Move
  <2> QED BY <1>1, <2>1, <2>2 DEF CallInv
<1> QED BY <1>1, <1>2 DEF CallInv

LEMMA RowStep == ASSUME RowInv, [Next]_vars PROVE RowInv'
<1> USE DEF rows, calls, tick, sweep, histories
<1>0. TypeOK /\ FoundInv /\ CallInv /\ TypeOK' BY TypeStep DEF RowInv
<1>1. ASSUME NEW r \in Run, NEW to \in Targets, transition(r, to) PROVE FoundInv' /\ CallInv'
  <2> DEFINE f == [x \in {r} |-> to]
  <2>1. Move({r}, f) /\ call' = call /\ found' = found BY <1>1 DEF transition
  <2>2. CallInv' BY <1>0, <2>1, MoveCalls DEF TypeOK
  <2> QED BY <1>0, <2>1, <2>2 DEF FoundInv
<1>2. ASSUME NEW c \in Caller, NEW r \in Run, SelectForUpdate(c, r) PROVE FoundInv' /\ CallInv'
  <2>1. FoundInv' BY <1>0, <1>2 DEF SelectForUpdate, FoundInv
  <2>2. ASSUME NEW d \in Caller, NEW x \in call'[d]
        PROVE  /\ x[2] \notin TERMINAL_STATES
               /\ d \in fresh' /\ x[1] \notin unversioned' => status'[x[1]] = x[2]
    <3>1. CASE d = c BY <1>0, <1>2, <2>2, <3>1 DEF SelectForUpdate, TypeOK
    <3>2. CASE d # c BY <1>0, <1>2, <2>2, <3>2 DEF SelectForUpdate, TypeOK, CallInv
    <3> QED BY <3>1, <3>2
  <2> QED BY <2>1, <2>2 DEF CallInv
<1>3. ASSUME NEW c \in Caller, NEW to \in Targets, CompareAndSet(c, to)
      PROVE  FoundInv' /\ CallInv'
  <2>1. PICK x \in call[c] : /\ Move({x[1]}, [r \in {x[1]} |-> to])
                             /\ call' = [call EXCEPT ![c] = {}]
                             /\ found' = found
    BY <1>3 DEF CompareAndSet
  <2> DEFINE f == [r \in {x[1]} |-> to]
  <2>2. {x[1]} \in SUBSET Run /\ Move({x[1]}, f) BY <1>0, <2>1 DEF TypeOK
  <2>3. \A d \in Caller : call'[d] \subseteq call[d] BY <1>0, <2>1 DEF TypeOK
  <2>4. CallInv' BY <1>0, <2>2, <2>3, MoveCalls DEF TypeOK
  <2> QED BY <1>0, <2>1, <2>4 DEF FoundInv
<1>4. ASSUME NEW c \in Caller, CallFails(c) PROVE FoundInv' /\ CallInv'
  BY <1>0, <1>4 DEF CallFails, TypeOK, CallInv, FoundInv
<1>5. ASSUME watchdogSweep PROVE FoundInv' /\ CallInv'
  <2>1. PICK R \in SUBSET Watched :
          /\ Move(R, [r \in R |-> timeoutTargetState[status[r]]])
          /\ call' = call /\ found' = found
    BY <1>5 DEF watchdogSweep
  <2> DEFINE f == [r \in R |-> timeoutTargetState[status[r]]]
  <2>2. R \in SUBSET Run /\ Move(R, f) BY <2>1 DEF Watched
  <2>3. CallInv' BY <1>0, <2>1, <2>2, MoveCalls DEF TypeOK
  <2>4. found' = found BY <2>1
  <2>5. FoundInv' BY <1>0, <2>4 DEF FoundInv
  <2> QED BY <2>3, <2>5
<1>6. ASSUME NEW r \in Run,
             cancelRun(r) \/ retryRun(r) \/ approveRun(r) \/ mergeRun(r) \/ reconcileActiveRun(r)
      PROVE  FoundInv' /\ CallInv'
  <2>1. PICK to : Overwrite(r, to)
    BY <1>6 DEF cancelRun, retryRun, approveRun, mergeRun, reconcileActiveRun
  <2> QED BY <1>0, <2>1 DEF Overwrite, TypeOK, CallInv, FoundInv
<1>7. ASSUME NEW o \in Orchestrator, NEW r \in Run, ClaimRun(o, r) PROVE FoundInv' /\ CallInv'
  <2>1. FoundInv' BY <1>0, <1>7 DEF ClaimRun, FoundInv
  <2>2. CASE StillFree(r)
    <3> SUFFICES ASSUME NEW c \in Caller, NEW x \in call[c], c \in fresh', x[1] \notin unversioned'
                 PROVE  status'[x[1]] = x[2]
      BY <1>0, <1>7, <2>1 DEF ClaimRun, CallInv
    <3>1. c \in fresh /\ x[1] # r /\ x[1] \notin unversioned BY <1>7, <2>2 DEF ClaimRun, Reading
    <3> QED BY <1>0, <1>7, <2>2, <3>1 DEF ClaimRun, CallInv, TypeOK
  <2>3. CASE ~StillFree(r) BY <1>0, <1>7, <2>1, <2>3 DEF ClaimRun, CallInv
  <2> QED BY <2>1, <2>2, <2>3
<1>8. ASSUME NEW o \in Orchestrator, NEW p \in Orchestrator, recoverOrphanedRuns(o, p)
      PROVE  FoundInv' /\ CallInv'
  BY <1>0, <1>8 DEF recoverOrphanedRuns, TypeOK, FoundInv, CallInv
<1>9. ASSUME NEW o \in Orchestrator, NEW x \in found[o], RecoverRun(o, x) PROVE FoundInv' /\ CallInv'
  <2>1. FoundInv' BY <1>0, <1>9 DEF RecoverRun, TypeOK, FoundInv
  <2>2. x[1] \in Run BY <1>0 DEF TypeOK
  <2>3. CallInv' BY <1>0, <1>9, <2>2 DEF RecoverRun, TypeOK, CallInv
  <2> QED BY <2>1, <2>3
<1>10. ASSUME NEW o \in Orchestrator, BeginTicking(o) \/ Stop(o) PROVE FoundInv' /\ CallInv'
  BY <1>0, <1>10 DEF BeginTicking, Stop, TypeOK, FoundInv, CallInv
<1>11. ASSUME NEW o \in Orchestrator,
              \/ CountActive(o) \/ SelectUnclaimed(o) \/ Start(o) \/ removeHeartbeat(o)
              \/ writeHeartbeat(o) \/ HeartbeatAges(o)
       PROVE  FoundInv' /\ CallInv'
  <2>1. UNCHANGED <<status, call, fresh, unversioned, found>>
    BY <1>11 DEF CountActive, SelectUnclaimed, Start, removeHeartbeat, writeHeartbeat, HeartbeatAges
  <2>2. FoundInv' BY <1>0, <2>1 DEF FoundInv
  <2>3. CallInv' BY <1>0, <2>1 DEF CallInv
  <2> QED BY <2>2, <2>3
<1>12. ASSUME UNCHANGED vars PROVE FoundInv' /\ CallInv'
  <2>1. UNCHANGED <<status, call, fresh, unversioned, found>> BY <1>12 DEF vars
  <2>2. FoundInv' BY <1>0, <2>1 DEF FoundInv
  <2>3. CallInv' BY <1>0, <2>1 DEF CallInv
  <2> QED BY <2>2, <2>3
<1>13. FoundInv' /\ CallInv'
  BY <1>1, <1>2, <1>3, <1>4, <1>5, <1>6, <1>7, <1>8, <1>9, <1>10, <1>11, <1>12
  DEF Next, StateMachine, Operator, Process, Tick, Startup
<1> QED BY <1>0, <1>13 DEF RowInv

LEMMA RowInit == Init => RowInv
BY TypeInit DEF Init, RowInv, FoundInv, CallInv

LEMMA RowInvariant == Spec => []RowInv
BY RowInit, RowStep, PTL DEF Spec

\* The columns keep to their CHECK constraints, and every name a writer computes
\* is a state of migration 148.
THEOREM TypeCorrect == Spec => []TypeOK
<1>1. RowInv => TypeOK BY DEF RowInv
<1> QED BY <1>1, RowInvariant, PTL

-----------------------------------------------------------------------------
(* What a step may do to one row.                                          *)

\* A status changes either by a writer that has excluded the terminal states
\* and leaves the version alone, or by a versioned write, which is valid unless
\* the row was last written by the former.
LEMMA StatusStep ==
  ASSUME RowInv, [Next]_vars, NEW r \in Run, status'[r] # status[r]
  PROVE  \/ r \in unversioned' /\ status[r] \notin TERMINAL_STATES
         \/ r \notin unversioned' /\ (r \in unversioned \/ status'[r] \in VALID_TRANSITIONS[status[r]])
<1> DEFINE Goal == \/ r \in unversioned' /\ status[r] \notin TERMINAL_STATES
                   \/ /\ r \notin unversioned'
                      /\ r \in unversioned \/ status'[r] \in VALID_TRANSITIONS[status[r]]
<1> SUFFICES Goal OBVIOUS
<1> HIDE DEF Goal
<1> USE DEF rows, calls, histories
<1>0. TypeOK /\ FoundInv /\ CallInv BY DEF RowInv
<1>1. ASSUME NEW q \in Run, NEW to \in Targets, transition(q, to) PROVE Goal
  <2>1. q = r BY <1>0, <1>1 DEF transition, Move, TypeOK
  <2> QED BY <1>0, <1>1, <2>1 DEF transition, Move, TypeOK, Goal
<1>2. ASSUME NEW c \in Caller, NEW to \in Targets, CompareAndSet(c, to) PROVE Goal
  <2>1. PICK x \in call[c] : /\ c \in fresh
                             /\ to \in VALID_TRANSITIONS[x[2]]
                             /\ Move({x[1]}, [y \in {x[1]} |-> to])
    BY <1>2 DEF CompareAndSet
  <2>2. x[1] = r BY <1>0, <2>1 DEF Move, TypeOK
  <2>3. status'[r] = to /\ r \notin unversioned' BY <1>0, <2>1, <2>2 DEF Move, TypeOK
  <2>4. r \in unversioned \/ status[r] = x[2] BY <1>0, <2>1, <2>2 DEF CallInv
  <2> QED BY <2>1, <2>3, <2>4 DEF Goal
<1>3. ASSUME watchdogSweep PROVE Goal
  <2>1. PICK R \in SUBSET Watched : Move(R, [q \in R |-> timeoutTargetState[status[q]]])
    BY <1>3 DEF watchdogSweep
  <2>2. r \in R BY <1>0, <2>1 DEF Move, TypeOK
  <2>3. status'[r] = timeoutTargetState[status[r]] /\ r \notin unversioned'
    BY <1>0, <2>1, <2>2 DEF Move, TypeOK
  <2>4. status[r] \in TimedStates BY <2>2 DEF Watched
  <2> QED BY <2>3, <2>4, TimeoutStates DEF Goal
<1>4. ASSUME NEW q \in Run,
             cancelRun(q) \/ retryRun(q) \/ approveRun(q) \/ mergeRun(q) \/ reconcileActiveRun(q)
      PROVE  Goal
  <2>1. status[q] \notin TERMINAL_STATES
    BY <1>4 DEF cancelRun, retryRun, approveRun, mergeRun, reconcileActiveRun, TERMINAL_STATES
  <2>2. PICK to : Overwrite(q, to)
    BY <1>4 DEF cancelRun, retryRun, approveRun, mergeRun, reconcileActiveRun
  <2>3. q = r BY <1>0, <2>2 DEF Overwrite, TypeOK
  <2> QED BY <2>1, <2>2, <2>3 DEF Overwrite, Goal
<1>5. ASSUME NEW o \in Orchestrator, NEW q \in Run, ClaimRun(o, q) PROVE Goal
  <2>1. q = r /\ StillFree(q) BY <1>0, <1>5 DEF ClaimRun, TypeOK
  <2> QED BY <1>0, <1>5, <2>1, TerminalStates DEF ClaimRun, StillFree, TypeOK, Goal
<1>6. ASSUME NEW o \in Orchestrator, NEW x \in found[o], RecoverRun(o, x) PROVE Goal
  <2>1. x[1] = r /\ Unmoved(x[1], x[2]) BY <1>0, <1>6 DEF RecoverRun, TypeOK
  <2>2. status[r] \notin TERMINAL_STATES BY <1>0, <2>1, RecoveryStates DEF Unmoved, FoundInv
  <2> QED BY <1>6, <2>1, <2>2 DEF RecoverRun, Goal
<1>7. ASSUME \/ UNCHANGED vars
             \/ \E c \in Caller : CallFails(c) \/ \E q \in Run : SelectForUpdate(c, q)
             \/ \E o \in Orchestrator :
                  \/ CountActive(o) \/ SelectUnclaimed(o) \/ Start(o) \/ removeHeartbeat(o)
                  \/ \E p \in Orchestrator : recoverOrphanedRuns(o, p)
                  \/ BeginTicking(o) \/ writeHeartbeat(o) \/ HeartbeatAges(o) \/ Stop(o)
      PROVE  Goal
  <2>1. status' = status
    BY <1>7 DEF vars, CallFails, SelectForUpdate, CountActive, SelectUnclaimed, Start,
       removeHeartbeat, recoverOrphanedRuns, BeginTicking, writeHeartbeat, HeartbeatAges, Stop
  <2> QED BY <2>1
<1> QED
  BY <1>1, <1>2, <1>3, <1>4, <1>5, <1>6, <1>7
  DEF Next, StateMachine, Operator, Process, Tick, Startup

\* The map binds every versioned write, with or without the lock.
THEOREM ValidMoves == Spec => MovesAreValid
<1>1. RowInv /\ [Next]_vars =>
        [\A r \in Run : status'[r] # status[r] /\ r \notin unversioned \cup unversioned'
           => status'[r] \in VALID_TRANSITIONS[status[r]]]_vars
  BY StatusStep
<1> QED BY <1>1, RowInvariant, PTL DEF Spec, MovesAreValid

\* A terminal state that transition() or the watchdog wrote is never left.
THEOREM VersionedEnds == Spec => VersionedEndIsFinal
<1>1. \A s \in TERMINAL_STATES : VALID_TRANSITIONS[s] = {}
  BY DEF TERMINAL_STATES, VALID_TRANSITIONS
<1>2. RowInv /\ [Next]_vars =>
        [\A r \in Run : status[r] \in TERMINAL_STATES /\ r \notin unversioned
           => status'[r] = status[r]]_vars
  BY <1>1, StatusStep
<1> QED BY <1>2, RowInvariant, PTL DEF Spec, VersionedEndIsFinal

\* Only a tick writes orchestrator_id, and only where it is NULL.
LEMMA OwnerStep ==
  ASSUME TypeOK, [Next]_vars, NEW r \in Run, owner'[r] # owner[r]
  PROVE  \E o \in Orchestrator : ClaimRun(o, r) /\ StillFree(r)
<1> USE DEF rows
<1>1. ASSUME \/ \E q \in Run, to \in Targets : transition(q, to)
             \/ \E c \in Caller, to \in Targets : CompareAndSet(c, to)
             \/ watchdogSweep
      PROVE  owner' = owner
  BY <1>1 DEF transition, CompareAndSet, watchdogSweep, Move
<1>2. ASSUME Operator PROVE owner' = owner
  BY <1>2 DEF Operator, cancelRun, retryRun, approveRun, mergeRun, reconcileActiveRun, Overwrite
<1>3. ASSUME \/ UNCHANGED vars
             \/ \E c \in Caller : CallFails(c) \/ \E q \in Run : SelectForUpdate(c, q)
             \/ \E o \in Orchestrator :
                  \/ CountActive(o) \/ SelectUnclaimed(o) \/ Start(o) \/ removeHeartbeat(o)
                  \/ \E p \in Orchestrator : recoverOrphanedRuns(o, p)
                  \/ \E x \in found[o] : RecoverRun(o, x)
                  \/ BeginTicking(o) \/ writeHeartbeat(o) \/ HeartbeatAges(o) \/ Stop(o)
      PROVE  owner' = owner
  BY <1>3 DEF vars, CallFails, SelectForUpdate, CountActive, SelectUnclaimed, Start, RecoverRun,
     removeHeartbeat, recoverOrphanedRuns, BeginTicking, writeHeartbeat, HeartbeatAges, Stop
<1>4. PICK o \in Orchestrator, q \in Run : ClaimRun(o, q)
  BY <1>1, <1>2, <1>3 DEF Next, StateMachine, Process, Tick, Startup
<1>5. q = r /\ StillFree(q) BY <1>4 DEF ClaimRun, TypeOK
<1> QED BY <1>4, <1>5

\* A run has one orchestrator in its life.
THEOREM OneOwner == Spec => ClaimIsFinal
<1>1. TypeOK /\ [Next]_vars =>
        [\A r \in Run : owner[r] # NoOwner => owner'[r] = owner[r]]_vars
  BY OwnerStep DEF StillFree
<1> QED BY <1>1, TypeCorrect, PTL DEF Spec, ClaimIsFinal

-----------------------------------------------------------------------------
(* The runs that the watchdog overlooks.                                   *)

\* completed_at is set only at the end of a run, by a recovery sweep, or on a
\* run that came back from its end.
ClosedInv == \A r \in Run :
  completedAt[r] => status[r] \in TERMINAL_STATES \/ r \in recovered \cup revived

LEMMA MoveClosed ==
  ASSUME TypeOK, ClosedInv, NEW R \in SUBSET Run, NEW to, Move(R, to)
  PROVE  ClosedInv'
<1> SUFFICES ASSUME NEW r \in Run, completedAt'[r]
             PROVE  status'[r] \in TERMINAL_STATES \/ r \in recovered' \cup revived'
  BY DEF ClosedInv
<1>1. CASE r \in R BY <1>1 DEF Move, TypeOK, ClosedInv
<1>2. CASE r \notin R BY <1>2 DEF Move, TypeOK, ClosedInv
<1> QED BY <1>1, <1>2

LEMMA ClosedStep == ASSUME RowInv, ClosedInv, [Next]_vars PROVE ClosedInv'
<1> USE DEF rows, calls, histories
<1>0. TypeOK /\ FoundInv BY DEF RowInv
<1>1. ASSUME NEW q \in Run, NEW to \in Targets, transition(q, to) PROVE ClosedInv'
  <2>1. Move({q}, [x \in {q} |-> to]) BY <1>1 DEF transition
  <2> QED BY <1>0, <2>1, MoveClosed
<1>2. ASSUME NEW c \in Caller, NEW to \in Targets, CompareAndSet(c, to) PROVE ClosedInv'
  <2>1. PICK x \in call[c] : Move({x[1]}, [y \in {x[1]} |-> to])
    BY <1>2 DEF CompareAndSet
  <2>2. {x[1]} \in SUBSET Run BY <1>0, <2>1 DEF TypeOK
  <2> QED BY <1>0, <2>1, <2>2, MoveClosed
<1>3. ASSUME watchdogSweep PROVE ClosedInv'
  <2>1. PICK R \in SUBSET Watched : Move(R, [q \in R |-> timeoutTargetState[status[q]]])
    BY <1>3 DEF watchdogSweep
  <2>2. R \in SUBSET Run BY DEF Watched
  <2> QED BY <1>0, <2>1, <2>2, MoveClosed
<1>4. ASSUME NEW q \in Run, cancelRun(q) \/ reconcileActiveRun(q) PROVE ClosedInv'
  <2>1. "cancelled" \in TERMINAL_STATES BY DEF TERMINAL_STATES
  <2> QED BY <1>0, <1>4, <2>1 DEF cancelRun, reconcileActiveRun, Overwrite, TypeOK, ClosedInv
<1>5. ASSUME NEW q \in Run, retryRun(q) \/ approveRun(q) \/ mergeRun(q) PROVE ClosedInv'
  <2>1. status[q] \notin TERMINAL_STATES
    BY <1>5 DEF retryRun, approveRun, mergeRun, TERMINAL_STATES
  <2> QED BY <1>0, <1>5, <2>1 DEF retryRun, approveRun, mergeRun, Overwrite, TypeOK, ClosedInv
<1>6. ASSUME NEW o \in Orchestrator, NEW q \in Run, ClaimRun(o, q) PROVE ClosedInv'
  BY <1>0, <1>6, TerminalStates DEF ClaimRun, StillFree, TypeOK, ClosedInv
<1>7. ASSUME NEW o \in Orchestrator, NEW x \in found[o], RecoverRun(o, x) PROVE ClosedInv'
  <2>1. x[1] \in Run BY <1>0 DEF TypeOK
  <2> QED BY <1>0, <1>7, <2>1 DEF RecoverRun, TypeOK, ClosedInv
<1>8. ASSUME \/ UNCHANGED vars
             \/ \E c \in Caller : CallFails(c) \/ \E q \in Run : SelectForUpdate(c, q)
             \/ \E o \in Orchestrator :
                  \/ CountActive(o) \/ SelectUnclaimed(o) \/ Start(o) \/ removeHeartbeat(o)
                  \/ \E p \in Orchestrator : recoverOrphanedRuns(o, p)
                  \/ BeginTicking(o) \/ writeHeartbeat(o) \/ HeartbeatAges(o) \/ Stop(o)
      PROVE  ClosedInv'
  <2>1. UNCHANGED <<rows, histories>>
    BY <1>8 DEF vars, CallFails, SelectForUpdate, CountActive, SelectUnclaimed, Start,
       removeHeartbeat, recoverOrphanedRuns, BeginTicking, writeHeartbeat, HeartbeatAges, Stop
  <2> QED BY <2>1 DEF ClosedInv
<1> QED
  BY <1>1, <1>2, <1>3, <1>4, <1>5, <1>6, <1>7, <1>8
  DEF Next, StateMachine, Operator, Process, Tick, Startup

\* The watchdog misses no timed run but those that recovery closed or that came
\* back from a terminal state.
THEOREM OverlookedRuns == Spec => []OverlookedWasClosed
<1>1. Init => ClosedInv BY DEF Init, ClosedInv
<1>2. RowInv /\ ClosedInv /\ [Next]_vars => ClosedInv' BY ClosedStep
<1>3. ClosedInv => OverlookedWasClosed
  BY TerminalStates DEF ClosedInv, OverlookedWasClosed
<1> QED BY <1>1, <1>2, <1>3, RowInvariant, PTL DEF Spec

-----------------------------------------------------------------------------
(* The sweep and the living.                                               *)

\* While no beat of a running orchestrator was late, a late heartbeat is that
\* of a dead one, and a sweep follows dead ones down to the runs it writes.
SweepInv ==
  /\ \A o \in Orchestrator : heartbeat[o] # "none" => process[o] \in {"up", "gone"}
  /\ lateBeats = 0 =>
       /\ \A o \in Orchestrator : heartbeat[o] = "late" => process[o] = "gone"
       /\ \A o \in Orchestrator : \A p \in victims[o] \cup current[o] : process[p] = "gone"
       /\ \A o \in Orchestrator : \A x \in found[o] :
            owner[x[1]] \in Orchestrator /\ process[owner[x[1]]] = "gone"
       /\ \A r \in recovered : owner[r] \in Orchestrator /\ process[owner[r]] = "gone"

LEMMA SweepStep == ASSUME TypeOK, SweepInv, [Next]_vars PROVE SweepInv'
<1> USE DEF rows, calls, tick, sweep, histories
<1>1. ASSUME \/ \E q \in Run, to \in Targets : transition(q, to)
             \/ \E c \in Caller, to \in Targets : CompareAndSet(c, to)
             \/ watchdogSweep
             \/ \E c \in Caller : CallFails(c) \/ \E q \in Run : SelectForUpdate(c, q)
             \/ Operator
             \/ \E o \in Orchestrator : CountActive(o) \/ SelectUnclaimed(o)
             \/ UNCHANGED vars
      PROVE  SweepInv'
  <2>1. UNCHANGED <<owner, process, heartbeat, victims, current, found, recovered, lateBeats>>
    BY <1>1 DEF transition, CompareAndSet, watchdogSweep, Move, CallFails, SelectForUpdate,
       Operator, cancelRun, retryRun, approveRun, mergeRun, reconcileActiveRun, Overwrite,
       CountActive, SelectUnclaimed, vars
  <2> QED BY <2>1 DEF SweepInv
<1>2. ASSUME NEW o \in Orchestrator, NEW q \in Run, ClaimRun(o, q) PROVE SweepInv'
  <2>1. UNCHANGED <<process, heartbeat, victims, current, found, recovered, lateBeats>>
    BY <1>2 DEF ClaimRun
  <2>2. \A r \in Run : owner[r] \in Orchestrator => owner'[r] = owner[r]
    BY <1>2, RunAssumption DEF ClaimRun, StillFree, TypeOK
  <2> QED BY <2>1, <2>2 DEF SweepInv, TypeOK
<1>3. ASSUME NEW o \in Orchestrator, Start(o) PROVE SweepInv'
  BY <1>3 DEF Start, Stale, TypeOK, SweepInv
<1>4. ASSUME NEW o \in Orchestrator, NEW p \in Orchestrator, recoverOrphanedRuns(o, p) PROVE SweepInv'
  <2>1. UNCHANGED <<owner, process, heartbeat, recovered, lateBeats>>
    BY <1>4 DEF recoverOrphanedRuns
  <2>2. \A i \in Orchestrator : victims'[i] \cup current'[i] \subseteq victims[i] \cup current[i]
    BY <1>4 DEF recoverOrphanedRuns, TypeOK
  <2>3. \A i \in Orchestrator : \A x \in found'[i] : x \in found[i] \/ owner[x[1]] = p
    BY <1>4 DEF recoverOrphanedRuns, Owned, TypeOK
  <2>4. lateBeats = 0 => process[p] = "gone"
    BY <1>4 DEF recoverOrphanedRuns, SweepInv
  <2> QED BY <2>1, <2>2, <2>3, <2>4 DEF SweepInv
<1>5. ASSUME NEW o \in Orchestrator, NEW x \in found[o], RecoverRun(o, x) PROVE SweepInv'
  <2>1. UNCHANGED <<owner, process, heartbeat, victims, current, lateBeats>>
    BY <1>5 DEF RecoverRun
  <2>2. \A i \in Orchestrator : found'[i] \subseteq found[i] BY <1>5 DEF RecoverRun, TypeOK
  <2>3. recovered' \subseteq recovered \cup {x[1]} BY <1>5 DEF RecoverRun
  <2> QED BY <2>1, <2>2, <2>3 DEF SweepInv
<1>6. ASSUME NEW o \in Orchestrator, removeHeartbeat(o) PROVE SweepInv'
  BY <1>6 DEF removeHeartbeat, TypeOK, SweepInv
<1>7. ASSUME NEW o \in Orchestrator, BeginTicking(o) PROVE SweepInv'
  BY <1>7 DEF BeginTicking, TypeOK, SweepInv
<1>8. ASSUME NEW o \in Orchestrator, writeHeartbeat(o) PROVE SweepInv'
  BY <1>8 DEF writeHeartbeat, TypeOK, SweepInv
<1>9. ASSUME NEW o \in Orchestrator, HeartbeatAges(o) PROVE SweepInv'
  <2>1. CASE process[o] = "up"
    <3>1. lateBeats' # 0 BY <1>9, <2>1 DEF HeartbeatAges, TypeOK
    <3> QED BY <1>9, <3>1 DEF HeartbeatAges, TypeOK, SweepInv
  <2>2. CASE process[o] # "up"
    BY <1>9, <2>2 DEF HeartbeatAges, TypeOK, SweepInv
  <2> QED BY <2>1, <2>2
<1>10. ASSUME NEW o \in Orchestrator, Stop(o) PROVE SweepInv'
  BY <1>10 DEF Stop, TypeOK, SweepInv
<1> QED
  BY <1>1, <1>2, <1>3, <1>4, <1>5, <1>6, <1>7, <1>8, <1>9, <1>10
  DEF Next, StateMachine, Process, Tick, Startup

\* A sweep takes runs only from orchestrators that have stopped, as long as
\* those that run beat in time.
THEOREM LivingAreSpared == Spec => []SweepSparesTheLiving
<1>1. Init => SweepInv BY DEF Init, SweepInv
<1>2. TypeOK /\ SweepInv /\ [Next]_vars => SweepInv' BY SweepStep
<1>3. SweepInv => SweepSparesTheLiving BY DEF SweepInv, SweepSparesTheLiving
<1> QED BY <1>1, <1>2, <1>3, TypeCorrect, PTL DEF Spec

-----------------------------------------------------------------------------
(* Capacity.                                                               *)

\* The runs that count against an orchestrator and have never left a terminal
\* state: nothing but a claim adds to them.
Held(o) == Owned(o) \ revived

\* What a tick has counted, listed and claimed never exceeds the limit.
CapInv == \A o \in Orchestrator :
  Cardinality(Held(o)) + slots[o] + Cardinality(batch[o]) <= MaxConcurrent

LEMMA Cardinalities ==
  ASSUME TypeOK
  PROVE  \A o \in Orchestrator :
           /\ IsFiniteSet(Owned(o)) /\ IsFiniteSet(Held(o)) /\ IsFiniteSet(batch[o])
           /\ Cardinality(Owned(o)) \in Nat
           /\ Cardinality(Held(o)) \in Nat
           /\ Cardinality(batch[o]) \in Nat
           /\ Cardinality(Held(o)) <= Cardinality(Owned(o))
<1> TAKE o \in Orchestrator
<1>1. Owned(o) \subseteq Run /\ Held(o) \subseteq Owned(o) /\ batch[o] \subseteq Run
  BY DEF Owned, Held, TypeOK
<1>2. IsFiniteSet(Owned(o)) /\ IsFiniteSet(batch[o]) BY <1>1, RunAssumption, FS_Subset
<1>3. IsFiniteSet(Held(o)) /\ Cardinality(Held(o)) <= Cardinality(Owned(o))
  BY <1>1, <1>2, FS_Subset
<1> QED BY <1>2, <1>3, FS_CardinalityType

\* A run that is held after a step, and by the same orchestrator before, was
\* held before it.
LEMMA HeldStep ==
  ASSUME RowInv, TypeOK', [Next]_vars, NEW o \in Orchestrator,
         NEW r \in Held(o)', owner[r] = o
  PROVE  r \in Held(o)
<1>1. r \in Run /\ status'[r] \notin TERMINAL_STATES /\ r \notin revived' BY DEF Held, Owned
<1>2. ASSUME status[r] \in TERMINAL_STATES \/ r \in revived PROVE r \in revived'
  <2> USE DEF rows, calls, histories
  <2>0. TypeOK /\ FoundInv BY DEF RowInv
  <2>1. ASSUME NEW R, NEW to, Move(R, to) PROVE r \in revived'
    <3>1. CASE r \in revived BY <2>1, <3>1 DEF Move
    <3>2. CASE status[r] \in TERMINAL_STATES /\ r \in R BY <2>1, <3>2 DEF Move
    <3>3. CASE status[r] \in TERMINAL_STATES /\ r \notin R
      BY <1>1, <2>1, <3>3 DEF Move
    <3> QED BY <1>2, <3>1, <3>2, <3>3
  <2>2. ASSUME NEW q \in Run, NEW to \in Targets, transition(q, to) PROVE r \in revived'
    BY <2>1, <2>2 DEF transition
  <2>3. ASSUME NEW c \in Caller, NEW to \in Targets, CompareAndSet(c, to) PROVE r \in revived'
    BY <2>1, <2>3 DEF CompareAndSet
  <2>4. ASSUME watchdogSweep PROVE r \in revived'
    BY <2>1, <2>4 DEF watchdogSweep
  <2>5. ASSUME revived' = revived, status[r] \in TERMINAL_STATES => status'[r] = status[r]
        PROVE  r \in revived'
    BY <1>1, <1>2, <2>5
  <2>6. ASSUME NEW q \in Run,
               cancelRun(q) \/ retryRun(q) \/ approveRun(q) \/ mergeRun(q) \/ reconcileActiveRun(q)
        PROVE  r \in revived'
    <3>1. status[q] \notin TERMINAL_STATES
      BY <2>6 DEF cancelRun, retryRun, approveRun, mergeRun, reconcileActiveRun, TERMINAL_STATES
    <3>2. PICK to : Overwrite(q, to)
      BY <2>6 DEF cancelRun, retryRun, approveRun, mergeRun, reconcileActiveRun
    <3> QED BY <1>1, <2>0, <2>5, <3>1, <3>2 DEF Overwrite, TypeOK
  <2>7. ASSUME NEW i \in Orchestrator, NEW q \in Run, ClaimRun(i, q) PROVE r \in revived'
    BY <1>1, <2>0, <2>5, <2>7, TerminalStates DEF ClaimRun, StillFree, TypeOK
  <2>8. ASSUME NEW i \in Orchestrator, NEW x \in found[i], RecoverRun(i, x) PROVE r \in revived'
    <3>1. x[1] \in Run /\ x[2] \notin TERMINAL_STATES
      BY <2>0, RecoveryStates DEF TypeOK, FoundInv
    <3> QED BY <1>1, <2>0, <2>5, <2>8, <3>1 DEF RecoverRun, Unmoved, TypeOK
  <2>9. ASSUME \/ UNCHANGED vars
               \/ \E c \in Caller : CallFails(c) \/ \E q \in Run : SelectForUpdate(c, q)
               \/ \E i \in Orchestrator :
                    \/ CountActive(i) \/ SelectUnclaimed(i) \/ Start(i) \/ removeHeartbeat(i)
                    \/ \E p \in Orchestrator : recoverOrphanedRuns(i, p)
                    \/ BeginTicking(i) \/ writeHeartbeat(i) \/ HeartbeatAges(i) \/ Stop(i)
        PROVE  r \in revived'
    <3>1. UNCHANGED <<status, revived>>
      BY <2>9 DEF vars, CallFails, SelectForUpdate, CountActive, SelectUnclaimed, Start,
         removeHeartbeat, recoverOrphanedRuns, BeginTicking, writeHeartbeat, HeartbeatAges, Stop
    <3> QED BY <2>5, <3>1
  <2> QED
    BY <2>2, <2>3, <2>4, <2>6, <2>7, <2>8, <2>9
    DEF Next, StateMachine, Operator, Process, Tick, Startup
<1> QED BY <1>1, <1>2 DEF Held, Owned

LEMMA CapStep == ASSUME RowInv, RowInv', CapInv, [Next]_vars PROVE CapInv'
<1> USE DEF rows, tick, histories
<1>0. TypeOK /\ TypeOK' BY DEF RowInv
<1> SUFFICES ASSUME NEW o \in Orchestrator
             PROVE  Cardinality(Held(o)') + slots'[o] + Cardinality(batch'[o]) <= MaxConcurrent
  BY DEF CapInv
<1> DEFINE held == Cardinality(Held(o))
           heldNext == Cardinality(Held(o)')
<1>1. /\ held \in Nat /\ heldNext \in Nat /\ MaxConcurrent \in Nat
      /\ slots[o] \in Nat /\ slots'[o] \in Nat
      /\ Cardinality(batch[o]) \in Nat /\ Cardinality(batch'[o]) \in Nat
      /\ IsFiniteSet(Held(o)) /\ IsFiniteSet(batch[o])
  <2>1. held \in Nat /\ Cardinality(batch[o]) \in Nat /\ IsFiniteSet(Held(o)) /\ IsFiniteSet(batch[o])
    BY <1>0, Cardinalities
  <2>2. Held(o)' \subseteq Run /\ batch'[o] \subseteq Run
    BY <1>0 DEF Held, Owned, TypeOK
  <2>3. heldNext \in Nat /\ Cardinality(batch'[o]) \in Nat
    BY <2>2, RunAssumption, FS_Subset, FS_CardinalityType
  <2> QED BY <1>0, <2>1, <2>3, RunAssumption DEF TypeOK
<1>2. held + slots[o] + Cardinality(batch[o]) <= MaxConcurrent BY DEF CapInv
\* As long as nothing is claimed the held runs only become fewer.
<1>3. ASSUME owner' = owner PROVE heldNext <= held
  <2>1. Held(o)' \subseteq Held(o)
    <3> SUFFICES ASSUME NEW r \in Held(o)' PROVE r \in Held(o) OBVIOUS
    <3>1. owner[r] = o BY <1>3 DEF Held, Owned
    <3> QED BY <1>0, <3>1, HeldStep
  <2> QED BY <1>1, <2>1, FS_Subset
<1> DEFINE Goal == heldNext + slots'[o] + Cardinality(batch'[o]) <= MaxConcurrent
<1> HIDE DEF held, heldNext
<1>4. ASSUME owner' = owner, slots'[o] = slots[o], batch'[o] = batch[o] PROVE Goal
  BY <1>1, <1>2, <1>3, <1>4 DEF Goal
<1>5. ASSUME \/ \E r \in Run, to \in Targets : transition(r, to)
             \/ \E c \in Caller, to \in Targets : CompareAndSet(c, to)
             \/ watchdogSweep
             \/ \E c \in Caller : CallFails(c) \/ \E r \in Run : SelectForUpdate(c, r)
             \/ Operator
             \/ \E i \in Orchestrator :
                  \/ Startup(i) \/ writeHeartbeat(i) \/ HeartbeatAges(i)
             \/ UNCHANGED vars
      PROVE  Goal
  <2>1. UNCHANGED <<owner, slots, batch>>
    BY <1>5 DEF transition, CompareAndSet, watchdogSweep, Move, CallFails, SelectForUpdate,
       Operator, cancelRun, retryRun, approveRun, mergeRun, reconcileActiveRun, Overwrite,
       Startup, Start, recoverOrphanedRuns, RecoverRun, removeHeartbeat, BeginTicking,
       writeHeartbeat, HeartbeatAges, vars
  <2> QED BY <1>4, <2>1
<1>6. ASSUME NEW i \in Orchestrator, i # o,
             CountActive(i) \/ SelectUnclaimed(i) \/ Stop(i)
      PROVE  Goal
  <2>1. owner' = owner /\ slots'[o] = slots[o] /\ batch'[o] = batch[o]
    BY <1>0, <1>6 DEF CountActive, SelectUnclaimed, Stop, TypeOK
  <2> QED BY <1>4, <2>1
<1>7. ASSUME CountActive(o) PROVE Goal
  <2>1. owner' = owner /\ batch'[o] = batch[o] /\ batch[o] = {} BY <1>7 DEF CountActive
  <2>2. slots'[o] = Free(o) /\ Free(o) > 0 BY <1>0, <1>7 DEF CountActive, TypeOK
  <2>3. Cardinality(Owned(o)) \in Nat /\ held <= Cardinality(Owned(o))
    BY <1>0, Cardinalities DEF held
  <2>4. slots'[o] = MaxConcurrent - Cardinality(Owned(o)) BY <1>1, <2>2, <2>3 DEF Free
  <2>5. Cardinality(batch'[o]) = 0 BY <2>1, FS_EmptySet
  <2> QED BY <1>1, <1>3, <2>1, <2>3, <2>4, <2>5 DEF Goal
<1>8. ASSUME SelectUnclaimed(o) PROVE Goal
  <2>1. PICK B \in SUBSET Claimable : Cardinality(B) <= slots[o] /\ batch' = [batch EXCEPT ![o] = B]
    BY <1>8 DEF SelectUnclaimed
  <2>2. owner' = owner /\ slots'[o] = 0 BY <1>0, <1>8 DEF SelectUnclaimed, TypeOK
  <2>3. batch'[o] = B BY <1>0, <2>1 DEF TypeOK
  <2> QED BY <1>1, <1>2, <1>3, <2>1, <2>2, <2>3 DEF Goal
<1>9. ASSUME Stop(o) PROVE Goal
  <2>1. owner' = owner /\ slots'[o] = 0 /\ batch'[o] = {} BY <1>0, <1>9 DEF Stop, TypeOK
  <2>2. Cardinality(batch'[o]) = 0 BY <2>1, FS_EmptySet
  <2> QED BY <1>1, <1>2, <1>3, <2>1, <2>2 DEF Goal
<1>10. ASSUME NEW i \in Orchestrator, NEW r \in Run, ClaimRun(i, r) PROVE Goal
  <2>1. slots'[o] = slots[o] BY <1>10 DEF ClaimRun
  \* The held runs of o grow by r at most, and only if o is the one that claims.
  <2>2. Held(o)' \subseteq Held(o) \cup {r} /\ (i # o => Held(o)' \subseteq Held(o))
    <3> SUFFICES ASSUME NEW q \in Held(o)', q \notin Held(o) PROVE q = r /\ i = o OBVIOUS
    <3>1. owner'[q] = o /\ q \in Run BY DEF Held, Owned
    <3>2. owner[q] # o BY <1>0, HeldStep
    <3> QED BY <1>0, <1>10, <3>1, <3>2 DEF ClaimRun, TypeOK
  <2>3. CASE i # o
    <3>1. heldNext <= held BY <1>1, <2>2, <2>3, FS_Subset DEF held, heldNext
    <3>2. batch'[o] = batch[o] BY <1>0, <1>10, <2>3 DEF ClaimRun, TypeOK
    <3> QED BY <1>1, <1>2, <2>1, <3>1, <3>2 DEF Goal
  <2>4. CASE i = o
    <3>1. batch'[o] = batch[o] \ {r} /\ r \in batch[o]
      BY <1>0, <1>10, <2>4 DEF ClaimRun, TypeOK
    <3>2. Cardinality(batch'[o]) = Cardinality(batch[o]) - 1
      <4>1. IsFiniteSet(batch[o]) BY <1>1
      <4>2. Cardinality(batch[o] \ {r}) = Cardinality(batch[o]) - 1
        BY <3>1, <4>1, FS_RemoveElement, Zenon
      <4> QED BY <3>1, <4>2
    <3>3. heldNext <= held + 1
      <4>1. IsFiniteSet(Held(o) \cup {r}) /\ Cardinality(Held(o) \cup {r}) <= held + 1
        <5>1. IsFiniteSet(Held(o) \cup {r}) BY <1>1, FS_AddElement
        <5>2. Cardinality(Held(o) \cup {r}) = held \/ Cardinality(Held(o) \cup {r}) = held + 1
          BY <1>1, FS_AddElement, Zenon DEF held
        <5> QED BY <1>1, <5>1, <5>2
      <4>2. Cardinality(Held(o) \cup {r}) \in Nat BY <4>1, FS_CardinalityType
      <4>3. heldNext <= Cardinality(Held(o) \cup {r}) BY <2>2, <4>1, FS_Subset DEF heldNext
      <4> QED BY <1>1, <4>1, <4>2, <4>3
    <3> QED BY <1>1, <1>2, <2>1, <3>2, <3>3 DEF Goal
  <2> QED BY <2>3, <2>4
<1>11. Goal
  BY <1>5, <1>6, <1>7, <1>8, <1>9, <1>10 DEF Next, StateMachine, Process, Tick
<1> QED BY <1>11 DEF Goal, heldNext

LEMMA CapInit == Init => CapInv
<1> SUFFICES ASSUME Init, NEW o \in Orchestrator
             PROVE  Cardinality(Held(o)) + slots[o] + Cardinality(batch[o]) <= MaxConcurrent
  BY DEF CapInv
<1>1. Held(o) = {} /\ batch[o] = {} /\ slots[o] = 0
  BY RunAssumption DEF Init, Held, Owned
<1> QED BY <1>1, FS_EmptySet, RunAssumption

\* maxConcurrentRuns holds between all the statements of a tick and whatever
\* other writers do meanwhile.
THEOREM CapacityHolds == Spec => []CapacityRespected
<1>1. RowInv /\ RowInv' /\ CapInv /\ [Next]_vars => CapInv' BY CapStep
<1>2. TypeOK /\ CapInv => CapacityRespected
  <2> SUFFICES ASSUME TypeOK, CapInv, NEW o \in Orchestrator
               PROVE  Cardinality(Owned(o) \ revived) <= MaxConcurrent
    BY DEF CapacityRespected
  <2>1. /\ Cardinality(Held(o)) \in Nat /\ Cardinality(batch[o]) \in Nat
        /\ slots[o] \in Nat /\ MaxConcurrent \in Nat
    BY Cardinalities, RunAssumption DEF TypeOK
  <2> DEFINE h == Cardinality(Held(o))
  <2>2. h + slots[o] + Cardinality(batch[o]) <= MaxConcurrent BY DEF CapInv
  <2> HIDE DEF h
  <2>3. h <= MaxConcurrent BY <2>1, <2>2 DEF h
  <2> QED BY <2>3 DEF h, Held
<1> QED BY <1>1, <1>2, CapInit, RowInvariant, TypeCorrect, PTL DEF Spec
=============================================================================
