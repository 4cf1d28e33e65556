------------------------------- MODULE JobQueue -------------------------------
(***************************************************************************)
(* The internal_job table and processJobs (src/api/jobs/processor.ts) over *)
(* internal_job_claim, internal_job_complete and internal_job_fail         *)
(* (migrations/011 and 063).                                               *)
(*                                                                         *)
(* One SQL statement claims a batch and stamps all of it with the same     *)
(* locked_at; the worker then runs the handlers one after the other.  What *)
(* a handler does is left to the modules that extend this one: here it     *)
(* succeeds or fails.                                                      *)
(***************************************************************************)
EXTENDS Naturals, FiniteSets

CONSTANTS
  Job,           \* rows of internal_job
  UnknownKind,   \* jobs whose kind getJobHandler does not know
  Worker,        \* callers of processJobs
  MaxAttempts,   \* attempt cap of internal_job_claim, 5 in the code
  BatchLimit,    \* JOB_BATCH_SIZE
  MaxOverruns,   \* bound: locks that time out while their batch still runs
  MaxFaults,     \* bound: crashed workers and failed completeJob queries
  NoOwner,       \* locked_by IS NULL
  GoneOwner      \* locked_by is the id of a batch that no longer runs

ASSUME JobsAssumption == UnknownKind \subseteq Job
ASSUME WorkersAssumption == IsFiniteSet(Worker)
ASSUME JobBoundsAssumption ==
  /\ MaxAttempts \in Nat \ {0}
  /\ BatchLimit \in Nat \ {0}
  /\ MaxOverruns \in Nat
  /\ MaxFaults \in Nat
ASSUME JobOwnerAssumption ==
  /\ NoOwner \notin Worker
  /\ GoneOwner \notin Worker
  /\ NoOwner # GoneOwner

VARIABLES
  row,       \* row[j]: "absent", "pending" or "completed" (completed_at set)
  attempts,  \* attempts[j]: the column
  due,       \* due[j]: run_at <= now()
  lockedBy,  \* lockedBy[j]: the column
  stale,     \* stale[j]: locked_at < now() - interval '5 minutes'
  queue,     \* queue[w]: jobs of the worker's batch whose turn has not come
  running,   \* running[w]: {j} while j has its turn, else {}
  outcome,   \* outcome[w]: what the handler of the running job returned
  starts,    \* history: how often a job's handler was started
  succeeded, \* history: jobs whose handler has returned { success: true }
  overruns,  \* overruns so far
  faults     \* faults so far

table   == <<row, attempts, due, lockedBy, stale>>
workers == <<queue, running, outcome>>
history == <<starts, succeeded>>
jobVars == <<table, workers, history, overruns, faults>>

JobInit ==
  /\ row = [j \in Job |-> "absent"]
  /\ attempts = [j \in Job |-> 0]
  /\ due = [j \in Job |-> FALSE]
  /\ lockedBy = [j \in Job |-> NoOwner]
  /\ stale = [j \in Job |-> FALSE]
  /\ queue = [w \in Worker |-> {}]
  /\ running = [w \in Worker |-> {}]
  /\ outcome = [w \in Worker |-> "none"]
  /\ starts = [j \in Job |-> 0]
  /\ succeeded = {}
  /\ overruns = 0
  /\ faults = 0

-----------------------------------------------------------------------------
\* ON CONFLICT (kind, idempotency_key) DO NOTHING: only the first insert of a
\* job is a step.
internal_job_enqueue(j) ==
  /\ row[j] = "absent"
  /\ row' = [row EXCEPT ![j] = "pending"]
  /\ \E now \in BOOLEAN : due' = [due EXCEPT ![j] = now]
  /\ UNCHANGED <<attempts, lockedBy, stale, workers, history, overruns, faults>>

RunAtPasses(j) ==
  /\ row[j] = "pending"
  /\ ~due[j]
  /\ due' = [due EXCEPT ![j] = TRUE]
  /\ UNCHANGED <<row, attempts, lockedBy, stale, workers, history, overruns, faults>>

\* The lock of a job ages from the moment its batch was claimed, also while
\* the job waits for its turn.
LockAges(j) ==
  /\ lockedBy[j] # NoOwner
  /\ ~stale[j]
  /\ IF lockedBy[j] \in Worker
     THEN overruns < MaxOverruns /\ overruns' = overruns + 1
     ELSE UNCHANGED overruns
  /\ stale' = [stale EXCEPT ![j] = TRUE]
  /\ UNCHANGED <<row, attempts, due, lockedBy, workers, history, faults>>

-----------------------------------------------------------------------------
\* Mutant of LockFree: a lock never times out.
BugLockForever(j) == lockedBy[j] = NoOwner

LockFree(j) == lockedBy[j] = NoOwner \/ stale[j]

\* Mutant of Due: locked jobs are claimed too.
BugDueLocked == {j \in Job : row[j] = "pending" /\ due[j] /\ attempts[j] < MaxAttempts}

Due == {j \in Job : row[j] = "pending" /\ due[j] /\ attempts[j] < MaxAttempts /\ LockFree(j)}

\* FOR UPDATE SKIP LOCKED and the UPDATE are one statement.
claimJobs(w) ==
  /\ queue[w] = {} /\ running[w] = {}
  /\ \E b \in SUBSET Due :
       /\ b # {}
       /\ Cardinality(b) <= BatchLimit
       /\ b = Due \/ Cardinality(b) = BatchLimit
       /\ queue' = [queue EXCEPT ![w] = b]
       /\ lockedBy' = [j \in Job |-> IF j \in b THEN w ELSE lockedBy[j]]
       /\ stale' = [j \in Job |-> IF j \in b THEN FALSE ELSE stale[j]]
  /\ UNCHANGED <<row, attempts, due, running, outcome, history, overruns, faults>>

\* A job of unknown kind has no handler and is completed at once: there is
\* nothing to do for it, so it counts as done.
StartJob(w, j) ==
  /\ running[w] = {}
  /\ j \in queue[w]
  /\ queue' = [queue EXCEPT ![w] = @ \ {j}]
  /\ running' = [running EXCEPT ![w] = {j}]
  /\ IF j \in UnknownKind
     THEN /\ outcome' = [outcome EXCEPT ![w] = "success"]
          /\ succeeded' = succeeded \cup {j}
          /\ UNCHANGED starts
     ELSE /\ starts' = [starts EXCEPT ![j] = @ + 1]
          /\ UNCHANGED <<outcome, succeeded>>
  /\ UNCHANGED <<table, overruns, faults>>

\* The handler returns { success }, returns an error or throws.
HandlerReturns(w, result) ==
  /\ running[w] # {} /\ outcome[w] = "none"
  /\ outcome' = [outcome EXCEPT ![w] = result]
  /\ succeeded' = IF result = "success" THEN succeeded \cup running[w] ELSE succeeded
  /\ UNCHANGED <<table, queue, running, starts, overruns, faults>>

-----------------------------------------------------------------------------
\* ... WHERE id = p_id AND locked_by = p_worker.
Owns(w, j) == lockedBy[j] = w

NextInBatch(w) ==
  /\ running' = [running EXCEPT ![w] = {}]
  /\ outcome' = [outcome EXCEPT ![w] = "none"]
  /\ UNCHANGED <<queue, history, overruns, faults>>

\* Mutant of Unlock: the lock columns are left alone.
BugKeepLock(j) == UNCHANGED <<lockedBy, stale>>

Unlock(j) ==
  /\ lockedBy' = [lockedBy EXCEPT ![j] = NoOwner]
  /\ stale' = [stale EXCEPT ![j] = FALSE]

internal_job_complete(w, j) ==
  IF Owns(w, j)
  THEN /\ row' = [row EXCEPT ![j] = "completed"]
       /\ Unlock(j)
       /\ UNCHANGED <<attempts, due>>
  ELSE UNCHANGED table

\* Mutant of completeJob: whatever the handler returned, the job is done.
BugCompleteAnyOutcome(w, j) ==
  /\ running[w] = {j} /\ outcome[w] # "none"
  /\ internal_job_complete(w, j)
  /\ NextInBatch(w)

completeJob(w, j) ==
  /\ running[w] = {j} /\ outcome[w] = "success"
  /\ internal_job_complete(w, j)
  /\ NextInBatch(w)

\* completeJob is called inside the try block: when its query throws, before
\* or after the commit, the catch block fails a job whose handler succeeded.
CompleteJobThrows(w, j) ==
  /\ faults < MaxFaults
  /\ running[w] = {j} /\ outcome[w] = "success" /\ j \notin UnknownKind
  /\ internal_job_complete(w, j) \/ UNCHANGED table
  /\ outcome' = [outcome EXCEPT ![w] = "failure"]
  /\ faults' = faults + 1
  /\ UNCHANGED <<queue, running, history, overruns>>

\* Mutant of Backoff: the failure is not counted.
BugNotCounted(j) == due' = [due EXCEPT ![j] = FALSE] /\ UNCHANGED attempts

Backoff(j) ==
  /\ attempts' = [attempts EXCEPT ![j] = @ + 1]
  /\ due' = [due EXCEPT ![j] = FALSE]

internal_job_fail(w, j) ==
  IF Owns(w, j)
  THEN Backoff(j) /\ Unlock(j) /\ UNCHANGED row
  ELSE UNCHANGED table

failJob(w, j) ==
  /\ running[w] = {j} /\ outcome[w] = "failure"
  /\ internal_job_fail(w, j)
  /\ NextInBatch(w)

\* The process dies or failJob throws; the next batch has a new worker id.
AbandonBatch(w) ==
  /\ faults < MaxFaults
  /\ queue[w] \cup running[w] # {}
  /\ lockedBy' = [j \in Job |-> IF lockedBy[j] = w THEN GoneOwner ELSE lockedBy[j]]
  /\ queue' = [queue EXCEPT ![w] = {}]
  /\ running' = [running EXCEPT ![w] = {}]
  /\ outcome' = [outcome EXCEPT ![w] = "none"]
  /\ faults' = faults + 1
  /\ UNCHANGED <<row, attempts, due, stale, history, overruns>>

-----------------------------------------------------------------------------
Settle(w) == \E j \in Job : completeJob(w, j) \/ failJob(w, j)

\* One statement of processJobs other than a handler's own.
Loop(w) ==
  \/ claimJobs(w)
  \/ \E j \in Job : StartJob(w, j)
  \/ Settle(w)

Fault(w) == AbandonBatch(w) \/ \E j \in Job : CompleteJobThrows(w, j)

Environment == \E j \in Job : internal_job_enqueue(j) \/ RunAtPasses(j) \/ LockAges(j)

AnyHandlerReturns(w) == \E result \in {"success", "failure"} : HandlerReturns(w, result)

JobNext ==
  \/ Environment
  \/ \E w \in Worker : Loop(w) \/ AnyHandlerReturns(w) \/ Fault(w)

JobSpec == JobInit /\ [][JobNext]_jobVars

\* The worker's timer calls processJobs again and again, handlers return and
\* time passes.  Nobody has to enqueue a job or to crash.
JobFairness ==
  /\ \A w \in Worker : WF_jobVars(Loop(w) \/ AnyHandlerReturns(w))
  /\ \A j \in Job : WF_jobVars(RunAtPasses(j)) /\ WF_jobVars(LockAges(j))

FairJobSpec == JobSpec /\ JobFairness

-----------------------------------------------------------------------------
JobTypeOK ==
  /\ row \in [Job -> {"absent", "pending", "completed"}]
  /\ attempts \in [Job -> Nat]
  /\ due \in [Job -> BOOLEAN]
  /\ lockedBy \in [Job -> Worker \cup {NoOwner, GoneOwner}]
  /\ stale \in [Job -> BOOLEAN]
  /\ queue \in [Worker -> SUBSET Job]
  /\ running \in [Worker -> SUBSET Job]
  /\ outcome \in [Worker -> {"none", "success", "failure"}]
  /\ starts \in [Job -> Nat]
  /\ succeeded \in SUBSET Job
  /\ overruns \in 0..MaxOverruns
  /\ faults \in 0..MaxFaults

\* A lock that names a running worker is on a job of that worker's batch that
\* is still to be settled: no path through the loop leaves a job locked behind.
NoLeakedLock ==
  \A w \in Worker, j \in Job :
    lockedBy[j] = w => j \in queue[w] \cup running[w] /\ row[j] = "pending"

\* The attempt cap holds exactly, also when a job is claimed again while its
\* first worker is still busy: only the owner of the lock counts a failure.
AttemptsCapped == \A j \in Job : attempts[j] <= MaxAttempts

\* A completed job is never claimed, failed or reopened.
CompletedIsFinal ==
  [][\A j \in Job :
       row[j] = "completed" =>
         row'[j] = "completed" /\ attempts'[j] = attempts[j] /\ lockedBy'[j] = NoOwner]_jobVars

\* A handler is started again only after a counted failure, a fault, or a lock
\* that timed out under its batch: nothing else makes the queue repeat a job.
Underway(j) == \E w \in Worker : running[w] = {j}
StartsAccountedFor ==
  \A j \in Job :
    starts[j] <= attempts[j] + faults + overruns
                 + (IF row[j] = "completed" \/ Underway(j) THEN 1 ELSE 0)

\* Every job ends completed or out of attempts.
EventuallySettled ==
  \A j \in Job : row[j] = "pending" ~> row[j] = "completed" \/ attempts[j] >= MaxAttempts

\* "Claim due jobs with a lock (FOR UPDATE SKIP LOCKED) to prevent
\* double-processing": until a lock times out under its batch, two handlers
\* never work on the same job at once.
NoDoubleProcessing ==
  overruns = 0 => \A v, w \in Worker : v # w => running[v] \cap running[w] = {}

-----------------------------------------------------------------------------
(***************************************************************************)
(* The queue implements AtLeastOnce: a job is a task, a handler that       *)
(* returns success performs it, completed_at finishes it and the last      *)
(* attempt gives it up.  Nothing revives a job.                            *)
(***************************************************************************)
StateOf(status, failures) ==
  CASE status = "absent"    -> "none"
    [] status = "completed" -> "done"
    [] status = "pending"   -> IF failures >= MaxAttempts THEN "given up" ELSE "open"

TaskState == [j \in Job |-> StateOf(row[j], attempts[j])]

Tasks == INSTANCE AtLeastOnce WITH Task <- Job, state <- TaskState, performed <- succeeded

\* Whatever late workers, failing completeJob queries and crashes do, a job is
\* never completed before its handler has succeeded, and stays completed.
ImplementsTasks == Tasks!Spec
=============================================================================
