---------------------------- MODULE WebhookOutbox ----------------------------
(***************************************************************************)
(* The webhook_outbox table and the processes that drain it:               *)
(* src/api/webhooks/dispatcher.ts, called by the worker's tick             *)
(* (src/worker/run.ts), by POST /webhooks/process and, for a retry, by     *)
(* POST /webhooks/:id/retry (src/api/server.ts).                           *)
(*                                                                         *)
(* A worker reads a batch of pending entries with one SELECT and then, for *)
(* each entry of that batch, locks it with an UPDATE, POSTs it, and        *)
(* records the answer with an UPDATE guarded by its lock.  Other workers,  *)
(* the operator and the clock act between any two of these statements.     *)
(*                                                                         *)
(* Time is abstracted to two facts about an entry: run_at has passed       *)
(* ("due") and locked_at is older than LOCK_TIMEOUT_MS ("stale").          *)
(***************************************************************************)
EXTENDS Naturals, FiniteSets

CONSTANTS
  Entry,               \* webhooks, named by (kind, idempotency_key)
  Worker,              \* callers of processPendingWebhooks
  Blocked,             \* entries whose destination validateSsrf rejects
  MAX_RETRIES,         \* failures after which an entry is dead-lettered
  BatchLimit,          \* LIMIT of getPendingWebhooks
  MaxOverruns,         \* bound: POSTs that outlive their lock
  MaxAbandons,         \* bound: batches cut short by a crash or a failed query
  MaxOperatorRetries,  \* bound: calls of retryWebhook
  NoOwner,             \* locked_by IS NULL
  GoneOwner            \* locked_by is the id of a batch that no longer runs

ASSUME BlockedAssumption == Blocked \subseteq Entry
ASSUME BoundsAssumption ==
  /\ MAX_RETRIES \in Nat \ {0}
  /\ BatchLimit \in Nat \ {0}
  /\ MaxOverruns \in Nat
  /\ MaxAbandons \in Nat
  /\ MaxOperatorRetries \in Nat
ASSUME WorkerAssumption == IsFiniteSet(Worker)
ASSUME OwnerAssumption ==
  /\ NoOwner \notin Worker
  /\ GoneOwner \notin Worker
  /\ NoOwner # GoneOwner

VARIABLES
  row,        \* row[e]: "absent", "pending" or "dispatched" (dispatched_at set)
  attempts,   \* attempts[e]: the column
  due,        \* due[e]: run_at <= NOW()
  lockedBy,   \* lockedBy[e]: the column
  stale,      \* stale[e]: locked_at < NOW() - LOCK_TIMEOUT_MS
  pc,         \* pc[w]: where the worker's loop stands
  batch,      \* batch[w]: entries of the worker's SELECT not yet reached
  current,    \* current[w]: {e} while the worker holds e's turn, else {}
  answer,     \* answer[w]: what dispatchWebhook returned
  accepted,   \* history: entries some receiver has answered with a 2xx
  overruns,   \* POSTs that outlived their lock so far
  abandons,   \* batches cut short so far
  retries     \* operator retries so far

table   == <<row, attempts, due, lockedBy, stale>>
workers == <<pc, batch, current, answer>>
counts  == <<overruns, abandons, retries>>
vars    == <<table, workers, accepted, counts>>

PC     == {"ready", "posting", "blocked", "answered"}
Answer == {"none", "success", "retryable", "fatal"}

Init ==
  /\ row = [e \in Entry |-> "absent"]
  /\ attempts = [e \in Entry |-> 0]
  /\ due = [e \in Entry |-> FALSE]
  /\ lockedBy = [e \in Entry |-> NoOwner]
  /\ stale = [e \in Entry |-> FALSE]
  /\ pc = [w \in Worker |-> "ready"]
  /\ batch = [w \in Worker |-> {}]
  /\ current = [w \in Worker |-> {}]
  /\ answer = [w \in Worker |-> "none"]
  /\ accepted = {}
  /\ overruns = 0
  /\ abandons = 0
  /\ retries = 0

-----------------------------------------------------------------------------
(***************************************************************************)
(* The table: producers, the operator and the clock.                       *)
(***************************************************************************)

\* INSERT ... ON CONFLICT (kind, idempotency_key) DO NOTHING: a second
\* enqueue of the same key changes nothing, so only the first is a step.
\* options.runAt may lie in the future.
enqueueWebhook(e) ==
  /\ row[e] = "absent"
  /\ row' = [row EXCEPT ![e] = "pending"]
  /\ \E now \in BOOLEAN : due' = [due EXCEPT ![e] = now]
  /\ UNCHANGED <<attempts, lockedBy, stale, workers, accepted, counts>>

RunAtPasses(e) ==
  /\ row[e] = "pending"
  /\ ~due[e]
  /\ due' = [due EXCEPT ![e] = TRUE]
  /\ UNCHANGED <<row, attempts, lockedBy, stale, workers, accepted, counts>>

\* dispatchWebhook's abort timer is shorter than LOCK_TIMEOUT_MS but it is
\* cleared before the response body is read, so a lock can grow old under a
\* worker that is still busy with the entry.
LockAges(e) ==
  /\ lockedBy[e] # NoOwner
  /\ ~stale[e]
  /\ IF lockedBy[e] \in Worker
     THEN /\ pc[lockedBy[e]] = "posting"
          /\ overruns < MaxOverruns
          /\ overruns' = overruns + 1
     ELSE UNCHANGED overruns
  /\ stale' = [stale EXCEPT ![e] = TRUE]
  /\ UNCHANGED <<row, attempts, due, lockedBy, workers, accepted, abandons, retries>>

\* The operator's retry clears the lock whoever holds it.
retryWebhook(e) ==
  /\ retries < MaxOperatorRetries
  /\ row[e] = "pending"
  /\ attempts' = [attempts EXCEPT ![e] = 0]
  /\ due' = [due EXCEPT ![e] = TRUE]
  /\ lockedBy' = [lockedBy EXCEPT ![e] = NoOwner]
  /\ stale' = [stale EXCEPT ![e] = FALSE]
  /\ retries' = retries + 1
  /\ UNCHANGED <<row, workers, accepted, overruns, abandons>>

-----------------------------------------------------------------------------
(***************************************************************************)
(* One call of processPendingWebhooks by worker w.                         *)
(***************************************************************************)

\* Mutant of LockFree: a lock never times out.
BugLockForever(e) == lockedBy[e] = NoOwner

LockFree(e) == lockedBy[e] = NoOwner \/ stale[e]

\* Mutant of Pending: the attempts cap is not part of the query.
BugPendingUncapped == {e \in Entry : row[e] = "pending" /\ due[e] /\ LockFree(e)}

Pending ==
  {e \in Entry : row[e] = "pending" /\ due[e] /\ attempts[e] < MAX_RETRIES /\ LockFree(e)}

\* ORDER BY run_at LIMIT n: which entries fall within the limit is left open.
getPendingWebhooks(w) ==
  /\ pc[w] = "ready"
  /\ batch[w] = {}
  /\ \E b \in SUBSET Pending :
       /\ b # {}
       /\ Cardinality(b) <= BatchLimit
       /\ b = Pending \/ Cardinality(b) = BatchLimit
       /\ batch' = [batch EXCEPT ![w] = b]
  /\ UNCHANGED <<table, pc, current, answer, accepted, counts>>

\* Mutant of Lockable: an entry is locked whoever holds it.
BugLockAnyOwner(e) == row[e] = "pending"

\* The UPDATE's condition: neither run_at nor attempts is looked at again.
Lockable(e) == row[e] = "pending" /\ LockFree(e)

lockWebhookEntry(w, e) ==
  /\ pc[w] = "ready"
  /\ e \in batch[w]
  /\ Lockable(e)
  /\ lockedBy' = [lockedBy EXCEPT ![e] = w]
  /\ stale' = [stale EXCEPT ![e] = FALSE]
  /\ batch' = [batch EXCEPT ![w] = @ \ {e}]
  /\ current' = [current EXCEPT ![w] = {e}]
  /\ pc' = [pc EXCEPT ![w] = IF e \in Blocked THEN "blocked" ELSE "posting"]
  /\ UNCHANGED <<row, attempts, due, answer, accepted, counts>>

SkipEntry(w, e) ==
  /\ pc[w] = "ready"
  /\ e \in batch[w]
  /\ ~Lockable(e)
  /\ batch' = [batch EXCEPT ![w] = @ \ {e}]
  /\ UNCHANGED <<table, pc, current, answer, accepted, counts>>

\* Mutant of Exchange: a client error ends the entry as if it were delivered.
BugClientErrorIsSuccess == [client4xx |-> [ok |-> FALSE, result |-> "success"]]

\* What dispatchWebhook makes of an exchange: whether the receiver answered
\* 2xx, and the result.  A 2xx whose body is not JSON is a failure: the body
\* is already consumed when response.text() reads it again, and that throw
\* lands in the outer catch, which returns no status code.
Exchange ==
  [json2xx    |-> [ok |-> TRUE,  result |-> "success"],
   other2xx   |-> [ok |-> TRUE,  result |-> "retryable"],
   noResponse |-> [ok |-> FALSE, result |-> "retryable"],
   retryable  |-> [ok |-> FALSE, result |-> "retryable"],
   client4xx  |-> [ok |-> FALSE, result |-> "fatal"]]

dispatchWebhook(w) ==
  /\ pc[w] = "posting"
  /\ \E x \in DOMAIN Exchange :
       /\ answer' = [answer EXCEPT ![w] = Exchange[x].result]
       /\ accepted' = IF Exchange[x].ok THEN accepted \cup current[w] ELSE accepted
  /\ pc' = [pc EXCEPT ![w] = "answered"]
  /\ UNCHANGED <<table, batch, current, counts>>

\* The worker's UPDATE ... WHERE id = $1 AND locked_by = $2 finds its row.
Owns(w, e) == lockedBy[e] = w

NextInBatch(w) ==
  /\ pc' = [pc EXCEPT ![w] = "ready"]
  /\ current' = [current EXCEPT ![w] = {}]
  /\ answer' = [answer EXCEPT ![w] = "none"]
  /\ UNCHANGED <<batch, accepted, counts>>

\* Mutant of Unlock: the lock columns are left alone.
BugKeepLock(e) == UNCHANGED <<lockedBy, stale>>

Unlock(e) ==
  /\ lockedBy' = [lockedBy EXCEPT ![e] = NoOwner]
  /\ stale' = [stale EXCEPT ![e] = FALSE]

markDispatched(w, e) ==
  /\ pc[w] = "answered" /\ answer[w] = "success" /\ e \in current[w]
  /\ IF Owns(w, e)
     THEN /\ row' = [row EXCEPT ![e] = "dispatched"]
          /\ Unlock(e)
          /\ UNCHANGED <<attempts, due>>
     ELSE UNCHANGED table
  /\ NextInBatch(w)

recordFailure(w, e) ==
  /\ pc[w] = "answered" /\ answer[w] = "retryable" /\ e \in current[w]
  /\ IF Owns(w, e)
     THEN /\ attempts' = [attempts EXCEPT ![e] = @ + 1]
          /\ due' = [due EXCEPT ![e] = FALSE]
          /\ Unlock(e)
          /\ UNCHANGED row
     ELSE UNCHANGED table
  /\ NextInBatch(w)

\* A destination refused before the POST, or a client error after it.
DeadLetter(w, e) ==
  /\ \/ pc[w] = "blocked"
     \/ pc[w] = "answered" /\ answer[w] = "fatal"
  /\ e \in current[w]
  /\ IF Owns(w, e)
     THEN /\ attempts' = [attempts EXCEPT ![e] = MAX_RETRIES]
          /\ Unlock(e)
          /\ UNCHANGED <<row, due>>
     ELSE UNCHANGED table
  /\ NextInBatch(w)

\* The process dies, or a query throws and the tick gives the batch up.  The
\* next batch runs under a new worker id, so w's lock has no owner left.
AbandonBatch(w) ==
  /\ abandons < MaxAbandons
  /\ batch[w] # {} \/ current[w] # {}
  /\ lockedBy' = [e \in Entry |-> IF lockedBy[e] = w THEN GoneOwner ELSE lockedBy[e]]
  /\ pc' = [pc EXCEPT ![w] = "ready"]
  /\ batch' = [batch EXCEPT ![w] = {}]
  /\ current' = [current EXCEPT ![w] = {}]
  /\ answer' = [answer EXCEPT ![w] = "none"]
  /\ abandons' = abandons + 1
  /\ UNCHANGED <<row, attempts, due, stale, accepted, overruns, retries>>

-----------------------------------------------------------------------------
Settle(w) ==
  \E e \in Entry : markDispatched(w, e) \/ recordFailure(w, e) \/ DeadLetter(w, e)

Step(w) ==
  \/ getPendingWebhooks(w)
  \/ \E e \in Entry : lockWebhookEntry(w, e) \/ SkipEntry(w, e)
  \/ dispatchWebhook(w)
  \/ Settle(w)

Clock == \E e \in Entry : RunAtPasses(e) \/ LockAges(e)

Next ==
  \/ \E e \in Entry : enqueueWebhook(e) \/ retryWebhook(e)
  \/ Clock
  \/ \E w \in Worker : Step(w) \/ AbandonBatch(w)

Spec == Init /\ [][Next]_vars

\* The worker's timer calls processPendingWebhooks again and again, the loop
\* over a batch runs to its end and every POST is answered or aborted; time
\* passes.  Nobody has to enqueue, retry or crash.
Fairness ==
  /\ \A w \in Worker : WF_vars(Step(w))
  /\ \A e \in Entry : WF_vars(RunAtPasses(e)) /\ WF_vars(LockAges(e))

FairSpec == Spec /\ Fairness

-----------------------------------------------------------------------------
(***************************************************************************)
(* Properties.                                                             *)
(***************************************************************************)

TypeOK ==
  /\ row \in [Entry -> {"absent", "pending", "dispatched"}]
  /\ attempts \in [Entry -> Nat]
  /\ due \in [Entry -> BOOLEAN]
  /\ lockedBy \in [Entry -> Worker \cup {NoOwner, GoneOwner}]
  /\ stale \in [Entry -> BOOLEAN]
  /\ pc \in [Worker -> PC]
  /\ batch \in [Worker -> SUBSET Entry]
  /\ current \in [Worker -> SUBSET Entry]
  /\ answer \in [Worker -> Answer]
  /\ accepted \in SUBSET Entry
  /\ overruns \in 0..MaxOverruns
  /\ abandons \in 0..MaxAbandons
  /\ retries \in 0..MaxOperatorRetries

\* A lock in the table that names a running worker is for the one entry that
\* worker is busy with: no statement order leaves an entry locked by a worker
\* that has moved on, which would hold the entry back for LOCK_TIMEOUT_MS.
NoLeakedLock ==
  \A w \in Worker, e \in Entry :
    lockedBy[e] = w => current[w] = {e} /\ pc[w] # "ready" /\ row[e] = "pending"

\* Until a POST outlives its lock or an operator retries (retryWebhook clears
\* the lock of an entry that is being POSTed), two workers are never busy with
\* the same entry.
NoConcurrentDispatch ==
  overruns = 0 /\ retries = 0 =>
    \A v, w \in Worker : v # w => current[v] \cap current[w] = {}

\* Workers whose batch was read before an entry reached MAX_RETRIES can still
\* lock it, but only those: each adds at most one failure past the cap.
Latecomers(e) == {w \in Worker : e \in batch[w] \cup current[w]}
AttemptsBounded ==
  \A e \in Entry :
    attempts[e] >= MAX_RETRIES =>
      attempts[e] + Cardinality(Latecomers(e)) < MAX_RETRIES + Cardinality(Worker)

\* Nothing that a late worker, the operator or a producer does changes an
\* entry once it is marked dispatched.
DispatchedIsFinal ==
  [][\A e \in Entry :
       row[e] = "dispatched" =>
         /\ row'[e] = "dispatched"
         /\ attempts'[e] = attempts[e]
         /\ lockedBy'[e] = NoOwner]_vars

\* An entry is marked dispatched only if a receiver has answered it with 2xx.
DispatchedWasAccepted ==
  \A e \in Entry : row[e] = "dispatched" => e \in accepted

\* Every entry ends dispatched or dead-lettered.
Settled(e) == row[e] = "dispatched" \/ attempts[e] >= MAX_RETRIES
EventuallySettled == \A e \in Entry : row[e] = "pending" ~> Settled(e)

-----------------------------------------------------------------------------
(***************************************************************************)
(* The outbox implements AtLeastOnce: a webhook is a task, a receiver's    *)
(* 2xx answer performs it, dispatched_at finishes it and the last failure  *)
(* or a dead letter gives it up.                                           *)
(***************************************************************************)
StateOf(status, failures) ==
  CASE status = "absent"     -> "none"
    [] status = "dispatched" -> "done"
    [] status = "pending"    -> IF failures >= MAX_RETRIES THEN "given up" ELSE "open"

TaskState == [e \in Entry |-> StateOf(row[e], attempts[e])]

Tasks == INSTANCE AtLeastOnce WITH Task <- Entry, state <- TaskState, performed <- accepted

\* Whatever late workers, the operator and crashes do, a webhook is never
\* marked dispatched before a receiver accepted it, never leaves that state,
\* and is given up only to be dispatched or retried after all.
ImplementsTasks == Tasks!Spec
=============================================================================
