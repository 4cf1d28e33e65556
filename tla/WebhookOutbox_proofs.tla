------------------------ MODULE WebhookOutbox_proofs ------------------------
(***************************************************************************)
(* Theorems about WebhookOutbox, for every set of entries and workers and  *)
(* every value of the bounds.                                              *)
(***************************************************************************)
EXTENDS WebhookOutbox, FiniteSetTheorems, TLAPS

\* The columns and the workers' local variables keep their types through every
\* statement of processPendingWebhooks, enqueueWebhook and retryWebhook.
THEOREM TypeCorrect == Spec => []TypeOK
<1>1. Init => TypeOK
  BY BoundsAssumption, OwnerAssumption DEF Init, TypeOK, PC, Answer
<1>2. TypeOK /\ [Next]_vars => TypeOK'
  <2> SUFFICES ASSUME TypeOK, [Next]_vars PROVE TypeOK'
    OBVIOUS
  <2> USE BoundsAssumption, OwnerAssumption DEF TypeOK, PC, Answer, table, workers, counts, vars
  <2>1. ASSUME NEW e \in Entry, enqueueWebhook(e) PROVE TypeOK'
    BY <2>1 DEF enqueueWebhook
  <2>2. ASSUME NEW e \in Entry, retryWebhook(e) PROVE TypeOK'
    BY <2>2 DEF retryWebhook
  <2>3. CASE Clock
    <3>1. ASSUME NEW e \in Entry, RunAtPasses(e) PROVE TypeOK'
      BY <3>1 DEF RunAtPasses
    <3>2. ASSUME NEW e \in Entry, LockAges(e) PROVE TypeOK'
      BY <3>2 DEF LockAges
    <3>3. QED BY <2>3, <3>1, <3>2 DEF Clock
  <2>4. ASSUME NEW w \in Worker, getPendingWebhooks(w) PROVE TypeOK'
    BY <2>4 DEF getPendingWebhooks, Pending
  <2>5. ASSUME NEW w \in Worker, NEW e \in Entry, lockWebhookEntry(w, e) PROVE TypeOK'
    BY <2>5 DEF lockWebhookEntry
  <2>6. ASSUME NEW w \in Worker, NEW e \in Entry, SkipEntry(w, e) PROVE TypeOK'
    BY <2>6 DEF SkipEntry
  <2>7. ASSUME NEW w \in Worker, dispatchWebhook(w) PROVE TypeOK'
    BY <2>7 DEF dispatchWebhook, Exchange
  <2>8. ASSUME NEW w \in Worker, NEW e \in Entry, markDispatched(w, e) PROVE TypeOK'
    <3>1. CASE Owns(w, e)
      BY <2>8, <3>1 DEF markDispatched, NextInBatch, Unlock
    <3>2. CASE ~Owns(w, e)
      BY <2>8, <3>2 DEF markDispatched, NextInBatch
    <3>3. QED BY <3>1, <3>2
  <2>9. ASSUME NEW w \in Worker, NEW e \in Entry, recordFailure(w, e) PROVE TypeOK'
    <3>1. CASE Owns(w, e)
      <4>1. attempts[e] + 1 \in Nat
        OBVIOUS
      <4>2. QED BY <2>9, <3>1, <4>1 DEF recordFailure, NextInBatch, Unlock
    <3>2. CASE ~Owns(w, e)
      BY <2>9, <3>2 DEF recordFailure, NextInBatch
    <3>3. QED BY <3>1, <3>2
  <2>10. ASSUME NEW w \in Worker, NEW e \in Entry, DeadLetter(w, e) PROVE TypeOK'
    <3>1. CASE Owns(w, e)
      BY <2>10, <3>1 DEF DeadLetter, NextInBatch, Unlock
    <3>2. CASE ~Owns(w, e)
      BY <2>10, <3>2 DEF DeadLetter, NextInBatch
    <3>3. QED BY <3>1, <3>2
  <2>11. ASSUME NEW w \in Worker, AbandonBatch(w) PROVE TypeOK'
    BY <2>11 DEF AbandonBatch
  <2>12. CASE UNCHANGED vars
    BY <2>12
  <2>13. QED
    BY <2>1, <2>2, <2>3, <2>4, <2>5, <2>6, <2>7, <2>8, <2>9, <2>10, <2>11, <2>12
    DEF Next, Step, Settle
<1>3. QED BY <1>1, <1>2, PTL DEF Spec

-----------------------------------------------------------------------------
(***************************************************************************)
(* The loop over a batch and the locks.  NoLeakedLock and                  *)
(* DispatchedIsFinal need three facts about every worker and row: a worker *)
(* has an entry in hand exactly when it is not between two entries, an     *)
(* entry in hand is no longer in its batch, and only pending rows are      *)
(* locked.                                                                 *)
(***************************************************************************)
InHand ==
  \A w \in Worker :
    /\ pc[w] = "ready" => current[w] = {}
    /\ \A e \in current[w] : current[w] = {e} /\ e \notin batch[w]

LockedIsPending == \A e \in Entry : row[e] # "pending" => lockedBy[e] = NoOwner

LockInv == TypeOK /\ InHand /\ LockedIsPending /\ NoLeakedLock

\* Every statement of the worker loop, the operator's retry and an abandoned
\* batch preserve the relation between the lock columns and the workers.
LEMMA LockInvInductive == LockInv /\ TypeOK' /\ [Next]_vars => LockInv'
<1> SUFFICES ASSUME LockInv, TypeOK', [Next]_vars
             PROVE InHand' /\ LockedIsPending' /\ NoLeakedLock'
  BY DEF LockInv
<1> USE OwnerAssumption DEF LockInv, InHand, LockedIsPending, NoLeakedLock,
                            TypeOK, PC, table, workers, counts, vars
<1> DEFINE P == InHand' /\ LockedIsPending' /\ NoLeakedLock'
<1>1. ASSUME NEW e \in Entry, enqueueWebhook(e) PROVE P
  BY <1>1 DEF enqueueWebhook
<1>2. ASSUME NEW e \in Entry, retryWebhook(e) PROVE P
  BY <1>2 DEF retryWebhook
<1>3. CASE Clock
  BY <1>3 DEF Clock, RunAtPasses, LockAges
<1>4. ASSUME NEW w \in Worker, getPendingWebhooks(w) PROVE P
  BY <1>4 DEF getPendingWebhooks
<1>5. ASSUME NEW w \in Worker, NEW e \in Entry, lockWebhookEntry(w, e) PROVE P
  BY <1>5 DEF lockWebhookEntry, Lockable
<1>6. ASSUME NEW w \in Worker, NEW e \in Entry, SkipEntry(w, e) PROVE P
  BY <1>6 DEF SkipEntry
<1>7. ASSUME NEW w \in Worker, dispatchWebhook(w) PROVE P
  BY <1>7 DEF dispatchWebhook
<1>8. ASSUME NEW w \in Worker, NEW e \in Entry, markDispatched(w, e) PROVE P
  <2>1. CASE Owns(w, e)
    BY <1>8, <2>1 DEF markDispatched, NextInBatch, Unlock, Owns
  <2>2. CASE ~Owns(w, e)
    BY <1>8, <2>2 DEF markDispatched, NextInBatch, Owns
  <2>3. QED BY <2>1, <2>2
<1>9. ASSUME NEW w \in Worker, NEW e \in Entry, recordFailure(w, e) PROVE P
  <2>1. CASE Owns(w, e)
    BY <1>9, <2>1 DEF recordFailure, NextInBatch, Unlock, Owns
  <2>2. CASE ~Owns(w, e)
    BY <1>9, <2>2 DEF recordFailure, NextInBatch, Owns
  <2>3. QED BY <2>1, <2>2
<1>10. ASSUME NEW w \in Worker, NEW e \in Entry, DeadLetter(w, e) PROVE P
  <2>1. CASE Owns(w, e)
    BY <1>10, <2>1 DEF DeadLetter, NextInBatch, Unlock, Owns
  <2>2. CASE ~Owns(w, e)
    BY <1>10, <2>2 DEF DeadLetter, NextInBatch, Owns
  <2>3. QED BY <2>1, <2>2
<1>11. ASSUME NEW w \in Worker, AbandonBatch(w) PROVE P
  BY <1>11 DEF AbandonBatch
<1>12. CASE UNCHANGED vars
  BY <1>12
<1>13. QED
  BY <1>1, <1>2, <1>3, <1>4, <1>5, <1>6, <1>7, <1>8, <1>9, <1>10, <1>11, <1>12
  DEF Next, Step, Settle

\* The inductive invariant holds in every reachable state.
LEMMA LockInvariant == Spec => []LockInv
<1>1. Init => LockInv
  <2>1. Init => TypeOK
    BY BoundsAssumption, OwnerAssumption DEF Init, TypeOK, PC, Answer
  <2>2. QED
    BY <2>1, OwnerAssumption DEF Init, LockInv, InHand, LockedIsPending, NoLeakedLock
<1>2. QED BY <1>1, LockInvInductive, TypeCorrect, PTL DEF Spec

\* No statement order of processPendingWebhooks leaves an entry locked by a
\* worker that has moved on to another entry.
THEOREM LocksAreInHand == Spec => []NoLeakedLock
<1>1. LockInv => NoLeakedLock
  BY DEF LockInv
<1>2. QED BY <1>1, LockInvariant, PTL

\* Once markDispatched has written dispatched_at, no late recordFailure,
\* dead-letter, retry or lock changes the row.
THEOREM DispatchedStays == Spec => DispatchedIsFinal
<1> DEFINE Keeps ==
      \A e \in Entry :
        row[e] = "dispatched" =>
          /\ row'[e] = "dispatched"
          /\ attempts'[e] = attempts[e]
          /\ lockedBy'[e] = NoOwner
<1>1. LockInv /\ LockInv' /\ [Next]_vars => [Keeps]_vars
  <2> SUFFICES ASSUME LockInv, LockInv', Next, NEW e \in Entry, row[e] = "dispatched"
               PROVE  row'[e] = "dispatched" /\ attempts'[e] = attempts[e] /\ lockedBy'[e] = NoOwner
    BY DEF LockInv
  <2>1. lockedBy[e] = NoOwner
    BY DEF LockInv, LockedIsPending
  <2>2. row'[e] = "dispatched" /\ attempts'[e] = attempts[e]
    <3> USE <2>1, OwnerAssumption DEF LockInv, TypeOK, table, workers, counts
    <3>1. ASSUME NEW d \in Entry, enqueueWebhook(d) \/ retryWebhook(d) PROVE <2>2!1 /\ <2>2!2
      BY <3>1 DEF enqueueWebhook, retryWebhook
    <3>2. CASE Clock
      BY <3>2 DEF Clock, RunAtPasses, LockAges
    <3>3. ASSUME NEW w \in Worker, NEW d \in Entry,
                 \/ getPendingWebhooks(w) \/ lockWebhookEntry(w, d) \/ SkipEntry(w, d)
                 \/ dispatchWebhook(w) \/ AbandonBatch(w)
          PROVE <2>2!1 /\ <2>2!2
      BY <3>3 DEF getPendingWebhooks, lockWebhookEntry, SkipEntry, dispatchWebhook, AbandonBatch
    <3>4. ASSUME NEW w \in Worker, NEW d \in Entry, markDispatched(w, d) PROVE <2>2!1 /\ <2>2!2
      BY <3>4 DEF markDispatched, Owns
    <3>5. ASSUME NEW w \in Worker, NEW d \in Entry, recordFailure(w, d) PROVE <2>2!1 /\ <2>2!2
      BY <3>5 DEF recordFailure, Owns
    <3>6. ASSUME NEW w \in Worker, NEW d \in Entry, DeadLetter(w, d) PROVE <2>2!1 /\ <2>2!2
      BY <3>6 DEF DeadLetter, Owns
    <3>7. QED
      BY <3>1, <3>2, <3>3, <3>4, <3>5, <3>6 DEF Next, Step, Settle
  <2>3. QED
    BY <2>2 DEF LockInv, LockedIsPending
<1>2. QED BY <1>1, LockInvariant, PTL DEF Spec, DispatchedIsFinal

-----------------------------------------------------------------------------
(***************************************************************************)
(* Mutual exclusion.  It needs the converse of NoLeakedLock, that a worker *)
(* with an entry in hand still holds a fresh lock on it, and that is where *)
(* the two hypotheses come in: no POST outlived LOCK_TIMEOUT_MS and nobody *)
(* called retryWebhook.                                                    *)
(***************************************************************************)
Undisturbed == overruns = 0 /\ retries = 0

HolderInv ==
  Undisturbed => \A w \in Worker : \A e \in current[w] : lockedBy[e] = w /\ ~stale[e]

\* A worker keeps the fresh lock of lockWebhookEntry until it settles the entry.
LEMMA HolderInvInductive ==
  LockInv /\ LockInv' /\ HolderInv /\ [Next]_vars => HolderInv'
<1> SUFFICES ASSUME LockInv, LockInv', HolderInv, [Next]_vars, Undisturbed',
                    NEW v \in Worker, NEW d \in current'[v]
             PROVE  lockedBy'[d] = v /\ ~stale'[d]
  BY DEF HolderInv
<1> USE OwnerAssumption DEF Undisturbed, LockInv, InHand, HolderInv, TypeOK, PC,
                            table, workers, counts, vars
<1> DEFINE P == lockedBy'[d] = v /\ ~stale'[d]
<1>0. d \in Entry
  OBVIOUS
<1>1. ASSUME NEW e \in Entry, enqueueWebhook(e) PROVE P
  BY <1>1 DEF enqueueWebhook
<1>2. ASSUME NEW e \in Entry, retryWebhook(e) PROVE P
  BY <1>2 DEF retryWebhook
<1>3. CASE Clock
  BY <1>3 DEF Clock, RunAtPasses, LockAges
<1>4. ASSUME NEW w \in Worker, getPendingWebhooks(w) PROVE P
  BY <1>4 DEF getPendingWebhooks
<1>5. ASSUME NEW w \in Worker, NEW e \in Entry, lockWebhookEntry(w, e) PROVE P
  BY <1>5 DEF lockWebhookEntry, Lockable, LockFree
<1>6. ASSUME NEW w \in Worker, NEW e \in Entry, SkipEntry(w, e) PROVE P
  BY <1>6 DEF SkipEntry
<1>7. ASSUME NEW w \in Worker, dispatchWebhook(w) PROVE P
  BY <1>7 DEF dispatchWebhook
<1>8. ASSUME NEW w \in Worker, NEW e \in Entry,
             markDispatched(w, e) \/ recordFailure(w, e) \/ DeadLetter(w, e)
      PROVE P
  <2>0. Undisturbed
    BY <1>8 DEF markDispatched, recordFailure, DeadLetter, NextInBatch
  <2>1. Owns(w, e) /\ e \in current[w]
    BY <1>8, <2>0 DEF markDispatched, recordFailure, DeadLetter, Owns
  <2>2. /\ Unlock(e)
        /\ NextInBatch(w)
    BY <1>8, <2>1 DEF markDispatched, recordFailure, DeadLetter
  <2>3. v # w /\ d \in current[v] /\ d # e
    BY <2>0, <2>1, <2>2 DEF NextInBatch, Owns
  <2>4. QED BY <2>0, <2>2, <2>3 DEF Unlock
<1>9. ASSUME NEW w \in Worker, AbandonBatch(w) PROVE P
  BY <1>9 DEF AbandonBatch
<1>10. CASE UNCHANGED vars
  BY <1>10
<1>11. QED
  BY <1>1, <1>2, <1>3, <1>4, <1>5, <1>6, <1>7, <1>8, <1>9, <1>10 DEF Next, Step, Settle

\* Until a POST outlives its lock or an operator retries, two workers are
\* never busy with the same webhook.
THEOREM ExclusiveDispatch == Spec => []NoConcurrentDispatch
<1>1. Init => HolderInv
  BY DEF Init, HolderInv
<1>2. LockInv /\ LockInv' /\ HolderInv /\ [Next]_vars => HolderInv'
  BY HolderInvInductive
<1>3. HolderInv => NoConcurrentDispatch
  BY DEF HolderInv, Undisturbed, NoConcurrentDispatch
<1>4. QED BY <1>1, <1>2, <1>3, LockInvariant, PTL DEF Spec

-----------------------------------------------------------------------------
(***************************************************************************)
(* The attempts column.  A failure past the cap is paid for by a worker    *)
(* that leaves Latecomers(e) and cannot come back, because                 *)
(* getPendingWebhooks does look at attempts.                               *)
(***************************************************************************)

\* The workers that may still touch an entry are finitely many.
LEMMA LatecomersFinite ==
  ASSUME NEW e \in Entry
  PROVE  /\ IsFiniteSet(Latecomers(e))
         /\ Cardinality(Latecomers(e)) \in Nat
         /\ Cardinality(Latecomers(e)) <= Cardinality(Worker)
         /\ Cardinality(Worker) \in Nat
<1>1. Latecomers(e) \in SUBSET Worker
  BY DEF Latecomers
<1>2. QED BY <1>1, WorkerAssumption, FS_Subset, FS_CardinalityType

\* If a set of workers loses one of its members its cardinality drops.
LEMMA LoseOne ==
  ASSUME NEW S, IsFiniteSet(S), NEW w \in S, NEW T \in SUBSET (S \ {w})
  PROVE  Cardinality(T) + 1 <= Cardinality(S)
<1>1. IsFiniteSet(S \ {w}) /\ Cardinality(S \ {w}) = Cardinality(S) - 1
  BY FS_RemoveElement
<1>2. IsFiniteSet(T) /\ Cardinality(T) <= Cardinality(S \ {w})
  BY <1>1, FS_Subset
<1>3. Cardinality(S) \in Nat /\ Cardinality(T) \in Nat
  BY <1>2, FS_CardinalityType
<1>4. QED BY <1>1, <1>2, <1>3

\* What one step does to an entry's attempts and to the workers that may still
\* touch it: nothing that matters, a reset, or a failure that uses a worker up.
LEMMA AttemptsStep ==
  ASSUME LockInv, TypeOK', [Next]_vars, NEW e \in Entry
  PROVE  \/ /\ attempts'[e] = attempts[e]
            /\ attempts[e] >= MAX_RETRIES => Latecomers(e)' \subseteq Latecomers(e)
         \/ attempts'[e] = 0
         \/ /\ attempts'[e] \in {attempts[e] + 1, MAX_RETRIES}
            /\ \E w \in Latecomers(e) : Latecomers(e)' \subseteq Latecomers(e) \ {w}
<1> USE BoundsAssumption DEF LockInv, InHand, TypeOK, Latecomers, table, workers, counts, vars
<1> DEFINE Same == /\ attempts'[e] = attempts[e]
                   /\ attempts[e] >= MAX_RETRIES => Latecomers(e)' \subseteq Latecomers(e)
           UsedUp == /\ attempts'[e] \in {attempts[e] + 1, MAX_RETRIES}
                     /\ \E w \in Latecomers(e) : Latecomers(e)' \subseteq Latecomers(e) \ {w}
<1>1. ASSUME NEW d \in Entry, enqueueWebhook(d) PROVE Same
  BY <1>1 DEF enqueueWebhook
<1>2. ASSUME NEW d \in Entry, retryWebhook(d) PROVE Same \/ attempts'[e] = 0
  BY <1>2 DEF retryWebhook
<1>3. CASE Clock
  BY <1>3 DEF Clock, RunAtPasses, LockAges
<1>4. ASSUME NEW w \in Worker, getPendingWebhooks(w) PROVE Same
  <2>1. PICK b \in SUBSET Pending : batch' = [batch EXCEPT ![w] = b]
    BY <1>4 DEF getPendingWebhooks
  <2>2. attempts[e] >= MAX_RETRIES => e \notin b
    BY <2>1 DEF Pending
  <2>3. QED BY <1>4, <2>1, <2>2 DEF getPendingWebhooks
<1>5. ASSUME NEW w \in Worker, NEW d \in Entry, lockWebhookEntry(w, d) PROVE Same
  BY <1>5 DEF lockWebhookEntry
<1>6. ASSUME NEW w \in Worker, NEW d \in Entry, SkipEntry(w, d) PROVE Same
  BY <1>6 DEF SkipEntry
<1>7. ASSUME NEW w \in Worker, dispatchWebhook(w) PROVE Same
  BY <1>7 DEF dispatchWebhook
<1>8. ASSUME NEW w \in Worker, NEW d \in Entry, markDispatched(w, d) PROVE Same
  BY <1>8 DEF markDispatched, NextInBatch, Unlock
<1>9. ASSUME NEW w \in Worker, NEW d \in Entry, recordFailure(w, d) \/ DeadLetter(w, d)
      PROVE Same \/ UsedUp
  <2>1. NextInBatch(w) /\ d \in current[w] /\ UNCHANGED batch
    BY <1>9 DEF recordFailure, DeadLetter, NextInBatch
  <2>2. Latecomers(e)' \subseteq Latecomers(e)
    BY <2>1 DEF NextInBatch
  <2>3. CASE Owns(w, d) /\ d = e
    <3>1. attempts'[e] \in {attempts[e] + 1, MAX_RETRIES}
      BY <1>9, <2>3 DEF recordFailure, DeadLetter
    <3>2. w \in Latecomers(e) /\ w \notin Latecomers(e)'
      BY <2>1, <2>3 DEF NextInBatch
    <3>3. QED BY <2>2, <3>1, <3>2
  <2>4. CASE ~(Owns(w, d) /\ d = e)
    BY <1>9, <2>2, <2>4 DEF recordFailure, DeadLetter
  <2>5. QED BY <2>3, <2>4
<1>10. ASSUME NEW w \in Worker, AbandonBatch(w) PROVE Same
  BY <1>10 DEF AbandonBatch
<1>11. CASE UNCHANGED vars
  BY <1>11
<1>12. QED
  BY <1>1, <1>2, <1>3, <1>4, <1>5, <1>6, <1>7, <1>8, <1>9, <1>10, <1>11 DEF Next, Step, Settle

\* However many workers drain the outbox, an entry is failed at most once per
\* other worker past MAX_RETRIES.
THEOREM AttemptsStayBounded == Spec => []AttemptsBounded
<1>1. Init => AttemptsBounded
  BY BoundsAssumption DEF Init, AttemptsBounded
<1>2. LockInv /\ TypeOK' /\ AttemptsBounded /\ [Next]_vars => AttemptsBounded'
  <2> SUFFICES ASSUME LockInv, TypeOK', AttemptsBounded, [Next]_vars,
                      NEW e \in Entry, attempts'[e] >= MAX_RETRIES
               PROVE  attempts'[e] + Cardinality(Latecomers(e)') < MAX_RETRIES + Cardinality(Worker)
    BY DEF AttemptsBounded
  <2> DEFINE n == Cardinality(Latecomers(e))
             m == Cardinality(Latecomers(e)')
             k == Cardinality(Worker)
  <2>1. Latecomers(e)' \in SUBSET Worker
    BY DEF Latecomers
  <2>2. n \in Nat /\ m \in Nat /\ k \in Nat /\ n <= k /\ IsFiniteSet(Latecomers(e))
    BY <2>1, LatecomersFinite, WorkerAssumption, FS_Subset, FS_CardinalityType
  <2>3. MAX_RETRIES \in Nat \ {0} /\ attempts[e] \in Nat
    BY BoundsAssumption DEF LockInv, TypeOK
  <2>4. attempts[e] >= MAX_RETRIES => attempts[e] + n < MAX_RETRIES + k
    BY DEF AttemptsBounded
  <2>5. CASE /\ attempts'[e] = attempts[e]
             /\ attempts[e] >= MAX_RETRIES => Latecomers(e)' \subseteq Latecomers(e)
    <3>1. m <= n
      BY <2>2, <2>5, FS_Subset
    <3>2. QED BY <2>2, <2>3, <2>4, <2>5, <3>1
  <2>6. CASE attempts'[e] = 0
    BY <2>3, <2>6
  <2>7. CASE /\ attempts'[e] \in {attempts[e] + 1, MAX_RETRIES}
             /\ \E w \in Latecomers(e) : Latecomers(e)' \subseteq Latecomers(e) \ {w}
    <3>1. m + 1 <= n
      BY <2>2, <2>7, LoseOne
    <3>2. QED BY <2>2, <2>3, <2>4, <2>7, <3>1
  <2>8. QED BY <2>5, <2>6, <2>7, AttemptsStep
<1>3. QED BY <1>1, <1>2, LockInvariant, TypeCorrect, PTL DEF Spec

-----------------------------------------------------------------------------
\* A worker that is about to call markDispatched has seen the entry accepted.
AnswerInv ==
  \A w \in Worker :
    pc[w] = "answered" /\ answer[w] = "success" => current[w] \subseteq accepted

AcceptedInv == AnswerInv /\ DispatchedWasAccepted

\* dispatchWebhook's success is a 2xx answer, and markDispatched follows it.
LEMMA AcceptedInvariant == Spec => []AcceptedInv
<1>1. Init => AcceptedInv
  BY DEF Init, AcceptedInv, AnswerInv, DispatchedWasAccepted
<1>2. TypeOK /\ TypeOK' /\ AcceptedInv /\ [Next]_vars => AcceptedInv'
  <2> SUFFICES ASSUME TypeOK, TypeOK', AcceptedInv, [Next]_vars PROVE AcceptedInv'
    OBVIOUS
  <2> USE DEF AcceptedInv, AnswerInv, DispatchedWasAccepted, TypeOK, PC, Answer,
              table, workers, counts, vars
  <2>1. ASSUME NEW e \in Entry, enqueueWebhook(e) \/ retryWebhook(e) PROVE AcceptedInv'
    BY <2>1 DEF enqueueWebhook, retryWebhook
  <2>2. CASE Clock
    BY <2>2 DEF Clock, RunAtPasses, LockAges
  <2>3. ASSUME NEW w \in Worker, NEW e \in Entry,
               getPendingWebhooks(w) \/ lockWebhookEntry(w, e) \/ SkipEntry(w, e)
        PROVE AcceptedInv'
    BY <2>3 DEF getPendingWebhooks, lockWebhookEntry, SkipEntry
  <2>4. ASSUME NEW w \in Worker, dispatchWebhook(w) PROVE AcceptedInv'
    BY <2>4 DEF dispatchWebhook, Exchange
  <2>5. ASSUME NEW w \in Worker, NEW e \in Entry, markDispatched(w, e) PROVE AcceptedInv'
    BY <2>5 DEF markDispatched, NextInBatch
  <2>6. ASSUME NEW w \in Worker, NEW e \in Entry, recordFailure(w, e) \/ DeadLetter(w, e)
        PROVE AcceptedInv'
    BY <2>6 DEF recordFailure, DeadLetter, NextInBatch
  <2>7. ASSUME NEW w \in Worker, AbandonBatch(w) PROVE AcceptedInv'
    BY <2>7 DEF AbandonBatch
  <2>8. CASE UNCHANGED vars
    BY <2>8
  <2>9. QED
    BY <2>1, <2>2, <2>3, <2>4, <2>5, <2>6, <2>7, <2>8 DEF Next, Step, Settle
<1>3. QED BY <1>1, <1>2, TypeCorrect, PTL DEF Spec

\* dispatched_at is written only after some receiver answered the POST with 2xx.
THEOREM DispatchedImpliesAccepted == Spec => []DispatchedWasAccepted
<1>1. AcceptedInv => DispatchedWasAccepted
  BY DEF AcceptedInv
<1>2. QED BY <1>1, AcceptedInvariant, PTL

-----------------------------------------------------------------------------
(***************************************************************************)
(* Refinement.  A worker whose batch is older than the row may settle it   *)
(* after others have given it up or an operator has revived it, but it     *)
(* needs the lock to change the row and has seen the 2xx to finish it.     *)
(***************************************************************************)
Known ==
  /\ \A e \in Entry : row[e] = "absent" => attempts[e] = 0
  /\ \A w \in Worker : \A e \in batch[w] \cup current[w] : row[e] # "absent"
  /\ \A w \in Worker : pc[w] # "ready" => current[w] # {}

\* Only rows that exist are read, locked and POSTed.
LEMMA KnownInductive == LockInv /\ Known /\ [Next]_vars => Known'
<1> SUFFICES ASSUME LockInv, Known, [Next]_vars PROVE Known'
  OBVIOUS
<1> USE DEF LockInv, Known, TypeOK, PC, table, workers, counts, vars
<1>1. ASSUME NEW e \in Entry, enqueueWebhook(e) PROVE Known'
  BY <1>1 DEF enqueueWebhook
<1>2. ASSUME NEW e \in Entry, retryWebhook(e) PROVE Known'
  BY <1>2 DEF retryWebhook
<1>3. CASE Clock
  BY <1>3 DEF Clock, RunAtPasses, LockAges
<1>4. ASSUME NEW w \in Worker, getPendingWebhooks(w) PROVE Known'
  <2>1. PICK b \in SUBSET Pending : batch' = [batch EXCEPT ![w] = b]
    BY <1>4 DEF getPendingWebhooks
  <2>2. \A e \in b : row[e] # "absent"
    BY DEF Pending
  <2>3. QED BY <1>4, <2>1, <2>2 DEF getPendingWebhooks
<1>5. ASSUME NEW w \in Worker, NEW e \in Entry, lockWebhookEntry(w, e) PROVE Known'
  BY <1>5 DEF lockWebhookEntry
<1>6. ASSUME NEW w \in Worker, NEW e \in Entry, SkipEntry(w, e) PROVE Known'
  BY <1>6 DEF SkipEntry
<1>7. ASSUME NEW w \in Worker, dispatchWebhook(w) PROVE Known'
  BY <1>7 DEF dispatchWebhook
<1>8. ASSUME NEW w \in Worker, NEW e \in Entry,
             markDispatched(w, e) \/ recordFailure(w, e) \/ DeadLetter(w, e)
      PROVE Known'
  <2>1. /\ e \in current[w] /\ NextInBatch(w)
        /\ \A d \in Entry : row'[d] = "absent" => row[d] = "absent"
        /\ \A d \in Entry : row[d] = "absent" => row'[d] = "absent"
        /\ \A d \in Entry : d # e => attempts'[d] = attempts[d]
    BY <1>8 DEF markDispatched, recordFailure, DeadLetter
  <2>2. QED BY <2>1 DEF NextInBatch
<1>9. ASSUME NEW w \in Worker, AbandonBatch(w) PROVE Known'
  BY <1>9 DEF AbandonBatch
<1>10. CASE UNCHANGED vars
  BY <1>10
<1>11. QED
  BY <1>1, <1>2, <1>3, <1>4, <1>5, <1>6, <1>7, <1>8, <1>9, <1>10 DEF Next, Step, Settle

RefinementInv == LockInv /\ Known /\ AcceptedInv

\* A row and its attempts determine the abstract task.
LEMMA TaskStep ==
  ASSUME NEW e \in Entry, NEW s,
         \A d \in Entry : d # e => row'[d] = row[d] /\ attempts'[d] = attempts[d],
         StateOf(row'[e], attempts'[e]) = s
  PROVE  TaskState' = [TaskState EXCEPT ![e] = s]
  BY DEF TaskState

\* Every statement of processPendingWebhooks, enqueueWebhook and retryWebhook
\* is a step of AtLeastOnce or invisible to it.
THEOREM OutboxImplementsTasks == Spec => ImplementsTasks
<1>1. Init => Tasks!Init
  BY DEF Init, Tasks!Init, TaskState, StateOf
<1>2. RefinementInv /\ [Next]_vars => [Tasks!Next]_Tasks!taskVars
  <2> SUFFICES ASSUME RefinementInv, [Next]_vars
               PROVE  Tasks!Next \/ UNCHANGED <<TaskState, accepted>>
    BY DEF Tasks!taskVars
  <2> DEFINE Hidden == UNCHANGED <<TaskState, accepted>>
  <2>0. TypeOK
    BY DEF RefinementInv, LockInv
  <2> USE BoundsAssumption DEF table, workers, counts, vars
  <2>1. ASSUME NEW e \in Entry, enqueueWebhook(e) PROVE Tasks!Next
    <3>1. row[e] = "absent" /\ attempts[e] = 0 /\ row'[e] = "pending" /\ attempts'[e] = 0
      BY <2>0, <2>1 DEF enqueueWebhook, TypeOK, RefinementInv, Known
    <3>2. TaskState[e] = "none" /\ StateOf(row'[e], attempts'[e]) = "open"
      BY <3>1 DEF StateOf, TaskState
    <3>3. \A d \in Entry : d # e => row'[d] = row[d] /\ attempts'[d] = attempts[d]
      BY <2>0, <2>1 DEF enqueueWebhook, TypeOK
    <3>4. Tasks!Submit(e)
      BY <2>1, <3>2, <3>3, TaskStep DEF enqueueWebhook, Tasks!Submit
    <3>5. QED BY <3>4 DEF Tasks!Next
  <2>2. ASSUME NEW e \in Entry, retryWebhook(e) PROVE Tasks!Next \/ Hidden
    <3>1. row[e] = "pending" /\ row'[e] = "pending" /\ attempts'[e] = 0 /\ accepted' = accepted
      BY <2>0, <2>2 DEF retryWebhook, TypeOK
    <3>0. ~(attempts'[e] >= MAX_RETRIES)
      BY <3>1
    <3>2. TaskState[e] \in {"given up", "open"} /\ StateOf(row'[e], attempts'[e]) = "open"
      BY <3>0, <3>1 DEF StateOf, TaskState
    <3>3. \A d \in Entry : d # e => row'[d] = row[d] /\ attempts'[d] = attempts[d]
      BY <2>0, <2>2 DEF retryWebhook, TypeOK
    <3>4. TaskState' = [TaskState EXCEPT ![e] = "open"]
      BY <3>2, <3>3, TaskStep
    <3>5. CASE TaskState[e] = "given up"
      <4>1. Tasks!Revive(e)
        BY <3>1, <3>4, <3>5 DEF Tasks!Revive
      <4>2. QED BY <4>1 DEF Tasks!Next
    <3>6. CASE TaskState[e] = "open"
      BY <3>1, <3>4, <3>6 DEF TaskState
    <3>7. QED BY <3>2, <3>5, <3>6
  <2>3. CASE Clock
    BY <2>3 DEF Clock, RunAtPasses, LockAges, TaskState
  <2>4. ASSUME NEW w \in Worker,
               \/ getPendingWebhooks(w) \/ AbandonBatch(w)
               \/ \E e \in Entry : lockWebhookEntry(w, e) \/ SkipEntry(w, e)
        PROVE Hidden
    BY <2>4 DEF getPendingWebhooks, lockWebhookEntry, SkipEntry, AbandonBatch, TaskState
  <2>5. ASSUME NEW w \in Worker, dispatchWebhook(w) PROVE Tasks!Next \/ Hidden
    <3>1. TaskState' = TaskState
      BY <2>5 DEF dispatchWebhook, TaskState
    <3>2. PICK e \in Entry : current[w] = {e} /\ row[e] # "absent"
      BY <2>0, <2>5 DEF dispatchWebhook, RefinementInv, LockInv, InHand, Known, TypeOK, PC
    <3>3. TaskState[e] # "none"
      BY <2>0, <3>2 DEF TaskState, StateOf, TypeOK
    <3>4. CASE accepted' = accepted
      BY <3>1, <3>4
    <3>5. CASE accepted' = accepted \cup current[w]
      <4>1. Tasks!Perform(e)
        BY <3>1, <3>2, <3>3, <3>5 DEF Tasks!Perform
      <4>2. QED BY <4>1 DEF Tasks!Next
    <3>6. QED BY <2>5, <3>4, <3>5 DEF dispatchWebhook
  <2>6. ASSUME NEW w \in Worker, NEW e \in Entry, Owns(w, e) PROVE row[e] = "pending"
    BY <2>6, OwnerAssumption DEF Owns, RefinementInv, LockInv, NoLeakedLock
  <2>7. ASSUME NEW w \in Worker, NEW e \in Entry, markDispatched(w, e) PROVE Tasks!Next \/ Hidden
    <3>1. CASE Owns(w, e)
      <4>1. row[e] = "pending" /\ e \in accepted /\ accepted' = accepted
        BY <2>6, <2>7, <3>1 DEF markDispatched, NextInBatch, RefinementInv, AcceptedInv, AnswerInv
      <4>2. TaskState[e] \in {"given up", "open"}
        BY <4>1 DEF StateOf, TaskState
      <4>3. row'[e] = "dispatched"
        BY <2>0, <2>7, <3>1 DEF markDispatched, TypeOK
      <4>4. StateOf(row'[e], attempts'[e]) = "done"
        BY <4>3 DEF StateOf
      <4>5. \A d \in Entry : d # e => row'[d] = row[d] /\ attempts'[d] = attempts[d]
        BY <2>0, <2>7, <3>1 DEF markDispatched, TypeOK
      <4>6. Tasks!Finish(e)
        BY <4>1, <4>2, <4>4, <4>5, TaskStep DEF Tasks!Finish
      <4>7. QED BY <4>6 DEF Tasks!Next
    <3>2. CASE ~Owns(w, e)
      BY <2>7, <3>2 DEF markDispatched, NextInBatch, TaskState
    <3>3. QED BY <3>1, <3>2
  <2>8. ASSUME NEW w \in Worker, NEW e \in Entry, recordFailure(w, e) \/ DeadLetter(w, e)
        PROVE Tasks!Next \/ Hidden
    <3>0. accepted' = accepted /\ row' = row
      BY <2>8 DEF recordFailure, DeadLetter, NextInBatch
    <3>1. CASE Owns(w, e)
      <4>1. row[e] = "pending" /\ row'[e] = "pending"
        BY <2>6, <3>0, <3>1
      <4>2. attempts'[e] >= attempts[e] \/ attempts'[e] = MAX_RETRIES
        BY <2>0, <2>8, <3>1 DEF recordFailure, DeadLetter, TypeOK
      <4>3. \A d \in Entry : d # e => row'[d] = row[d] /\ attempts'[d] = attempts[d]
        BY <2>0, <2>8, <3>0, <3>1 DEF recordFailure, DeadLetter, TypeOK
      <4>4. attempts[e] \in Nat /\ attempts'[e] \in Nat
        BY <2>0, <2>8, <3>1 DEF recordFailure, DeadLetter, TypeOK
      <4>5. CASE attempts'[e] >= MAX_RETRIES
        <5>1. StateOf(row'[e], attempts'[e]) = "given up" /\ TaskState[e] \in {"given up", "open"}
          BY <4>1, <4>5 DEF StateOf, TaskState
        <5>2. TaskState' = [TaskState EXCEPT ![e] = "given up"]
          BY <4>3, <5>1, TaskStep
        <5>3. CASE TaskState[e] = "open"
          <6>1. Tasks!GiveUp(e)
            BY <3>0, <5>2, <5>3 DEF Tasks!GiveUp
          <6>2. QED BY <6>1 DEF Tasks!Next
        <5>4. CASE TaskState[e] = "given up"
          BY <3>0, <5>2, <5>4 DEF TaskState
        <5>5. QED BY <5>1, <5>3, <5>4
      <4>6. CASE ~(attempts'[e] >= MAX_RETRIES)
        <5>1. ~(attempts[e] >= MAX_RETRIES)
          BY <4>2, <4>4, <4>6
        <5>2. StateOf(row'[e], attempts'[e]) = "open" /\ TaskState[e] = "open"
          BY <4>1, <4>6, <5>1 DEF StateOf, TaskState
        <5>3. TaskState' = [TaskState EXCEPT ![e] = "open"]
          BY <4>3, <5>2, TaskStep
        <5>4. QED BY <3>0, <5>2, <5>3 DEF TaskState
      <4>7. QED BY <4>5, <4>6
    <3>2. CASE ~Owns(w, e)
      BY <2>8, <3>0, <3>2 DEF recordFailure, DeadLetter, TaskState
    <3>3. QED BY <3>1, <3>2
  <2>9. CASE UNCHANGED vars
    BY <2>9 DEF TaskState
  <2>10. QED
    BY <2>1, <2>2, <2>3, <2>4, <2>5, <2>7, <2>8, <2>9 DEF Next, Step, Settle
<1>3. Spec => []RefinementInv
  <2>1. Init => Known
    BY DEF Init, Known
  <2>2. QED
    BY <2>1, KnownInductive, LockInvariant, AcceptedInvariant, PTL DEF Spec, RefinementInv
<1>4. QED BY <1>1, <1>2, <1>3, PTL DEF Spec, ImplementsTasks, Tasks!Spec
=============================================================================
