------------------------ MODULE OutboundMessage_proofs ------------------------
(***************************************************************************)
(* Theorems about JobQueue and OutboundMessage, for every set of jobs, any *)
(* finite set of workers, every batch size and every number of faults.     *)
(* Those of the queue come first: the composition implements the queue, so *)
(* they hold of it without being proved again.                             *)
(***************************************************************************)
EXTENDS OutboundMessage, TLAPS, FiniteSetTheorems

\* A claim stamps a set of due jobs with the worker that claims them.
LEMMA ClaimedBatch ==
  ASSUME NEW w \in Worker, claimJobs(w)
  PROVE  \E b \in SUBSET Due :
           /\ queue' = [queue EXCEPT ![w] = b]
           /\ lockedBy' = [j \in Job |-> IF j \in b THEN w ELSE lockedBy[j]]
           /\ stale' = [j \in Job |-> IF j \in b THEN FALSE ELSE stale[j]]
  BY DEF claimJobs

TableOK ==
  /\ row \in [Job -> {"absent", "pending", "completed"}]
  /\ attempts \in [Job -> Nat]
  /\ due \in [Job -> BOOLEAN]
  /\ lockedBy \in [Job -> Worker \cup {NoOwner, GoneOwner}]
  /\ stale \in [Job -> BOOLEAN]

\* internal_job_complete writes columns of the right type.
LEMMA CompleteKeepsTypes ==
  ASSUME TableOK, NEW w \in Worker, NEW j \in Job, internal_job_complete(w, j)
  PROVE  TableOK'
<1>1. CASE Owns(w, j)
  BY <1>1 DEF internal_job_complete, Unlock, TableOK
<1>2. CASE ~Owns(w, j)
  BY <1>2 DEF internal_job_complete, table, TableOK
<1>3. QED BY <1>1, <1>2

\* internal_job_fail writes columns of the right type.
LEMMA FailKeepsTypes ==
  ASSUME TableOK, NEW w \in Worker, NEW j \in Job, internal_job_fail(w, j)
  PROVE  TableOK'
<1>1. CASE Owns(w, j)
  <2>1. attempts[j] + 1 \in Nat
    BY DEF TableOK
  <2>2. QED BY <1>1, <2>1 DEF internal_job_fail, Backoff, Unlock, TableOK
<1>2. CASE ~Owns(w, j)
  BY <1>2 DEF internal_job_fail, table, TableOK
<1>3. QED BY <1>1, <1>2

\* The columns of internal_job and the local state of processJobs keep their
\* types through every statement.
THEOREM JobTypeCorrect == JobSpec => []JobTypeOK
<1>1. JobInit => JobTypeOK
  BY JobBoundsAssumption DEF JobInit, JobTypeOK
<1>2. JobTypeOK /\ [JobNext]_jobVars => JobTypeOK'
  <2> SUFFICES ASSUME JobTypeOK, [JobNext]_jobVars PROVE JobTypeOK'
    OBVIOUS
  <2> USE JobBoundsAssumption DEF JobTypeOK, table, workers, history, jobVars
  <2>1. CASE Environment
    <3>1. ASSUME NEW j \in Job, internal_job_enqueue(j) PROVE JobTypeOK'
      BY <3>1 DEF internal_job_enqueue
    <3>2. ASSUME NEW j \in Job, RunAtPasses(j) PROVE JobTypeOK'
      BY <3>2 DEF RunAtPasses
    <3>3. ASSUME NEW j \in Job, LockAges(j) PROVE JobTypeOK'
      BY <3>3 DEF LockAges
    <3>4. QED BY <2>1, <3>1, <3>2, <3>3 DEF Environment
  <2>2. ASSUME NEW w \in Worker, claimJobs(w) PROVE JobTypeOK'
    <3>1. PICK b \in SUBSET Due :
            /\ queue' = [queue EXCEPT ![w] = b]
            /\ lockedBy' = [j \in Job |-> IF j \in b THEN w ELSE lockedBy[j]]
            /\ stale' = [j \in Job |-> IF j \in b THEN FALSE ELSE stale[j]]
      BY <2>2, ClaimedBatch
    <3>2. b \in SUBSET Job
      BY DEF Due
    <3>3. QED BY <2>2, <3>1, <3>2 DEF claimJobs
  <2>3. ASSUME NEW w \in Worker, NEW j \in Job, StartJob(w, j) PROVE JobTypeOK'
    <3>1. starts[j] + 1 \in Nat
      OBVIOUS
    <3>2. QED BY <2>3, <3>1 DEF StartJob
  <2>4. ASSUME NEW w \in Worker, NEW j \in Job, completeJob(w, j) PROVE JobTypeOK'
    <3>1. TableOK'
      BY <2>4, CompleteKeepsTypes DEF completeJob, TableOK
    <3>2. QED BY <2>4, <3>1 DEF completeJob, NextInBatch, TableOK
  <2>5. ASSUME NEW w \in Worker, NEW j \in Job, failJob(w, j) PROVE JobTypeOK'
    <3>1. TableOK'
      BY <2>5, FailKeepsTypes DEF failJob, TableOK
    <3>2. QED BY <2>5, <3>1 DEF failJob, NextInBatch, TableOK
  <2>6. ASSUME NEW w \in Worker, AnyHandlerReturns(w) PROVE JobTypeOK'
    BY <2>6 DEF AnyHandlerReturns, HandlerReturns
  <2>7. ASSUME NEW w \in Worker, AbandonBatch(w) PROVE JobTypeOK'
    BY <2>7 DEF AbandonBatch
  <2>8. ASSUME NEW w \in Worker, NEW j \in Job, CompleteJobThrows(w, j) PROVE JobTypeOK'
    <3>1. TableOK'
      BY <2>8, CompleteKeepsTypes DEF CompleteJobThrows, TableOK
    <3>2. QED BY <2>8, <3>1 DEF CompleteJobThrows, TableOK
  <2>9. CASE UNCHANGED jobVars
    BY <2>9
  <2>10. QED
    BY <2>1, <2>2, <2>3, <2>4, <2>5, <2>6, <2>7, <2>8, <2>9 DEF JobNext, Loop, Settle, Fault
<1>3. QED BY <1>1, <1>2, PTL DEF JobSpec

-----------------------------------------------------------------------------
(***************************************************************************)
(* The lock columns, the attempts column and the workers' batches.  A job  *)
(* whose turn it is has left the queue, there is one such job per worker,  *)
(* only pending jobs are locked, and a locked job is below the cap: that   *)
(* last fact is what makes the cap exact, since only the owner of a lock   *)
(* counts a failure.                                                       *)
(***************************************************************************)
OneAtATime ==
  \A w \in Worker : \A j \in running[w] : running[w] = {j} /\ j \notin queue[w]

LockedIsOpen ==
  \A j \in Job : lockedBy[j] # NoOwner => row[j] = "pending" /\ attempts[j] < MaxAttempts

LockInv == OneAtATime /\ LockedIsOpen /\ NoLeakedLock /\ AttemptsCapped

\* Claiming, the loop over the batch, a lock that times out under it and a
\* crash preserve the relation of locks, attempts and batches.
LEMMA LockInvInductive == JobTypeOK /\ LockInv /\ [JobNext]_jobVars => LockInv'
<1> SUFFICES ASSUME JobTypeOK, LockInv, [JobNext]_jobVars PROVE LockInv'
  OBVIOUS
<1> USE JobOwnerAssumption, JobBoundsAssumption
    DEF LockInv, OneAtATime, LockedIsOpen, NoLeakedLock, AttemptsCapped,
        JobTypeOK, table, workers, history, jobVars
<1>1. CASE Environment
  <2>1. ASSUME NEW j \in Job, internal_job_enqueue(j) PROVE LockInv'
    BY <2>1 DEF internal_job_enqueue
  <2>2. ASSUME NEW j \in Job, RunAtPasses(j) PROVE LockInv'
    BY <2>2 DEF RunAtPasses
  <2>3. ASSUME NEW j \in Job, LockAges(j) PROVE LockInv'
    BY <2>3 DEF LockAges
  <2>4. QED BY <1>1, <2>1, <2>2, <2>3 DEF Environment
<1>2. ASSUME NEW w \in Worker, claimJobs(w) PROVE LockInv'
  <2>1. PICK b \in SUBSET Due :
          /\ queue' = [queue EXCEPT ![w] = b]
          /\ lockedBy' = [j \in Job |-> IF j \in b THEN w ELSE lockedBy[j]]
          /\ stale' = [j \in Job |-> IF j \in b THEN FALSE ELSE stale[j]]
    BY <1>2, ClaimedBatch
  <2>2. \A j \in b : j \in Job /\ row[j] = "pending" /\ attempts[j] < MaxAttempts
    BY DEF Due
  <2>3. QED BY <1>2, <2>1, <2>2 DEF claimJobs
<1>3. ASSUME NEW w \in Worker, NEW j \in Job, StartJob(w, j) PROVE LockInv'
  BY <1>3 DEF StartJob
<1>4. ASSUME NEW w \in Worker, NEW j \in Job, completeJob(w, j) PROVE LockInv'
  BY <1>4 DEF completeJob, internal_job_complete, NextInBatch, Unlock, Owns
<1>5. ASSUME NEW w \in Worker, NEW j \in Job, failJob(w, j) PROVE LockInv'
  <2>1. CASE Owns(w, j)
    <3>1. attempts[j] + 1 <= MaxAttempts
      BY <2>1 DEF Owns
    <3>2. QED
      BY <1>5, <2>1, <3>1 DEF failJob, internal_job_fail, Backoff, NextInBatch, Unlock, Owns
  <2>2. CASE ~Owns(w, j)
    BY <1>5, <2>2 DEF failJob, internal_job_fail, NextInBatch, Owns
  <2>3. QED BY <2>1, <2>2
<1>6. ASSUME NEW w \in Worker, AnyHandlerReturns(w) PROVE LockInv'
  BY <1>6 DEF AnyHandlerReturns, HandlerReturns
<1>7. ASSUME NEW w \in Worker, AbandonBatch(w) PROVE LockInv'
  BY <1>7 DEF AbandonBatch
<1>8. ASSUME NEW w \in Worker, NEW j \in Job, CompleteJobThrows(w, j) PROVE LockInv'
  BY <1>8 DEF CompleteJobThrows, internal_job_complete, Unlock, Owns
<1>9. CASE UNCHANGED jobVars
  BY <1>9
<1>10. QED
  BY <1>1, <1>2, <1>3, <1>4, <1>5, <1>6, <1>7, <1>8, <1>9 DEF JobNext, Loop, Settle, Fault

\* The lock invariant holds in every reachable state.
LEMMA LockInvHolds == JobSpec => []LockInv
<1>1. JobInit => LockInv
  BY JobBoundsAssumption, JobOwnerAssumption
  DEF JobInit, LockInv, OneAtATime, LockedIsOpen, NoLeakedLock, AttemptsCapped
<1>2. QED BY <1>1, JobTypeCorrect, LockInvInductive, PTL DEF JobSpec

\* processJobs leaves no job locked behind: a lock that names a running worker
\* is on a job of its batch that is still to be settled.
THEOREM NoLockLeaks == JobSpec => []NoLeakedLock
<1>1. LockInv => NoLeakedLock
  BY DEF LockInv
<1>2. QED BY <1>1, LockInvHolds, PTL

\* internal_job_claim's cap is exact, however often locks time out and
\* workers race to settle the same job.
THEOREM AttemptCapIsExact == JobSpec => []AttemptsCapped
<1>1. LockInv => AttemptsCapped
  BY DEF LockInv
<1>2. QED BY <1>1, LockInvHolds, PTL

\* No statement of any worker changes a completed job.
THEOREM CompletedStays == JobSpec => CompletedIsFinal
<1> DEFINE Final ==
      \A j \in Job :
        row[j] = "completed" =>
          row'[j] = "completed" /\ attempts'[j] = attempts[j] /\ lockedBy'[j] = NoOwner
<1>1. JobTypeOK /\ LockInv /\ [JobNext]_jobVars => [Final]_jobVars
  <2> SUFFICES ASSUME JobTypeOK, LockInv, [JobNext]_jobVars PROVE [Final]_jobVars
    OBVIOUS
  <2> USE JobOwnerAssumption DEF LockInv, LockedIsOpen, JobTypeOK, table, workers, history, jobVars
  <2>1. CASE Environment
    BY <2>1 DEF Environment, internal_job_enqueue, RunAtPasses, LockAges
  <2>2. ASSUME NEW w \in Worker, claimJobs(w) PROVE Final
    BY <2>2 DEF claimJobs, Due
  <2>3. ASSUME NEW w \in Worker, NEW j \in Job, StartJob(w, j) PROVE Final
    BY <2>3 DEF StartJob
  <2>4. ASSUME NEW w \in Worker, NEW j \in Job, completeJob(w, j) PROVE Final
    BY <2>4 DEF completeJob, internal_job_complete, NextInBatch, Unlock, Owns
  <2>5. ASSUME NEW w \in Worker, NEW j \in Job, failJob(w, j) PROVE Final
    BY <2>5 DEF failJob, internal_job_fail, Backoff, NextInBatch, Unlock, Owns
  <2>6. ASSUME NEW w \in Worker, AnyHandlerReturns(w) PROVE Final
    BY <2>6 DEF AnyHandlerReturns, HandlerReturns
  <2>7. ASSUME NEW w \in Worker, AbandonBatch(w) PROVE Final
    BY <2>7 DEF AbandonBatch
  <2>8. ASSUME NEW w \in Worker, NEW j \in Job, CompleteJobThrows(w, j) PROVE Final
    BY <2>8 DEF CompleteJobThrows, internal_job_complete, Unlock, Owns
  <2>9. CASE UNCHANGED jobVars
    BY <2>9
  <2>10. QED
    BY <2>1, <2>2, <2>3, <2>4, <2>5, <2>6, <2>7, <2>8, <2>9 DEF JobNext, Loop, Settle, Fault
<1>2. QED BY <1>1, JobTypeCorrect, LockInvHolds, PTL DEF JobSpec, CompletedIsFinal

-----------------------------------------------------------------------------
(***************************************************************************)
(* Double processing.  Until a lock times out under its batch, every job   *)
(* of a batch is locked by its worker until it is settled, and a fresh     *)
(* lock of a running worker keeps the job out of everybody else's batch.   *)
(***************************************************************************)
InBatch(w) == queue[w] \cup running[w]

FreshLocks == \A j \in Job : stale[j] => lockedBy[j] \notin Worker

Held == \A w \in Worker : \A j \in InBatch(w) : lockedBy[j] = w \/ row[j] = "completed"

Disjoint == \A v, w \in Worker : v # w => InBatch(v) \cap InBatch(w) = {}

Exclusive == FreshLocks /\ Held /\ Disjoint

ExclusiveSoFar == overruns = 0 => Exclusive

\* Only a lock that ages under its batch could break the exclusion.
LEMMA ExclusiveInductive ==
  ASSUME JobTypeOK, OneAtATime, Exclusive, overruns' = 0, [JobNext]_jobVars
  PROVE  Exclusive'
<1> USE JobOwnerAssumption, JobBoundsAssumption
    DEF Exclusive, FreshLocks, Held, Disjoint, InBatch, OneAtATime,
        JobTypeOK, table, workers, history, jobVars
<1>1. CASE Environment
  <2>1. ASSUME NEW j \in Job, internal_job_enqueue(j) PROVE Exclusive'
    BY <2>1 DEF internal_job_enqueue
  <2>2. ASSUME NEW j \in Job, RunAtPasses(j) PROVE Exclusive'
    BY <2>2 DEF RunAtPasses
  <2>3. ASSUME NEW j \in Job, LockAges(j) PROVE Exclusive'
    <3>1. lockedBy[j] \notin Worker
      BY <2>3 DEF LockAges
    <3>2. QED BY <2>3, <3>1 DEF LockAges
  <2>4. QED BY <1>1, <2>1, <2>2, <2>3 DEF Environment
<1>2. ASSUME NEW w \in Worker, claimJobs(w) PROVE Exclusive'
  <2>1. PICK b \in SUBSET Due :
          /\ queue' = [queue EXCEPT ![w] = b]
          /\ lockedBy' = [j \in Job |-> IF j \in b THEN w ELSE lockedBy[j]]
          /\ stale' = [j \in Job |-> IF j \in b THEN FALSE ELSE stale[j]]
    BY <1>2, ClaimedBatch
  <2>2. \A j \in b : j \in Job /\ row[j] = "pending" /\ lockedBy[j] \notin Worker
    BY DEF Due, LockFree
  <2>3. \A v \in Worker : InBatch(v) \cap b = {}
    BY <2>2
  <2>4. /\ running' = running /\ row' = row
        /\ running[w] = {} /\ queue[w] = {}
    BY <1>2 DEF claimJobs
  <2>5. FreshLocks'
    BY <2>1
  <2>6. Held'
    <3>1. ASSUME NEW v \in Worker, NEW j \in InBatch(v)' PROVE lockedBy'[j] = v \/ row'[j] = "completed"
      <4>1. CASE v = w
        BY <2>1, <2>2, <2>4, <3>1, <4>1
      <4>2. CASE v # w
        <5>1. j \in InBatch(v) /\ j \notin b
          BY <2>1, <2>3, <2>4, <3>1, <4>2
        <5>2. QED BY <2>1, <2>4, <5>1
      <4>3. QED BY <4>1, <4>2
    <3>2. QED BY <3>1
  <2>7. Disjoint'
    BY <2>1, <2>3, <2>4
  <2>8. QED BY <2>5, <2>6, <2>7
<1>3. ASSUME NEW w \in Worker, NEW j \in Job, StartJob(w, j) PROVE Exclusive'
  BY <1>3 DEF StartJob
<1>4. ASSUME NEW w \in Worker, NEW j \in Job, completeJob(w, j) PROVE Exclusive'
  <2>1. CASE Owns(w, j)
    BY <1>4, <2>1 DEF completeJob, internal_job_complete, NextInBatch, Unlock, Owns
  <2>2. CASE ~Owns(w, j)
    BY <1>4, <2>2 DEF completeJob, internal_job_complete, NextInBatch
  <2>3. QED BY <2>1, <2>2
<1>5. ASSUME NEW w \in Worker, NEW j \in Job, failJob(w, j) PROVE Exclusive'
  <2>1. CASE Owns(w, j)
    BY <1>5, <2>1 DEF failJob, internal_job_fail, Backoff, NextInBatch, Unlock, Owns
  <2>2. CASE ~Owns(w, j)
    BY <1>5, <2>2 DEF failJob, internal_job_fail, NextInBatch
  <2>3. QED BY <2>1, <2>2
<1>6. ASSUME NEW w \in Worker, AnyHandlerReturns(w) PROVE Exclusive'
  BY <1>6 DEF AnyHandlerReturns, HandlerReturns
<1>7. ASSUME NEW w \in Worker, AbandonBatch(w) PROVE Exclusive'
  BY <1>7 DEF AbandonBatch
<1>8. ASSUME NEW w \in Worker, NEW j \in Job, CompleteJobThrows(w, j) PROVE Exclusive'
  <2>1. CASE internal_job_complete(w, j) /\ Owns(w, j)
    BY <1>8, <2>1 DEF CompleteJobThrows, internal_job_complete, Unlock, Owns
  <2>2. CASE UNCHANGED table
    BY <1>8, <2>2 DEF CompleteJobThrows
  <2>3. QED BY <1>8, <2>1, <2>2 DEF CompleteJobThrows, internal_job_complete
<1>9. CASE UNCHANGED jobVars
  BY <1>9
<1>10. QED
  BY <1>1, <1>2, <1>3, <1>4, <1>5, <1>6, <1>7, <1>8, <1>9 DEF JobNext, Loop, Settle, Fault

\* Overruns are only counted up.
LEMMA OverrunsGrow ==
  ASSUME JobTypeOK, [JobNext]_jobVars, overruns' = 0
  PROVE  overruns = 0
<1> USE DEF JobTypeOK, table, workers, history, jobVars
<1>1. CASE Environment
  BY <1>1 DEF Environment, internal_job_enqueue, RunAtPasses, LockAges
<1>2. ASSUME NEW w \in Worker, NEW j \in Job,
             StartJob(w, j) \/ completeJob(w, j) \/ failJob(w, j) \/ CompleteJobThrows(w, j)
      PROVE overruns' = overruns
  BY <1>2 DEF StartJob, completeJob, failJob, NextInBatch, CompleteJobThrows
<1>3. ASSUME NEW w \in Worker, claimJobs(w) \/ AnyHandlerReturns(w) \/ AbandonBatch(w)
      PROVE overruns' = overruns
  BY <1>3 DEF claimJobs, AnyHandlerReturns, HandlerReturns, AbandonBatch
<1>4. QED BY <1>1, <1>2, <1>3 DEF JobNext, Loop, Settle, Fault

\* Until a lock times out under its batch, two handlers never run on the same
\* job.
THEOREM NoDoubleRuns == JobSpec => []NoDoubleProcessing
<1>1. JobInit => ExclusiveSoFar
  BY DEF JobInit, ExclusiveSoFar, Exclusive, FreshLocks, Held, Disjoint, InBatch
<1>2. LockInv => OneAtATime
  BY DEF LockInv
<1>3. JobTypeOK /\ OneAtATime /\ ExclusiveSoFar /\ [JobNext]_jobVars => ExclusiveSoFar'
  BY ExclusiveInductive, OverrunsGrow DEF ExclusiveSoFar
<1>4. ExclusiveSoFar => NoDoubleProcessing
  BY DEF ExclusiveSoFar, Exclusive, Disjoint, InBatch, NoDoubleProcessing
<1>5. QED BY <1>1, <1>2, <1>3, <1>4, JobTypeCorrect, LockInvHolds, PTL DEF JobSpec

-----------------------------------------------------------------------------
(***************************************************************************)
(* Refinement.  completeJob finishes the abstract task, which must have    *)
(* been performed: a worker about to complete a job has seen its handler   *)
(* succeed, and CompleteJobThrows only adds failures.                      *)
(***************************************************************************)
SuccessIsReal ==
  /\ \A w \in Worker : outcome[w] = "success" => running[w] \subseteq succeeded
  /\ \A j \in Job : row[j] = "completed" => j \in succeeded
  /\ \A j \in Job : row[j] = "absent" => attempts[j] = 0 /\ j \notin succeeded
  /\ \A w \in Worker : \A j \in queue[w] \cup running[w] : row[j] # "absent"
  /\ \A w \in Worker : running[w] = {} => outcome[w] = "none"

\* No statement completes a job whose handler has not returned success.
LEMMA SuccessIsRealInductive ==
  JobTypeOK /\ LockInv /\ SuccessIsReal /\ [JobNext]_jobVars => SuccessIsReal'
<1> SUFFICES ASSUME JobTypeOK, LockInv, SuccessIsReal, [JobNext]_jobVars PROVE SuccessIsReal'
  OBVIOUS
<1> USE JobOwnerAssumption
    DEF SuccessIsReal, LockInv, OneAtATime, JobTypeOK, table, workers, history, jobVars
<1>1. CASE Environment
  BY <1>1 DEF Environment, internal_job_enqueue, RunAtPasses, LockAges
<1>2. ASSUME NEW w \in Worker, claimJobs(w) PROVE SuccessIsReal'
  <2>1. PICK b \in SUBSET Due : queue' = [queue EXCEPT ![w] = b]
    BY <1>2, ClaimedBatch
  <2>2. \A j \in b : row[j] # "absent"
    BY DEF Due
  <2>3. QED BY <1>2, <2>1, <2>2 DEF claimJobs
<1>3. ASSUME NEW w \in Worker, NEW j \in Job, StartJob(w, j) PROVE SuccessIsReal'
  BY <1>3 DEF StartJob
<1>4. ASSUME NEW w \in Worker, NEW j \in Job, completeJob(w, j) PROVE SuccessIsReal'
  <2>1. CASE Owns(w, j)
    BY <1>4, <2>1 DEF completeJob, internal_job_complete, NextInBatch, Unlock
  <2>2. CASE ~Owns(w, j)
    BY <1>4, <2>2 DEF completeJob, internal_job_complete, NextInBatch
  <2>3. QED BY <2>1, <2>2
<1>5. ASSUME NEW w \in Worker, NEW j \in Job, failJob(w, j) PROVE SuccessIsReal'
  <2>1. row' = row /\ \A i \in Job : i # j => attempts'[i] = attempts[i]
    BY <1>5 DEF failJob, internal_job_fail, Backoff
  <2>2. QED BY <1>5, <2>1 DEF failJob, NextInBatch
<1>6. ASSUME NEW w \in Worker, AnyHandlerReturns(w) PROVE SuccessIsReal'
  BY <1>6 DEF AnyHandlerReturns, HandlerReturns
<1>7. ASSUME NEW w \in Worker, AbandonBatch(w) PROVE SuccessIsReal'
  BY <1>7 DEF AbandonBatch
<1>8. ASSUME NEW w \in Worker, NEW j \in Job, CompleteJobThrows(w, j) PROVE SuccessIsReal'
  <2>1. row' \in {row, [row EXCEPT ![j] = "completed"]} /\ attempts' = attempts
    BY <1>8 DEF CompleteJobThrows, internal_job_complete
  <2>2. QED BY <1>8, <2>1 DEF CompleteJobThrows
<1>9. CASE UNCHANGED jobVars
  BY <1>9
<1>10. QED
  BY <1>1, <1>2, <1>3, <1>4, <1>5, <1>6, <1>7, <1>8, <1>9 DEF JobNext, Loop, Settle, Fault

LEMMA SuccessIsRealHolds == JobSpec => []SuccessIsReal
<1>1. JobInit => SuccessIsReal
  BY DEF JobInit, SuccessIsReal
<1>2. QED BY <1>1, SuccessIsRealInductive, JobTypeCorrect, LockInvHolds, PTL DEF JobSpec

\* Every statement of a worker, every failing query and every tick of the
\* clock is a step of AtLeastOnce or invisible to it.
THEOREM QueueImplementsTasks == JobSpec => ImplementsTasks
<1>1. JobInit => Tasks!Init
  BY DEF StateOf, JobInit, Tasks!Init, TaskState
<1>2. JobTypeOK /\ LockInv /\ SuccessIsReal /\ [JobNext]_jobVars => [Tasks!Next]_Tasks!taskVars
  <2> SUFFICES ASSUME JobTypeOK, LockInv, SuccessIsReal, [JobNext]_jobVars
               PROVE  Tasks!Next \/ UNCHANGED <<TaskState, succeeded>>
    BY DEF Tasks!taskVars
  <2> DEFINE Hidden == UNCHANGED <<TaskState, succeeded>>
  <2> USE JobBoundsAssumption DEF table, workers, history, jobVars
  <2>1. ASSUME NEW j \in Job, internal_job_enqueue(j) PROVE Tasks!Next
    <3>1. row[j] = "absent" /\ attempts[j] = 0 /\ row'[j] = "pending" /\ attempts'[j] = 0
      BY <2>1 DEF internal_job_enqueue, JobTypeOK, SuccessIsReal
    <3>2. TaskState[j] = "none" /\ StateOf(row'[j], attempts'[j]) = "open"
      BY <3>1 DEF StateOf, TaskState
    <3>3. \A i \in Job : i # j => row'[i] = row[i] /\ attempts'[i] = attempts[i]
      BY <2>1 DEF internal_job_enqueue, JobTypeOK
    <3>4. TaskState' = [TaskState EXCEPT ![j] = "open"]
      BY <3>2, <3>3 DEF TaskState
    <3>5. Tasks!Submit(j)
      BY <2>1, <3>2, <3>4 DEF internal_job_enqueue, Tasks!Submit
    <3>6. QED BY <3>5 DEF Tasks!Next
  <2>2. ASSUME NEW j \in Job, RunAtPasses(j) \/ LockAges(j) PROVE Hidden
    BY <2>2 DEF RunAtPasses, LockAges, TaskState
  <2>3. ASSUME NEW w \in Worker, claimJobs(w) \/ AbandonBatch(w) PROVE Hidden
    BY <2>3 DEF claimJobs, AbandonBatch, TaskState
  <2>4. ASSUME NEW w \in Worker, NEW j \in Job, StartJob(w, j) PROVE Tasks!Next \/ Hidden
    <3>1. TaskState' = TaskState
      BY <2>4 DEF StartJob, TaskState
    <3>2. TaskState[j] # "none"
      BY <2>4 DEF StateOf, StartJob, SuccessIsReal, TaskState, JobTypeOK
    <3>3. CASE j \in UnknownKind
      <4>1. Tasks!Perform(j)
        BY <2>4, <3>1, <3>2, <3>3 DEF StartJob, Tasks!Perform
      <4>2. QED BY <4>1 DEF Tasks!Next
    <3>4. CASE j \notin UnknownKind
      BY <2>4, <3>1, <3>4 DEF StartJob
    <3>5. QED BY <3>3, <3>4
  <2>5. ASSUME NEW w \in Worker, NEW result \in {"success", "failure"}, HandlerReturns(w, result)
        PROVE Tasks!Next \/ Hidden
    <3>1. TaskState' = TaskState
      BY <2>5 DEF HandlerReturns, TaskState
    <3>2. PICK j \in Job : running[w] = {j} /\ row[j] # "absent"
      BY <2>5 DEF HandlerReturns, LockInv, OneAtATime, SuccessIsReal, JobTypeOK
    <3>3. CASE result = "success"
      <4>1. Tasks!Perform(j)
        BY <2>5, <3>1, <3>2, <3>3 DEF StateOf, HandlerReturns, Tasks!Perform, TaskState, JobTypeOK
      <4>2. QED BY <4>1 DEF Tasks!Next
    <3>4. CASE result # "success"
      BY <2>5, <3>1, <3>4 DEF HandlerReturns
    <3>5. QED BY <3>3, <3>4
  <2>6. ASSUME NEW w \in Worker, NEW j \in Job, running[w] = {j}, outcome[w] = "success",
               internal_job_complete(w, j), UNCHANGED history
        PROVE Tasks!Next \/ Hidden
    <3>1. CASE Owns(w, j)
      <4>1. row[j] = "pending" /\ j \in succeeded
        BY <2>6, <3>1, JobOwnerAssumption DEF Owns, LockInv, LockedIsOpen, SuccessIsReal
      <4>2. TaskState[j] \in {"open", "given up"}
        BY <4>1 DEF StateOf, TaskState, JobTypeOK
      <4>3. TaskState' = [TaskState EXCEPT ![j] = "done"]
        BY <2>6, <3>1 DEF StateOf, internal_job_complete, TaskState, JobTypeOK
      <4>4. Tasks!Finish(j)
        BY <2>6, <4>1, <4>2, <4>3 DEF Tasks!Finish
      <4>5. QED BY <4>4 DEF Tasks!Next
    <3>2. CASE ~Owns(w, j)
      BY <2>6, <3>2 DEF internal_job_complete, TaskState
    <3>3. QED BY <3>1, <3>2
  <2>7. ASSUME NEW w \in Worker, NEW j \in Job, failJob(w, j) PROVE Tasks!Next \/ Hidden
    <3>1. succeeded' = succeeded
      BY <2>7 DEF failJob, NextInBatch
    <3>2. CASE Owns(w, j)
      <4>1. row[j] = "pending" /\ attempts[j] < MaxAttempts
        BY <3>2, JobOwnerAssumption DEF Owns, LockInv, LockedIsOpen
      <4>2. row' = row /\ attempts' = [attempts EXCEPT ![j] = @ + 1]
        BY <2>7, <3>2 DEF failJob, internal_job_fail, Backoff
      <4>3. CASE attempts[j] + 1 >= MaxAttempts
        <5>1. TaskState[j] = "open" /\ StateOf(row'[j], attempts'[j]) = "given up"
          BY <4>1, <4>2, <4>3 DEF StateOf, TaskState, JobTypeOK
        <5>2. \A i \in Job : i # j => row'[i] = row[i] /\ attempts'[i] = attempts[i]
          BY <4>2 DEF JobTypeOK
        <5>3. TaskState' = [TaskState EXCEPT ![j] = "given up"]
          BY <5>1, <5>2 DEF TaskState
        <5>4. Tasks!GiveUp(j)
          BY <3>1, <5>1, <5>3 DEF Tasks!GiveUp
        <5>5. QED BY <5>4 DEF Tasks!Next
      <4>4. CASE ~(attempts[j] + 1 >= MaxAttempts)
        <5>1. TaskState' = TaskState
          BY <4>1, <4>2, <4>4 DEF StateOf, TaskState, JobTypeOK
        <5>2. QED BY <3>1, <5>1
      <4>5. QED BY <4>3, <4>4
    <3>3. CASE ~Owns(w, j)
      BY <2>7, <3>1, <3>3 DEF failJob, internal_job_fail, TaskState
    <3>4. QED BY <3>2, <3>3
  <2>8. ASSUME NEW w \in Worker, NEW j \in Job, completeJob(w, j) PROVE Tasks!Next \/ Hidden
    BY <2>6, <2>8 DEF completeJob, NextInBatch
  <2>9. ASSUME NEW w \in Worker, NEW j \in Job, CompleteJobThrows(w, j) PROVE Tasks!Next \/ Hidden
    <3>1. CASE internal_job_complete(w, j)
      BY <2>6, <2>9, <3>1 DEF CompleteJobThrows
    <3>2. CASE UNCHANGED table
      BY <2>9, <3>2 DEF CompleteJobThrows, TaskState
    <3>3. QED BY <2>9, <3>1, <3>2 DEF CompleteJobThrows
  <2>10. CASE UNCHANGED jobVars
    BY <2>10 DEF TaskState
  <2>11. QED
    BY <2>1, <2>2, <2>3, <2>4, <2>5, <2>7, <2>8, <2>9, <2>10
    DEF JobNext, Environment, Loop, Settle, AnyHandlerReturns, Fault
<1>3. QED
  BY <1>1, <1>2, JobTypeCorrect, LockInvHolds, SuccessIsRealHolds, PTL
  DEF JobSpec, ImplementsTasks, Tasks!Spec

-----------------------------------------------------------------------------
(***************************************************************************)
(* How often a handler is started.  A job can be started again by every    *)
(* worker that has it in its queue, and by one more if its lock is free or *)
(* has timed out.  Starts made plus starts to come never exceed one plus   *)
(* the counted failures, the faults and the overruns so far.               *)
(***************************************************************************)
\* What a set that loses or gains one member does to a count of it.
LEMMA OneMoreOrLess ==
  ASSUME NEW S, IsFiniteSet(S), NEW w
  PROVE  /\ \A T \in SUBSET S : Cardinality(T) <= Cardinality(S)
         /\ \A T \in SUBSET (S \cup {w}) : Cardinality(T) <= Cardinality(S) + 1
         /\ w \in S => \A T \in SUBSET (S \ {w}) : Cardinality(T) + 1 <= Cardinality(S)
<1>1. Cardinality(S) \in Nat
  BY FS_CardinalityType
<1>2. IsFiniteSet(S \cup {w}) /\ Cardinality(S \cup {w}) <= Cardinality(S) + 1
  BY <1>1, FS_AddElement
<1>3. w \in S => IsFiniteSet(S \ {w}) /\ Cardinality(S \ {w}) = Cardinality(S) - 1
  BY FS_RemoveElement
<1>4. \A T \in SUBSET S : Cardinality(T) <= Cardinality(S)
  BY FS_Subset
<1>5. ASSUME NEW T \in SUBSET (S \cup {w}) PROVE Cardinality(T) <= Cardinality(S) + 1
  <2>1. Cardinality(T) <= Cardinality(S \cup {w}) /\ IsFiniteSet(T)
    BY <1>2, FS_Subset
  <2>2. Cardinality(T) \in Nat /\ Cardinality(S \cup {w}) \in Nat
    BY <1>2, <2>1, FS_CardinalityType
  <2>3. QED BY <1>1, <1>2, <2>1, <2>2
<1>6. ASSUME w \in S, NEW T \in SUBSET (S \ {w}) PROVE Cardinality(T) + 1 <= Cardinality(S)
  <2>1. Cardinality(T) <= Cardinality(S \ {w}) /\ IsFiniteSet(T)
    BY <1>3, <1>6, FS_Subset
  <2>2. Cardinality(T) \in Nat
    BY <2>1, FS_CardinalityType
  <2>3. QED BY <1>1, <1>3, <1>6, <2>1, <2>2
<1>7. QED BY <1>4, <1>5, <1>6

Turns(j) == {w \in Worker : j \in queue[w]}

Unheld(j) == row[j] # "completed" /\ (lockedBy[j] \notin Worker \/ stale[j])

Excuses(j) == 1 + attempts[j] + faults + overruns

StartsInv ==
  \A j \in Job : starts[j] + Cardinality(Turns(j)) + (IF Unheld(j) THEN 1 ELSE 0) <= Excuses(j)

\* The ways a step can change the account of job j.
LeavesAlone(j) == /\ starts'[j] = starts[j]
                  /\ Turns(j)' \subseteq Turns(j)
                  /\ Unheld(j)' => Unheld(j)
                  /\ Excuses(j)' = Excuses(j)
Claims(j) == /\ starts'[j] = starts[j]
             /\ \E w \in Worker : Turns(j)' \subseteq Turns(j) \cup {w}
             /\ Unheld(j) /\ ~Unheld(j)'
             /\ Excuses(j)' = Excuses(j)
Excused(j) == /\ starts'[j] = starts[j]
              /\ Turns(j)' \subseteq Turns(j)
              /\ Excuses(j)' = Excuses(j) + 1
Starts(j) == /\ starts'[j] \in {starts[j], starts[j] + 1}
             /\ \E w \in Turns(j) : Turns(j)' \subseteq Turns(j) \ {w}
             /\ Unheld(j)' => Unheld(j)
             /\ Excuses(j)' = Excuses(j)

StartCounted(j) == LeavesAlone(j) \/ Claims(j) \/ Excused(j) \/ Starts(j)

\* Every statement of the queue is one of the four.
LEMMA EveryStartIsCounted ==
  ASSUME JobTypeOK, [JobNext]_jobVars, NEW i \in Job
  PROVE  StartCounted(i)
<1>0. /\ overruns \in Nat /\ faults \in Nat /\ attempts[i] \in Nat
      /\ row \in [Job -> {"absent", "pending", "completed"}]
      /\ attempts \in [Job -> Nat] /\ starts \in [Job -> Nat]
      /\ lockedBy \in [Job -> Worker \cup {NoOwner, GoneOwner}]
      /\ stale \in [Job -> BOOLEAN] /\ queue \in [Worker -> SUBSET Job]
  BY JobBoundsAssumption DEF JobTypeOK
<1>1. ASSUME NEW j \in Job, internal_job_enqueue(j) \/ RunAtPasses(j) PROVE LeavesAlone(i)
  <2>1. /\ UNCHANGED <<attempts, lockedBy, stale, queue, starts, faults, overruns>>
        /\ row'[i] # "completed" => row[i] # "completed"
    BY <1>0, <1>1 DEF internal_job_enqueue, RunAtPasses, workers, history
  <2>2. QED BY <2>1 DEF LeavesAlone, Turns, Unheld, Excuses
<1>2. ASSUME NEW j \in Job, LockAges(j) PROVE LeavesAlone(i) \/ Excused(i)
  <2>1. /\ UNCHANGED <<row, attempts, lockedBy, queue, starts, faults>>
        /\ stale' = [stale EXCEPT ![j] = TRUE]
    BY <1>2 DEF LockAges, workers, history
  <2>2. Turns(i)' = Turns(i)
    BY <2>1 DEF Turns
  <2>3. CASE lockedBy[j] \in Worker
    <3>1. overruns' = overruns + 1
      BY <1>2, <2>3 DEF LockAges
    <3>2. QED BY <1>0, <2>1, <2>2, <3>1 DEF Excused, Excuses
  <2>4. CASE lockedBy[j] \notin Worker
    <3>1. overruns' = overruns
      BY <1>2, <2>4 DEF LockAges
    <3>2. Unheld(i)' => Unheld(i)
      BY <1>0, <2>1, <2>4 DEF Unheld
    <3>3. QED BY <2>1, <2>2, <3>1, <3>2 DEF LeavesAlone, Excuses
  <2>5. QED BY <2>3, <2>4
<1>3. ASSUME NEW w \in Worker, claimJobs(w) PROVE LeavesAlone(i) \/ Claims(i)
  <2>1. PICK b \in SUBSET Due :
          /\ queue' = [queue EXCEPT ![w] = b]
          /\ lockedBy' = [k \in Job |-> IF k \in b THEN w ELSE lockedBy[k]]
          /\ stale' = [k \in Job |-> IF k \in b THEN FALSE ELSE stale[k]]
    BY <1>3, ClaimedBatch
  <2>2. queue[w] = {} /\ UNCHANGED <<row, attempts, starts, faults, overruns>>
    BY <1>3 DEF claimJobs, history
  <2>3. Excuses(i)' = Excuses(i) /\ starts'[i] = starts[i]
    BY <2>2 DEF Excuses
  <2>4. CASE i \in b
    <3>1. Unheld(i)
      BY <2>4, JobOwnerAssumption DEF Due, LockFree, Unheld
    <3>2. ~Unheld(i)'
      BY <2>1, <2>4 DEF Unheld
    <3>3. Turns(i)' \subseteq Turns(i) \cup {w}
      BY <1>0, <2>1 DEF Turns
    <3>4. QED BY <2>3, <3>1, <3>2, <3>3 DEF Claims
  <2>5. CASE i \notin b
    <3>1. Turns(i)' \subseteq Turns(i)
      BY <1>0, <2>1, <2>5 DEF Turns
    <3>2. Unheld(i)' => Unheld(i)
      BY <2>1, <2>2, <2>5 DEF Unheld
    <3>3. QED BY <2>3, <3>1, <3>2 DEF LeavesAlone
  <2>6. QED BY <2>4, <2>5
<1>4. ASSUME NEW w \in Worker, NEW j \in Job, StartJob(w, j) PROVE LeavesAlone(i) \/ Starts(i)
  <2>1. /\ UNCHANGED <<row, attempts, lockedBy, stale, faults, overruns>>
        /\ j \in queue[w] /\ queue' = [queue EXCEPT ![w] = @ \ {j}]
        /\ starts' = starts \/ starts' = [starts EXCEPT ![j] = @ + 1]
    BY <1>4 DEF StartJob, table
  <2>2. Excuses(i)' = Excuses(i) /\ (Unheld(i)' => Unheld(i))
    BY <2>1 DEF Excuses, Unheld
  <2>3. CASE i = j
    <3>1. w \in Turns(i) /\ Turns(i)' \subseteq Turns(i) \ {w}
      BY <1>0, <2>1, <2>3 DEF Turns
    <3>2. starts'[i] \in {starts[i], starts[i] + 1}
      BY <1>0, <2>1
    <3>3. QED BY <2>2, <3>1, <3>2 DEF Starts
  <2>4. CASE i # j
    <3>1. Turns(i)' \subseteq Turns(i)
      BY <1>0, <2>1 DEF Turns
    <3>2. starts'[i] = starts[i]
      BY <1>0, <2>1, <2>4
    <3>3. QED BY <2>2, <3>1, <3>2 DEF LeavesAlone
  <2>5. QED BY <2>3, <2>4
<1>5. ASSUME NEW w \in Worker, NEW j \in Job, completeJob(w, j) PROVE LeavesAlone(i)
  <2>1. UNCHANGED <<attempts, queue, starts, faults, overruns>>
    BY <1>5 DEF completeJob, internal_job_complete, NextInBatch, table, history
  <2>2. Unheld(i)' => Unheld(i)
    BY <1>0, <1>5 DEF completeJob, internal_job_complete, Unlock, table, Unheld
  <2>3. QED BY <2>1, <2>2 DEF LeavesAlone, Turns, Excuses
<1>6. ASSUME NEW w \in Worker, NEW j \in Job, failJob(w, j) PROVE LeavesAlone(i) \/ Excused(i)
  <2>1. UNCHANGED <<row, queue, starts, faults, overruns>>
    BY <1>6 DEF failJob, internal_job_fail, NextInBatch, table, history
  <2>2. CASE Owns(w, j) /\ i = j
    <3>1. attempts'[i] = attempts[i] + 1
      BY <1>0, <1>6, <2>2 DEF failJob, internal_job_fail, Backoff
    <3>2. QED BY <1>0, <2>1, <3>1 DEF Excused, Turns, Excuses
  <2>3. CASE ~(Owns(w, j) /\ i = j)
    <3>1. attempts'[i] = attempts[i] /\ lockedBy'[i] = lockedBy[i] /\ stale'[i] = stale[i]
      BY <1>0, <1>6, <2>3 DEF failJob, internal_job_fail, Backoff, Unlock, table
    <3>2. QED BY <2>1, <3>1 DEF LeavesAlone, Turns, Unheld, Excuses
  <2>4. QED BY <2>2, <2>3
<1>7. ASSUME NEW w \in Worker, AnyHandlerReturns(w) PROVE LeavesAlone(i)
  <2>1. UNCHANGED <<row, attempts, lockedBy, stale, queue, starts, faults, overruns>>
    BY <1>7 DEF AnyHandlerReturns, HandlerReturns, table
  <2>2. QED BY <2>1 DEF LeavesAlone, Turns, Unheld, Excuses
<1>8. ASSUME NEW w \in Worker, AbandonBatch(w) PROVE Excused(i)
  <2>1. /\ UNCHANGED <<attempts, starts, overruns>> /\ faults' = faults + 1
        /\ queue' = [queue EXCEPT ![w] = {}]
    BY <1>8 DEF AbandonBatch, history
  <2>2. Turns(i)' \subseteq Turns(i)
    BY <1>0, <2>1 DEF Turns
  <2>3. QED BY <1>0, <2>1, <2>2 DEF Excused, Excuses
<1>9. ASSUME NEW w \in Worker, NEW j \in Job, CompleteJobThrows(w, j) PROVE Excused(i)
  <2>1. UNCHANGED <<attempts, queue, starts, overruns>> /\ faults' = faults + 1
    BY <1>9 DEF CompleteJobThrows, internal_job_complete, table, history
  <2>2. QED BY <1>0, <2>1 DEF Excused, Turns, Excuses
<1>10. CASE UNCHANGED jobVars
  <2>1. UNCHANGED <<row, attempts, lockedBy, stale, queue, starts, faults, overruns>>
    BY <1>10 DEF jobVars, table, workers, history
  <2>2. QED BY <2>1 DEF StartCounted, LeavesAlone, Turns, Unheld, Excuses
<1>11. QED
  BY <1>1, <1>2, <1>3, <1>4, <1>5, <1>6, <1>7, <1>8, <1>9, <1>10
  DEF StartCounted, JobNext, Environment, Loop, Settle, Fault

\* A worker that holds the lock of a pending job has the job in its queue or
\* underway, and any other pending job is unheld.
LEMMA StartToCome ==
  ASSUME JobTypeOK, LockInv, NEW j \in Job,
         row[j] # "completed", ~Underway(j), ~Unheld(j)
  PROVE  Turns(j) # {}
<1>1. PICK w \in Worker : lockedBy[j] = w
  BY DEF Unheld
<1>2. j \in queue[w] \cup running[w]
  BY <1>1 DEF LockInv, NoLeakedLock
<1>3. j \notin running[w]
  BY DEF LockInv, OneAtATime, Underway
<1>4. QED BY <1>2, <1>3 DEF Turns

\* Nothing but a counted failure, a fault or a lock that timed out under its
\* batch makes processJobs start a handler again.
THEOREM StartsArePaidFor == JobSpec => []StartsAccountedFor
<1>1. JobInit => StartsInv
  <2> SUFFICES ASSUME JobInit, NEW j \in Job
               PROVE starts[j] + Cardinality(Turns(j)) + (IF Unheld(j) THEN 1 ELSE 0) <= Excuses(j)
    BY DEF StartsInv
  <2>1. Turns(j) = {}
    BY DEF JobInit, Turns
  <2>2. Cardinality(Turns(j)) = 0
    BY <2>1, FS_EmptySet
  <2>3. QED BY <2>2 DEF JobInit, Excuses
<1>2. \A j \in Job : IsFiniteSet(Turns(j)) /\ IsFiniteSet(Turns(j)')
  <2>1. ASSUME NEW j \in Job PROVE Turns(j) \in SUBSET Worker /\ Turns(j)' \in SUBSET Worker
    BY DEF Turns
  <2>2. QED BY <2>1, WorkersAssumption, FS_Subset
<1>3. JobTypeOK /\ JobTypeOK' /\ StartsInv /\ [JobNext]_jobVars => StartsInv'
  <2> SUFFICES ASSUME JobTypeOK, JobTypeOK', StartsInv, [JobNext]_jobVars, NEW j \in Job
               PROVE  starts'[j] + Cardinality(Turns(j)') + (IF Unheld(j)' THEN 1 ELSE 0) <= Excuses(j)'
    BY DEF StartsInv
  <2> DEFINE n == Cardinality(Turns(j))
             m == Cardinality(Turns(j)')
             e == Excuses(j)
             f == Excuses(j)'
  <2>1. n \in Nat /\ m \in Nat
    BY <1>2, FS_CardinalityType
  <2>2. starts[j] \in Nat /\ e \in Nat /\ starts'[j] \in Nat
    BY JobBoundsAssumption DEF JobTypeOK, Excuses
  <2>3. starts[j] + n + (IF Unheld(j) THEN 1 ELSE 0) <= e
    BY DEF StartsInv
  <2>4. CASE LeavesAlone(j)
    <3>1. m <= n /\ f = e
      BY <1>2, <2>4, OneMoreOrLess DEF LeavesAlone
    <3> HIDE DEF n, m, e, f
    <3>2. starts'[j] + m + (IF Unheld(j)' THEN 1 ELSE 0) <= f
      BY <2>1, <2>2, <2>3, <2>4, <3>1 DEF LeavesAlone
    <3>3. QED BY <3>2 DEF m, f
  <2>5. CASE Claims(j)
    <3>1. m <= n + 1 /\ f = e
      BY <1>2, <2>5, OneMoreOrLess DEF Claims
    <3> HIDE DEF n, m, e, f
    <3>2. starts'[j] + m + (IF Unheld(j)' THEN 1 ELSE 0) <= f
      BY <2>1, <2>2, <2>3, <2>5, <3>1 DEF Claims
    <3>3. QED BY <3>2 DEF m, f
  <2>6. CASE Excused(j)
    <3>1. m <= n /\ f = e + 1
      BY <1>2, <2>6, OneMoreOrLess DEF Excused
    <3> HIDE DEF n, m, e, f
    <3>2. starts'[j] + m + (IF Unheld(j)' THEN 1 ELSE 0) <= f
      BY <2>1, <2>2, <2>3, <2>6, <3>1 DEF Excused
    <3>3. QED BY <3>2 DEF m, f
  <2>7. CASE Starts(j)
    <3>1. m + 1 <= n /\ f = e
      BY <1>2, <2>7, OneMoreOrLess DEF Starts
    <3> HIDE DEF n, m, e, f
    <3>2. starts'[j] + m + (IF Unheld(j)' THEN 1 ELSE 0) <= f
      BY <2>1, <2>2, <2>3, <2>7, <3>1 DEF Starts
    <3>3. QED BY <3>2 DEF m, f
  <2>8. QED BY <2>4, <2>5, <2>6, <2>7, EveryStartIsCounted DEF StartCounted
<1>4. JobTypeOK /\ LockInv /\ StartsInv => StartsAccountedFor
  <2> SUFFICES ASSUME JobTypeOK, LockInv, StartsInv, NEW j \in Job
               PROVE  starts[j] <= attempts[j] + faults + overruns
                                   + (IF row[j] = "completed" \/ Underway(j) THEN 1 ELSE 0)
    BY DEF StartsAccountedFor
  <2> DEFINE n == Cardinality(Turns(j))
  <2>1. n \in Nat /\ (n = 0 => Turns(j) = {})
    BY <1>2, FS_CardinalityType, FS_EmptySet
  <2>2. starts[j] \in Nat /\ attempts[j] \in Nat /\ faults \in Nat /\ overruns \in Nat
    BY JobBoundsAssumption DEF JobTypeOK
  <2>3. starts[j] + n + (IF Unheld(j) THEN 1 ELSE 0) <= 1 + attempts[j] + faults + overruns
    BY DEF StartsInv, Excuses
  <2> HIDE DEF n
  <2>4. CASE row[j] = "completed" \/ Underway(j)
    BY <2>1, <2>2, <2>3, <2>4
  <2>5. CASE ~(row[j] = "completed" \/ Underway(j))
    <3>1. Unheld(j) \/ n # 0
      BY <2>1, <2>5, StartToCome, FS_EmptySet DEF n
    <3>2. QED BY <2>1, <2>2, <2>3, <2>5, <3>1
  <2>6. QED BY <2>4, <2>5
<1>5. QED BY <1>1, <1>3, <1>4, JobTypeCorrect, LockInvHolds, PTL DEF JobSpec

-----------------------------------------------------------------------------
(***************************************************************************)
(* The composition of the queue with messages, handlers and callbacks.     *)
(***************************************************************************)
\* The handlers, callbacks and queries only do to internal_job what the queue
\* itself may do.
THEOREM MessagesImplementQueue == Spec => JobSpec
<1>1. Init => JobInit
  BY DEF Init
<1>2. [Next]_vars => [JobNext]_jobVars
  <2> SUFFICES ASSUME [Next]_vars PROVE JobNext \/ UNCHANGED jobVars
    OBVIOUS
  <2>1. ASSUME NEW j \in Job, EnqueueMessage(j) \/ Clock(j) PROVE JobNext
    BY <2>1 DEF EnqueueMessage, Clock, JobNext, Environment
  <2>2. ASSUME NEW w \in Worker, NEW result \in {"success", "failure"}, Return(w, result)
        PROVE JobNext
    BY <2>2 DEF Return, JobNext, AnyHandlerReturns
  <2>3. ASSUME NEW w \in Worker, NEW j \in Job, Handler(w, j)
        PROVE JobNext \/ UNCHANGED jobVars
    BY <2>2, <2>3
    DEF Handler, MarkSending, ProviderCreate, RecordSent, GiveUp, Goto
  <2>4. ASSUME NEW w \in Worker, WorkerStep(w) PROVE JobNext \/ UNCHANGED jobVars
    BY <2>3, <2>4 DEF WorkerStep, StartHandler, JobNext, Loop
  <2>5. ASSUME NEW w \in Worker, Failure(w) PROVE JobNext \/ UNCHANGED jobVars
    <3>1. ASSUME NEW j \in Job, QueryFails(w, j) PROVE JobNext \/ UNCHANGED jobVars
      BY <2>2, <3>1 DEF QueryFails, Goto
    <3>2. QED BY <2>5, <3>1 DEF Failure, Crash, JobNext, Fault
  <2>6. CASE Callbacks
    BY <2>6 DEF Callbacks, LookUp, ApplyCallback, CallbackDies
  <2>7. CASE UNCHANGED vars
    BY <2>7 DEF vars
  <2>8. QED BY <2>1, <2>4, <2>5, <2>6, <2>7 DEF Next
<1>3. QED BY <1>1, <1>2, PTL DEF Spec, JobSpec

\* So the composition keeps the queue's promise: a message job is never
\* completed before its handler has succeeded, and stays completed.
THEOREM MessagesImplementTasks == Spec => ImplementsTasks
  BY MessagesImplementQueue, QueueImplementsTasks, PTL

\* What the queue guarantees of every state of the composition.
QueueInv == JobTypeOK /\ LockInv /\ SuccessIsReal

LEMMA QueueInvHolds == Spec => []QueueInv
  BY MessagesImplementQueue, JobTypeCorrect, LockInvHolds, SuccessIsRealHolds, PTL DEF QueueInv

-----------------------------------------------------------------------------
MessageTypeOK ==
  /\ email \in SUBSET Job
  /\ status \in [Job -> Status \cup {"none"}]
  /\ sid \in [Job -> Nat]
  /\ step \in [Worker -> Step]
  /\ made \in [Worker -> Nat]
  /\ created \in [Job -> Nat]
  /\ calls \in SUBSET Callback
  /\ flagged \in SUBSET Job
  /\ errors \in 0..MaxErrors

\* The columns of external_message and the handlers' local state keep their
\* types through every query, provider call and callback.
LEMMA MessageTypeInductive == MessageTypeOK /\ [Next]_vars => MessageTypeOK'
<1> SUFFICES ASSUME MessageTypeOK, [Next]_vars PROVE MessageTypeOK'
  OBVIOUS
<1> USE MessageBoundsAssumption
    DEF MessageTypeOK, messageVars, callbackVars, Step, Status, Open, Terminal
<1>1. ASSUME NEW j \in Job, EnqueueMessage(j) PROVE MessageTypeOK'
  BY <1>1 DEF EnqueueMessage
<1>2. ASSUME NEW w \in Worker, NEW j \in Job, StartHandler(w, j) PROVE MessageTypeOK'
  BY <1>2 DEF StartHandler
<1>3. ASSUME NEW w \in Worker, Crash(w) PROVE MessageTypeOK'
  BY <1>3 DEF Crash
<1>4. ASSUME NEW w \in Worker, NEW j \in Job, MarkSending(w, j) PROVE MessageTypeOK'
  BY <1>4 DEF MarkSending, Goto
<1>5. ASSUME NEW w \in Worker, NEW j \in Job, ProviderCreate(w, j) PROVE MessageTypeOK'
  <2>1. created' \in [Job -> Nat]
    BY <1>5 DEF ProviderCreate
  <2>2. made' \in [Worker -> Nat]
    BY <1>5, <2>1 DEF ProviderCreate
  <2>3. QED BY <1>5, <2>1, <2>2 DEF ProviderCreate, Goto
<1>6. ASSUME NEW w \in Worker, NEW j \in Job, RecordSent(w, j) PROVE MessageTypeOK'
  BY <1>6 DEF RecordSent, Return, Goto
<1>7. ASSUME NEW w \in Worker, NEW j \in Job, GiveUp(w, j) PROVE MessageTypeOK'
  BY <1>7 DEF GiveUp, Return
<1>8. ASSUME NEW w \in Worker, NEW j \in Job, QueryFails(w, j) PROVE MessageTypeOK'
  BY <1>8 DEF QueryFails, Return, Goto
<1>9. ASSUME NEW j \in Job, NEW to \in Status, LookUp(j, to) PROVE MessageTypeOK'
  BY <1>9 DEF LookUp, Callback
<1>10. ASSUME NEW c \in calls, ApplyCallback(c) PROVE MessageTypeOK'
  BY <1>10 DEF ApplyCallback, Callback
<1>11. ASSUME NEW c \in calls, CallbackDies(c) PROVE MessageTypeOK'
  BY <1>11 DEF CallbackDies, Callback
<1>12. CASE UNCHANGED messageVars
  BY <1>12
<1>13. QED
  BY <1>1, <1>2, <1>3, <1>4, <1>5, <1>6, <1>7, <1>8, <1>9, <1>10, <1>11, <1>12
  DEF Next, WorkerStep, Failure, Clock, Callbacks, Handler, vars

\* Every reachable state of the composition is well typed.
THEOREM TypeCorrect == Spec => []TypeOK
<1>1. Init => MessageTypeOK
  BY MessageBoundsAssumption DEF Init, MessageTypeOK, Step
<1>2. MessageTypeOK /\ QueueInv => TypeOK
  BY DEF MessageTypeOK, QueueInv, TypeOK
<1>3. QED BY <1>1, <1>2, MessageTypeInductive, QueueInvHolds, PTL DEF Spec

-----------------------------------------------------------------------------
(***************************************************************************)
(* A handler succeeds only after it has recorded the provider's id, and    *)
(* the trigger lets no status return to one from which a message is sent.  *)
(***************************************************************************)
Resendable == {"none", "pending", "queued", "sending"}

\* The trigger never lets a status that stands for a finished send go back.
LEMMA NoWayBack ==
  ASSUME NEW old \in Status \cup {"none"}, NEW new, Accepts(old, new), old \notin Resendable
  PROVE  new \notin Resendable
  BY DEF Accepts, Order, Resendable, Status, Open, Terminal

HandlerInv ==
  /\ \A w \in Worker : step[w] # "idle" => running[w] # {} /\ outcome[w] = "none"
  /\ \A w \in Worker : step[w] = "record" => \A j \in running[w] : made[w] \in 1..created[j]
  /\ \A j \in succeeded : sid[j] \in 1..created[j] /\ status[j] \notin Resendable

\* Message and job are inserted in one transaction and never deleted; the job
\* is of a kind that getJobHandler knows.
RowHasMessage ==
  \A j \in Job :
    /\ row[j] = "absent" <=> status[j] = "none"
    /\ row[j] # "absent" => j \notin UnknownKind

\* The queue keeps the rows it has, and only updates their columns.
LEMMA RowsStay ==
  ASSUME QueueInv, NEW w \in Worker, NEW j \in Job,
         \/ claimJobs(w) \/ completeJob(w, j) \/ failJob(w, j) \/ CompleteJobThrows(w, j)
         \/ StartJob(w, j) \/ AbandonBatch(w) \/ RunAtPasses(j) \/ LockAges(j)
  PROVE  \A i \in Job : row'[i] = "absent" <=> row[i] = "absent"
<1>1. CASE row' = row
  BY <1>1
<1>2. CASE running[w] = {j} /\ row' = [row EXCEPT ![j] = "completed"]
  BY <1>2 DEF QueueInv, SuccessIsReal, JobTypeOK
<1>3. QED
  BY <1>1, <1>2
  DEF claimJobs, completeJob, internal_job_complete, failJob, internal_job_fail, CompleteJobThrows,
      StartJob, AbandonBatch, RunAtPasses, LockAges, table

\* The trigger never makes or unmakes a message.
LEMMA StatusStays ==
  ASSUME NEW old \in Status \cup {"none"}, NEW new \in Status, Accepts(old, new)
  PROVE  old # "none"
  BY DEF Accepts, Status, Open, Terminal

LEMMA RowHasMessageInductive ==
  QueueInv /\ MessageTypeOK /\ RowHasMessage /\ [Next]_vars => RowHasMessage'
<1> SUFFICES ASSUME QueueInv, MessageTypeOK, RowHasMessage, [Next]_vars PROVE RowHasMessage'
  OBVIOUS
<1>1. ASSUME NEW j \in Job, EnqueueMessage(j) PROVE RowHasMessage'
  BY <1>1
  DEF EnqueueMessage, internal_job_enqueue, RowHasMessage, QueueInv, JobTypeOK, MessageTypeOK
<1>2. ASSUME \A i \in Job : row'[i] = "absent" <=> row[i] = "absent",
             \A i \in Job : status'[i] = "none" <=> status[i] = "none"
      PROVE RowHasMessage'
  BY <1>2 DEF RowHasMessage
<1>3. ASSUME NEW w \in Worker, NEW j \in Job, StartHandler(w, j) PROVE RowHasMessage'
  BY <1>2, <1>3, RowsStay DEF StartHandler
<1>4. ASSUME NEW w \in Worker, Crash(w) PROVE RowHasMessage'
  BY <1>2, <1>4 DEF Crash, AbandonBatch
<1>5. ASSUME NEW w \in Worker, NEW j \in Job, Handler(w, j) \/ QueryFails(w, j) PROVE RowHasMessage'
  <2>1. row' = row
    BY <1>5
    DEF Handler, MarkSending, ProviderCreate, RecordSent, GiveUp, QueryFails, Goto, Return,
        HandlerReturns, jobVars, table
  <2>2. \/ status' = status
        \/ \E new \in Status : Accepts(status[j], new) /\ status' = [status EXCEPT ![j] = new]
    BY <1>5
    DEF Handler, MarkSending, ProviderCreate, RecordSent, GiveUp, QueryFails, Status, Open, Terminal
  <2>3. \A i \in Job : status'[i] = "none" <=> status[i] = "none"
    BY <2>2, StatusStays DEF MessageTypeOK, Status, Open, Terminal
  <2>4. QED BY <1>2, <2>1, <2>3
<1>6. CASE Callbacks
  <2>1. row' = row
    BY <1>6 DEF Callbacks, LookUp, ApplyCallback, CallbackDies, jobVars, table
  <2>2. \/ status' = status
        \/ \E c \in calls : Accepts(status[c.job], c.to) /\ status' = [status EXCEPT ![c.job] = c.to]
    BY <1>6 DEF Callbacks, LookUp, ApplyCallback, CallbackDies
  <2>3. \A i \in Job : status'[i] = "none" <=> status[i] = "none"
    BY <2>2, StatusStays DEF MessageTypeOK, Callback, Status, Open, Terminal
  <2>4. QED BY <1>2, <2>1, <2>3
<1>7. ASSUME NEW w \in Worker, NEW j \in Job, UNCHANGED messageVars,
             completeJob(w, j) \/ failJob(w, j) \/ CompleteJobThrows(w, j)
      PROVE RowHasMessage'
  BY <1>2, <1>7, RowsStay DEF messageVars
<1>8. ASSUME UNCHANGED messageVars,
             \/ \E w \in Worker : claimJobs(w)
             \/ \E j \in Job : RunAtPasses(j) \/ LockAges(j)
      PROVE RowHasMessage'
  BY <1>2, <1>8 DEF messageVars, claimJobs, RunAtPasses, LockAges
<1>9. CASE UNCHANGED vars
  BY <1>2, <1>9 DEF vars, jobVars, table, messageVars
<1>10. QED
  BY <1>1, <1>3, <1>4, <1>5, <1>6, <1>7, <1>8, <1>9
  DEF Next, WorkerStep, Failure, Clock, Settle

MessageInv == QueueInv /\ MessageTypeOK /\ RowHasMessage /\ HandlerInv

\* No query, provider call, callback or fault separates a job's success from
\* the record of the provider's id.
LEMMA HandlerInvInductive == MessageInv /\ [Next]_vars => HandlerInv'
<1> SUFFICES ASSUME MessageInv, [Next]_vars PROVE HandlerInv'
  OBVIOUS
<1>0. MessageTypeOK /\ JobTypeOK /\ LockInv /\ SuccessIsReal /\ HandlerInv
  BY DEF MessageInv, QueueInv
<1>1. ASSUME NEW j \in Job, EnqueueMessage(j) PROVE HandlerInv'
  <2>1. j \notin succeeded
    BY <1>0, <1>1 DEF EnqueueMessage, internal_job_enqueue, SuccessIsReal
  <2>2. QED
    BY <1>0, <1>1, <2>1
    DEF EnqueueMessage, internal_job_enqueue, HandlerInv, MessageTypeOK, workers, history
<1>2. ASSUME NEW w \in Worker, NEW j \in Job, StartHandler(w, j) PROVE HandlerInv'
  <2>1. j \notin UnknownKind
    BY <1>0, <1>2 DEF MessageInv, RowHasMessage, StartHandler, StartJob, SuccessIsReal
  <2>2. QED
    BY <1>0, <1>2, <2>1
    DEF StartHandler, StartJob, HandlerInv, SuccessIsReal, MessageTypeOK, JobTypeOK
<1>3. ASSUME NEW w \in Worker, Crash(w) PROVE HandlerInv'
  BY <1>0, <1>3 DEF Crash, AbandonBatch, HandlerInv, MessageTypeOK, JobTypeOK, history
<1>4. ASSUME NEW w \in Worker, NEW j \in Job, MarkSending(w, j) PROVE HandlerInv'
  <2>1. \A i \in Job : status[i] \notin Resendable => status'[i] \notin Resendable
    BY <1>0, <1>4, NoWayBack DEF MarkSending, MessageTypeOK
  <2>2. succeeded \in SUBSET Job
    BY <1>0 DEF JobTypeOK
  <2>3. QED
    BY <1>0, <1>4, <2>1, <2>2
    DEF MarkSending, Goto, HandlerInv, MessageTypeOK, jobVars, workers, history
<1>5. ASSUME NEW w \in Worker, NEW j \in Job, ProviderCreate(w, j) PROVE HandlerInv'
  <2>1. UNCHANGED <<status, sid, running, outcome, succeeded>> /\ running[w] = {j}
    BY <1>5 DEF ProviderCreate, Goto, jobVars, workers, history
  <2>2. \A i \in Job : created'[i] \in Nat /\ created'[i] >= created[i]
    BY <1>0, <1>5 DEF ProviderCreate, MessageTypeOK
  <2>3. step'[w] # "idle" /\ (step'[w] = "record" => made'[w] = created'[j] /\ created'[j] >= 1)
    BY <1>0, <1>5 DEF ProviderCreate, Goto, MessageTypeOK
  <2>4. \A v \in Worker : v # w => step'[v] = step[v] /\ made'[v] = made[v]
    BY <1>0, <1>5 DEF ProviderCreate, Goto, MessageTypeOK
  <2>5. outcome[w] = "none"
    BY <1>0, <1>5 DEF ProviderCreate, HandlerInv
  <2>6. ASSUME NEW v \in Worker, step'[v] = "record", NEW i \in running'[v]
        PROVE made'[v] \in 1..created'[i]
    <3>1. CASE v = w
      BY <2>1, <2>2, <2>3, <2>6, <3>1
    <3>2. CASE v # w
      <4>1. i \in Job /\ made[v] \in 1..created[i] /\ made'[v] = made[v]
        BY <1>0, <2>1, <2>4, <2>6, <3>2 DEF HandlerInv, JobTypeOK
      <4>2. QED BY <1>0, <2>2, <4>1 DEF MessageTypeOK
    <3>3. QED BY <3>1, <3>2
  <2>7. ASSUME NEW i \in succeeded' PROVE sid'[i] \in 1..created'[i] /\ status'[i] \notin Resendable
    <3>1. i \in Job /\ i \in succeeded /\ sid[i] \in 1..created[i]
      BY <1>0, <2>1, <2>7 DEF HandlerInv, JobTypeOK
    <3>2. QED BY <1>0, <2>1, <2>2, <3>1 DEF HandlerInv, MessageTypeOK
  <2>8. \A v \in Worker : step'[v] # "idle" => running'[v] # {} /\ outcome'[v] = "none"
    BY <1>0, <2>1, <2>4, <2>5 DEF HandlerInv
  <2>9. QED BY <2>6, <2>7, <2>8 DEF HandlerInv
<1>6. ASSUME NEW w \in Worker, NEW j \in Job, RecordSent(w, j) PROVE HandlerInv'
  <2>1. CASE Accepts(status[j], "sent")
    <3>1. /\ status' = [status EXCEPT ![j] = "sent"]
          /\ sid' = [sid EXCEPT ![j] = made[w]]
          /\ Return(w, "success") /\ running[w] = {j} /\ step[w] = "record"
          /\ created' = created
      BY <1>6, <2>1 DEF RecordSent
    <3>2. made[w] \in 1..created[j]
      BY <1>0, <3>1 DEF HandlerInv
    <3>3. succeeded' = succeeded \cup {j} /\ running' = running
      BY <3>1 DEF Return, HandlerReturns
    <3>4. QED
      BY <1>0, <3>1, <3>2, <3>3
      DEF HandlerInv, Return, HandlerReturns, MessageTypeOK, JobTypeOK, Resendable
  <2>2. CASE ~Accepts(status[j], "sent")
    BY <1>0, <1>6, <2>2 DEF RecordSent, Goto, HandlerInv, MessageTypeOK, jobVars, workers, history
  <2>3. QED BY <2>1, <2>2
<1>7. ASSUME NEW w \in Worker, NEW j \in Job, GiveUp(w, j) PROVE HandlerInv'
  <2>1. \A i \in Job : status[i] \notin Resendable => status'[i] \notin Resendable
    BY <1>0, <1>7, NoWayBack DEF GiveUp, MessageTypeOK
  <2>2. succeeded' = succeeded /\ running' = running /\ succeeded \in SUBSET Job
    BY <1>0, <1>7 DEF GiveUp, Return, HandlerReturns, JobTypeOK
  <2>3. QED
    BY <1>0, <1>7, <2>1, <2>2
    DEF GiveUp, Return, HandlerReturns, HandlerInv, MessageTypeOK, JobTypeOK
<1>8. ASSUME NEW w \in Worker, NEW j \in Job, QueryFails(w, j) PROVE HandlerInv'
  <2>1. CASE Goto(w, "giveUp") /\ UNCHANGED made
    BY <1>0, <1>8, <2>1
    DEF QueryFails, Goto, HandlerInv, MessageTypeOK, jobVars, workers, history
  <2>2. CASE Return(w, "failure")
    BY <1>0, <1>8, <2>2
    DEF QueryFails, Return, HandlerReturns, HandlerInv, MessageTypeOK, JobTypeOK
  <2>3. QED BY <1>8, <2>1, <2>2 DEF QueryFails
<1>9. ASSUME NEW j \in Job, NEW to \in Status, LookUp(j, to) PROVE HandlerInv'
  BY <1>0, <1>9 DEF LookUp, HandlerInv, jobVars, workers, history
<1>10. ASSUME NEW c \in calls, ApplyCallback(c) \/ CallbackDies(c) PROVE HandlerInv'
  <2>1. \A i \in Job : status[i] \notin Resendable => status'[i] \notin Resendable
    BY <1>0, <1>10, NoWayBack DEF ApplyCallback, CallbackDies, MessageTypeOK, Callback
  <2>2. succeeded \in SUBSET Job
    BY <1>0 DEF JobTypeOK
  <2>3. QED
    BY <1>0, <1>10, <2>1, <2>2
    DEF ApplyCallback, CallbackDies, HandlerInv, jobVars, workers, history
<1>11. ASSUME NEW j \in Job, Clock(j) PROVE HandlerInv'
  BY <1>0, <1>11
  DEF Clock, RunAtPasses, LockAges, HandlerInv, messageVars, workers, history
<1>12. ASSUME NEW w \in Worker, claimJobs(w), UNCHANGED messageVars PROVE HandlerInv'
  BY <1>0, <1>12 DEF claimJobs, HandlerInv, messageVars, history
<1>13. ASSUME NEW w \in Worker, Settle(w), UNCHANGED messageVars PROVE HandlerInv'
  <2>1. outcome[w] # "none" /\ NextInBatch(w)
    BY <1>13 DEF Settle, completeJob, failJob
  <2>2. QED
    BY <1>0, <1>13, <2>1 DEF NextInBatch, HandlerInv, messageVars, history, JobTypeOK
<1>14. ASSUME NEW w \in Worker, NEW j \in Job, CompleteJobThrows(w, j), UNCHANGED messageVars
       PROVE HandlerInv'
  BY <1>0, <1>14 DEF CompleteJobThrows, HandlerInv, messageVars, history, JobTypeOK
<1>15. CASE UNCHANGED vars
  BY <1>0, <1>15 DEF vars, jobVars, messageVars, workers, history, HandlerInv
<1>16. QED
  BY <1>1, <1>2, <1>3, <1>4, <1>5, <1>6, <1>7, <1>8, <1>9, <1>10, <1>11, <1>12, <1>13, <1>14, <1>15
  DEF Next, WorkerStep, Failure, Callbacks, Handler

LEMMA MessageInvHolds == Spec => []MessageInv
<1>1. Init => MessageTypeOK /\ RowHasMessage /\ HandlerInv
  BY MessageBoundsAssumption DEF Init, JobInit, MessageTypeOK, Step, RowHasMessage, HandlerInv
<1>2. QED
  BY <1>1, HandlerInvInductive, RowHasMessageInductive, MessageTypeInductive, QueueInvHolds, PTL DEF Spec, MessageInv

\* A job whose completion is recorded has sent its message, and the message
\* carries the id the provider gave it.
THEOREM CompletedWereAccepted == Spec => []CompletedWasAccepted
<1>1. MessageInv => CompletedWasAccepted
  BY DEF MessageInv, QueueInv, HandlerInv, SuccessIsReal, CompletedWasAccepted, Resendable
<1>2. QED BY <1>1, MessageInvHolds, PTL

-----------------------------------------------------------------------------
(***************************************************************************)
(* How often a message is sent.  Until a status from which it is not sent  *)
(* again is recorded, a message can still be sent by every handler that    *)
(* waits for its turn or is about to call the provider, and by one more    *)
(* worker if the job can be claimed, or will be as soon as its handler's   *)
(* failure is recorded.  Sends made plus sends possible never exceed one   *)
(* plus the faults, failing queries and overruns so far.                   *)
(***************************************************************************)
Chances(j) ==
  {w \in Worker : running[w] = {j} /\ step[w] = "create"} \cup
  {w \in Worker : /\ status[j] \in Resendable
                  /\ j \in queue[w] \/ (running[w] = {j} /\ step[w] = "mark")}

Claimable(j) ==
  \/ lockedBy[j] \notin Worker
  \/ stale[j]
  \/ running[lockedBy[j]] = {j} /\ outcome[lockedBy[j]] # "none"

Spare(j) == status[j] \in Resendable /\ Claimable(j)

Paid == 1 + faults + errors + overruns

SendsInv ==
  \A j \in Job : created[j] + Cardinality(Chances(j)) + (IF Spare(j) THEN 1 ELSE 0) <= Paid

\* The ways a step can change the account of message j.
Quiet(j) == /\ created'[j] = created[j]
            /\ Chances(j)' \subseteq Chances(j)
            /\ Spare(j)' => Spare(j)
            /\ Paid' >= Paid
Claimed(j) == /\ created'[j] = created[j]
              /\ \E w \in Worker : Chances(j)' \subseteq Chances(j) \cup {w}
              /\ Spare(j) /\ ~Spare(j)'
              /\ Paid' = Paid
Faulty(j) == /\ created'[j] = created[j]
             /\ Chances(j)' \subseteq Chances(j)
             /\ Paid' = Paid + 1
Sent(j) == /\ created'[j] \in {created[j], created[j] + 1}
           /\ \E w \in Chances(j) : Chances(j)' \subseteq Chances(j) \ {w}
           /\ Spare(j)' => Spare(j)
           /\ Paid' = Paid

Accounted(j) == Quiet(j) \/ Claimed(j) \/ Faulty(j) \/ Sent(j)

\* A step that changes at most the status of messages, and those only as the
\* trigger allows, opens no new chance.
LEMMA StatusOnly ==
  ASSUME MessageInv, NEW j \in Job,
         UNCHANGED <<lockedBy, stale, queue, running, outcome, created, step>>,
         status[j] \notin Resendable => status'[j] \notin Resendable
  PROVE  /\ created'[j] = created[j]
         /\ Chances(j)' \subseteq Chances(j)
         /\ Spare(j)' => Spare(j)
  BY DEF Chances, Spare, Claimable

\* Every step of the composition is one of the four.
LEMMA EveryStepIsAccounted ==
  ASSUME MessageInv, [Next]_vars, NEW i \in Job
  PROVE  Accounted(i)
<1>0. /\ MessageTypeOK /\ JobTypeOK /\ LockInv /\ SuccessIsReal /\ RowHasMessage /\ HandlerInv
      /\ overruns \in Nat /\ faults \in Nat /\ errors \in Nat
  BY MessageBoundsAssumption, JobBoundsAssumption
  DEF MessageInv, QueueInv, MessageTypeOK, JobTypeOK
<1>1. ASSUME NEW j \in Job, EnqueueMessage(j) PROVE Quiet(i)
  <2>1. status[i] \notin Resendable => status'[i] \notin Resendable
    BY <1>0, <1>1
    DEF EnqueueMessage, internal_job_enqueue, RowHasMessage, MessageTypeOK, Resendable
  <2>2. UNCHANGED <<lockedBy, stale, queue, running, outcome, created, step, faults, errors, overruns>>
    BY <1>1 DEF EnqueueMessage, internal_job_enqueue, workers, callbackVars
  <2>3. QED BY <1>0, <2>1, <2>2, StatusOnly DEF Quiet, Paid
<1>2. ASSUME NEW w \in Worker, NEW j \in Job, StartHandler(w, j) PROVE Quiet(i)
  <2>0. j \notin UnknownKind
    BY <1>0, <1>2 DEF RowHasMessage, StartHandler, StartJob, SuccessIsReal
  <2>1. /\ running[w] = {} /\ outcome[w] = "none" /\ j \in queue[w]
        /\ queue' = [queue EXCEPT ![w] = @ \ {j}]
        /\ running' = [running EXCEPT ![w] = {j}]
        /\ step' = [step EXCEPT ![w] = "mark"]
        /\ UNCHANGED <<lockedBy, stale, outcome, status, created, faults, errors, overruns>>
    BY <1>0, <1>2, <2>0
    DEF StartHandler, StartJob, SuccessIsReal, table, callbackVars
  <2>2. ASSUME NEW v \in Chances(i)' PROVE v \in Chances(i)
    <3>1. CASE v = w
      <4>1. running'[w] = {j} /\ step'[w] = "mark" /\ queue'[w] \subseteq queue[w]
        BY <1>0, <2>1 DEF JobTypeOK, MessageTypeOK
      <4>2. status[i] \in Resendable /\ (i \in queue[w] \/ {i} = {j})
        BY <2>1, <2>2, <3>1, <4>1 DEF Chances
      <4>3. i \in queue[w]
        BY <2>1, <4>2
      <4>4. QED BY <3>1, <4>2, <4>3 DEF Chances
    <3>2. CASE v # w
      BY <1>0, <2>1, <2>2, <3>2 DEF Chances, JobTypeOK, MessageTypeOK
    <3>3. QED BY <3>1, <3>2
  <2>3. Spare(i)' => Spare(i)
    BY <1>0, <2>1 DEF Spare, Claimable, JobTypeOK
  <2>4. QED BY <1>0, <2>1, <2>2, <2>3 DEF Quiet, Paid
<1>3. ASSUME NEW w \in Worker, Crash(w) PROVE Faulty(i)
  <2>1. /\ queue' = [queue EXCEPT ![w] = {}]
        /\ running' = [running EXCEPT ![w] = {}]
        /\ step' = [step EXCEPT ![w] = "idle"]
        /\ faults' = faults + 1
        /\ UNCHANGED <<status, created, errors, overruns>>
    BY <1>3 DEF Crash, AbandonBatch, callbackVars
  <2>2. Chances(i)' \subseteq Chances(i)
    BY <1>0, <2>1 DEF Chances, JobTypeOK, MessageTypeOK
  <2>3. QED BY <1>0, <2>1, <2>2 DEF Faulty, Paid
<1>4. ASSUME NEW w \in Worker, NEW j \in Job, MarkSending(w, j) PROVE Quiet(i)
  <2>1. /\ running[w] = {j} /\ step[w] = "mark"
        /\ UNCHANGED <<lockedBy, stale, queue, running, outcome, created, faults, errors, overruns>>
    BY <1>4 DEF MarkSending, Goto, jobVars, table, workers, callbackVars
  <2>2. CASE Accepts(status[j], "sending") /\ status' = [status EXCEPT ![j] = "sending"]
             /\ step' = [step EXCEPT ![w] = "create"]
    <3>1. status[j] \in Resendable
      BY <2>2 DEF Accepts, Order, Resendable, Open, Terminal
    <3>2. \A k \in Job : status'[k] \in Resendable <=> status[k] \in Resendable
      BY <1>0, <2>2, <3>1 DEF MessageTypeOK, Resendable
    <3>3. Chances(i)' \subseteq Chances(i)
      BY <1>0, <2>1, <2>2, <3>1, <3>2 DEF Chances, MessageTypeOK
    <3>4. Spare(i)' => Spare(i)
      BY <2>1, <3>2 DEF Spare, Claimable
    <3>5. QED BY <1>0, <2>1, <3>3, <3>4 DEF Quiet, Paid
  <2>3. CASE UNCHANGED status /\ step' = [step EXCEPT ![w] = "giveUp"]
    <3>1. Chances(i)' \subseteq Chances(i)
      BY <1>0, <2>1, <2>3 DEF Chances, MessageTypeOK
    <3>2. Spare(i)' => Spare(i)
      BY <2>1, <2>3 DEF Spare, Claimable
    <3>3. QED BY <1>0, <2>1, <3>1, <3>2 DEF Quiet, Paid
  <2>4. QED BY <1>4, <2>2, <2>3 DEF MarkSending, Goto
<1>5. ASSUME NEW w \in Worker, NEW j \in Job, ProviderCreate(w, j) PROVE Quiet(i) \/ Sent(i)
  <2>1. /\ running[w] = {j} /\ step[w] = "create"
        /\ UNCHANGED <<lockedBy, stale, queue, running, outcome, status, faults, errors, overruns>>
        /\ created' \in {created, [created EXCEPT ![j] = @ + 1]}
        /\ step' \in {[step EXCEPT ![w] = "record"], [step EXCEPT ![w] = "giveUp"]}
    BY <1>5 DEF ProviderCreate, Goto, jobVars, table, workers, callbackVars
  <2>2. Spare(i)' => Spare(i)
    BY <2>1 DEF Spare, Claimable
  <2>3. Chances(i)' \subseteq Chances(i)
    BY <1>0, <2>1 DEF Chances, MessageTypeOK
  <2>4. CASE i = j
    <3>1. w \in Chances(i) /\ w \notin Chances(i)'
      <4>1. i \notin queue[w]
        BY <1>0, <2>1, <2>4 DEF LockInv, OneAtATime
      <4>2. QED BY <1>0, <2>1, <2>4, <4>1 DEF Chances, MessageTypeOK
    <3>2. created'[i] \in {created[i], created[i] + 1}
      BY <1>0, <2>1, <2>4 DEF MessageTypeOK
    <3>3. QED BY <1>0, <2>1, <2>2, <2>3, <3>1, <3>2 DEF Sent, Paid
  <2>5. CASE i # j
    BY <1>0, <2>1, <2>2, <2>3, <2>5 DEF Quiet, Paid, MessageTypeOK
  <2>6. QED BY <2>4, <2>5
<1>6. ASSUME NEW w \in Worker, NEW j \in Job, NEW result, Return(w, result),
             running[w] = {j}, step[w] \notin {"mark", "create"},
             UNCHANGED created
      PROVE  /\ running' = running
             /\ (status[i] \notin Resendable => status'[i] \notin Resendable)
                  => Chances(i)' \subseteq Chances(i)
             /\ UNCHANGED <<lockedBy, stale, queue, faults, overruns>>
             /\ \A v \in Worker : v # w => outcome'[v] = outcome[v]
  <2>1. /\ step' = [step EXCEPT ![w] = "idle"]
        /\ outcome' = [outcome EXCEPT ![w] = result]
        /\ UNCHANGED <<running, lockedBy, stale, queue, faults, overruns>>
    BY <1>6 DEF Return, HandlerReturns, table
  <2>2. ASSUME status[i] \notin Resendable => status'[i] \notin Resendable
        PROVE Chances(i)' \subseteq Chances(i)
    BY <1>0, <1>6, <2>1, <2>2 DEF Chances, MessageTypeOK
  <2>3. QED BY <1>0, <2>1, <2>2 DEF JobTypeOK

<1>7. ASSUME NEW w \in Worker, NEW j \in Job, RecordSent(w, j) PROVE Quiet(i)
  <2>1. CASE Accepts(status[j], "sent")
    <3>1. /\ status' = [status EXCEPT ![j] = "sent"]
          /\ Return(w, "success") /\ running[w] = {j} /\ step[w] = "record"
          /\ UNCHANGED <<created, errors>>
      BY <1>7, <2>1 DEF RecordSent, callbackVars
    <3>2. "sent" \notin Resendable
      BY DEF Resendable
    <3>3. Chances(i)' \subseteq Chances(i)
      BY <1>0, <1>6, <3>1, <3>2 DEF MessageTypeOK
    <3>4. Spare(i)' => Spare(i)
      <4>1. CASE i = j
        BY <1>0, <3>1, <3>2, <4>1 DEF Spare, MessageTypeOK
      <4>2. CASE i # j
        <5>1. status'[i] = status[i]
          BY <1>0, <3>1, <4>2 DEF MessageTypeOK
        <5>2. running[w] # {i}
          BY <3>1, <4>2
        <5>3. UNCHANGED <<running, lockedBy, stale>> /\ \A v \in Worker : v # w => outcome'[v] = outcome[v]
          BY <1>6, <3>1
        <5>4. QED BY <5>1, <5>2, <5>3 DEF Spare, Claimable
      <4>3. QED BY <4>1, <4>2
    <3>5. QED BY <1>0, <1>6, <3>1, <3>3, <3>4 DEF Quiet, Paid
  <2>2. CASE ~Accepts(status[j], "sent")
    <3>1. /\ step' = [step EXCEPT ![w] = "giveUp"]
          /\ UNCHANGED <<lockedBy, stale, queue, running, outcome, status, created,
                         faults, errors, overruns>>
      BY <1>7, <2>2 DEF RecordSent, Goto, jobVars, table, workers, callbackVars
    <3>2. Chances(i)' \subseteq Chances(i)
      BY <1>0, <3>1 DEF Chances, MessageTypeOK
    <3>3. Spare(i)' => Spare(i)
      BY <3>1 DEF Spare, Claimable
    <3>4. QED BY <1>0, <3>1, <3>2, <3>3 DEF Quiet, Paid
  <2>3. QED BY <2>1, <2>2
<1>8. ASSUME NEW w \in Worker, NEW j \in Job, GiveUp(w, j) PROVE Quiet(i)
  <2>1. /\ Return(w, "failure") /\ running[w] = {j} /\ step[w] = "giveUp"
        /\ UNCHANGED <<created, errors>>
    BY <1>8 DEF GiveUp, callbackVars
  <2>2. \A k \in Job : status[k] \notin Resendable => status'[k] \notin Resendable
    BY <1>0, <1>8, NoWayBack DEF GiveUp, MessageTypeOK
  <2>3. row[j] # "absent"
    BY <1>0, <2>1 DEF SuccessIsReal
  <2>4. status[j] \in Status
    BY <1>0, <2>3 DEF RowHasMessage, MessageTypeOK
  <2>5. status'[j] \notin Resendable
    BY <1>0, <1>8, <2>4
    DEF GiveUp, Accepts, MessageTypeOK, Status, Open, Terminal, Resendable
  <2>6. Chances(i)' \subseteq Chances(i)
    BY <1>6, <2>1, <2>2
  <2>7. Spare(i)' => Spare(i)
    <3>1. CASE i = j
      BY <2>5, <3>1 DEF Spare
    <3>2. CASE i # j
      <4>1. running[w] # {i}
        BY <2>1, <3>2
      <4>2. UNCHANGED <<running, lockedBy, stale>> /\ \A v \in Worker : v # w => outcome'[v] = outcome[v]
        BY <1>6, <2>1
      <4>3. QED BY <2>2, <4>1, <4>2 DEF Spare, Claimable
    <3>3. QED BY <3>1, <3>2
  <2>8. QED BY <1>0, <1>6, <2>1, <2>6, <2>7 DEF Quiet, Paid
<1>9. ASSUME NEW w \in Worker, NEW j \in Job, QueryFails(w, j) PROVE Faulty(i)
  <2>1. errors' = errors + 1 /\ running[w] = {j} /\ UNCHANGED <<status, created>>
    BY <1>9 DEF QueryFails
  <2>2. CASE step[w] \in {"mark", "record"} /\ Goto(w, "giveUp")
    <3>1. Chances(i)' \subseteq Chances(i)
      BY <1>0, <2>1, <2>2 DEF Goto, jobVars, workers, Chances, MessageTypeOK
    <3>2. QED BY <1>0, <2>1, <2>2, <3>1 DEF Faulty, Paid, Goto, jobVars
  <2>3. CASE step[w] = "giveUp" /\ Return(w, "failure")
    <3>1. Chances(i)' \subseteq Chances(i) /\ UNCHANGED <<faults, overruns>>
      BY <1>6, <2>1, <2>3
    <3>2. QED BY <1>0, <2>1, <3>1 DEF Faulty, Paid
  <2>4. QED BY <1>9, <2>2, <2>3 DEF QueryFails
<1>10. ASSUME NEW j \in Job, NEW to \in Status, LookUp(j, to) PROVE Quiet(i)
  <2>1. UNCHANGED <<lockedBy, stale, queue, running, outcome, created, step, status,
                    faults, errors, overruns>>
    BY <1>10 DEF LookUp, jobVars, table, workers
  <2>2. QED BY <1>0, <2>1, StatusOnly DEF Quiet, Paid
<1>11. ASSUME NEW c \in calls, ApplyCallback(c) \/ CallbackDies(c) PROVE Quiet(i)
  <2>1. /\ UNCHANGED <<lockedBy, stale, queue, running, outcome, created, step, faults, overruns>>
        /\ errors' >= errors
    BY <1>0, <1>11 DEF ApplyCallback, CallbackDies, jobVars, table, workers
  <2>2. status[i] \notin Resendable => status'[i] \notin Resendable
    BY <1>0, <1>11, NoWayBack DEF ApplyCallback, CallbackDies, MessageTypeOK, Callback
  <2>3. faults' + overruns' = faults + overruns
    BY <2>1
  <2>4. Paid' >= Paid
    BY <1>0, <1>11, <2>1 DEF Paid, ApplyCallback, CallbackDies
  <2>5. QED BY <2>1, <2>2, <2>4, StatusOnly DEF Quiet
<1>12. ASSUME NEW j \in Job, RunAtPasses(j), UNCHANGED messageVars PROVE Quiet(i)
  <2>1. UNCHANGED <<lockedBy, stale, queue, running, outcome, created, step, status,
                    faults, errors, overruns>>
    BY <1>12 DEF RunAtPasses, messageVars, callbackVars, workers
  <2>2. QED BY <1>0, <2>1, StatusOnly DEF Quiet, Paid
<1>13. ASSUME NEW j \in Job, LockAges(j), UNCHANGED messageVars PROVE Quiet(i) \/ Faulty(i)
  <2>1. /\ UNCHANGED <<lockedBy, queue, running, outcome, created, step, status, faults, errors>>
        /\ stale' = [stale EXCEPT ![j] = TRUE]
    BY <1>13 DEF LockAges, messageVars, callbackVars, workers
  <2>2. Chances(i)' \subseteq Chances(i)
    BY <2>1 DEF Chances
  <2>3. CASE lockedBy[j] \in Worker
    <3>1. overruns' = overruns + 1
      BY <1>13, <2>3 DEF LockAges
    <3>2. QED BY <1>0, <2>1, <2>2, <3>1 DEF Faulty, Paid
  <2>4. CASE lockedBy[j] \notin Worker
    <3>1. overruns' = overruns
      BY <1>13, <2>4 DEF LockAges
    <3>2. Spare(i)' => Spare(i)
      BY <1>0, <2>1, <2>4 DEF Spare, Claimable, JobTypeOK
    <3>3. QED BY <1>0, <2>1, <2>2, <3>1, <3>2 DEF Quiet, Paid
  <2>5. QED BY <2>3, <2>4
<1>14. ASSUME NEW w \in Worker, claimJobs(w), UNCHANGED messageVars
       PROVE Quiet(i) \/ Claimed(i)
  <2>1. PICK b \in SUBSET Due :
          /\ queue' = [queue EXCEPT ![w] = b]
          /\ lockedBy' = [k \in Job |-> IF k \in b THEN w ELSE lockedBy[k]]
          /\ stale' = [k \in Job |-> IF k \in b THEN FALSE ELSE stale[k]]
    BY <1>14, ClaimedBatch
  <2>2. /\ queue[w] = {} /\ running[w] = {}
        /\ UNCHANGED <<running, outcome, created, step, status, faults, errors, overruns>>
    BY <1>14 DEF claimJobs, messageVars, callbackVars
  <2>3. Paid' = Paid /\ created'[i] = created[i]
    BY <2>2 DEF Paid
  <2>4. CASE i \in b /\ status[i] \in Resendable
    <3>1. LockFree(i)
      BY <2>4 DEF Due
    <3>2. Spare(i)
      BY <2>4, <3>1, JobOwnerAssumption DEF LockFree, Spare, Claimable
    <3>3. ~Spare(i)'
      BY <1>0, <2>1, <2>2, <2>4 DEF Spare, Claimable
    <3>4. Chances(i)' \subseteq Chances(i) \cup {w}
      BY <1>0, <2>1, <2>2 DEF Chances, JobTypeOK
    <3>5. QED BY <2>3, <3>2, <3>3, <3>4 DEF Claimed
  <2>5. CASE ~(i \in b /\ status[i] \in Resendable)
    <3>1. Chances(i)' \subseteq Chances(i)
      BY <1>0, <2>1, <2>2, <2>5 DEF Chances, JobTypeOK
    <3>2. Spare(i)' => Spare(i)
      BY <1>0, <2>1, <2>2, <2>5 DEF Spare, Claimable
    <3>3. Paid' >= Paid
      BY <1>0, <2>3 DEF Paid
    <3>4. QED BY <2>3, <3>1, <3>2, <3>3 DEF Quiet
  <2>6. QED BY <2>4, <2>5
<1>15. ASSUME NEW w \in Worker, NEW j \in Job, completeJob(w, j) \/ failJob(w, j),
              UNCHANGED messageVars
       PROVE Quiet(i)
  <2>1. /\ running[w] = {j} /\ outcome[w] # "none"
        /\ running' = [running EXCEPT ![w] = {}]
        /\ outcome' = [outcome EXCEPT ![w] = "none"]
        /\ UNCHANGED <<queue, created, step, status, faults, errors, overruns>>
    BY <1>15 DEF completeJob, failJob, NextInBatch, messageVars, callbackVars
  <2>2. Chances(i)' \subseteq Chances(i)
    BY <1>0, <2>1 DEF Chances, JobTypeOK
  <2>3. \/ lockedBy[j] = w /\ \A k \in Job : k # j => lockedBy'[k] = lockedBy[k] /\ stale'[k] = stale[k]
        \/ UNCHANGED <<lockedBy, stale>>
    BY <1>0, <1>15
    DEF completeJob, internal_job_complete, failJob, internal_job_fail, Unlock, Owns, table, JobTypeOK
  <2>4. Claimable(i)' => Claimable(i)
    BY <1>0, <2>1, <2>3 DEF Claimable, JobTypeOK
  <2>5. Spare(i)' => Spare(i)
    BY <2>1, <2>4 DEF Spare
  <2>6. QED BY <1>0, <2>1, <2>2, <2>5 DEF Quiet, Paid
<1>16. ASSUME NEW w \in Worker, NEW j \in Job, CompleteJobThrows(w, j), UNCHANGED messageVars
       PROVE Faulty(i)
  <2>1. /\ faults' = faults + 1
        /\ UNCHANGED <<queue, running, created, step, status, errors, overruns>>
    BY <1>16 DEF CompleteJobThrows, messageVars, callbackVars
  <2>2. QED BY <1>0, <2>1 DEF Faulty, Paid, Chances
<1>17. CASE UNCHANGED vars
  <2>1. UNCHANGED <<lockedBy, stale, queue, running, outcome, created, step, status,
                    faults, errors, overruns>>
    BY <1>17 DEF vars, jobVars, messageVars, callbackVars, table, workers
  <2>2. faults' = faults /\ errors' = errors /\ overruns' = overruns
    BY <2>1
  <2>3. Paid' >= Paid
    <3>1. overruns \in Nat /\ faults \in Nat /\ errors \in Nat
      BY <1>0
    <3>2. QED BY <2>2, <3>1 DEF Paid
  <2>4. QED BY <2>1, <2>3, StatusOnly DEF Quiet, Accounted
<1>18. QED
  BY <1>1, <1>2, <1>3, <1>4, <1>5, <1>7, <1>8, <1>9, <1>10, <1>11, <1>12, <1>13, <1>14, <1>15,
     <1>16, <1>17
  DEF Next, WorkerStep, Failure, Callbacks, Handler, Clock, Settle, Accounted

\* The retries of a failed attempt never send a message twice: every send after
\* the first is paid for by a crash, a failing query or a lock that timed out.
THEOREM SendsArePaidFor == Spec => []SendsAreAccounted
<1>1. Init => SendsInv
  <2> SUFFICES ASSUME Init, NEW j \in Job
               PROVE created[j] + Cardinality(Chances(j)) + (IF Spare(j) THEN 1 ELSE 0) <= Paid
    BY DEF SendsInv
  <2>1. Chances(j) = {}
    BY DEF Init, JobInit, Chances
  <2>2. Cardinality(Chances(j)) = 0
    BY <2>1, FS_EmptySet
  <2>3. QED BY <2>2 DEF Init, JobInit, Paid
<1>2. MessageInv /\ MessageInv' /\ SendsInv /\ [Next]_vars => SendsInv'
  <2> SUFFICES ASSUME MessageInv, MessageInv', SendsInv, [Next]_vars, NEW j \in Job
               PROVE  created'[j] + Cardinality(Chances(j)') + (IF Spare(j)' THEN 1 ELSE 0) <= Paid'
    BY DEF SendsInv
  <2> DEFINE n == Cardinality(Chances(j))
             m == Cardinality(Chances(j)')
  <2>1. IsFiniteSet(Chances(j)) /\ IsFiniteSet(Chances(j)')
    <3>1. Chances(j) \in SUBSET Worker /\ Chances(j)' \in SUBSET Worker
      BY DEF Chances
    <3>2. QED BY <3>1, WorkersAssumption, FS_Subset
  <2>2. n \in Nat /\ m \in Nat
    BY <2>1, FS_CardinalityType
  <2>3. created[j] \in Nat /\ created'[j] \in Nat /\ Paid \in Nat /\ Paid' \in Nat
    <3>1. MessageTypeOK /\ JobTypeOK => created[j] \in Nat /\ Paid \in Nat
      BY MessageBoundsAssumption, JobBoundsAssumption DEF MessageTypeOK, JobTypeOK, Paid
    <3>2. MessageTypeOK' /\ JobTypeOK' => created'[j] \in Nat /\ Paid' \in Nat
      <4> SUFFICES ASSUME MessageTypeOK', JobTypeOK' PROVE created'[j] \in Nat /\ Paid' \in Nat
        OBVIOUS
      <4>1. created'[j] \in Nat /\ errors' \in Nat
        BY MessageBoundsAssumption DEF MessageTypeOK
      <4>2. faults' \in Nat /\ overruns' \in Nat
        BY JobBoundsAssumption DEF JobTypeOK
      <4>3. Paid' = 1 + faults' + errors' + overruns'
        BY DEF Paid
      <4>4. \A a, b, c \in Nat : 1 + a + b + c \in Nat
        OBVIOUS
      <4>5. QED BY <4>1, <4>2, <4>3, <4>4, Zenon
    <3>3. QED BY <3>1, <3>2 DEF MessageInv, QueueInv
  <2>4. created[j] + n + (IF Spare(j) THEN 1 ELSE 0) <= Paid
    BY DEF SendsInv
  <2> HIDE DEF n, m
  <2>5. CASE Quiet(j)
    <3>1. m <= n
      BY <2>1, <2>5, OneMoreOrLess DEF Quiet, n, m
    <3>2. QED BY <2>2, <2>3, <2>4, <2>5, <3>1 DEF Quiet, m
  <2>6. CASE Claimed(j)
    <3>1. m <= n + 1
      BY <2>1, <2>6, OneMoreOrLess DEF Claimed, n, m
    <3>2. QED BY <2>2, <2>3, <2>4, <2>6, <3>1 DEF Claimed, m
  <2>7. CASE Faulty(j)
    <3>1. m <= n
      BY <2>1, <2>7, OneMoreOrLess DEF Faulty, n, m
    <3>2. QED BY <2>2, <2>3, <2>4, <2>7, <3>1 DEF Faulty, m
  <2>8. CASE Sent(j)
    <3>1. m + 1 <= n
      BY <2>1, <2>8, OneMoreOrLess DEF Sent, n, m
    <3>2. QED BY <2>2, <2>3, <2>4, <2>8, <3>1 DEF Sent, m
  <2>9. QED BY <2>5, <2>6, <2>7, <2>8, EveryStepIsAccounted DEF Accounted
<1>3. MessageInv /\ SendsInv => SendsAreAccounted
  <2> SUFFICES ASSUME MessageInv, SendsInv, NEW j \in Job
               PROVE created[j] <= 1 + faults + errors + overruns
    BY DEF SendsAreAccounted
  <2>1. IsFiniteSet(Chances(j))
    <3>1. Chances(j) \in SUBSET Worker
      BY DEF Chances
    <3>2. QED BY <3>1, WorkersAssumption, FS_Subset
  <2>2. Cardinality(Chances(j)) \in Nat
    BY <2>1, FS_CardinalityType
  <2>3. created[j] \in Nat /\ Paid \in Nat
    BY MessageBoundsAssumption, JobBoundsAssumption
    DEF MessageInv, QueueInv, MessageTypeOK, JobTypeOK, Paid
  <2>4. created[j] + Cardinality(Chances(j)) + (IF Spare(j) THEN 1 ELSE 0) <= Paid
    BY DEF SendsInv
  <2>5. QED BY <2>2, <2>3, <2>4 DEF Paid
<1>4. QED BY <1>1, <1>2, <1>3, MessageInvHolds, PTL DEF Spec
=============================================================================
