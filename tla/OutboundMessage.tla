--------------------------- MODULE OutboundMessage ---------------------------
(***************************************************************************)
(* Outbound SMS and email: the job queue of JobQueue composed with the     *)
(* external_message rows, the send handlers (twilio/sms-outbound.ts,       *)
(* postmark/email-outbound.ts), the status callbacks of the providers      *)
(* (twilio/ and postmark/delivery-status.ts) and the trigger that guards   *)
(* delivery_status (migrations/038).                                       *)
(*                                                                         *)
(* A job is named by its message.  The handlers run as the handler of the  *)
(* job queue's running job, one action per query or provider call; a       *)
(* callback is one lookup and one update, with anything in between.        *)
(***************************************************************************)
EXTENDS JobQueue

CONSTANTS
  MaxCallbacks, \* bound: callbacks between their lookup and their update
  MaxErrors     \* bound: handlers and callbacks hit by a failing query

ASSUME MessageBoundsAssumption == MaxCallbacks \in Nat /\ MaxErrors \in Nat

VARIABLES
  email,    \* the messages that go through Postmark; the others are SMS
  status,   \* status[j]: delivery_status, "none" before the message exists
  sid,      \* sid[j]: provider_message_id, 0 if NULL
  step,     \* step[w]: next statement of the handler worker w is running
  made,     \* made[w]: the id the provider returned to w's handler
  created,  \* history: messages the provider has accepted for j
  calls,    \* callbacks that have passed canTransition but not yet written
  flagged,  \* messages whose endpoint is flagged as bounced
  errors    \* failing queries so far

callbackVars == <<calls, flagged, errors>>
messageVars == <<email, status, sid, step, made, created, callbackVars>>
vars == <<jobVars, messageVars>>

Terminal == {"delivered", "failed", "bounced", "undelivered"}
Open     == {"pending", "queued", "sending", "sent"}
Status   == Open \cup Terminal
Step     == {"idle", "mark", "create", "record", "giveUp"}
Callback == [job : Job, to : Status]

Init ==
  /\ JobInit
  /\ email = {}
  /\ status = [j \in Job |-> "none"]
  /\ sid = [j \in Job |-> 0]
  /\ step = [w \in Worker |-> "idle"]
  /\ made = [w \in Worker |-> 0]
  /\ created = [j \in Job |-> 0]
  /\ calls = {}
  /\ flagged = {}
  /\ errors = 0

-----------------------------------------------------------------------------
(***************************************************************************)
(* delivery_status.                                                        *)
(***************************************************************************)
Order == [pending |-> 1, queued |-> 2, sending |-> 3, sent |-> 4]

\* Mutant of Accepts: the trigger is not installed.
BugNoTrigger(old, new) == TRUE

\* The trigger lets an UPDATE from old to new pass; otherwise it raises.
Accepts(old, new) ==
  \/ old = new
  \/ old \in Open /\ new \in Terminal
  \/ old \in Open /\ new \in Open /\ Order[new] > Order[old]

\* The order canTransition compares, which is not the trigger's.
Priority(j) ==
  IF j \in email
  THEN [pending |-> 0, queued |-> 1, sending |-> 2, sent |-> 3, delivered |-> 4,
        failed |-> 4, bounced |-> 5, undelivered |-> 5]
  ELSE [pending |-> 1, queued |-> 2, sending |-> 3, sent |-> 4, delivered |-> 5,
        failed |-> 10, bounced |-> 10, undelivered |-> 10]

canTransition(j, new) == Priority(j)[new] > Priority(j)[status[j]]

\* What the providers report: Postmark a delivery, a soft or a hard bounce.
Reports(j) ==
  IF j \in email THEN {"delivered", "failed", "bounced"}
                 ELSE {"queued", "sending", "sent", "delivered", "undelivered", "failed"}

-----------------------------------------------------------------------------
(***************************************************************************)
(* Enqueueing, and the queue's own steps.                                  *)
(***************************************************************************)

\* enqueueSmsMessage, enqueueEmailMessage: message and job in one transaction,
\* the job of a kind that getJobHandler knows.
EnqueueMessage(j) ==
  /\ j \notin UnknownKind
  /\ internal_job_enqueue(j)
  /\ due'[j]
  /\ status' = [status EXCEPT ![j] = "pending"]
  /\ email' \in {email, email \cup {j}}
  /\ UNCHANGED <<sid, step, made, created, callbackVars>>

StartHandler(w, j) ==
  /\ StartJob(w, j)
  /\ step' = [step EXCEPT ![w] = "mark"]
  /\ UNCHANGED <<email, status, sid, made, created, callbackVars>>

Crash(w) ==
  /\ AbandonBatch(w)
  /\ step' = [step EXCEPT ![w] = "idle"]
  /\ made' = [made EXCEPT ![w] = 0]
  /\ UNCHANGED <<email, status, sid, created, callbackVars>>

-----------------------------------------------------------------------------
(***************************************************************************)
(* handleSmsSendJob and handleEmailSendJob.                                *)
(***************************************************************************)
Goto(w, s) == step' = [step EXCEPT ![w] = s] /\ UNCHANGED jobVars

\* UPDATE ... SET delivery_status = 'sending'.  A provider that is not
\* configured takes the same way out as an update that the trigger rejects.
MarkSending(w, j) ==
  /\ running[w] = {j} /\ step[w] = "mark"
  /\ \/ /\ Accepts(status[j], "sending")
        /\ status' = [status EXCEPT ![j] = "sending"]
        /\ Goto(w, "create")
     \/ UNCHANGED status /\ Goto(w, "giveUp")
  /\ UNCHANGED <<email, sid, made, created, callbackVars>>

\* The provider accepts the message or not; the call returns or throws, also
\* after the provider has accepted (a timeout).
ProviderCreate(w, j) ==
  /\ running[w] = {j} /\ step[w] = "create"
  /\ \E accepted, returned \in BOOLEAN :
       /\ returned => accepted
       /\ created' = IF accepted THEN [created EXCEPT ![j] = @ + 1] ELSE created
       /\ made' = IF returned THEN [made EXCEPT ![w] = created'[j]] ELSE made
       /\ Goto(w, IF returned THEN "record" ELSE "giveUp")
  /\ UNCHANGED <<email, status, sid, callbackVars>>

Return(w, result) ==
  /\ HandlerReturns(w, result)
  /\ step' = [step EXCEPT ![w] = "idle"]
  /\ made' = [made EXCEPT ![w] = 0]

\* UPDATE ... SET delivery_status = 'sent', provider_message_id = $2.
RecordSent(w, j) ==
  /\ running[w] = {j} /\ step[w] = "record"
  /\ IF Accepts(status[j], "sent")
     THEN /\ status' = [status EXCEPT ![j] = "sent"]
          /\ sid' = [sid EXCEPT ![j] = made[w]]
          /\ Return(w, "success")
     ELSE Goto(w, "giveUp") /\ UNCHANGED <<status, sid, made>>
  /\ UNCHANGED <<email, created, callbackVars>>

\* Mutants of GiveUp: the job is reported done; the message is left alone.
BugGiveUpSucceeds(w, j) ==
  /\ running[w] = {j} /\ step[w] = "giveUp"
  /\ Return(w, "success")
  /\ UNCHANGED <<email, status, sid, created, callbackVars>>
BugGiveUpKeepsStatus(w, j) ==
  /\ running[w] = {j} /\ step[w] = "giveUp"
  /\ Return(w, "failure")
  /\ UNCHANGED <<email, status, sid, created, callbackVars>>

\* The catch block's UPDATE ... SET delivery_status = 'failed': if the trigger
\* rejects it the handler throws, which processJobs treats as a failure too.
GiveUp(w, j) ==
  /\ running[w] = {j} /\ step[w] = "giveUp"
  /\ status' = IF Accepts(status[j], "failed") THEN [status EXCEPT ![j] = "failed"] ELSE status
  /\ Return(w, "failure")
  /\ UNCHANGED <<email, sid, created, callbackVars>>

\* A query fails for a reason of its own: one of the try block leads to the
\* catch block, that of the catch block out of the handler.
QueryFails(w, j) ==
  /\ errors < MaxErrors
  /\ errors' = errors + 1
  /\ running[w] = {j}
  /\ \/ step[w] \in {"mark", "record"} /\ Goto(w, "giveUp") /\ UNCHANGED made
     \/ step[w] = "giveUp" /\ Return(w, "failure")
  /\ UNCHANGED <<email, status, sid, created, calls, flagged>>

Handler(w, j) ==
  MarkSending(w, j) \/ ProviderCreate(w, j) \/ RecordSent(w, j) \/ GiveUp(w, j)

-----------------------------------------------------------------------------
(***************************************************************************)
(* Status callbacks.  One for an id that is not (or no longer, or not yet) *)
(* stored finds no row, and one that canTransition refuses leaves the      *)
(* status alone: neither is a step.  Providers repeat and reorder reports. *)
(***************************************************************************)
LookUp(j, to) ==
  /\ Cardinality(calls) < MaxCallbacks
  /\ sid[j] # 0
  /\ to \in Reports(j)
  /\ canTransition(j, to)
  /\ calls' = calls \cup {[job |-> j, to |-> to]}
  /\ UNCHANGED <<jobVars, email, status, sid, step, made, created, flagged, errors>>

\* Twilio's handler catches the trigger's error, Postmark's answers 500.  A
\* hard bounce that is accepted also flags the recipient's contact_endpoint.
ApplyCallback(c) ==
  /\ calls' = calls \ {c}
  /\ IF Accepts(status[c.job], c.to)
     THEN /\ status' = [status EXCEPT ![c.job] = c.to]
          /\ flagged' = IF c.to = "bounced" THEN flagged \cup {c.job} ELSE flagged
     ELSE UNCHANGED <<status, flagged>>
  /\ UNCHANGED <<jobVars, email, sid, step, made, created, errors>>

\* The two updates of a hard bounce are separate statements.
CallbackDies(c) ==
  /\ errors < MaxErrors
  /\ errors' = errors + 1
  /\ c.to = "bounced"
  /\ Accepts(status[c.job], c.to)
  /\ calls' = calls \ {c}
  /\ status' = [status EXCEPT ![c.job] = c.to]
  /\ UNCHANGED <<jobVars, email, sid, step, made, created, flagged>>

-----------------------------------------------------------------------------
WorkerStep(w) ==
  \/ claimJobs(w) /\ UNCHANGED messageVars
  \/ Settle(w) /\ UNCHANGED messageVars
  \/ \E j \in Job : StartHandler(w, j) \/ Handler(w, j)

Failure(w) ==
  \/ Crash(w)
  \/ \E j \in Job : QueryFails(w, j) \/ (CompleteJobThrows(w, j) /\ UNCHANGED messageVars)

Clock(j) == (RunAtPasses(j) \/ LockAges(j)) /\ UNCHANGED messageVars

Callbacks ==
  \/ \E j \in Job, to \in Status : LookUp(j, to)
  \/ \E c \in calls : ApplyCallback(c) \/ CallbackDies(c)

Next ==
  \/ \E j \in Job : EnqueueMessage(j) \/ Clock(j)
  \/ \E w \in Worker : WorkerStep(w) \/ Failure(w)
  \/ Callbacks

Spec == Init /\ [][Next]_vars

\* As for the job queue; providers need not call back.
Fairness ==
  /\ \A w \in Worker : WF_vars(WorkerStep(w))
  /\ \A j \in Job : WF_vars(Clock(j))

FairSpec == Spec /\ Fairness

-----------------------------------------------------------------------------
TypeOK ==
  /\ JobTypeOK
  /\ email \in SUBSET Job
  /\ status \in [Job -> Status \cup {"none"}]
  /\ sid \in [Job -> Nat]
  /\ step \in [Worker -> Step]
  /\ made \in [Worker -> Nat]
  /\ created \in [Job -> Nat]
  /\ calls \in SUBSET Callback
  /\ flagged \in SUBSET Job
  /\ errors \in 0..MaxErrors

\* The provider accepts a message at most once more than there were faults and
\* locks that timed out: the retries of a failed attempt never send it twice.
SendsAreAccounted == \A j \in Job : created[j] <= 1 + faults + errors + overruns

\* A job is completed only if its message has been accepted and that is
\* recorded; later callbacks and late workers do not undo it.
CompletedWasAccepted ==
  \A j \in Job :
    row[j] = "completed" => sid[j] \in 1..created[j] /\ status[j] \notin {"pending", "sending"}

\* Every message leaves "pending" and "sending" for good.
EventuallyResolved ==
  \A j \in Job : row[j] = "pending" ~> status[j] \notin {"pending", "sending"}

\* "sent" is documented as "Provider accepted the message", "failed" as
\* permanent: a handler does not turn an accepted message into a failed one.
AcceptedIsNotFailed ==
  [][\A w \in Worker, j \in Job :
       running[w] = {j} /\ step[w] = "giveUp" /\ sid[j] # 0 => status'[j] = status[j]]_vars
=============================================================================
