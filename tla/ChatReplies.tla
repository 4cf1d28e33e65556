----------------------------- MODULE ChatReplies -----------------------------
(***************************************************************************)
(* How the answer of an agent reaches the user of one chat session.  A run *)
(* that was dispatched over the WebSocket sends `chat' events, which       *)
(* GatewayEventRouter (gateway/event-router.ts) shows and stores.  A run   *)
(* that a webhook started POSTs to /chat/sessions/:id/stream               *)
(* (chat/routes.ts), where StreamManager (chat/stream-manager.ts) keeps    *)
(* one stream for the session whichever run it is.                         *)
(*                                                                         *)
(* Every event and every request is handled by a task of its own that      *)
(* first awaits a lookup of the session: tasks overtake each other there   *)
(* and at each later statement, and run without interruption in between.   *)
(* All state of both classes is kept by session, so one session is enough. *)
(***************************************************************************)
EXTENDS Naturals, FiniteSets

CONSTANTS
  WsRun, HttpRun,  \* runs of agents for this session
  MaxSeq,          \* parts of an answer
  Task,            \* handlers in progress at the same time
  NoRun,
  MaxEvents,       \* events and requests that arrive
  MaxFaults        \* failing statements and crashes of the API process

ASSUME RunAssumption == WsRun \cap HttpRun = {} /\ NoRun \notin WsRun \cup HttpRun
ASSUME BoundsAssumption == MaxSeq \in Nat /\ MaxEvents \in Nat /\ MaxFaults \in Nat

Run == WsRun \cup HttpRun
Seq == 1..MaxSeq
Ends(r) == IF r \in WsRun THEN {"final", "aborted"} ELSE {"completed", "failed"}

VARIABLES
  active,          \* chat_session.status is 'active'
  sent,            \* sent[r]: the last part run r has sent; gaps are lost events
  ending,          \* ending[r]: how run r said it ended
  task,            \* task[t]: the event or request t handles, and which await it is in
  seenSeqs,        \* of the delta tracker of each WebSocket run; {}: no tracker
  terminatedRuns,  \* WebSocket runs in terminatedRuns
  stream,          \* the session's entry of streams: the run that opened it and lastSeq
  timeoutTimer,    \* the stream's watchdog is armed
  strayTimers,     \* armed watchdogs of streams that are no longer the session's
  terminated,      \* the session has an entry in terminated: its last stream failed or was aborted
  replies,         \* replies[r]: rows of external_message with the answer of r
  shown,           \* shown[r]: the parts the user was shown
  told,            \* told[r]: what the user was told of the end of r
  again,           \* history: runs that were shown a part twice or after their end
  forgotten,       \* history: runs whose tracker or termination was dropped early
  repeated,        \* repeated[r]: how often run r has sent something once more
  events,          \* how many events and requests have arrived
  unannounced,     \* history: runs whose answer was stored by a handler that broke off
  faults

agents == <<sent, ending, repeated, events>>
router == <<seenSeqs, terminatedRuns, forgotten>>
manager == <<stream, timeoutTimer, strayTimers, terminated>>
user == <<shown, told, again>>
database == <<active, replies>>
vars == <<agents, router, manager, user, database, task, unannounced, faults>>

NoStream == [run |-> NoRun, last |-> 0]
Idle == [at |-> "idle", run |-> NoRun, kind |-> "none", seq |-> 0]

Init ==
  /\ active = TRUE /\ replies = [r \in Run |-> 0]
  /\ sent = [r \in Run |-> 0] /\ ending = [r \in Run |-> "none"]
  /\ repeated = [r \in Run |-> 0] /\ events = 0
  /\ task = [t \in Task |-> Idle]
  /\ seenSeqs = [r \in WsRun |-> {}] /\ terminatedRuns = {} /\ forgotten = {}
  /\ stream = NoStream /\ timeoutTimer = FALSE /\ strayTimers = 0 /\ terminated = FALSE
  /\ shown = [r \in Run |-> {}] /\ told = [r \in Run |-> "none"] /\ again = {}
  /\ unannounced = {} /\ faults = 0

Fault == faults < MaxFaults /\ faults' = faults + 1

-----------------------------------------------------------------------------
(* What the agents send.  A run ends once; anything may be sent again, by a *)
(* gateway that reconnects or an agent that got no answer.                  *)

Arrives(t, r, kind, n) ==
  /\ task[t] = Idle /\ events < MaxEvents
  /\ events' = events + 1
  /\ task' = [task EXCEPT ![t] = [at |-> "lookup", run |-> r, kind |-> kind, seq |-> n]]
  /\ UNCHANGED <<router, manager, user, database, unannounced, faults>>

SendPart(t, r, n) ==
  /\ ending[r] = "none" /\ n > sent[r]
  /\ sent' = [sent EXCEPT ![r] = n]
  /\ Arrives(t, r, "part", n)
  /\ UNCHANGED <<ending, repeated>>

SendEnd(t, r, kind) ==
  /\ ending[r] = "none" /\ kind \in Ends(r)
  /\ ending' = [ending EXCEPT ![r] = kind]
  /\ Arrives(t, r, kind, 0)
  /\ UNCHANGED <<sent, repeated>>

SendAgain(t, r) ==
  /\ repeated' = [repeated EXCEPT ![r] = @ + 1]
  /\ \/ \E n \in 1..sent[r] : Arrives(t, r, "part", n)
     \/ /\ ending[r] # "none"
        /\ Arrives(t, r, ending[r], 0)
  /\ UNCHANGED <<sent, ending>>

-----------------------------------------------------------------------------
(* The steps of a task.                                                     *)

\* Task t is in await w of something of kind k.
Awaits(t, w, k) == task[t].at = w /\ task[t].kind \in k
advance(t, w) == task' = [task EXCEPT ![t].at = w]
return(t) == task' = [task EXCEPT ![t] = Idle]

Show(r, n) ==
  /\ shown' = [shown EXCEPT ![r] = @ \cup {n}]
  /\ again' = IF n \in shown[r] \/ told[r] # "none" THEN again \cup {r} ELSE again
  /\ UNCHANGED told

Tell(r, what) ==
  /\ told' = [told EXCEPT ![r] = what]
  /\ UNCHANGED <<shown, again>>

\* The session is not active any more.
Discard(t) ==
  /\ task[t].at = "lookup" /\ ~active
  /\ return(t)
  /\ UNCHANGED <<agents, router, manager, user, database, unannounced, faults>>

LookupFails(t) ==
  /\ task[t].at = "lookup" /\ Fault
  /\ return(t)
  /\ UNCHANGED <<agents, router, manager, user, database, unannounced>>

-----------------------------------------------------------------------------
(* GatewayEventRouter.                                                      *)

\* Mutant of Fresh: late deltas are not rejected.
BugFreshAfterEnd(r, n) == n \notin seenSeqs[r]

Fresh(r, n) == r \notin terminatedRuns /\ n \notin seenSeqs[r]

handleDelta(t) == LET r == task[t].run n == task[t].seq IN
  /\ Awaits(t, "lookup", {"part"}) /\ r \in WsRun /\ active
  /\ return(t)
  /\ IF Fresh(r, n)
     THEN seenSeqs' = [seenSeqs EXCEPT ![r] = @ \cup {n}] /\ Show(r, n)
     ELSE UNCHANGED <<seenSeqs, user>>
  /\ UNCHANGED <<agents, manager, database, terminatedRuns, forgotten, unannounced, faults>>

terminateRun(r) ==
  /\ seenSeqs' = [seenSeqs EXCEPT ![r] = {}]
  /\ terminatedRuns' = terminatedRuns \cup {r}
  /\ UNCHANGED forgotten

\* Also handleError, which differs in what it tells only.
handleAborted(t) == LET r == task[t].run IN
  /\ Awaits(t, "lookup", {"aborted"}) /\ active
  /\ return(t)
  /\ Tell(r, "aborted")
  /\ terminateRun(r)
  /\ UNCHANGED <<agents, manager, database, unannounced, faults>>

handleFinal(t) ==
  /\ Awaits(t, "lookup", {"final"}) /\ active
  /\ advance(t, "insert")
  /\ UNCHANGED <<agents, router, manager, user, database, unannounced, faults>>

\* Mutant of InsertFinal: a plain INSERT under a key that is never taken.
BugInsertFinal(t) == LET r == task[t].run IN
  /\ Awaits(t, "insert", {"final"})
  /\ replies' = [replies EXCEPT ![r] = @ + 1]
  /\ advance(t, "update")
  /\ UNCHANGED <<agents, router, manager, user, active, unannounced, faults>>

\* ON CONFLICT DO NOTHING: a handler that inserted no row is done.
InsertFinal(t) == LET r == task[t].run IN
  /\ Awaits(t, "insert", {"final"})
  /\ IF replies[r] = 0
     THEN replies' = [replies EXCEPT ![r] = 1] /\ advance(t, "update")
     ELSE return(t) /\ UNCHANGED replies
  /\ UNCHANGED <<agents, router, manager, user, active, unannounced, faults>>

\* Mutant of AnnounceFinal: only runs that are not terminated are announced.
BugAnnounceFinal(t) == LET r == task[t].run IN
  /\ Awaits(t, "update", {"final"})
  /\ return(t)
  /\ IF r \in terminatedRuns THEN UNCHANGED user ELSE Tell(r, "reply")
  /\ terminateRun(r)
  /\ UNCHANGED <<agents, manager, database, unannounced, faults>>

\* last_activity_at is written; emit and terminateRun follow without an await.
AnnounceFinal(t) == LET r == task[t].run IN
  /\ Awaits(t, "update", {"final"})
  /\ return(t)
  /\ Tell(r, "reply")
  /\ terminateRun(r)
  /\ UNCHANGED <<agents, manager, database, unannounced, faults>>

\* The INSERT or the UPDATE throws: logged, and the run is terminated.
FinalFails(t) == LET r == task[t].run IN
  /\ Awaits(t, "insert", {"final"}) \/ Awaits(t, "update", {"final"})
  /\ Fault
  /\ return(t)
  /\ terminateRun(r)
  /\ unannounced' = IF task[t].at = "update" THEN unannounced \cup {r} ELSE unannounced
  /\ UNCHANGED <<agents, manager, user, database>>

TrackerExpires(r) ==
  /\ seenSeqs[r] # {}
  /\ seenSeqs' = [seenSeqs EXCEPT ![r] = {}]
  /\ forgotten' = forgotten \cup {r}
  /\ UNCHANGED <<agents, terminatedRuns, manager, user, database, task, unannounced, faults>>

TerminationExpires(r) ==
  /\ r \in terminatedRuns
  /\ terminatedRuns' = terminatedRuns \ {r}
  /\ forgotten' = forgotten \cup {r}
  /\ UNCHANGED <<agents, seenSeqs, manager, user, database, task, unannounced, faults>>

-----------------------------------------------------------------------------
(* StreamManager and POST /chat/sessions/:id/stream.                        *)

\* Opens a stream when there is none, whatever became of the last one.
handleChunk(t) == LET r == task[t].run n == task[t].seq IN
  /\ Awaits(t, "lookup", {"part"}) /\ r \in HttpRun /\ active
  /\ return(t)
  /\ IF n > stream.last
     THEN /\ stream' = [run |-> IF stream = NoStream THEN r ELSE stream.run, last |-> n]
          /\ timeoutTimer' = TRUE
          /\ Show(r, n)
     ELSE UNCHANGED <<stream, timeoutTimer, user>>
  /\ UNCHANGED <<agents, router, database, strayTimers, terminated, unannounced, faults>>

\* One of the limits on size and rate.
RefuseChunk(t) ==
  /\ Awaits(t, "lookup", {"part"}) /\ task[t].run \in HttpRun
  /\ return(t)
  /\ UNCHANGED <<agents, router, manager, user, database, unannounced, faults>>

\* Mutant of closeStream: the watchdog of the stream stays armed.
BugCloseKeepsTimer ==
  /\ stream' = NoStream
  /\ timeoutTimer' = FALSE
  /\ strayTimers' = strayTimers + (IF timeoutTimer THEN 1 ELSE 0)

\* clearTimeout and delete.
closeStream ==
  /\ stream' = NoStream
  /\ timeoutTimer' = FALSE
  /\ UNCHANGED strayTimers

\* Without a stream, an end is refused for five minutes after a stream of the
\* session failed or was aborted, and otherwise taken for a whole answer.
EndAllowed == stream # NoStream \/ ~terminated

handleCompleted(t) ==
  /\ Awaits(t, "lookup", {"completed"}) /\ active
  /\ IF EndAllowed
     THEN closeStream /\ advance(t, "insert")
     ELSE return(t) /\ UNCHANGED <<stream, timeoutTimer, strayTimers>>
  /\ UNCHANGED <<agents, router, user, database, terminated, unannounced, faults>>

\* The key is the agent and the time: nothing conflicts.
InsertCompleted(t) == LET r == task[t].run IN
  /\ Awaits(t, "insert", {"completed"})
  /\ replies' = [replies EXCEPT ![r] = @ + 1]
  /\ advance(t, "update")
  /\ UNCHANGED <<agents, router, manager, user, active, unannounced, faults>>

AnnounceCompleted(t) ==
  /\ Awaits(t, "update", {"completed"})
  /\ return(t)
  /\ Tell(task[t].run, "reply")
  /\ UNCHANGED <<agents, router, manager, database, unannounced, faults>>

\* The INSERT or the UPDATE throws, and the POST is answered 500.
CompletedFails(t) ==
  /\ Awaits(t, "insert", {"completed"}) \/ Awaits(t, "update", {"completed"})
  /\ Fault
  /\ return(t)
  /\ unannounced' =
       IF task[t].at = "update" THEN unannounced \cup {task[t].run} ELSE unannounced
  /\ UNCHANGED <<agents, router, manager, user, database>>

handleFailed(t) ==
  /\ Awaits(t, "lookup", {"failed"}) /\ active
  /\ IF EndAllowed
     THEN /\ closeStream /\ advance(t, "mark")
          /\ terminated' = (terminated \/ stream # NoStream)
     ELSE return(t) /\ UNCHANGED <<stream, timeoutTimer, strayTimers, terminated>>
  /\ UNCHANGED <<agents, router, user, database, unannounced, faults>>

\* The status UPDATE has returned or thrown; its error is only logged.
AnnounceFailed(t) ==
  /\ Awaits(t, "mark", {"failed"})
  /\ return(t)
  /\ Tell(task[t].run, "failed")
  /\ UNCHANGED <<agents, router, manager, database, unannounced, faults>>

\* A minute after the last chunk of some stream, and the callback deletes the
\* entry of its session, whichever stream that is by then.  Nobody sets
\* onStreamAbort, so the user is not told.
Watchdog == \E own \in {b \in BOOLEAN : IF b THEN timeoutTimer ELSE strayTimers > 0} :
  /\ stream' = NoStream
  /\ timeoutTimer' = FALSE
  /\ strayTimers' = IF own THEN strayTimers ELSE strayTimers - (IF timeoutTimer THEN 0 ELSE 1)
  /\ terminated' = TRUE
  /\ UNCHANGED <<agents, router, user, database, task, unannounced, faults>>

\* The entry is older than TERMINATED_TTL_MS, and pruneTerminated drops it.
TerminatedExpires ==
  /\ terminated
  /\ terminated' = FALSE
  /\ UNCHANGED <<agents, router, stream, timeoutTimer, strayTimers, user, database, task,
                 unannounced, faults>>

-----------------------------------------------------------------------------

\* The user ends the session, or it expires.
EndSession ==
  /\ active
  /\ active' = FALSE
  /\ UNCHANGED <<agents, router, manager, user, replies, task, unannounced, faults>>

Crash ==
  /\ Fault
  /\ task' = [t \in Task |-> Idle]
  /\ seenSeqs' = [r \in WsRun |-> {}] /\ terminatedRuns' = {}
  /\ forgotten' = forgotten \cup terminatedRuns \cup {r \in WsRun : seenSeqs[r] # {}}
  /\ stream' = NoStream /\ timeoutTimer' = FALSE /\ strayTimers' = 0 /\ terminated' = FALSE
  /\ unannounced' = unannounced \cup {task[t].run : t \in {t \in Task : task[t].at = "update"}}
  /\ UNCHANGED <<agents, user, database>>

Send(t) == \E r \in Run :
  \/ \E n \in Seq : SendPart(t, r, n)
  \/ \E kind \in Ends(r) : SendEnd(t, r, kind)
  \/ SendAgain(t, r)

Step(t) ==
  \/ Discard(t) \/ RefuseChunk(t) \/ LookupFails(t)
  \/ handleDelta(t) \/ handleAborted(t) \/ handleFinal(t)
  \/ InsertFinal(t) \/ AnnounceFinal(t) \/ FinalFails(t)
  \/ handleChunk(t) \/ handleCompleted(t) \/ handleFailed(t)
  \/ InsertCompleted(t) \/ AnnounceCompleted(t) \/ CompletedFails(t) \/ AnnounceFailed(t)

Timer ==
  \/ \E r \in WsRun : TrackerExpires(r) \/ TerminationExpires(r)
  \/ Watchdog \/ TerminatedExpires

Next ==
  \/ \E t \in Task : Send(t) \/ Step(t)
  \/ Timer
  \/ EndSession \/ Crash

Spec == Init /\ [][Next]_vars

\* Awaited statements return.
FairSpec == Spec /\ \A t \in Task : WF_vars(Step(t))

-----------------------------------------------------------------------------
(* Properties.                                                              *)

TypeOK ==
  /\ active \in BOOLEAN /\ replies \in [Run -> Nat]
  /\ sent \in [Run -> 0..MaxSeq] /\ repeated \in [Run -> Nat] /\ events \in Nat
  /\ ending \in [Run -> {"none", "final", "aborted", "completed", "failed"}]
  /\ task \in [Task -> [at : {"idle", "lookup", "insert", "update", "mark"},
                         run : Run \cup {NoRun},
                         kind : {"none", "part", "final", "aborted", "completed", "failed"},
                         seq : 0..MaxSeq]]
  /\ seenSeqs \in [WsRun -> SUBSET Seq] /\ terminatedRuns \subseteq WsRun
  /\ forgotten \subseteq WsRun
  /\ stream \in [run : Run \cup {NoRun}, last : 0..MaxSeq]
  /\ timeoutTimer \in BOOLEAN /\ strayTimers \in Nat /\ terminated \in BOOLEAN
  /\ shown \in [Run -> SUBSET Seq] /\ again \subseteq Run
  /\ told \in [Run -> {"none", "reply", "aborted", "failed"}]
  /\ unannounced \subseteq Run /\ faults \in Nat

\* However its events overtake each other and are sent again, no part of a
\* WebSocket run is shown twice or after the user was told the run's end, as
\* long as the run is remembered.
ShownOnceBeforeTheEnd == again \cap WsRun \subseteq forgotten

\* The session's stream has its own watchdog, and no other is armed: one that
\* outlived its stream would abort the next one.
OneWatchdog == strayTimers = 0 /\ (timeoutTimer <=> stream # NoStream)

\* An answer is stored for runs that have ended with one only: once over the
\* WebSocket, and over HTTP once for each time the agent sent it.
RepliesAccounted == \A r \in Run :
  /\ replies[r] > 0 => ending[r] \in {"final", "completed"}
  /\ replies[r] <= IF r \in WsRun THEN 1 ELSE 1 + repeated[r]

\* A stored answer is announced, unless the handler that stored it broke off.
StoredIsAnnounced == \A r \in Run :
  replies[r] > 0 ~> (told[r] = "reply" \/ r \in unannounced)
=============================================================================
