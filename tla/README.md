# TLA+ models of openclaw-projects

openclaw-projects is a task, note and communication system for people and their agents: a Fastify API
over PostgreSQL, a worker process, orchestrators that run coding agents ("Symphony"), a terminal
worker, connectors, and a React client. Most of what can go wrong in it goes wrong *between* two SQL
statements or two callbacks: rows are the only memory that several processes share, jobs are claimed
with time-limited locks, providers call back when they like, sockets and timers overlap.

This directory holds specifications of those parts, the TLC instances that check them and the proofs
of their main theorems. It is organised as follows.

| component | specification | instance | proofs |
|---|---|---|---|
| what a durable queue promises | `AtLeastOnce` | | |
| webhook outbox | `WebhookOutbox` (implements `AtLeastOnce`) | `MCWebhookOutbox` | `WebhookOutbox_proofs` |
| job queue | `JobQueue` (implements `AtLeastOnce`) | `MCJobQueue` | with the next |
| outbound SMS and email | `OutboundMessage` (extends `JobQueue`) | `MCOutboundMessage` | `OutboundMessage_proofs` |
| Symphony runs | `SymphonyRun` | `MCSymphonyRun` | `SymphonyRun_proofs` |
| gateway connection | `GatewayConnection` | `MCGatewayConnection` | `GatewayConnection_proofs` |
| collaborative notes | `YjsDocuments` | `MCYjsDocuments` | `YjsDocuments_proofs` |
| chat, user to agent | `ChatDispatch` (over `AtLeastOnce`) | `MCChatDispatch` | `ChatDispatch_proofs` |
| chat, agent to user | `ChatReplies` | `MCChatReplies` | `ChatReplies_proofs` |
| LISTEN/NOTIFY client | `NotifyListener` | with the next | with the next |
| Home Assistant connector | `HaConnector` (extends `NotifyListener`) | `MCHaConnector` | `HaConnector_proofs` |

`PROJECT.json` maps every definition to the lines it models (its paths call the repository's root `src/`,
so the code's own `src/` appears there as `src/src/`), lists the runs, the mutants that
show each property can fail, the hazards of the code and which property covers each, and the theorems.
In this text, paths are relative to the repository's root.

Operators named `Bug...` are mutants: the definition that follows, changed by one plausible slip (a
dropped guard, a missing reset). No specification uses them; substituted for the original they make a
property fail.

## 1. Inventory

### 1.1 Parts that are modelled

**Webhook outbox** (`src/api/webhooks/dispatcher.ts`). State: the rows of `webhook_outbox` (`attempts`,
`run_at`, `locked_at`, `locked_by`, `dispatched_at`) and, per worker, the batch it has read and the entry
it is busy with. Operations: `enqueueWebhook`, `getPendingWebhooks`, `lockWebhookEntry`, `dispatchWebhook`
(POST with a time-out that ends when the headers are there), `markDispatched`, `recordFailure`,
`retryWebhook`. Callers: the worker's tick, `POST /webhooks/process`, `POST /webhooks/:id/retry`. Hard:
the batch is read long before an entry's turn comes; the lock ages after five minutes while the body of
an answer may take longer; the operator's retry clears a lock that is in use; a throwing query ends the
batch anywhere. Correct means: the table is an at-least-once task list (a dispatched row was accepted and stays
dispatched), locks are only held by those who work, attempts are bounded, everything ends dispatched or dead.

**Job queue** (`src/api/jobs/processor.ts`, functions of `migrations/011` and `063`). State: rows of
`internal_job`; per worker the claimed batch, the running job and its outcome. Operations:
`internal_job_enqueue`, `internal_job_claim` (`FOR UPDATE SKIP LOCKED`, one `locked_at` for up to ten
jobs), handlers, `internal_job_complete`, `internal_job_fail`. Hard: the last job of a batch waits for
all others while its lock ages; `completeJob` itself may throw after the handler's effect. Correct
means: an at-least-once task list again, nobody settles another worker's claim, attempts never exceed the cap,
repetitions are explained by a failure, a fault or a lock that ran out, everything ends completed or exhausted.

**Outbound SMS and email** (`src/api/twilio/sms-outbound.ts`, `src/api/postmark/email-outbound.ts`, the
two `delivery-status.ts`, the trigger of `migrations/038`). State: `external_message.delivery_status` and
`provider_message_id`. The handlers are jobs of the queue; the providers call back asynchronously; the
trigger rejects backward transitions. Hard: crash between the provider's answer and its record,
redelivered jobs, callbacks before the id is stored, a look-up and an update in separate statements,
two orders of statuses (the code's and the trigger's). Correct means: the queue's promises survive the
composition, the provider accepts a message again only after a fault or an overrun, a completed job has an
accepted message, no message is stuck in `sending`.

**Symphony runs** (`src/symphony/state-machine.ts`, `src/symphony-worker/{run,recovery,heartbeat}.ts`,
status writes of `src/api/symphony/routes.ts` and `src/api/symphony/tracker/sync-service.ts`). State:
`symphony_run.status`, `state_version`, `completed_at`, `orchestrator_id`; `symphony_orchestrator_heartbeat`;
per orchestrator the slots it counted, the runs it listed and the sweep it makes at start. Operations:
`transition()` with and without a client, `watchdogSweep`, claiming, `recoverOrphanedRuns`, heartbeats,
shutdown, and the operator's cancel, retry, approve and merge. Hard: five writers of one column, of which
only one increases the version; row locks that are gone because each statement takes its own connection;
orchestrators taken for dead. Correct means: legal moves, ends that are final, one owner per run, capacity
respected, no run without a clock, unclaimed runs taken.

**Gateway connection** (`src/api/gateway/connection.ts`). State: one socket reference, flags, a
reconnect timer, a watchdog, two handshake timers, pending requests. Operations: `initialize`, `_connect`
and its socket callbacks, `request`, `_scheduleReconnect`, `shutdown`. Hard: callbacks of an old socket
run after a new one was made; each field holds one timer although several may exist; half-open
connections; no event while a socket connects. Correct means: one chain of reconnections that never
ends, truthful status, no caller left waiting, a quiet shutdown.

**Collaborative notes** (`src/api/realtime/yjs-doc-manager.ts`, `yjs-ws-handler.ts`). State: the document
in memory with its dirty flag, clients and three kinds of timers; saves under way; `note.yjs_state`.
Operations: join (five awaits), update, leave, `persistDoc` (debounced, capped, on leave, on
shutdown), eviction (idle, least recently used), shutdown. Hard: `dirty` is cleared after a save that
awaited, so edits made meanwhile count as saved; two joins can load two objects; a document is dropped
while it is being saved. Correct means: what is clean is stored, stored edits stay, joined clients are
served, every edit is written.

**Chat, user to agent** (`POST /chat/sessions/:id/messages` in `src/api/chat/routes.ts`,
`src/api/gateway/chat-dispatch.ts`). State: the clients of the chat pool, `external_message`, requests under way to
the gateway, rows of the outbox. Operations: store under an idempotency key, `chat.send` over the WebSocket,
fall-back to a webhook, the repeated key that is dispatched in the background. Hard: the handler holds a client of
the pool across the dispatch, and the fall-back needs a second one; a request that timed out may have arrived; a
crash between the commit and the dispatch. Correct means: who was told 2xx is dispatched, an agent is started twice
only for a named reason, every POST is answered.

**Chat, agent to user** (`src/api/gateway/event-router.ts`, `src/api/chat/stream-manager.ts`,
`POST /chat/sessions/:id/stream`, `src/api/chat/session-expiry.ts`). State: delta trackers, `terminatedRuns`, the
session's stream with its watchdog, `terminated`, the stored replies, what the user was shown. Operations: one
handler per event or request, each with awaits of its own. Hard: handlers overtake each other at every await; one
stream for the session whichever run writes; trackers that expire. Correct means: nothing is shown twice or after
its end, one watchdog per stream, one stored reply per run and retry, a stored reply is announced.

**LISTEN/NOTIFY client and Home Assistant connector** (`src/worker/listener.ts`, `src/ha-connector/{run,lifecycle}.ts`,
the statements of `src/api/server.ts` on `geo_provider`). State: the listener's client, timer and flag, the events lost
clients still owe; the rows of `geo_provider`; the manager's map of providers, and its `reconcile()` calls. Operations:
connect, LISTEN, reconnect, debounce; boot, `reconcile`, `addProvider`, `removeProvider`, `updateStatus`; create,
change, delete, notify. Hard: a lost client reports twice, perhaps after its successor subscribed; nobody awaits
`reconcile()`, so several compare rows of different age with one map; a connection outlives its map entry. Correct
means: the connector never stops listening for good, can close every connection it opened, and applies a change
that was notified.

### 1.2 Parts that are not modelled

| part | state | hard behaviour | properties to state |
|---|---|---|---|
| worker process (`src/worker/run.ts`) | tick in progress, fall-back timer | a notification during a tick; ticks of both timers | a notified job is processed within a poll |
| refresh tokens (`src/api/auth/refresh-tokens.ts`) | token families | two uses in the grace period; three statements | reuse revokes, honest use does not |
| OAuth connections (`src/api/oauth`) | tokens | concurrent refresh | the newest refresh token survives |
| terminal sessions (`src/api/terminal`, `src/tmux-worker`) | sessions, entries | limits, recovery overwriting newer states | entries not lost; what a session reports is true of some moment |
| recurrence (`src/api/recurrence`) | templates, occurrences | two generators | one item per occurrence |
| Symphony claims (`src/symphony/claim.ts`) | leases, epochs, advisory locks | checks before locks, revived leases | one live lease per issue; epochs grow |
| provisioning and cleanup (`src/symphony/{provisioning,cleanup,secret-lifecycle}.ts`) | steps, workspaces, secrets | crash between steps, resume, roll-back | what was provisioned is rolled back or used |
| durable writes and budgets (`src/symphony/durable-write.ts`, `src/symphony-worker/{retry,rate-limit}.ts`) | dead letters, breakers, GitHub budget | retry of an applied write, lost probe | an applied write is not repeated; breakers reopen |

The last three are exported and unit-tested, but no process of the repository creates a `SymphonyClaimManager`, a
`ProvisioningPipeline` or a `CleanupSweeper`, or calls `durableWrite`, the retry policy or the budget: a model would
have to invent the caller and with it every interleaving. The worker's circuit breaker
(`src/worker/circuit-breaker.ts`) is constructed and its counters are exported, but no call asks it whether a
destination may be tried. Terminal sessions check `max_sessions` in a transaction that ends before the session exists,
so the limit is no invariant of the code, and what is left of them is I/O over gRPC, SSH and tmux.

The remaining parts (routes of `server.ts`, memory and search, notes and relations, geolocation, voice,
inbound mail, realtime hub, plugin, user interface, migrations, operations) are listed with their reasons
in `PROJECT.json`, "components": they are single statements, ranking or numeric processing, text, remote
I/O or presentation, where a state-machine model would restate the code.

### 1.3 How the parts interact

* The API enqueues jobs and webhooks in the transaction of the request or after it; triggers `NOTIFY` the
  worker, whose tick drains both tables (`src/worker/run.ts`); a fall-back timer ticks in any case.
* Job handlers write `external_message`; provider callbacks write the same rows from the API process.
* Chat goes through the gateway connection if it is up, and through the webhook outbox otherwise; the answer comes
  back by the same way, as events of the gateway or as requests of the agent.
* The API's changes of `geo_provider` are notified to the connector, which writes the provider's status back.
* Orchestrators share runs and heartbeats through their tables with the routes and the reconciliation.
* Sockets of the browser reach the Yjs manager of the API process, which shares `note` with REST.

The models follow these seams: tables are the interface, and whatever another process may do to a row
between two statements of a handler is an action of the module. `OutboundMessage` composes the queue with its
handlers; `ChatDispatch` composes the chat route with the abstract outbox, which `WebhookOutbox` implements;
`HaConnector` composes the manager with the listener. `GatewayConnection` appears in `ChatDispatch` as a connection that
comes and goes and a request that is answered, fails, or is taken although it failed, which is its interface.

### 1.4 Hazards that no property covers

`PROJECT.json` lists the hazards that the properties are about. Reading the code showed these besides (the line is
where it bites); no property is about them because their part is not modelled, because the model leaves the detail
out, or because what happens is no violation of anything the code promises.

* outbox and worker: a 2xx answer without a JSON body is taken for a network error and the webhook is sent again
  (`webhooks/dispatcher.ts:125`; the model has it, and at-least-once allows it); two processes with one pid and
  start time share an id and its locks (`:71`); a notification during
  a tick is dropped until the fall-back poll (`worker/run.ts:202`); `scheduled_process` counts failures on what it
  read (`jobs/processor.ts:397`); bounce status and endpoint flag are two statements
  (`postmark/delivery-status.ts:210`); of two requests with one idempotency key the second one's message is a conflict
  (`twilio/sms-outbound.ts:177`).
* Symphony: without a client the event is a transaction of its own (`state-machine.ts:241`); a stage update
  resets the clock of the watchdog (`:449`). In code that nothing calls: an unsigned hash is passed as int4
  (`claim.ts:99`), the idempotency check precedes the locks (`:152`), epochs are `MAX + 1` (`:302`), expired leases are
  revived (`:402`); `resume()` starts without roll-back actions (`provisioning.ts:546`); a workspace may be used
  between check and removal (`cleanup.ts:387`); an applied write is repeated (`durable-write.ts:72`); a probe without a
  result keeps the breaker shut (`retry.ts:381`); the budget is overwritten by an older answer (`rate-limit.ts:165`).
* chat: `INSERT ... WHERE NOT EXISTS` taken for a claim (`notification-escalation.ts:150`); a session expires by a value
  read earlier (`session-expiry.ts:49`; in `ChatReplies` a session may end at any moment).
* notes: a connection that closes during its join stays a member for ever, because the `close` handler is
  installed after the awaits (`api/server.ts:1940`; the model has these members, `conn[c] = "ghost"`, and no
  property denies them); a REST update checks for an active document several awaits before it writes
  (`api/server.ts:16999`).
* accounts: two branches of a token family in the grace period (`refresh-tokens.ts:130`), and three statements
  between the old token and the new one (`api/server.ts:3107`); concurrent refresh of an OAuth token
  (`oauth/service.ts:429`), encrypted only by a second statement (`:269`).
* others: occurrences looked up, then inserted (`recurrence/service.ts:397`); the lock for `max_sessions`
  released before the session exists (`terminal/routes.ts:1147`); recovery overwriting newer states
  (`session-recovery.ts:79`); entries lost when their insert fails (`entry-recorder.ts:183`); quotas checked
  apart from the insert (`skill-store/quotas.ts:73`).

## 2. Plan

Order: what loses or repeats a user's data or an agent's work first; what is built on it next.

Done:

1. `WebhookOutbox` and `JobQueue`, the two tables that everything asynchronous goes through, and `AtLeastOnce`, the
   abstract specification both implement (checked by TLC, proved by TLAPS).
2. `OutboundMessage`, the composition of the queue with message rows, handlers, providers and callbacks; proved to
   implement the queue.
3. `SymphonyRun`, the state machine with all its writers.
4. `GatewayConnection`.
5. `YjsDocuments`.
6. `ChatDispatch`, over the abstract outbox, and `ChatReplies`.
7. `NotifyListener` and `HaConnector` composed with it.
8. Proofs: every safety property of the runs, and what each liveness property rests on besides fairness.

Next, in this order:

9. `RefreshTokens`: rotation, grace period, revocation of a family, crash between the three statements.
10. The worker's tick over `NotifyListener`; `MessageEnqueue` (idempotency key, endpoints, threads).
11. `YjsDocuments` with the content column and REST updates, and members that never leave.
12. `OAuthConnection`, `Recurrence`, the recorder and recovery of terminal sessions.
13. `SymphonyClaim`, `Provisioning`, `DurableWrite`, once a process uses them.

## 3. The modules

Conventions. An action is one SQL statement, one callback, or one stretch of code without an `await`; its name
is the code's name where TLA+ allows it. Time is abstracted to facts that become true by themselves: "run_at
has passed", "the lock is older than five minutes", "the heartbeat is older than 90 seconds". Rows, workers,
sockets, clients and edits are members of finite sets. History variables record what a property speaks of
and the code does not keep; no guard reads them. Every bound is a constant named `Max...`, and only
limits how often the environment misbehaves.

### 3.1 AtLeastOnce and WebhookOutbox

`AtLeastOnce` is what the rest of the system may rely on: a submitted task is `open`, is performed (perhaps more than
once, perhaps after it was settled), becomes `done` only after it was performed and stays so, or is `given up`, from
where an operator may revive it or a late worker finish it. Its two variables hide rows, attempts, locks and workers.

In `WebhookOutbox`, `row`, `attempts`, `due`, `lockedBy`, `stale` are the columns; `batch[w]`, `current[w]`, `answer[w]`
and `pc[w]` the local variables of `processPendingWebhooks`. `getPendingWebhooks` reads a batch; `lockWebhookEntry` or
`SkipEntry` begins an entry; `dispatchWebhook` takes one of the outcomes of `Exchange` (among them the 2xx without a
JSON body, which the code takes for a network failure); `Settle` records it with `markDispatched` or `recordFailure`,
whose effect depends on `Owns`; `DeadLetter` is the branch of a destination refused by the SSRF check. `AbandonBatch` is
a crash or a throwing statement. `LockAges` may hit a lock that is in use at most `MaxOverruns` times. The refinement
(`ImplementsTasks`) maps a row with its attempts to a task's state and the receivers' acceptances to `performed`.

### 3.2 JobQueue and OutboundMessage

`claimJobs` is the one statement `internal_job_claim` with its batch; `HandlerReturns` is a handler seen from
outside; `completeJob` and `failJob` follow. Faults are crashes and a `completeJob` that throws after the
effect. `JobQueue` implements `AtLeastOnce` in the same way: `performed` is the set of jobs whose handler succeeded.

`OutboundMessage` replaces `HandlerReturns` by the statements of the send handlers: `MarkSending`, `ProviderCreate` (the
provider accepts or not, and the call may throw although it accepted), `RecordSent`, `GiveUp`, and `QueryFails` for a
statement that throws. `Accepts` is the trigger. A callback is `LookUp`, which checks `canTransition`, and later
`ApplyCallback`; for a hard bounce these are two statements, and `CallbackDies` comes between them. A job is named by
its message; whether it is an SMS or an email is chosen when it is enqueued.

### 3.3 SymphonyRun

`transition` is the state machine inside one transaction; `SelectForUpdate` and `CompareAndSet` are the same
function called without a client, whose two statements run on two connections. `state_version` is only
compared for equality, so the model keeps the set `fresh` of callers whose version is still current.
`Overwrite` stands for the statements that do not touch the version: routes, reconciliation, sweep.
`CountActive`, `SelectUnclaimed`, `ClaimRun` are the tick; `Start`, `recoverOrphanedRuns`, `RecoverRun`,
`removeHeartbeat`, `BeginTicking` the start of an orchestrator. Not in the model: the event log, stages, tokens and
costs, and clocks beyond "timed out".

### 3.4 GatewayConnection

One action per callback of a socket (`Open`, `Challenge`, `ConnectAccepted`, `TickEvent`, `Close`, ...), per timer
(`ChallengeTimeout`, `ConnectTimeout`, `TickTimeout`, `ReconnectTimer`) and per method. The service's fields are
references to sockets; the timers and answers that really exist are kept apart from the references, so a handle
overwritten without being cleared is visible. `PeerVanishes` is a half-open connection, `PeerCloses` a close.
Not in the model: the length of the back-off, the interval of ticks, metrics, the subscribers to events.

### 3.5 YjsDocuments

One note. `docs` is the manager's map entry, `Doc` the objects that were ever loaded, so two joins may hold two. The
content of a document, a snapshot or the row is the set of edits it contains: Yjs updates commute and are
idempotent, so merging is union. A save is a slot with its snapshot and what follows it (leave, flush). A
connection is a client id used once: `Connect`, the awaits of a join, `handleMessage`, `leaveRoom`. `shutdown` flushes
once; the second handler's shutdown repeats the same call. An object nobody refers to any more is reset,
since it is unreachable. `mishaps` and `raced` are histories that name the ways in which an edit can be lost:
a failed save, a drop while a save is under way, two objects, a stale load; and edits that came while a save was
waiting. The properties say that there is no other way.

### 3.6 ChatDispatch

A POST is a client's request with a message, which is its idempotency key. `SendMessage` is the request up to
the first `pool.connect()`; `StoreNew`, `StoreRepeated` and `StoreFails` are the transaction, after which a POST that
stored the message keeps its client of the pool (`held`), and one that met its key has answered and goes on in the
background. `TryGateway` or `SkipGateway` begins `dispatchChatMessage`; `RequestReturns` and `RequestFails` end the
request (the second by time-out, lost connection or error, while the frame may already have arrived or still may);
`StoredOnly`, `EnqueueHook` and `EnqueueFails` are the fall-back. `settle` is the return of the dispatch and the
handler's `finally`. `GatewayTakes` is the gateway, which starts an agent once for a key; the outbox is `AtLeastOnce`,
whose `Submit` is `enqueueWebhook` and whose other actions are `HookMoves`. `Crash` frees the pool and leaves what is stored.

### 3.7 ChatReplies

One session, which is enough because all state of `GatewayEventRouter` and `StreamManager` is kept by session or run. A run
was started over the WebSocket (`WsRun`) or by a webhook (`HttpRun`). `SendPart`, `SendEnd` and `SendAgain` are the agents:
parts in increasing order, possibly with gaps, one end, and anything again. Each event or request gets a `task` that
first awaits its session lookup; from there, `handleDelta`, `handleFinal`, `handleAborted` are the router's,
`handleChunk`, `handleCompleted`, `handleFailed` the stream route's, and `Insert...`, `Announce...` what they do after
their own awaits. Timers are `Watchdog`, `TrackerExpires`, `TerminationExpires`, `TerminatedExpires`. `shown`, `told` and
`again` are what the user saw. Not in the model: limits on size and rate beyond the fact that they may refuse, the text.

The model shows what the code does without a property denying it: nobody sets `onStreamAbort`, so a stream that the
watchdog aborts ends silently; a chunk after the abort opens a new stream, although `terminated` is documented to
"prevent resurrection" (`stream-manager.ts:82`: only ends are refused); a whole answer of another run is refused for
five minutes after an abort; the key of a reply over HTTP is `agent:<id>:<time>`, which never equals the router's
`agent:<id>:<run>`, so the unique constraint that `chat-dispatch.ts:10-12` counts on never applies, and an answer whose
second statement failed is stored again when the agent repeats it (`RepliesAccounted` bounds how often).

### 3.8 NotifyListener and HaConnector

`NotifyListener` counts subscribed clients and the events that lost ones still owe, because only `stop()` reads
`this.client`. `Listens` and `AttemptFails` are the two ends of `connect()`; `scheduleReconnect`, `Retry` and
`handleDisconnect` carry the code's names. It has no `Next` of its own: the process that owns it composes it.

`HaConnector` is that process. An activity is a `reconcile()` call or the `addProvider()` of one provider at boot; `task[k]`
is its local state between two awaits (the rows it read, the ids it saw managed, those it still has to drop).
`fetchProviders`, `Resume`, `Loop`, `Disconnected`, `Connects`, `ConnectFails`, `updateStatus` are the stretches of code from
one await to the next; `addProvider`, `disconnect`, `removeProvider` what they do to the manager's map. `managed[p].by` is
the activity whose `mp` object the entry is. A connection whose entry was overwritten or deleted is a stray. `Api` is
`server.ts`: create and delete, which notify nobody, and changes, whose `NOTIFY` is a second statement. `stale`,
`mishaps` and `crossing` are histories: what an activity does not know that others did since it read, and whether it
worked on such a provider. `crossing` is on from then until no activity has been running for a moment.

What the model shows without a property denying it: a provider that was created or deleted is noticed at the next change
of another one; a change of a provider in status `error` is never picked up, since the query leaves it out; a change
notified between boot's read and the first LISTEN is missed, because `onReconnect` follows a retry only; a connection that
fails while it opens has a close handler that reconnects for ever, and nobody holds it; a failed connection whose status
write failed, too, stays in the map and is not tried again; the fingerprint contains the status, so a provider that
was `inactive` at boot is connected again at the first `reconcile()`.

## 4. What is checked

Every run is a `.cfg` file; deadlock is not checked anywhere because every bounded model stops once its
jobs are settled, its sockets used up or its process down (and the systems may stop there, too).

### 4.1 Runs that pass

| run | instance | what it shows |
|---|---|---|
| `outbox` | two workers, two webhooks of which one is refused by the SSRF check, `MAX_RETRIES` 2, one overrun, one abandoned batch, one operator retry (56,000 states) | locks and attempts stay consistent; the table implements `AtLeastOnce`; every webhook is settled |
| `jobs` | two workers, two jobs of which one has an unknown kind, batches of two, two overruns, two faults (89,000) | no double processing before a lock times out; repetitions are accounted for; the table implements `AtLeastOnce`; every job is settled |
| `messages` | a message that is an SMS or an email, two workers, one overrun, two faults, one failing query, two callbacks in flight (508,000) | sends, job state, status and provider id agree; nothing stays pending or sending |
| `symphony` | two runs, two orchestrators with room for one each, one late heartbeat, one fault, one pool call (1.5 million, symmetric) | one owner per run, capacity, no theft from the living, versioned ends |
| `symphony_states` | one run with all 22 states as targets, two orchestrators (940,000) | versioned writes follow the table; an unclaimed run is taken |
| `gateway` | three sockets, one request, two calls of `initialize`, two faults (240,000) | one chain, truthful status, no caller left; `initialize` returns, the service stays connected once faults end |
| `yjs` | two connections, two edits, two objects, two saves, one failing save (450,000) | what is clean is stored, writes stay, clients are served, edits are written |
| `chat_dispatch` | two POSTs with the same message or two, a pool of two, two faults (30,000) | who was told 2xx is dispatched; second starts are explained; every POST is answered; an acknowledged message starts an agent |
| `chat_replies` | one WebSocket run, two HTTP runs, one part each, two handlers at a time, four events, one fault (660,000) | nothing shown twice or after its end; one watchdog; replies are accounted for and announced |
| `ha_connector` | one provider with one change, two `reconcile()` calls, two faults (878,000) | the connector never goes deaf; strays are explained; notified changes are applied |

### 4.2 Runs that show a disagreement

| run | property | the code |
|---|---|---|
| `yjs_edit_lost` | an applied edit is written | an edit during a save is marked clean when the save returns; its timers then return early |
| `chat_pool` | a dispatch returns | every handler keeps its client of the chat pool while the fall-back's `enqueueWebhook` waits for another one of the same pool, which has no time limit: with as many POSTs in the fall-back as the pool has clients, none returns |

Therefore `yjs` excludes `raced` edits from its properties, and `EventuallyAnswered` of `chat_dispatch` excludes the
state `PoolIsExhausted`. `Converges` of `ha_connector` excludes a change that is notified while activities run that
have crossed (`Upset`): such an activity may close the connection that the change brought, or write `active` over the
`error` of a connection that failed, whichever comes last, and nothing corrects it before the next change. This takes
three changes and two faults, more than the run has; the proof of `AtRestAllIsApplied` needed it, and TLC found the
behaviour. Three more observations are formulas of the modules that no run checks; each has a counterexample of a few
steps:

* `TerminalIsFinal` (`SymphonyRun`): a cancel between the two statements of `transition()` without a client leaves the
  version as it is, and the transition overwrites the cancel. The properties speak of versioned writes for this reason.
* `AcceptedIsNotFailed` (`OutboundMessage`): a worker dies between recording `sent` and completing the job; the handler of
  the redelivered job writes `sending`, the trigger refuses, and the catch writes `failed`, which the trigger allows.
* `InitializeReturns` with the constant `UpgradeHangs` TRUE (`GatewayConnection`): a gateway that accepts the TCP connection and
  never answers the upgrade leaves `_connect()` waiting, since no timer runs before `open`. The start of the server
  waits with it. `gateway` is run with FALSE: its liveness is about gateways that answer or refuse the upgrade.

### 4.3 Reading the properties

* *Refinement.* `ImplementsTasks` (both tables): late workers, operators, failing statements and crashes never mark a
  task done before it was performed, reopen a finished one, or bring back an abandoned one without an operator.
* *Locks.* `NoLeakedLock` (both tables): a lock that names a running worker is for work that worker still has
  to settle. `NoConcurrentDispatch`, `NoDoubleProcessing`: two workers never do the same work before a lock
  has timed out in use (or an operator has cleared it).
* *Accounting.* `AttemptsBounded`: only workers that read a batch before the cap was reached go past it, one
  failure each. `StartsAccountedFor`, `SendsAreAccounted`, `RepliesAccounted`: what is repeated is paid for by a counted
  failure, a fault, an overrun or a sender that repeats. `TwiceOnlyIfRepeated`: an agent is started twice for one message
  only by a client's retry or a `chat.send` that failed on this side.
* *Agreement.* `CompletedWasAccepted`: a completed job has a message with the id of an accepted send. `CleanIsStored`,
  `StoredStays`: memory and row of a note. `OverlookedWasClosed`: the watchdog only overlooks runs a sweep has
  closed. `ConnectedIsWatched`: a connected service has an authenticated socket and a running watchdog.
  `AcknowledgedIsDispatched`: a 2xx answer and the whereabouts of the message. `OneWatchdog`: a stream and its timer.
  `ShownOnceBeforeTheEnd`: what the user sees and what the run has sent.
* *Capacity and ownership.* `CapacityRespected`, `ClaimIsFinal`, `SweepSparesTheLiving`, `JoinedIsServed`,
  `OneChain`, `PendingIsLive`. `StrayIsExplained`: a connection nobody can close comes from `reconcile()` calls that
  worked on one provider with what they had read before, or from a connection that failed while it opened.
* *Legal moves and ends.* `MovesAreValid`, `VersionedEndIsFinal`.
* *Progress.* `NeverDeaf` (the state in which progress would end), `Converges`, `EventuallySettled` (both),
  `EventuallyResolved`, `UnclaimedIsTaken`, `StaysConnected`, `InitializeReturns`, `EventuallyStored`, `EventuallyAnswered`,
  `EventuallyStarted`, `StoredIsAnnounced`.

Each property has a mutant: one definition of the model changed by a plausible slip, under which the same run
finds the property violated.

### 4.4 Why these bounds

The races of this code need two actors and one misfortune: two workers and a lock that timed out, a
transition and an operator, two sockets, two joins, two handlers, two `reconcile()` calls. A third actor repeats the
second's part: rows and objects carry no order among actors. Two entries or jobs in a batch are needed so that one
waits while the other is handled. Two edits are needed for one to be written without the other; three sockets for two
`initialize` calls and a reconnection; two HTTP runs and one WebSocket run for one stream to be used by another run
than the one that opened it. In `chat_dispatch` two POSTs fill the pool of two, which is when a dispatch can wait for
itself. Attempts are capped at 2 where the code has 5: the cap is only compared. `messages` has one message because
messages share nothing but the workers, which `jobs` covers with two jobs. `ha_connector` has one provider because a
`reconcile()` treats them one after the other; what needs two (a listed provider that has disappeared from the map
when its turn comes, which ends the call) was explored with two providers, one change and no faults (110,000 states) under
the same properties; and with one provider, three changes and two faults (13 million states) what `AtRestAllIsApplied`
states. Its safety properties are proved for any number. `MaxOverruns` is needed for the liveness of the queues: if every lock
may time out in use, two workers can take a job from each other for ever; `MaxFaults` likewise elsewhere. The proofs do not
depend on any of these bounds.

Symmetry is used in `symphony` only, which has no liveness properties.

### 4.5 Fairness

* Queues: weak fairness of every worker's loop (the fall-back timer of `src/worker/run.ts` re-arms itself, handlers
  and POSTs end by their time-outs) and of the clock. None for enqueueing, retries, faults, callbacks.
* Symphony: weak fairness of each orchestrator's tick (`tickInFlight` is cleared in a `finally`, the timer
  re-arms itself). None for operators, callers of `transition()`, sweeps.
* Gateway: timers fire; a closing socket closes (`ws` destroys it after 30 seconds); a gateway that is
  neither gone nor refusing answers; a missing token is put right. None for `initialize`, `request`,
  `shutdown`, faults. `StaysConnected` is claimed while `initialize` was called once, as the server does.
* Notes: timers fire and the database answers, with success or failure. None for joins, leaves, edits, least-
  recently-used eviction, shutdown. `EventuallyStored` therefore needs no user to come back.
* Chat dispatch: every awaited statement returns, the request timer fires, and an open webhook is delivered or given up, which
  is `EventuallySettled` of `WebhookOutbox`. None for clients, for the gateway taking a frame, or for its connection.
* Chat replies: awaited statements return. None for agents, timers and crashes.
* Home Assistant connector: the process is restarted, its timers fire, its statements and connection attempts return.
  The debounce timer is reset by every notification, so its fairness rests on `MaxChanges`: a stream of
  notifications that never pauses for a tenth of a second would never be flushed (`worker/listener.ts:154`). None for the API.

## 5. What is proved

All proofs are of `Spec` (no fairness), for every choice of the constants the `ASSUME`s of
the modules allow: owners are not workers, bounds are naturals, sets that are counted are finite. TLAPS checks
every leaf.

| module | theorems (what they state of `Spec`) |
|---|---|
| `WebhookOutbox_proofs` | `TypeCorrect` (`TypeOK`), `LocksAreInHand` (`NoLeakedLock`), `DispatchedStays` (`DispatchedIsFinal`), `ExclusiveDispatch` (`NoConcurrentDispatch`), `AttemptsStayBounded` (`AttemptsBounded`), `DispatchedImpliesAccepted` (`DispatchedWasAccepted`), `OutboxImplementsTasks` (`ImplementsTasks`) |
| `OutboundMessage_proofs` | of the queue's `JobSpec`: `JobTypeCorrect` (`JobTypeOK`), `NoLockLeaks` (`NoLeakedLock`), `AttemptCapIsExact` (`AttemptsCapped`), `CompletedStays` (`CompletedIsFinal`), `NoDoubleRuns` (`NoDoubleProcessing`), `StartsArePaidFor` (`StartsAccountedFor`), `QueueImplementsTasks` (`ImplementsTasks`); of the composition: `TypeCorrect` (`TypeOK`), `MessagesImplementQueue` (`JobSpec`), `MessagesImplementTasks` (`ImplementsTasks`), `CompletedWereAccepted` (`CompletedWasAccepted`), `SendsArePaidFor` (`SendsAreAccounted`) |
| `SymphonyRun_proofs` | `TypeCorrect` (`TypeOK`), `ValidMoves` (`MovesAreValid`), `VersionedEnds` (`VersionedEndIsFinal`), `OneOwner` (`ClaimIsFinal`), `OverlookedRuns` (`OverlookedWasClosed`), `LivingAreSpared` (`SweepSparesTheLiving`), `CapacityHolds` (`CapacityRespected`) |
| `GatewayConnection_proofs` | `TypeCorrect` (`TypeOK`), `OwedByTheLiving` (`PendingIsLive`), `ChainIsSingle` (`OneChain`), `ReportIsTrue` (`ConnectedIsWatched`), `ShutdownEnds` (`ShutdownIsFinal`), `PromisesAreOwed` (`PromiseIsKept`), `OpenSocketsAreGuarded` (`OpenIsGuarded`) |
| `YjsDocuments_proofs` | `TypeCorrect` (`TypeOK`), `ClientsAreServed` (`JoinedIsServed`), `CleanDocumentsAreStored` (`CleanIsStored`), `WritesStay` (`StoredStays`), `EditsAreScheduled` (`UnstoredIsScheduled`) |
| `ChatDispatch_proofs` | `TypeCorrect` (`TypeOK`), `StartsAreExplained` (`TwiceOnlyIfRepeated`), `Acknowledged` (`AcknowledgedIsDispatched`), `ClientsAreReturned` (`PoolIsBalanced`), `OnlyThePoolBlocks` (`NothingElseBlocks`), `ChatKeepsOutbox` (`Outbox!Spec`), `DispatchedIsOnItsWay` (`StartIsToCome`) |
| `ChatReplies_proofs` | `TypeCorrect` (`TypeOK`), `WatchdogIsTheStreams` (`OneWatchdog`), `ShownOnce` (`ShownOnceBeforeTheEnd`), `AnswersAreAccounted` (`RepliesAccounted`), `StoredIsRemembered` (`StoredIsNotLost`) |
| `HaConnector_proofs` | `TypeCorrect` (`TypeOK`), `NeverDeafForGood` (`NeverDeaf`), `StraysAreExplained` (`StrayIsExplained`), `ChangesAreOnTheirWay` (`ChangeIsOnItsWay`), `AtRestAllIsApplied` (`AppliedAtRest`) |

Liveness under fairness is out of the prover's reach. What can be proved of a liveness property is its *safety half*: in every
reachable state in which the promise is open, something that fairness moves is still there to fulfil it. These formulas are
defined where they are proved and are in no run, because the run of the liveness property says more of its instance;
the theorem says it for every instance, and shows which of the premises in 4.5 the property rests on:

| liveness (run) | safety half (theorem) | what is there |
|---|---|---|
| `InitializeReturns` | `PromiseIsKept` | a promise that is not settled belongs to a socket that has not closed |
| `StaysConnected` | `OneChain`, `OpenIsGuarded` | one socket or one timer; an open socket has an armed timer that ends it if nothing comes |
| `EventuallyStored` | `UnstoredIsScheduled` | an edit that is not stored is being saved, or is dirty with both timers armed |
| `EventuallyAnswered` | `NothingElseBlocks` | who waits for a client of the pool finds one, or a holder goes on without one, or the pool is exhausted |
| `EventuallyStarted` | `StartIsToCome` | a dispatched message has started its agent, or has a row of the outbox, open or given up |
| `StoredIsAnnounced` | `StoredIsNotLost` | a stored answer is announced, about to be, or its handler broke off |
| `Converges` | `NeverDeaf`, `ChangeIsOnItsWay`, `AppliedAtRest` | a change is to be read, in hand, or applied; at rest, applied |

The arguments:

* *Outbox.* `NoLeakedLock` is not inductive: it also needs that a worker has one entry in hand, which has left its
  batch, and none between two entries (`InHand`), and that rows that are not pending are unlocked
  (`LockedIsPending`). `ExclusiveDispatch` adds the converse, `HolderInv`: before any overrun or retry, a worker
  with an entry in hand holds a fresh lock on it. `AttemptsStayBounded` counts the workers that may still fail
  an entry: each failure past the cap costs one of them (`LoseOne`), and nobody reads a capped entry anew.
* *Refinements.* Every step of the detailed specification is a step of `AtLeastOnce` or leaves its two variables alone,
  given what the invariants say: a worker that is about to write success has been accepted before (`AcceptedInv`,
  `SuccessIsReal`), and a row that is dispatched or completed is not written again. `MessagesImplementQueue` needs no
  invariant, because the handlers use the queue's actions; by it, all theorems of the queue hold of the composition.
* *Job queue.* `LockInv` is the same with batches, and adds that a locked job is below the cap: only the owner of a
  lock counts a failure, so the cap is exact. For `NoDoubleRuns`, `Exclusive` says that every job of a batch is
  locked by its worker or completed, that batches are disjoint, and that no lock of a running worker is stale.
  `StartsInv` is the budget of a job: its starts, the workers that still have it in their batch (`Turns`) and one more if
  nobody holds a fresh lock on it (`Unheld`) are at most one plus its counted failures, the faults and the overruns. A
  claim moves the one to a worker, a start uses a worker up, and only what the right-hand side counts gives a new one.
* *Messages.* `HandlerInv`: what is about to be recorded was accepted, and a job whose handler succeeded has a message
  with an accepted id and a status from which the trigger lets nobody send again (`NoWayBack`). For `SendsArePaidFor`,
  `SendsInv` counts what may still happen beside what has: the sends so far, the workers that may still send the message
  (`Chances`) and the chance of one more claim (`Spare`) together never exceed one plus the faults, errors and overruns.
* *Symphony.* The status a pending call has read is not terminal, and is the row's while its version is fresh and
  no unversioned writer came between (`CallInv`): this makes versioned moves legal. `CapInv`: what an
  orchestrator owns, the slots its tick has counted and the runs it has listed stay within the limit together.
  `SweepInv` follows a sweep from late heartbeats to the runs it writes and finds only dead owners while no beat
  was late. `ClosedInv`: `completed_at` is set only at an end, by a sweep, or on a run that came back from an end.
* *Gateway.* `Links` is the heart: there is one socket or one timer, because each is only made when the other
  ends. With one socket, the references are the only ones there are (`Timers`), and what is reported is about
  that socket (`Watch`). `Owed` is what the close handlers do for callers. `OpenIsGuarded` is proved with `Waiting`: while
  `initialize` was called once, only `this.ws` connects or is open, so the one flag `challengeReceived` is about the socket
  whose challenge timer looks at it.
* *Notes.* `StoreInv`, as long as nothing in `mishaps` happened: the document and every save under way hold all
  edits that are not `raced`, the row holds them when the document is clean or absent (`WhereCalmIs`); a dirty
  document that could be dropped is being saved, and a shutdown has stored them or waits for the save that does
  (`DropsAreSafe`). `Pending` adds that what is neither stored nor being saved has both persist timers: `persistDoc` clears
  them only when it starts a save or finds nothing to write.
* *Chat dispatch.* `Places`: who holds a client of the pool is dispatching and has not answered, and who is
  dispatching has no outbox row yet. `Origins`: what is dispatched is stored, and a POST that left a frame and reached
  the fall-back had a request that failed. `Sources`: the gateway has only what some POST sent it. For `Acknowledged`,
  the POST that answered 2xx is either still running or has left a taken frame or an outbox row, which `AtLeastOnce`
  never removes. `PoolIsBalanced` says who holds clients, so that an empty pool means `PoolSize` dispatching handlers,
  of which all are in the fall-back or one goes on alone. `ChatKeepsOutbox`: the route uses the outbox only by
  submitting, so that it stays an `AtLeastOnce`; `StartIsToCome` uses that a row of the outbox which is done was
  performed.
* *Replies.* The type invariant already says that a task which awaits carries a part its run has sent, or the end the run came
  to (`TaskInv`); later awaits trust what the first one read. `MemoryInv`: what the user was shown of a WebSocket run is in its
  tracker, and a run whose end was told is terminated, until that memory expires (`forgotten`). `ReplyInv`: over HTTP, the rows
  stored and the requests that may still insert (`Undecided`) never exceed the ends the agent sent.
* *Listener.* `NeverDeaf` is inductive once `reconnecting` is known to be true exactly while one timer is armed or one
  retry is pending (`ReconnectingIsServed`): the flag that makes further calls do nothing is never left alone.
* *Strays.* `SInv`: while nobody has crossed, no two activities are at one provider (`Apart`), each has noted what the
  others worked on since it read the table (`Warned`), an activity owns the entry it is closing or opening (`Owned`), and
  a provider that appeared in the map behind its back is among what it has noted (`Listed`). An activity that proceeds
  without crossing therefore overwrites or deletes entries only whose connection it has closed. When all
  activities have ended, these four hold again, whatever happened before (`PeaceReturns`).
* *Changes.* `ChangeIsOnItsWay`: a notified change is still to be read (the notification waits for the debounce timer,
  a retry will be followed by a `reconcile()`, one is fetching, or the process is down and will read everything at
  boot), is in the rows of an activity that has yet to come to it, or is what the entry in the map was made for. An
  activity with old rows must not undo this: `UpToDate` and `Complete` say that as long as the entry has the current
  configuration, no task has other rows of it, nor would drop it, unless it has noted that it was worked on, in which
  case it crosses and the change is excluded. `InHandOf` says that no task without such a note has a row of a provider
  in status `error`, which the query leaves out; `Bounded`, that nobody is ahead of the table; `Attended`, that an
  entry which is being opened or closed has an activity at it, so at rest there is none. `CInv` is their conjunction;
  it uses `SInv` and `TypeInv`. That a flushed notification makes a call read the table needs a smallest free call,
  since the model starts calls in their order: this is the library's theorem that `<` on `Nat` is well-founded.

Every invariant and refinement that a run checks, and every action property, is a theorem. Only model-checked are the
liveness properties themselves: `EventuallySettled` (both), `EventuallyResolved`, `UnclaimedIsTaken` and those of the
table above. The refinements are proved for `Spec`; `AtLeastOnce` has no liveness. `DispatchedIsFinal`, `DispatchedWasAccepted`,
`AttemptsCapped`, `CompletedIsFinal` and `ShutdownIsFinal` are proved and need no run of their own. No module uses a
`RECURSIVE` operator, and no proof an induction over data.

## 6. What is not modelled, and why

Inside the modelled parts: the text of messages, payloads and configuration; lengths of delays and back-off; metrics
and logs; the idempotency of enqueueing (a second enqueue is no step); the contents of the other job handlers;
the Symphony event log; awareness, rate limits, embeddings and the content column of notes; a crash of the API
process in `YjsDocuments` (the note in memory is gone, which the document allows; what was stored stays); the other chat
routes, presence, the agent cache, read cursors and notification escalation; the calls of Home Assistant services, the
events of open connections and the refresh of their tokens. Two processes with one worker id are outside the models.
The retention cron of `migrations/064` deletes rows that are settled and is left out.

Whole parts: section 1.2 and `PROJECT.json`, "components". Routes that run one statement have no interleaving
to check; similarity search, scoring and parsing are data; the user interface and the plugin are clients. They
are most of the repository's lines: the specifications cover the parts where several actors share state.

## 7. Running

`tlc -config MCYjsDocuments.cfg MCYjsDocuments.tla` checks a run, `tlapm YjsDocuments_proofs.tla` the proofs. A run takes from
a few seconds to about two minutes with two workers, a proof module up to a few minutes.
