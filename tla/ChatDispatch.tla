----------------------------- MODULE ChatDispatch -----------------------------
(***************************************************************************)
(* POST /chat/sessions/:id/messages (chat/routes.ts) and the dispatch of   *)
(* the message to the agent (gateway/chat-dispatch.ts): the handler takes  *)
(* a client of the chat pool, stores the message under its idempotency     *)
(* key, and keeps the client while dispatchChatMessage asks the gateway    *)
(* over its WebSocket and, when that fails, puts a webhook into the outbox *)
(* through the same pool.  A POST that repeats a key dispatches the stored *)
(* message again in the background and does not wait for it.               *)
(*                                                                         *)
(* The outbox is AtLeastOnce, which WebhookOutbox implements; one dispatch *)
(* enqueues at most one webhook, so webhooks have the names of POSTs.      *)
(***************************************************************************)
EXTENDS Naturals, FiniteSets

CONSTANTS
  Post,       \* requests of clients; two with the same message are a retry
  Message,    \* idempotency keys, each with its message
  NoMessage,
  PoolSize,   \* clients of the chat pool (max of pg's Pool; no time limit on waiting)
  MaxFaults   \* failing INSERTs and crashes of the API process

ASSUME PostAssumption == IsFiniteSet(Post)
ASSUME MessageAssumption == NoMessage \notin Message
ASSUME PoolAssumption == PoolSize \in Nat \ {0}
ASSUME FaultsAssumption == MaxFaults \in Nat

VARIABLES
  configured,  \* a gateway URL is set: otherwise messages are stored and that is all
  connected,   \* GatewayConnectionService.connected
  about,       \* about[p]: the message POST p carries
  phase,       \* phase[p]: where the handler, or the dispatch it left behind, is
  answer,      \* answer[p]: what the client was told
  held,        \* POSTs that hold a client of the pool
  stored,      \* rows of external_message
  frame,       \* frame[p]: the chat.send request of p
  taken,       \* idempotency keys the gateway has seen and started the agent for
  hook,        \* hook[p]: the outbox row of p, as AtLeastOnce sees it
  posted,      \* webhooks some worker has delivered
  timedOut,    \* history: POSTs whose chat.send failed or timed out
  dropped,     \* history: POSTs whose background dispatch failed
  faults

hooks == <<hook, posted>>
history == <<timedOut, dropped>>
gatewayVars == <<configured, connected>>
vars == <<gatewayVars, about, phase, answer, held, stored, frame, taken, hooks, history, faults>>

Outbox == INSTANCE AtLeastOnce WITH Task <- Post, state <- hook, performed <- posted

Init ==
  /\ configured \in BOOLEAN
  /\ connected = FALSE
  /\ about = [p \in Post |-> NoMessage]
  /\ phase = [p \in Post |-> "idle"]
  /\ answer = [p \in Post |-> "none"]
  /\ held = {}
  /\ stored = {}
  /\ frame = [p \in Post |-> "none"]
  /\ taken = {}
  /\ Outbox!Init
  /\ timedOut = {}
  /\ dropped = {}
  /\ faults = 0

Fault == faults < MaxFaults /\ faults' = faults + 1
PoolHasClient == Cardinality(held) < PoolSize

-----------------------------------------------------------------------------
(* The handler.                                                            *)

\* The session lookup of verifySessionAccess waits for the same pool as Store.
SendMessage(p, m) ==
  /\ phase[p] = "idle"
  /\ about' = [about EXCEPT ![p] = m]
  /\ phase' = [phase EXCEPT ![p] = "waiting"]
  /\ UNCHANGED <<gatewayVars, answer, held, stored, frame, taken, hooks, history, faults>>

\* pool.connect() and the transaction; the client is kept.
StoreNew(p) ==
  /\ phase[p] = "waiting" /\ PoolHasClient
  /\ about[p] \notin stored
  /\ stored' = stored \cup {about[p]}
  /\ held' = held \cup {p}
  /\ phase' = [phase EXCEPT ![p] = "dispatch"]
  /\ UNCHANGED <<gatewayVars, about, answer, frame, taken, hooks, history, faults>>

\* ON CONFLICT DO NOTHING: roll back, dispatch without waiting, answer 200.
StoreRepeated(p) ==
  /\ phase[p] = "waiting" /\ PoolHasClient
  /\ about[p] \in stored
  /\ answer' = [answer EXCEPT ![p] = "repeated"]
  /\ phase' = [phase EXCEPT ![p] = "dispatch"]
  /\ UNCHANGED <<gatewayVars, about, held, stored, frame, taken, hooks, history, faults>>

StoreFails(p) ==
  /\ phase[p] = "waiting" /\ PoolHasClient /\ Fault
  /\ answer' = [answer EXCEPT ![p] = "error"]
  /\ phase' = [phase EXCEPT ![p] = "over"]
  /\ UNCHANGED <<gatewayVars, about, held, stored, frame, taken, hooks, history>>

\* Mutant of settle: the finally block does not release the client.
BugSettleKeeps(p, result) ==
  /\ phase' = [phase EXCEPT ![p] = "over"]
  /\ answer' = IF p \in held THEN [answer EXCEPT ![p] = result] ELSE answer
  /\ UNCHANGED held

\* dispatchChatMessage has returned.  The POST that stored the message answers
\* with the result and releases its client; nobody looks at a repeated one's.
settle(p, result) ==
  /\ phase' = [phase EXCEPT ![p] = "over"]
  /\ answer' = IF p \in held THEN [answer EXCEPT ![p] = result] ELSE answer
  /\ held' = held \ {p}

-----------------------------------------------------------------------------
(* dispatchChatMessage.                                                    *)

\* Mutant of TryGateway: the request is not awaited.
BugTryForgets(p) ==
  /\ phase[p] = "dispatch" /\ connected
  /\ settle(p, "dispatched")
  /\ frame' = [frame EXCEPT ![p] = "sent"]
  /\ UNCHANGED <<gatewayVars, about, stored, taken, hooks, history, faults>>

TryGateway(p) ==
  /\ phase[p] = "dispatch" /\ connected
  /\ phase' = [phase EXCEPT ![p] = "request"]
  /\ frame' = [frame EXCEPT ![p] = "sent"]
  /\ UNCHANGED <<gatewayVars, about, answer, held, stored, taken, hooks, history, faults>>

SkipGateway(p) ==
  /\ phase[p] = "dispatch" /\ ~connected
  /\ phase' = [phase EXCEPT ![p] = "fallback"]
  /\ UNCHANGED <<gatewayVars, about, answer, held, stored, frame, taken, hooks, history, faults>>

\* Mutant of RequestReturns: the return is missing, and the fallback follows.
BugReturnFallsThrough(p) ==
  /\ phase[p] = "request" /\ frame[p] = "acknowledged"
  /\ phase' = [phase EXCEPT ![p] = "fallback"]
  /\ UNCHANGED <<gatewayVars, about, answer, held, stored, frame, taken, hooks, history, faults>>

RequestReturns(p) ==
  /\ phase[p] = "request" /\ frame[p] = "acknowledged"
  /\ settle(p, "dispatched")
  /\ UNCHANGED <<gatewayVars, about, stored, frame, taken, hooks, history, faults>>

\* The request timer, a lost connection, or an error the gateway answers.  The
\* frame may be with the gateway already, or arrive later.
RequestFails(p) ==
  /\ phase[p] = "request"
  /\ phase' = [phase EXCEPT ![p] = "fallback"]
  /\ timedOut' = timedOut \cup {p}
  /\ UNCHANGED <<gatewayVars, about, answer, held, stored, frame, taken, hooks, dropped, faults>>

StoredOnly(p) ==
  /\ phase[p] = "fallback" /\ ~configured
  /\ settle(p, "dispatched")
  /\ UNCHANGED <<gatewayVars, about, stored, frame, taken, hooks, history, faults>>

\* enqueueWebhook needs a client of its own for its INSERT.
EnqueueHook(p) ==
  /\ phase[p] = "fallback" /\ configured /\ PoolHasClient
  /\ Outbox!Submit(p)
  /\ settle(p, "dispatched")
  /\ UNCHANGED <<gatewayVars, about, stored, frame, taken, history, faults>>

\* Mutant of EnqueueFails: dispatched is reported although both ways failed.
BugEnqueueSwallows(p) ==
  /\ phase[p] = "fallback" /\ configured /\ PoolHasClient /\ Fault
  /\ settle(p, "dispatched")
  /\ dropped' = IF p \in held THEN dropped ELSE dropped \cup {p}
  /\ UNCHANGED <<gatewayVars, about, stored, frame, taken, hooks, timedOut>>

EnqueueFails(p) ==
  /\ phase[p] = "fallback" /\ configured /\ PoolHasClient /\ Fault
  /\ settle(p, "unavailable")
  /\ dropped' = IF p \in held THEN dropped ELSE dropped \cup {p}
  /\ UNCHANGED <<gatewayVars, about, stored, frame, taken, hooks, timedOut>>

Handler(p) ==
  \/ StoreNew(p) \/ StoreRepeated(p) \/ StoreFails(p)
  \/ TryGateway(p) \/ SkipGateway(p) \/ RequestReturns(p) \/ RequestFails(p)
  \/ StoredOnly(p) \/ EnqueueHook(p) \/ EnqueueFails(p)

-----------------------------------------------------------------------------
(* The gateway, the outbox's workers and the process.                      *)

ConnectionChanges ==
  /\ configured
  /\ connected' = ~connected
  /\ UNCHANGED <<configured, about, phase, answer, held, stored, frame, taken, hooks, history, faults>>

\* The gateway starts the agent once for each idempotencyKey it is sent; nothing
\* makes a frame arrive.
GatewayTakes(p) ==
  /\ frame[p] = "sent"
  /\ frame' = [frame EXCEPT ![p] = "acknowledged"]
  /\ taken' = taken \cup {about[p]}
  /\ UNCHANGED <<gatewayVars, about, phase, answer, held, stored, hooks, history, faults>>

HookMoves(p) ==
  /\ Outbox!Perform(p) \/ Outbox!Finish(p) \/ Outbox!GiveUp(p)
  /\ UNCHANGED <<gatewayVars, about, phase, answer, held, stored, frame, taken, history, faults>>

Running(p) == phase[p] \in {"waiting", "dispatch", "request", "fallback"}

\* The clients go with the process; POSTs that were answered before keep it.
Crash ==
  /\ Fault
  /\ phase' = [p \in Post |-> IF Running(p) THEN "over" ELSE phase[p]]
  /\ dropped' = dropped \cup {p \in Post : Running(p) /\ answer[p] = "repeated"}
  /\ held' = {}
  /\ connected' = FALSE
  /\ UNCHANGED <<configured, about, answer, stored, frame, taken, hooks, timedOut>>

Environment ==
  \/ ConnectionChanges \/ Crash
  \/ \E p \in Post : GatewayTakes(p) \/ HookMoves(p)

Next ==
  \/ \E p \in Post, m \in Message : SendMessage(p, m)
  \/ \E p \in Post : Handler(p)
  \/ Environment

Spec == Init /\ [][Next]_vars

\* Awaited statements return, timers fire, and an open webhook of the outbox is
\* delivered or given up (EventuallySettled of WebhookOutbox).
FairSpec ==
  /\ Spec
  /\ \A p \in Post : WF_vars(Handler(p))
  /\ \A p \in Post : WF_vars(HookMoves(p) /\ (p \in posted' \ posted \/ hook'[p] = "given up"))

-----------------------------------------------------------------------------
(* Properties.                                                             *)

TypeOK ==
  /\ configured \in BOOLEAN /\ connected \in BOOLEAN
  /\ about \in [Post -> Message \cup {NoMessage}]
  /\ phase \in [Post -> {"idle", "waiting", "dispatch", "request", "fallback", "over"}]
  /\ answer \in [Post -> {"none", "repeated", "dispatched", "unavailable", "error"}]
  /\ held \subseteq Post
  /\ stored \subseteq Message /\ taken \subseteq Message
  /\ frame \in [Post -> {"none", "sent", "acknowledged"}]
  /\ hook \in [Post -> {"none", "open", "done", "given up"}]
  /\ posted \subseteq Post /\ timedOut \subseteq Post /\ dropped \subseteq Post
  /\ faults \in Nat

\* The agent's runs for message m that the WebSocket and the webhooks started.
Starts(m) ==
  (IF m \in taken THEN {NoMessage} ELSE {}) \cup {p \in posted : about[p] = m}

Dispatched(m) == m \in taken \/ \E p \in Post : about[p] = m /\ hook[p] # "none"

\* A client that was told 2xx has its message with the gateway or in the outbox,
\* or its background dispatch is still going; the only exceptions are a server
\* without gateway and a background dispatch that failed after the answer.
AcknowledgedIsDispatched ==
  \A p \in Post : answer[p] \in {"dispatched", "repeated"} =>
    \/ Dispatched(about[p])
    \/ Running(p) \/ p \in dropped
    \/ ~configured

\* Only a stored message reaches an agent, and an agent that is started twice for
\* one message was sent it by a retry of the client, or over HTTP after its
\* chat.send had failed on this side only.
TwiceOnlyIfRepeated ==
  \A m \in Message :
    /\ Starts(m) # {} => m \in stored
    /\ \A x, y \in Starts(m) : x # y =>
         \/ \E p \in timedOut : about[p] = m
         \/ \E p, q \in Post : p # q /\ about[p] = m /\ about[q] = m

\* All clients of the pool are held by handlers that wait for one more of them.
PoolIsExhausted ==
  /\ ~PoolHasClient
  /\ \A p \in held : phase[p] = "fallback" /\ configured

\* Every POST is answered, whatever the gateway does, unless the handlers hold
\* the whole pool while their fallback waits for it.
EventuallyAnswered ==
  \A p \in Post : phase[p] = "waiting" ~> (phase[p] = "over" \/ PoolIsExhausted)

\* A message whose client was told it is dispatched starts the agent, unless the
\* outbox gives up on every webhook with it.
EventuallyStarted ==
  \A p \in Post :
    (answer[p] = "dispatched" /\ configured) ~>
      \/ Starts(about[p]) # {}
      \/ \E q \in Post : about[q] = about[p] /\ hook[q] = "given up"

\* "Never throws -- catches all dispatch errors and returns a result object":
\* a dispatch that has to fall back returns.
DispatchReturns == \A p \in Post : phase[p] = "fallback" ~> phase[p] = "over"
=============================================================================
