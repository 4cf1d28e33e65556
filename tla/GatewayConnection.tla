--------------------------- MODULE GatewayConnection ---------------------------
(***************************************************************************)
(* GatewayConnectionService (src/api/gateway/connection.ts): the           *)
(* persistent WebSocket from the API server to the OpenClaw gateway, with  *)
(* its handshake, its timers, its pending requests and its reconnection.   *)
(*                                                                         *)
(* Every callback of Node's event loop is one action.  A socket, a timer   *)
(* and the object that refers to them are separate pieces of state: the    *)
(* service keeps one reference of each kind and may lose it, and what it   *)
(* lost still runs.                                                        *)
(***************************************************************************)
EXTENDS Naturals, FiniteSets

CONSTANTS
  Socket,       \* WebSocket objects; one that is closed may stand for a new one
  Request,      \* calls of request(), each at most once at a time
  NoSocket,     \* null
  MaxInits,     \* bound: calls of initialize()
  MaxFaults,    \* bound: lost connections, refusals, late answers
  UpgradeHangs  \* whether a gateway may leave the HTTP upgrade unanswered

ASSUME GatewayAssumption ==
  /\ NoSocket \notin Socket
  /\ IsFiniteSet(Socket)
  /\ MaxInits \in Nat /\ MaxFaults \in Nat
  /\ UpgradeHangs \in BOOLEAN

VARIABLES
  phase,             \* phase[s]: readyState
  ws,                \* this.ws
  connected, challengeReceived, shutdownRequested,
  promised,          \* initializePromise is not null
  resolveInit,       \* the socket whose promise this.resolveInit resolves
  unresolved,        \* sockets whose _connect() promise is pending
  reconnectTimers,   \* number of armed reconnect timers
  reconnectTimer,    \* this.reconnectTimer refers to one of them
  tickArmed,         \* tickTimeoutTimer is armed
  challengeTimers,   \* sockets whose challenge timer is armed
  challengeTimer,    \* the one this.challengeTimer refers to
  handshakes,        \* handshakes[s]: where the connect request that answers
                     \* the challenge of s was sent, while it is pending
  responseTimers,    \* handshakes whose response timer is armed
  responseTimer,     \* the one this.connectResponseTimer refers to
  pending,           \* pending[r]: where request r was sent, while it is pending
  configOk,          \* SSRF check and token allow to connect
  challenged,        \* sockets whose challenge the gateway has sent
  accepted,          \* sockets whose connect request the gateway has accepted
  silent,            \* sockets on which nothing arrives any more
  inits,             \* calls of initialize() so far
  faults             \* faults so far

socket     == <<phase, ws>>
flags      == <<connected, challengeReceived, shutdownRequested>>
init       == <<promised, resolveInit, unresolved>>
reconnect  == <<reconnectTimers, reconnectTimer>>
challenge  == <<challengeTimers, challengeTimer>>
handshake  == <<handshakes, responseTimers, responseTimer>>
gateway    == <<challenged, accepted, silent>>
bounds     == <<inits, faults>>
vars == <<socket, flags, init, reconnect, tickArmed, challenge, handshake, pending,
          configOk, gateway, bounds>>

Init ==
  /\ phase = [s \in Socket |-> "closed"] /\ ws = NoSocket
  /\ connected = FALSE /\ challengeReceived = FALSE /\ shutdownRequested = FALSE
  /\ promised = FALSE /\ resolveInit = NoSocket /\ unresolved = {}
  /\ reconnectTimers = 0 /\ reconnectTimer = FALSE
  /\ tickArmed = FALSE
  /\ challengeTimers = {} /\ challengeTimer = NoSocket
  /\ handshakes = [s \in Socket |-> NoSocket]
  /\ responseTimers = {} /\ responseTimer = NoSocket
  /\ pending = [r \in Request |-> NoSocket]
  /\ configOk \in BOOLEAN
  /\ challenged = {} /\ accepted = {} /\ silent = {}
  /\ inits = 0 /\ faults = 0

-----------------------------------------------------------------------------
(* Helpers.                                                                *)

Live == {s \in Socket : phase[s] # "closed"}

\* Messages still arrive while the closing handshake runs.
Delivers(s) == phase[s] \in {"open", "closing"} /\ s \notin silent

\* The phases after s.close(); this.ws may be null, closing or closed.
Closed(ph, s) ==
  IF s # NoSocket /\ ph[s] \in {"connecting", "open"}
  THEN [ph EXCEPT ![s] = "closing"] ELSE ph

Fault == faults < MaxFaults /\ faults' = faults + 1

\* A timer that guards an answer from s fires because s is dead, or too early.
Overdue(s) ==
  IF s # NoSocket /\ phase[s] = "open" /\ s \notin silent
  THEN Fault ELSE faults' = faults

HandshakePending == \E s \in Socket : handshakes[s] # NoSocket

\* What _rejectPendingRequests does to a pending connect request: its reject
\* clears the response timer the service knows of and closes this.ws.
rejectHandshakes(ph) ==
  /\ handshakes' = [s \in Socket |-> NoSocket]
  /\ IF HandshakePending
     THEN /\ phase' = Closed(ph, ws)
          /\ responseTimers' = responseTimers \ {responseTimer}
          /\ responseTimer' = NoSocket
     ELSE phase' = ph /\ UNCHANGED <<responseTimers, responseTimer>>

\* Mutant of rejectRequests: callers of request() are not told.
BugRejectNone == UNCHANGED pending

rejectRequests == pending' = [r \in Request |-> NoSocket]

-----------------------------------------------------------------------------
(* initialize, reconnection and shutdown.                                  *)

\* new WebSocket(url): an object nothing refers to, not even a timer.
New(s) ==
  /\ phase[s] = "closed" /\ s # ws
  /\ s \notin challengeTimers /\ s \notin responseTimers

connect(s) ==
  /\ New(s)
  /\ phase' = [phase EXCEPT ![s] = "connecting"]
  /\ ws' = s
  /\ challengeReceived' = FALSE
  /\ unresolved' = unresolved \cup {s}
  /\ resolveInit' = s

\* Mutant of scheduleReconnect: the timer is only armed by a lost connection.
BugNoTimer(n) == reconnectTimers' = n /\ reconnectTimer' = FALSE

\* The old value of this.reconnectTimer is overwritten, not cleared.
scheduleReconnect(n) == reconnectTimers' = n + 1 /\ reconnectTimer' = TRUE

\* _doInitialize, when n reconnect timers are armed and known says whether
\* this.reconnectTimer refers to one.  Its callers know that no shutdown was
\* requested.
doInitialize(n, known) ==
  \/ /\ ~configOk
     /\ scheduleReconnect(n)
     /\ UNCHANGED <<socket, challengeReceived, resolveInit, unresolved>>
  \/ /\ configOk
     /\ \E s \in Socket : connect(s)
     /\ reconnectTimers' = n /\ reconnectTimer' = known

\* index.ts drops the service at shutdown, so nobody initializes it afterwards.
initialize ==
  /\ inits < MaxInits /\ ~shutdownRequested
  /\ inits' = inits + 1
  /\ promised' = TRUE
  /\ IF promised
     THEN UNCHANGED <<socket, challengeReceived, resolveInit, unresolved, reconnect>>
     ELSE doInitialize(reconnectTimers, reconnectTimer)
  /\ UNCHANGED <<connected, shutdownRequested, tickArmed, challenge, handshake, pending,
                 configOk, gateway, faults>>

\* The callback of a reconnect timer.
ReconnectTimer ==
  /\ reconnectTimers > 0
  /\ IF shutdownRequested
     THEN /\ reconnectTimers' = reconnectTimers - 1 /\ reconnectTimer' = FALSE
          /\ UNCHANGED <<socket, challengeReceived, init>>
     ELSE /\ promised' = FALSE
          /\ doInitialize(reconnectTimers - 1, FALSE)
  /\ UNCHANGED <<connected, shutdownRequested, tickArmed, challenge, handshake, pending,
                 configOk, gateway, bounds>>

stopReconnecting ==
  /\ reconnectTimers' = IF reconnectTimer THEN reconnectTimers - 1 ELSE reconnectTimers
  /\ reconnectTimer' = FALSE

shutdown ==
  /\ ~shutdownRequested
  /\ shutdownRequested' = TRUE
  /\ stopReconnecting
  /\ tickArmed' = FALSE
  /\ challengeTimers' = challengeTimers \ {challengeTimer}
  /\ challengeTimer' = NoSocket
  /\ responseTimers' = responseTimers \ {responseTimer}
  /\ responseTimer' = NoSocket
  /\ handshakes' = [s \in Socket |-> NoSocket]
  /\ rejectRequests
  /\ phase' = Closed(phase, ws)
  /\ connected' = FALSE
  /\ ws' = NoSocket
  /\ promised' = FALSE
  /\ UNCHANGED <<challengeReceived, resolveInit, unresolved, configOk, gateway, bounds>>

-----------------------------------------------------------------------------
(* Events of a socket.                                                     *)

\* Mutant of awaitChallenge: an open socket may wait for ever.
BugAwaitForEver(s) == UNCHANGED challenge

awaitChallenge(s) ==
  /\ challengeTimers' = challengeTimers \cup {s}
  /\ challengeTimer' = s

Open(s) ==
  /\ phase[s] = "connecting" /\ s \notin silent
  /\ phase' = [phase EXCEPT ![s] = "open"]
  /\ awaitChallenge(s)
  /\ UNCHANGED <<ws, flags, init, reconnect, tickArmed, handshake, pending, configOk,
                 gateway, bounds>>

\* Mutant of settle: the close handler does not resolve the promise.
BugSettleNever(s) == UNCHANGED <<unresolved, resolveInit>>

\* resolveOnce of the socket s.
settle(s) ==
  /\ unresolved' = unresolved \ {s}
  /\ resolveInit' = IF s \in unresolved THEN NoSocket ELSE resolveInit

\* The close event: _onDisconnect, then resolveOnce.  It never asks whether
\* the socket that closed is still this.ws.
Close(s) ==
  /\ phase[s] = "closing"
  /\ connected' = FALSE
  /\ tickArmed' = FALSE
  /\ challengeTimers' = challengeTimers \ {challengeTimer}
  /\ challengeTimer' = NoSocket
  /\ rejectHandshakes([phase EXCEPT ![s] = "closed"])
  /\ rejectRequests
  /\ IF shutdownRequested THEN UNCHANGED reconnect ELSE scheduleReconnect(reconnectTimers)
  /\ settle(s)
  /\ challenged' = challenged \ {s} /\ accepted' = accepted \ {s} /\ silent' = silent \ {s}
  /\ UNCHANGED <<ws, challengeReceived, shutdownRequested, promised, configOk, bounds>>

\* connect.challenge, sent once per connection; _sendConnectRequest answers on
\* this.ws, whichever socket the challenge came from.
Challenge(s) ==
  /\ Delivers(s) /\ s \notin challenged
  /\ challenged' = challenged \cup {s}
  /\ challengeReceived' = TRUE
  /\ challengeTimers' = challengeTimers \ {challengeTimer}
  /\ challengeTimer' = NoSocket
  /\ IF ws # NoSocket /\ phase[ws] = "open"
     THEN /\ handshakes' = [handshakes EXCEPT ![s] = ws]
          /\ responseTimers' = responseTimers \cup {s}
          /\ responseTimer' = s
     ELSE UNCHANGED handshake
  /\ UNCHANGED <<socket, connected, shutdownRequested, init, reconnect, tickArmed, pending,
                 configOk, accepted, silent, bounds>>

\* Mutant of onConnected: monitoring waits for the first tick.
BugAwaitFirstTick == connected' = TRUE /\ UNCHANGED <<tickArmed, unresolved, resolveInit>>

\* _onConnected.
onConnected ==
  /\ connected' = TRUE
  /\ tickArmed' = TRUE
  /\ unresolved' = unresolved \ {resolveInit}
  /\ resolveInit' = NoSocket

\* The answers to the connect request.
AnswerConnect(s) ==
  /\ handshakes[s] # NoSocket /\ Delivers(handshakes[s])
  /\ handshakes' = [handshakes EXCEPT ![s] = NoSocket]
  /\ responseTimers' = responseTimers \ {responseTimer}
  /\ responseTimer' = NoSocket
  /\ UNCHANGED <<ws, challengeReceived, shutdownRequested, promised, reconnect, challenge,
                 pending, configOk, challenged, silent, inits>>

ConnectAccepted(s) ==
  /\ AnswerConnect(s)
  /\ onConnected
  /\ accepted' = accepted \cup {handshakes[s]}
  /\ UNCHANGED <<phase, faults>>

ConnectRejected(s) ==
  /\ AnswerConnect(s) /\ Fault
  /\ phase' = Closed(phase, ws)
  /\ UNCHANGED <<connected, tickArmed, resolveInit, unresolved, accepted>>

\* The tick event re-arms the tick timer.
TickEvent(s) ==
  /\ Delivers(s)
  /\ tickArmed' = TRUE
  /\ UNCHANGED <<socket, flags, init, reconnect, challenge, handshake, pending, configOk,
                 gateway, bounds>>

-----------------------------------------------------------------------------
(* Timers of a connection.                                                 *)

ChallengeTimeout(s) ==
  /\ s \in challengeTimers
  /\ challengeTimers' = challengeTimers \ {s}
  /\ IF ~challengeReceived /\ phase[s] = "open"
     THEN phase' = Closed(phase, s) /\ Overdue(s)
     ELSE UNCHANGED <<phase, faults>>
  /\ UNCHANGED <<ws, flags, init, reconnect, tickArmed, challengeTimer, handshake, pending,
                 configOk, gateway, inits>>

ConnectTimeout(s) ==
  /\ s \in responseTimers
  /\ responseTimers' = responseTimers \ {s}
  /\ IF handshakes[s] # NoSocket
     THEN /\ handshakes' = [handshakes EXCEPT ![s] = NoSocket]
          /\ phase' = Closed(phase, ws)
          /\ Overdue(handshakes[s])
     ELSE UNCHANGED <<handshakes, phase, faults>>
  /\ UNCHANGED <<ws, flags, init, reconnect, tickArmed, challenge, responseTimer, pending,
                 configOk, gateway, inits>>

TickTimeout ==
  /\ tickArmed
  /\ tickArmed' = FALSE
  /\ IF ws # NoSocket /\ phase[ws] = "open"
     THEN phase' = Closed(phase, ws) /\ Overdue(ws)
     ELSE UNCHANGED <<phase, faults>>
  /\ UNCHANGED <<ws, flags, init, reconnect, challenge, handshake, pending, configOk, gateway,
                 inits>>

-----------------------------------------------------------------------------
(* Requests.                                                               *)

request(r) ==
  /\ pending[r] = NoSocket
  /\ ws # NoSocket /\ phase[ws] = "open" /\ connected
  /\ pending' = [pending EXCEPT ![r] = ws]
  /\ UNCHANGED <<socket, flags, init, reconnect, tickArmed, challenge, handshake, configOk,
                 gateway, bounds>>

\* The response arrives, or the request's own timer fires first; a response
\* after that finds no entry and is ignored.
RequestSettles(r) ==
  /\ pending[r] # NoSocket
  /\ pending' = [pending EXCEPT ![r] = NoSocket]
  /\ UNCHANGED <<socket, flags, init, reconnect, tickArmed, challenge, handshake, configOk,
                 gateway, bounds>>

-----------------------------------------------------------------------------
(* The gateway, the network and the operator.                              *)

\* The peer closes or resets the connection, or refuses it.
PeerCloses(s) ==
  /\ phase[s] \in {"connecting", "open"} /\ Fault
  /\ phase' = Closed(phase, s)
  /\ silent' = silent \cup {s}
  /\ UNCHANGED <<ws, flags, init, reconnect, tickArmed, challenge, handshake, pending,
                 configOk, challenged, accepted, inits>>

\* The peer is gone and the connection is half-open.
PeerVanishes(s) ==
  /\ s \notin silent /\ Fault
  /\ phase[s] \in IF UpgradeHangs THEN {"connecting", "open"} ELSE {"open"}
  /\ silent' = silent \cup {s}
  /\ UNCHANGED <<socket, flags, init, reconnect, tickArmed, challenge, handshake, pending,
                 configOk, challenged, accepted, inits>>

\* The operator sets the token or allows private hosts.
FixConfig ==
  /\ ~configOk
  /\ configOk' = TRUE
  /\ UNCHANGED <<socket, flags, init, reconnect, tickArmed, challenge, handshake, pending,
                 gateway, bounds>>

SocketEvent(s) ==
  \/ Open(s) \/ Close(s) \/ Challenge(s) \/ TickEvent(s)
  \/ ConnectAccepted(s) \/ ConnectRejected(s)
  \/ ChallengeTimeout(s) \/ ConnectTimeout(s)
  \/ PeerCloses(s) \/ PeerVanishes(s)

Next ==
  \/ initialize \/ ReconnectTimer \/ shutdown
  \/ \E s \in Socket : SocketEvent(s)
  \/ TickTimeout
  \/ \E r \in Request : request(r) \/ RequestSettles(r)
  \/ FixConfig

Spec == Init /\ [][Next]_vars

\* Timers fire, closing sockets close (ws destroys them after 30 seconds), and
\* a gateway that is neither gone nor refusing answers.  Nothing makes anyone
\* initialize, send a request or shut down.
FairSpec ==
  /\ Spec
  /\ WF_vars(ReconnectTimer) /\ WF_vars(FixConfig)
  /\ WF_vars(TickTimeout /\ faults' = faults)
  /\ \A s \in Socket :
       /\ WF_vars(Open(s)) /\ WF_vars(Close(s))
       /\ WF_vars(Challenge(s)) /\ WF_vars(ConnectAccepted(s))
       /\ WF_vars(ChallengeTimeout(s) /\ faults' = faults)
       /\ WF_vars(ConnectTimeout(s) /\ faults' = faults)

-----------------------------------------------------------------------------
(* Properties.                                                             *)

Reference == Socket \cup {NoSocket}

\* Every variable stays within its type; sockets follow readyState.
TypeOK ==
  /\ phase \in [Socket -> {"closed", "connecting", "open", "closing"}]
  /\ ws \in Reference /\ resolveInit \in Reference
  /\ challengeTimer \in Reference /\ responseTimer \in Reference
  /\ connected \in BOOLEAN /\ challengeReceived \in BOOLEAN /\ shutdownRequested \in BOOLEAN
  /\ promised \in BOOLEAN /\ reconnectTimer \in BOOLEAN /\ tickArmed \in BOOLEAN
  /\ configOk \in BOOLEAN
  /\ unresolved \in SUBSET Socket
  /\ reconnectTimers \in Nat
  /\ challengeTimers \in SUBSET Socket /\ responseTimers \in SUBSET Socket
  /\ handshakes \in [Socket -> Reference]
  /\ pending \in [Request -> Reference]
  /\ challenged \in SUBSET Socket /\ accepted \in SUBSET Socket /\ silent \in SUBSET Socket
  /\ inits \in Nat /\ faults \in Nat

\* While initialize() is called once, the service is always either holding one
\* socket or waiting for one reconnect timer, never neither (it would be cut
\* off for ever) and never two (scheduleReconnect overwrites the reference to
\* an armed timer): the close handler and the failed initialization are the
\* only places that re-arm it.
OneChain ==
  inits = 1 =>
    /\ Cardinality(Live) + reconnectTimers <= 1
    /\ ~shutdownRequested => Cardinality(Live) + reconnectTimers = 1
    /\ reconnectTimer <=> reconnectTimers = 1

\* connected is only reported of a socket whose gateway accepted the token,
\* and such a socket is watched for missing ticks for as long as it is open.
ConnectedIsWatched ==
  (inits = 1 /\ connected) =>
    /\ ws \in Live /\ ws \in accepted
    /\ phase[ws] = "open" => tickArmed

\* Nobody waits for an answer on a socket that is gone: request() callers and
\* connect requests are rejected by the close event of whatever socket.
PendingIsLive ==
  /\ \A r \in Request : pending[r] # NoSocket => pending[r] \in Live
  /\ \A s \in Socket : handshakes[s] # NoSocket => handshakes[s] \in Live

\* After shutdown() the service never reports connected, holds no socket and
\* owes no answer, and once the last socket has closed no timer is armed that
\* would keep the process alive.
ShutdownIsFinal ==
  shutdownRequested =>
    /\ ~connected /\ ws = NoSocket
    /\ \A r \in Request : pending[r] = NoSocket
    /\ (inits = 1 /\ Live = {}) =>
         ~tickArmed /\ reconnectTimers = 0 /\ challengeTimers = {} /\ responseTimers = {}

\* Once faults stop and the configuration is right, an initialized service is
\* connected for good unless it is shut down: no combination of a half-open
\* connection, a refusal, a lost challenge or a missing token stops the chain
\* of reconnections.
StaysConnected == (inits = 1) ~> [](connected \/ shutdownRequested \/ inits > 1)

\* The promise of every _connect() is settled: initialize() returns, which the
\* server's onReady hook waits for.
InitializeReturns ==
  \A s \in Socket : (inits = 1 /\ s \in unresolved) ~> (s \notin unresolved \/ inits > 1)
=============================================================================
