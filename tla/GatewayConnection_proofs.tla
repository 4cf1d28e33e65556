----------------------- MODULE GatewayConnection_proofs -----------------------
(***************************************************************************)
(* Proofs about GatewayConnection for any number of sockets, requests and  *)
(* faults.                                                                 *)
(*                                                                         *)
(* TypeInv types the state; Down says what shutdown() leaves behind and    *)
(* Owed that answers are owed by live sockets only.  Links is the heart:   *)
(* before a second initialize() there is one socket or one timer, because  *)
(* each is only made when the other ends.  With one socket, the references *)
(* the service keeps are the only ones there are (Timers), and what it     *)
(* reports is about that socket (Watch).                                   *)
(***************************************************************************)
EXTENDS GatewayConnection, FiniteSetTheorems, TLAPS

Phase == {"closed", "connecting", "open", "closing"}

TypeInv == TypeOK /\ (reconnectTimer => reconnectTimers > 0)

USE DEF socket, flags, init, reconnect, challenge, handshake, gateway, bounds

\* close() turns a socket that connects or is open into one that is closing.
LEMMA ClosedFacts ==
  ASSUME NEW ph \in [Socket -> Phase], NEW s \in Reference
  PROVE  /\ Closed(ph, s) \in [Socket -> Phase]
         /\ \A t \in Socket : Closed(ph, s)[t] = "closed" <=> ph[t] = "closed"
         /\ \A t \in Socket : Closed(ph, s)[t] = "open" => ph[t] = "open" /\ t # s
         /\ \A t \in Socket : ph[t] \in {"open", "closing"} =>
                                Closed(ph, s)[t] \in {"open", "closing"}
  BY GatewayAssumption DEF Closed, Phase, Reference

\* The conjuncts of TypeInv by kind: the provers take them one kind at a time.
References ==
  /\ phase \in [Socket -> Phase]
  /\ handshakes \in [Socket -> Reference] /\ pending \in [Request -> Reference]
  /\ ws \in Reference /\ resolveInit \in Reference
  /\ challengeTimer \in Reference /\ responseTimer \in Reference
  /\ unresolved \in SUBSET Socket
  /\ challengeTimers \in SUBSET Socket /\ responseTimers \in SUBSET Socket
  /\ challenged \in SUBSET Socket /\ accepted \in SUBSET Socket
  /\ silent \in SUBSET Socket

Flags ==
  /\ connected \in BOOLEAN /\ challengeReceived \in BOOLEAN
  /\ shutdownRequested \in BOOLEAN /\ promised \in BOOLEAN
  /\ reconnectTimer \in BOOLEAN /\ tickArmed \in BOOLEAN /\ configOk \in BOOLEAN

Counts ==
  /\ reconnectTimers \in Nat /\ inits \in Nat /\ faults \in Nat
  /\ reconnectTimer => reconnectTimers > 0

LEMMA Kinds == TypeInv <=> References /\ Flags /\ Counts
  BY DEF TypeInv, TypeOK, References, Flags, Counts, Phase

\* The type invariant is inductive: a timer is only cancelled when the service
\* still refers to it, so their number stays a natural number.
LEMMA TypeInductive == TypeInv /\ [Next]_vars => TypeInv'
<1> SUFFICES ASSUME TypeInv, [Next]_vars PROVE TypeInv'
  OBVIOUS
<1> USE DEF TypeInv, Phase
<1>0. phase \in [Socket -> Phase] /\ ws \in Reference
  BY DEF TypeOK
<1>c. \A s \in Reference : Closed(phase, s) \in [Socket -> Phase]
  BY <1>0, ClosedFacts
<1>r. References /\ Flags /\ Counts
  BY Kinds
<1> HIDE DEF Phase
<1>1. ASSUME initialize PROVE TypeInv'
  <2>1. References'
    BY <1>1, <1>r DEF initialize, doInitialize, connect, scheduleReconnect, References, Reference, Phase
  <2>2. Flags'
    BY <1>1, <1>r DEF initialize, doInitialize, connect, scheduleReconnect, Flags
  <2>3. Counts'
    BY <1>1, <1>r DEF initialize, doInitialize, scheduleReconnect, Counts
  <2> QED BY <2>1, <2>2, <2>3 DEF TypeOK, References, Flags, Counts, Phase
<1>2. ASSUME ReconnectTimer PROVE TypeInv'
  <2>1. References'
    BY <1>2, <1>r DEF ReconnectTimer, doInitialize, connect, scheduleReconnect, References, Reference, Phase
  <2>2. Flags'
    BY <1>2, <1>r DEF ReconnectTimer, doInitialize, connect, scheduleReconnect, Flags
  <2>3. Counts'
    BY <1>2, <1>r DEF ReconnectTimer, doInitialize, scheduleReconnect, Counts
  <2> QED BY <2>1, <2>2, <2>3 DEF TypeOK, References, Flags, Counts, Phase
<1>3. ASSUME shutdown PROVE TypeInv'
  <2>1. References'
    BY <1>3, <1>c, <1>r DEF shutdown, rejectRequests, References, Reference
  <2>2. Flags'
    BY <1>3, <1>r DEF shutdown, stopReconnecting, Flags
  <2>3. Counts'
    BY <1>3, <1>r DEF shutdown, stopReconnecting, Counts
  <2> QED BY <2>1, <2>2, <2>3 DEF TypeOK, References, Flags, Counts, Phase
<1>4. ASSUME TickTimeout PROVE TypeInv'
  <2>1. References'
    BY <1>4, <1>c, <1>r DEF TickTimeout, References
  <2>2. Flags'
    BY <1>4, <1>r DEF TickTimeout, Flags
  <2>3. Counts'
    BY <1>4, <1>r DEF TickTimeout, Overdue, Fault, Counts
  <2> QED BY <2>1, <2>2, <2>3 DEF TypeOK, References, Flags, Counts, Phase
<1>5. ASSUME FixConfig PROVE TypeInv'
  BY <1>5 DEF FixConfig, TypeOK
<1>6. ASSUME NEW r \in Request, request(r) \/ RequestSettles(r) PROVE TypeInv'
  BY <1>6 DEF request, RequestSettles, TypeOK, Reference
<1>7. ASSUME NEW s \in Socket, SocketEvent(s) PROVE TypeInv'
  <2>1. ASSUME Open(s) PROVE TypeInv'
    BY <2>1 DEF Open, awaitChallenge, TypeOK, Reference
  <2>2. ASSUME Close(s) PROVE TypeInv'
    <3>1. [phase EXCEPT ![s] = "closed"] \in [Socket -> Phase]
      BY <1>0 DEF Phase
    <3>2. Closed([phase EXCEPT ![s] = "closed"], ws) \in [Socket -> Phase]
      BY <3>1, <1>0, ClosedFacts
    <3> QED
      <4>1. References'
        BY <2>2, <3>1, <3>2, <1>r DEF Close, rejectHandshakes, rejectRequests, settle, References, Reference
      <4>2. Flags'
        BY <2>2, <1>r DEF Close, scheduleReconnect, Flags
      <4>3. Counts'
        BY <2>2, <1>r DEF Close, scheduleReconnect, Counts
      <4> QED BY <4>1, <4>2, <4>3 DEF TypeOK, References, Flags, Counts, Phase
  <2>3. ASSUME Challenge(s) PROVE TypeInv'
    BY <2>3 DEF Challenge, TypeOK, Reference
  <2>4. ASSUME TickEvent(s) PROVE TypeInv'
    BY <2>4 DEF TickEvent, TypeOK
  <2>5. ASSUME ConnectAccepted(s) PROVE TypeInv'
    BY <2>5 DEF ConnectAccepted, AnswerConnect, onConnected, TypeOK, Reference
  <2>6. ASSUME ConnectRejected(s) PROVE TypeInv'
    BY <2>6, <1>c, <1>0 DEF ConnectRejected, AnswerConnect, Fault, TypeOK, Reference, Phase
  <2>7. ASSUME ChallengeTimeout(s) PROVE TypeInv'
    BY <2>7, <1>c DEF ChallengeTimeout, Overdue, Fault, TypeOK, Reference, Phase
  <2>8. ASSUME ConnectTimeout(s) PROVE TypeInv'
    BY <2>8, <1>c, <1>0 DEF ConnectTimeout, Overdue, Fault, TypeOK, Reference, Phase
  <2>9. ASSUME PeerCloses(s) PROVE TypeInv'
    BY <2>9, <1>c DEF PeerCloses, Fault, TypeOK, Reference, Phase
  <2>10. ASSUME PeerVanishes(s) PROVE TypeInv'
    BY <2>10 DEF PeerVanishes, Fault, TypeOK
  <2> QED
    BY <1>7, <2>1, <2>2, <2>3, <2>4, <2>5, <2>6, <2>7, <2>8, <2>9, <2>10 DEF SocketEvent
<1>8. ASSUME UNCHANGED vars PROVE TypeInv'
  BY <1>8 DEF vars, TypeOK
<1> QED
  BY <1>1, <1>2, <1>3, <1>4, <1>5, <1>6, <1>7, <1>8 DEF Next

LEMMA TypeInitially == Init => TypeInv
<1> SUFFICES ASSUME Init PROVE TypeInv
  OBVIOUS
<1> USE DEF Init
<1>1. /\ phase \in [Socket -> Phase]
      /\ handshakes \in [Socket -> Reference] /\ pending \in [Request -> Reference]
      /\ ws \in Reference /\ resolveInit \in Reference
      /\ challengeTimer \in Reference /\ responseTimer \in Reference
  BY DEF Reference, Phase
<1>2. reconnectTimers \in Nat /\ inits \in Nat /\ faults \in Nat
  BY SMT
<1>3. /\ connected \in BOOLEAN /\ challengeReceived \in BOOLEAN
      /\ shutdownRequested \in BOOLEAN /\ promised \in BOOLEAN
      /\ reconnectTimer \in BOOLEAN /\ tickArmed \in BOOLEAN /\ configOk \in BOOLEAN
      /\ ~reconnectTimer
  OBVIOUS
<1>4. /\ unresolved \in SUBSET Socket
      /\ challengeTimers \in SUBSET Socket /\ responseTimers \in SUBSET Socket
      /\ challenged \in SUBSET Socket /\ accepted \in SUBSET Socket
      /\ silent \in SUBSET Socket
  OBVIOUS
<1> QED
  BY <1>1, <1>2, <1>3, <1>4 DEF TypeInv, TypeOK, Phase

LEMMA AlwaysTyped == Spec => []TypeInv
  BY TypeInitially, TypeInductive, PTL DEF Spec

\* TypeOK: every variable of the service stays within its type, the number of
\* armed reconnect timers included.
THEOREM TypeCorrect == Spec => []TypeOK
  <1>1. TypeInv => TypeOK
    BY DEF TypeInv
  <1> QED
    BY <1>1, AlwaysTyped, PTL

-----------------------------------------------------------------------------
(* What is owed after shutdown, and on which sockets answers are owed.     *)

Down ==
  shutdownRequested =>
    /\ ~connected /\ ws = NoSocket
    /\ \A r \in Request : pending[r] = NoSocket
    /\ \A s \in Socket : handshakes[s] = NoSocket

Owed == PendingIsLive /\ Down

\* Rejecting leaves nothing pending, and close() keeps sockets live, so answers
\* stay owed by live sockets; after shutdown() nothing is asked any more.
LEMMA OwedInductive == TypeInv /\ Owed /\ [Next]_vars => Owed'
<1> SUFFICES ASSUME TypeInv, Owed, [Next]_vars PROVE Owed'
  OBVIOUS
<1> USE DEF Owed, PendingIsLive, Live
<1>r. References /\ Flags
  BY Kinds
<1>c. \A s \in Reference, t \in Socket :
        Closed(phase, s)[t] = "closed" <=> phase[t] = "closed"
  BY <1>r, ClosedFacts DEF References
<1>1. ASSUME initialize PROVE Owed'
  BY <1>1, <1>r DEF initialize, doInitialize, connect, scheduleReconnect, Down, References
<1>2. ASSUME ReconnectTimer PROVE Owed'
  BY <1>2, <1>r DEF ReconnectTimer, doInitialize, connect, scheduleReconnect, Down, References
<1>3. ASSUME shutdown PROVE Owed'
  BY <1>3, <1>r DEF shutdown, rejectRequests, Down
<1>4. ASSUME TickTimeout PROVE Owed'
  BY <1>4, <1>c, <1>r DEF TickTimeout, Down, References
<1>5. ASSUME FixConfig PROVE Owed'
  BY <1>5 DEF FixConfig, Down
<1>6. ASSUME NEW r \in Request, request(r) \/ RequestSettles(r) PROVE Owed'
  BY <1>6, <1>r DEF request, RequestSettles, Down, References, Reference
<1>7. ASSUME NEW s \in Socket, SocketEvent(s) PROVE Owed'
  <2>1. ASSUME Open(s) PROVE Owed'
    BY <2>1, <1>r DEF Open, Down, References
  <2>2. ASSUME Close(s) PROVE Owed'
    BY <2>2, <1>r DEF Close, rejectHandshakes, rejectRequests, Down
  <2>3. ASSUME Challenge(s) PROVE Owed'
    BY <2>3, <1>r, GatewayAssumption DEF Challenge, Down, References, Reference
  <2>4. ASSUME TickEvent(s) PROVE Owed'
    BY <2>4 DEF TickEvent, Down
  <2>5. ASSUME ConnectAccepted(s) PROVE Owed'
    BY <2>5, <1>r DEF ConnectAccepted, AnswerConnect, onConnected, Down, References
  <2>6. ASSUME ConnectRejected(s) PROVE Owed'
    BY <2>6, <1>c, <1>r DEF ConnectRejected, AnswerConnect, Down, References
  <2>7. ASSUME ChallengeTimeout(s) PROVE Owed'
    BY <2>7, <1>c, <1>r DEF ChallengeTimeout, Down, References, Reference
  <2>8. ASSUME ConnectTimeout(s) PROVE Owed'
    BY <2>8, <1>c, <1>r DEF ConnectTimeout, Down, References
  <2>9. ASSUME PeerCloses(s) PROVE Owed'
    BY <2>9, <1>c, <1>r DEF PeerCloses, Down, References, Reference
  <2>10. ASSUME PeerVanishes(s) PROVE Owed'
    BY <2>10 DEF PeerVanishes, Down
  <2> QED
    BY <1>7, <2>1, <2>2, <2>3, <2>4, <2>5, <2>6, <2>7, <2>8, <2>9, <2>10 DEF SocketEvent
<1>8. ASSUME UNCHANGED vars PROVE Owed'
  BY <1>8 DEF vars, Down
<1> QED
  BY <1>1, <1>2, <1>3, <1>4, <1>5, <1>6, <1>7, <1>8 DEF Next

LEMMA AlwaysOwed == Spec => []Owed
<1>1. Init => Owed
  BY DEF Init, Owed, PendingIsLive, Down
<1> QED
  BY <1>1, AlwaysTyped, OwedInductive, PTL DEF Spec

\* PendingIsLive: requests and connect requests never wait on a closed socket,
\* however often initialize() is called.
THEOREM OwedByTheLiving == Spec => []PendingIsLive
  <1>1. Owed => PendingIsLive
    BY DEF Owed
  <1> QED
    BY <1>1, AlwaysOwed, PTL

-----------------------------------------------------------------------------
(* One socket or one timer.                                                *)

Links ==
  inits <= 1 =>
    /\ \A s, t \in Live : s = t
    /\ ~shutdownRequested => Live \subseteq {ws}
    /\ (Live # {} \/ shutdownRequested) => reconnectTimers = 0
    /\ reconnectTimers <= 1
    /\ reconnectTimer <=> reconnectTimers = 1
    /\ inits = 0 => Live = {} /\ reconnectTimers = 0 /\ ~promised
    /\ (inits = 1 /\ ~shutdownRequested /\ Live = {}) => reconnectTimers = 1

\* A socket is made when the last timer has fired, a timer armed when the last
\* socket has closed, and the first initialize() makes the first of either.
LEMMA LinksInductive == TypeInv /\ Links /\ [Next]_vars => Links'
<1> SUFFICES ASSUME TypeInv, Links, [Next]_vars PROVE Links'
  OBVIOUS
<1> USE DEF Links, Live
<1>r. References /\ Flags /\ Counts
  BY Kinds
<1>c. \A s \in Reference, t \in Socket :
        Closed(phase, s)[t] = "closed" <=> phase[t] = "closed"
  BY <1>r, ClosedFacts DEF References
<1>1. ASSUME initialize PROVE Links'
  BY <1>1, <1>r DEF initialize, doInitialize, connect, scheduleReconnect, References, Counts
<1>2. ASSUME ReconnectTimer PROVE Links'
  BY <1>2, <1>r DEF ReconnectTimer, doInitialize, connect, scheduleReconnect, References, Counts
<1>3. ASSUME shutdown PROVE Links'
  BY <1>3, <1>c, <1>r DEF shutdown, stopReconnecting, References, Counts
<1>4. ASSUME TickTimeout PROVE Links'
  BY <1>4, <1>c, <1>r DEF TickTimeout, References
<1>5. ASSUME FixConfig PROVE Links'
  BY <1>5 DEF FixConfig
<1>6. ASSUME NEW r \in Request, request(r) \/ RequestSettles(r) PROVE Links'
  BY <1>6 DEF request, RequestSettles
<1>7. ASSUME NEW s \in Socket, SocketEvent(s) PROVE Links'
  <2>1. ASSUME Open(s) PROVE Links'
    BY <2>1, <1>r DEF Open, References
  <2>2. ASSUME Close(s) PROVE Links'
    <3>1. \A t \in Socket : phase'[t] = "closed" <=> t = s \/ phase[t] = "closed"
      <4> DEFINE ph == [phase EXCEPT ![s] = "closed"]
      <4>1. ph \in [Socket -> Phase] /\ \A t \in Socket : ph[t] = "closed" <=> t = s \/ phase[t] = "closed"
        BY <1>r DEF References, Phase
      <4>2. phase' = ph \/ phase' = Closed(ph, ws)
        BY <2>2 DEF Close, rejectHandshakes
      <4> HIDE DEF ph
      <4> QED BY <4>1, <4>2, <1>r, ClosedFacts DEF References
    <3> QED
      BY <2>2, <3>1, <1>r DEF Close, scheduleReconnect, References, Counts
  <2>3. ASSUME Challenge(s) PROVE Links'
    BY <2>3 DEF Challenge
  <2>4. ASSUME TickEvent(s) PROVE Links'
    BY <2>4 DEF TickEvent
  <2>5. ASSUME ConnectAccepted(s) PROVE Links'
    BY <2>5 DEF ConnectAccepted, AnswerConnect
  <2>6. ASSUME ConnectRejected(s) PROVE Links'
    BY <2>6, <1>c, <1>r DEF ConnectRejected, AnswerConnect, References
  <2>7. ASSUME ChallengeTimeout(s) PROVE Links'
    BY <2>7, <1>c, <1>r DEF ChallengeTimeout, References, Reference
  <2>8. ASSUME ConnectTimeout(s) PROVE Links'
    BY <2>8, <1>c, <1>r DEF ConnectTimeout, References
  <2>9. ASSUME PeerCloses(s) PROVE Links'
    BY <2>9, <1>c, <1>r DEF PeerCloses, References, Reference
  <2>10. ASSUME PeerVanishes(s) PROVE Links'
    BY <2>10 DEF PeerVanishes
  <2> QED
    BY <1>7, <2>1, <2>2, <2>3, <2>4, <2>5, <2>6, <2>7, <2>8, <2>9, <2>10 DEF SocketEvent
<1>8. ASSUME UNCHANGED vars PROVE Links'
  BY <1>8 DEF vars
<1> QED
  BY <1>1, <1>2, <1>3, <1>4, <1>5, <1>6, <1>7, <1>8 DEF Next

LEMMA AlwaysLinks == Spec => []Links
<1>1. Init => Links
  BY DEF Init, Links, Live
<1> QED
  BY <1>1, AlwaysTyped, LinksInductive, PTL DEF Spec

\* OneChain: while initialize() is called once there is at every moment one
\* socket or one reconnect timer, and never both.
THEOREM ChainIsSingle == Spec => []OneChain
<1>1. TypeInv /\ Links => OneChain
  <2> SUFFICES ASSUME TypeInv, Links, inits = 1 PROVE OneChain
    BY DEF OneChain
  <2>r. Counts
    BY Kinds
  <2>1. CASE Live = {}
    <3>1. Cardinality(Live) = 0
      BY <2>1, FS_EmptySet
    <3> QED
      BY <2>1, <2>r, <3>1 DEF OneChain, Links, Counts
  <2>2. CASE Live # {}
    <3>1. PICK s \in Live : TRUE
      BY <2>2
    <3>2. Live = {s}
      BY <3>1 DEF Links
    <3>3. Cardinality(Live) = 1
      BY <3>2, FS_Singleton
    <3> QED
      BY <2>2, <2>r, <3>3 DEF OneChain, Links, Counts
  <2> QED
    BY <2>1, <2>2
<1> QED
  BY <1>1, AlwaysTyped, AlwaysLinks, PTL

-----------------------------------------------------------------------------
(* The timers of the one socket, and what is reported of it.               *)

Timers ==
  inits <= 1 =>
    /\ \A s \in challengeTimers : s = challengeTimer /\ phase[s] \in {"open", "closing"}
    /\ challenged \subseteq Live
    /\ \A s \in responseTimers : s = responseTimer /\ handshakes[s] # NoSocket
    /\ \A s \in Socket : handshakes[s] # NoSocket => s \in challenged
    /\ tickArmed => Live # {}

Watch ==
  (inits <= 1 /\ connected) =>
    /\ ws \in Socket /\ phase[ws] \in {"open", "closing"} /\ ws \in accepted
    /\ phase[ws] = "open" => tickArmed

\* With one live socket, a timer is armed for it and referred to, or it is not
\* armed; the close event ends them all.
LEMMA TimersInductive ==
  TypeInv /\ Owed /\ Links /\ Timers /\ [Next]_vars => Timers'
<1> SUFFICES ASSUME TypeInv, Owed, Links, Timers, [Next]_vars PROVE Timers'
  OBVIOUS
<1> USE DEF Timers, Live
<1>r. References /\ Flags /\ Counts
  BY Kinds
<1>o. \A s \in Socket : handshakes[s] # NoSocket => phase[handshakes[s]] # "closed"
  BY DEF Owed, PendingIsLive
<1>l. inits <= 1 => /\ \A s, t \in Socket : phase[s] # "closed" /\ phase[t] # "closed" => s = t
                    /\ inits = 0 => \A s \in Socket : phase[s] = "closed"
                    /\ reconnectTimers > 0 => \A s \in Socket : phase[s] = "closed"
  BY <1>r DEF Links, Counts
<1>c. \A s \in Reference :
        /\ \A t \in Socket : Closed(phase, s)[t] = "closed" <=> phase[t] = "closed"
        /\ \A t \in Socket : phase[t] \in {"open", "closing"} =>
                                Closed(phase, s)[t] \in {"open", "closing"}
  BY <1>r, ClosedFacts DEF References
<1>1. ASSUME initialize PROVE Timers'
  BY <1>1, <1>r, <1>l DEF initialize, doInitialize, connect, New, scheduleReconnect, References, Counts
<1>2. ASSUME ReconnectTimer PROVE Timers'
  BY <1>2, <1>r, <1>l DEF ReconnectTimer, doInitialize, connect, New, scheduleReconnect, References, Counts
<1>3. ASSUME shutdown PROVE Timers'
  BY <1>3, <1>c, <1>r DEF shutdown, References
<1>4. ASSUME TickTimeout PROVE Timers'
  BY <1>4, <1>c, <1>r DEF TickTimeout, References
<1>5. ASSUME FixConfig PROVE Timers'
  BY <1>5 DEF FixConfig
<1>6. ASSUME NEW r \in Request, request(r) \/ RequestSettles(r) PROVE Timers'
  BY <1>6 DEF request, RequestSettles
<1>7. ASSUME NEW s \in Socket, SocketEvent(s) PROVE Timers'
  <2>1. ASSUME Open(s) PROVE Timers'
    BY <2>1, <1>r, <1>l DEF Open, awaitChallenge, References
  <2>2. ASSUME Close(s) PROVE Timers'
    <3> SUFFICES ASSUME inits <= 1 PROVE Timers'
      BY <2>2 DEF Close
    <3>1. challengeTimers' = {}
      BY <2>2, <1>r DEF Close, References
    <3>2. responseTimers' = {}
      BY <2>2, <1>r DEF Close, rejectHandshakes, HandshakePending, References
    <3>3. challenged' = {}
      BY <2>2, <1>r, <1>l DEF Close, References
    <3> QED
      BY <2>2, <3>1, <3>2, <3>3 DEF Close, rejectHandshakes
  <2>3. ASSUME Challenge(s) PROVE Timers'
    BY <2>3, <1>r, <1>l DEF Challenge, Delivers, References
  <2>4. ASSUME TickEvent(s) PROVE Timers'
    BY <2>4 DEF TickEvent, Delivers
  <2>5. ASSUME ConnectAccepted(s) PROVE Timers'
    BY <2>5, <1>r, <1>o DEF ConnectAccepted, AnswerConnect, onConnected, References, Reference
  <2>6. ASSUME ConnectRejected(s) PROVE Timers'
    BY <2>6, <1>c, <1>r DEF ConnectRejected, AnswerConnect, References
  <2>7. ASSUME ChallengeTimeout(s) PROVE Timers'
    BY <2>7, <1>c, <1>r DEF ChallengeTimeout, References, Reference
  <2>8. ASSUME ConnectTimeout(s) PROVE Timers'
    BY <2>8, <1>c, <1>r DEF ConnectTimeout, References
  <2>9. ASSUME PeerCloses(s) PROVE Timers'
    BY <2>9, <1>c, <1>r DEF PeerCloses, References, Reference
  <2>10. ASSUME PeerVanishes(s) PROVE Timers'
    BY <2>10 DEF PeerVanishes
  <2> QED
    BY <1>7, <2>1, <2>2, <2>3, <2>4, <2>5, <2>6, <2>7, <2>8, <2>9, <2>10 DEF SocketEvent
<1>8. ASSUME UNCHANGED vars PROVE Timers'
  BY <1>8 DEF vars
<1> QED
  BY <1>1, <1>2, <1>3, <1>4, <1>5, <1>6, <1>7, <1>8 DEF Next

\* connected is set by the answer to a connect request, which the one live
\* socket was sent, and reset before another socket can be made.
LEMMA WatchInductive ==
  TypeInv /\ Owed /\ Links /\ Watch /\ [Next]_vars => Watch'
<1> SUFFICES ASSUME TypeInv, Owed, Links, Watch, [Next]_vars PROVE Watch'
  OBVIOUS
<1> USE DEF Watch, Live
<1>r. References /\ Flags /\ Counts
  BY Kinds
<1>o. \A s \in Socket : handshakes[s] # NoSocket =>
        ~shutdownRequested /\ handshakes[s] \in Socket /\ phase[handshakes[s]] # "closed"
  BY <1>r DEF Owed, PendingIsLive, Down, References
<1>l. inits <= 1 => /\ ~shutdownRequested => \A s \in Socket : phase[s] # "closed" => s = ws
                    /\ inits = 0 => \A s \in Socket : phase[s] = "closed"
                    /\ reconnectTimers > 0 => \A s \in Socket : phase[s] = "closed"
  BY <1>r DEF Links, Counts
<1>c. \A s \in Reference :
        /\ \A t \in Socket : Closed(phase, s)[t] = "closed" <=> phase[t] = "closed"
        /\ \A t \in Socket : Closed(phase, s)[t] = "open" => phase[t] = "open" /\ t # s
        /\ \A t \in Socket : phase[t] \in {"open", "closing"} =>
                                Closed(phase, s)[t] \in {"open", "closing"}
  BY <1>r, ClosedFacts DEF References
<1>1. ASSUME initialize PROVE Watch'
  BY <1>1, <1>r, <1>l DEF initialize, doInitialize, connect, scheduleReconnect, References, Counts
<1>2. ASSUME ReconnectTimer PROVE Watch'
  BY <1>2, <1>r, <1>l DEF ReconnectTimer, doInitialize, connect, scheduleReconnect, References, Counts
<1>3. ASSUME shutdown PROVE Watch'
  BY <1>3 DEF shutdown
<1>4. ASSUME TickTimeout PROVE Watch'
  <2>1. UNCHANGED <<connected, inits, ws, accepted>>
    BY <1>4 DEF TickTimeout
  <2>2. \A s \in Socket : phase[s] \in {"open", "closing"} => phase'[s] \in {"open", "closing"}
    BY <1>4, <1>c, <1>r DEF TickTimeout, References
  <2>3. ws \in Socket => phase'[ws] # "open"
    BY <1>4, <1>c, GatewayAssumption DEF TickTimeout, Reference
  <2> QED
    BY <2>1, <2>2, <2>3
<1>5. ASSUME FixConfig PROVE Watch'
  BY <1>5 DEF FixConfig
<1>6. ASSUME NEW r \in Request, request(r) \/ RequestSettles(r) PROVE Watch'
  <2>1. UNCHANGED <<connected, inits, phase, ws, accepted, tickArmed>>
    BY <1>6 DEF request, RequestSettles
  <2> QED
    BY <2>1
<1>7. ASSUME NEW s \in Socket, SocketEvent(s) PROVE Watch'
  <2>1. ASSUME Open(s) PROVE Watch'
    <3>1. ~(inits <= 1 /\ connected)
      BY <2>1, <1>l DEF Open, Owed, Down
    <3> QED
      BY <2>1, <3>1 DEF Open
  <2>2. ASSUME Close(s) PROVE Watch'
    BY <2>2 DEF Close
  <2>3. ASSUME Challenge(s) PROVE Watch'
    BY <2>3 DEF Challenge
  <2>4. ASSUME TickEvent(s) PROVE Watch'
    BY <2>4 DEF TickEvent
  <2>5. ASSUME ConnectAccepted(s) PROVE Watch'
    BY <2>5, <1>o, <1>l DEF ConnectAccepted, AnswerConnect, Delivers, onConnected
  <2>6. ASSUME ConnectRejected(s) PROVE Watch'
    BY <2>6, <1>c, <1>r DEF ConnectRejected, AnswerConnect, References
  <2>7. ASSUME ChallengeTimeout(s) PROVE Watch'
    BY <2>7, <1>c, <1>r DEF ChallengeTimeout, References, Reference
  <2>8. ASSUME ConnectTimeout(s) PROVE Watch'
    BY <2>8, <1>c, <1>r DEF ConnectTimeout, References
  <2>9. ASSUME PeerCloses(s) PROVE Watch'
    BY <2>9, <1>c, <1>r DEF PeerCloses, References, Reference
  <2>10. ASSUME PeerVanishes(s) PROVE Watch'
    BY <2>10 DEF PeerVanishes
  <2> QED
    BY <1>7, <2>1, <2>2, <2>3, <2>4, <2>5, <2>6, <2>7, <2>8, <2>9, <2>10 DEF SocketEvent
<1>8. ASSUME UNCHANGED vars PROVE Watch'
  BY <1>8 DEF vars
<1> QED
  BY <1>1, <1>2, <1>3, <1>4, <1>5, <1>6, <1>7, <1>8 DEF Next

LEMMA WatchInitially == Init => Timers /\ Watch
  BY DEF Init, Timers, Watch, Live

LEMMA AlwaysWatched == Spec => [](Timers /\ Watch)
  BY WatchInitially, AlwaysTyped, AlwaysOwed, AlwaysLinks, TimersInductive, WatchInductive, PTL
     DEF Spec

\* ConnectedIsWatched: the service reports connected only of a live socket that
\* the gateway has accepted, with the tick timer armed while it is open.
THEOREM ReportIsTrue == Spec => []ConnectedIsWatched
<1>1. Watch => ConnectedIsWatched
  BY DEF Watch, ConnectedIsWatched, Live
<1> QED
  BY <1>1, AlwaysWatched, PTL

\* ShutdownIsFinal: after shutdown() nothing is reported, held or owed, and when
\* the last socket has closed no timer is left.
THEOREM ShutdownEnds == Spec => []ShutdownIsFinal
<1>1. TypeInv /\ Owed /\ Links /\ Timers => ShutdownIsFinal
  <2> SUFFICES ASSUME TypeInv, Owed, Links, Timers, shutdownRequested PROVE ShutdownIsFinal
    BY DEF ShutdownIsFinal
  <2>r. References
    BY Kinds
  <2>1. ~connected /\ ws = NoSocket /\ \A r \in Request : pending[r] = NoSocket
    BY DEF Owed, Down
  <2>2. ASSUME inits = 1, Live = {}
        PROVE  ~tickArmed /\ reconnectTimers = 0 /\ challengeTimers = {} /\ responseTimers = {}
    BY <2>2, <2>r DEF Links, Timers, Owed, Down, Live, References
  <2> QED
    BY <2>1, <2>2 DEF ShutdownIsFinal
<1> QED
  BY <1>1, AlwaysTyped, AlwaysOwed, AlwaysLinks, AlwaysWatched, PTL

-----------------------------------------------------------------------------
(***************************************************************************)
(* The safety half of StaysConnected and InitializeReturns: what an open   *)
(* socket waits for is guarded by an armed timer that closes it, and the   *)
(* promise of _connect() only pends while the socket whose close event     *)
(* settles it has not closed.  A socket that connects is guarded by        *)
(* nothing (UpgradeHangs).                                                 *)
(***************************************************************************)
Guarded(s) ==
  \/ s \in challengeTimers /\ ~challengeReceived
  \/ s \in responseTimers /\ handshakes[s] # NoSocket
  \/ tickArmed

PromiseIsKept == unresolved \subseteq Live

OpenIsGuarded == inits = 1 => \A s \in Socket : phase[s] = "open" => Guarded(s)

\* Only this.ws connects or is open, so whatever closes this.ws closes it, and
\* challengeReceived is about it.
Waiting ==
  inits <= 1 =>
    \A s \in Socket : /\ phase[s] = "open" => ws = s /\ Guarded(s)
                      /\ phase[s] = "connecting" => ws = s /\ ~challengeReceived

LEMMA PromiseInductive == TypeInv /\ PromiseIsKept /\ [Next]_vars => PromiseIsKept'
<1> SUFFICES ASSUME TypeInv, PromiseIsKept, [Next]_vars PROVE PromiseIsKept'
  OBVIOUS
<1>r. References
  BY Kinds
<1>1. CASE unresolved' \subseteq unresolved /\ \A t \in Socket : phase'[t] = "closed" => phase[t] = "closed"
  BY <1>1, <1>r DEF PromiseIsKept, Live, References
<1>c. \A s \in Reference, t \in Socket : Closed(phase, s)[t] = "closed" <=> phase[t] = "closed"
  BY <1>r, ClosedFacts DEF References
<1>2. ASSUME NEW s \in Socket, connect(s) PROVE PromiseIsKept'
  BY <1>2, <1>r DEF connect, PromiseIsKept, Live, References
<1>3. ASSUME NEW s \in Socket, Close(s) PROVE PromiseIsKept'
  <2>1. \A t \in Socket : phase'[t] = "closed" => t = s \/ phase[t] = "closed"
    <3> DEFINE ph == [phase EXCEPT ![s] = "closed"]
    <3>1. ph \in [Socket -> Phase] /\ \A t \in Socket : ph[t] = "closed" => t = s \/ phase[t] = "closed"
      BY <1>r DEF References, Phase
    <3>2. phase' = ph \/ phase' = Closed(ph, ws)
      BY <1>3 DEF Close, rejectHandshakes
    <3> HIDE DEF ph
    <3> QED BY <3>1, <3>2, <1>r, ClosedFacts DEF References
  <2>2. unresolved' = unresolved \ {s}
    BY <1>3 DEF Close, settle
  <2> QED BY <2>1, <2>2, <1>r DEF PromiseIsKept, Live, References
<1>4. CASE initialize \/ ReconnectTimer
  BY <1>1, <1>2, <1>4 DEF initialize, ReconnectTimer, doInitialize
<1>5. CASE shutdown \/ TickTimeout \/ FixConfig \/ UNCHANGED vars
  BY <1>1, <1>5, <1>c, <1>r DEF shutdown, TickTimeout, FixConfig, vars, References
<1>6. ASSUME NEW r \in Request, request(r) \/ RequestSettles(r) PROVE PromiseIsKept'
  BY <1>1, <1>6 DEF request, RequestSettles
<1>7. ASSUME NEW s \in Socket,
             \/ Open(s) \/ Challenge(s) \/ TickEvent(s) \/ ConnectAccepted(s) \/ PeerVanishes(s)
      PROVE  PromiseIsKept'
  BY <1>1, <1>7, <1>r
  DEF Open, Challenge, TickEvent, ConnectAccepted, AnswerConnect, onConnected, PeerVanishes, References
<1>8. ASSUME NEW s \in Socket,
             ConnectRejected(s) \/ ChallengeTimeout(s) \/ ConnectTimeout(s) \/ PeerCloses(s)
      PROVE  PromiseIsKept'
  BY <1>1, <1>8, <1>c, <1>r
  DEF ConnectRejected, AnswerConnect, ChallengeTimeout, ConnectTimeout, PeerCloses, References, Reference
<1> QED
  BY <1>3, <1>4, <1>5, <1>6, <1>7, <1>8 DEF Next, SocketEvent

\* A guard is only taken away by what puts another in its place or closes the
\* socket: the challenge by the connect request, its answer by the tick timer.
LEMMA WaitingInductive ==
  TypeInv /\ Owed /\ Links /\ Waiting /\ [Next]_vars => Waiting'
<1> SUFFICES ASSUME TypeInv, Owed, Links, Waiting, [Next]_vars, inits' <= 1, NEW t \in Socket
             PROVE  /\ phase'[t] = "open" => ws' = t /\ Guarded(t)'
                    /\ phase'[t] = "connecting" => ws' = t /\ ~challengeReceived'
  BY DEF Waiting
<1>r. References /\ Flags /\ Counts
  BY Kinds
<1>i. inits <= 1
  <2>1. inits' \in {inits, inits + 1}
    <3>1. ASSUME NEW s \in Socket, SocketEvent(s) PROVE inits' = inits
      BY <3>1 DEF SocketEvent, Open, Close, Challenge, TickEvent, ConnectAccepted, ConnectRejected,
                  AnswerConnect, ChallengeTimeout, ConnectTimeout, PeerCloses, PeerVanishes
    <3> QED
      BY <3>1 DEF Next, initialize, ReconnectTimer, shutdown, TickTimeout, FixConfig, request,
                  RequestSettles, vars
  <2> QED BY <2>1, <1>r DEF Counts
<1>w. /\ phase[t] = "open" => ws = t /\ Guarded(t)
      /\ phase[t] = "connecting" => ws = t /\ ~challengeReceived
  BY <1>i DEF Waiting
<1>l. /\ \A s \in Socket : phase[s] # "closed" /\ phase[t] # "closed" => s = t
      /\ (inits = 0 \/ reconnectTimers > 0) => phase[t] = "closed"
  BY <1>i, <1>r DEF Links, Live, Counts
<1>c. \A s \in Reference :
        /\ Closed(phase, s)[t] = "open" => phase[t] = "open" /\ t # s
        /\ Closed(phase, s)[t] = "connecting" => phase[t] = "connecting" /\ t # s
        /\ Closed(phase, s) \in [Socket -> Phase]
  BY <1>r, ClosedFacts, GatewayAssumption DEF References, Closed, Reference, Phase
<1>1. CASE /\ phase'[t] = phase[t] \/ phase'[t] \in {"closed", "closing"}
           /\ ws' = ws /\ challengeReceived' = challengeReceived
           /\ Guarded(t) => Guarded(t)'
  BY <1>1, <1>w
<1>2. CASE phase' = Closed(phase, ws)
  BY <1>2, <1>c, <1>r, <1>w DEF References
<1>3. ASSUME NEW s \in Socket, connect(s), phase[t] = "closed"
      PROVE  phase'[t] # "open" /\ (phase'[t] = "connecting" => ws' = t /\ ~challengeReceived')
  BY <1>3, <1>r DEF connect, References
<1>4. CASE initialize
  <2>1. CASE promised
    BY <1>1, <1>4, <2>1 DEF initialize, Guarded
  <2>2. CASE ~promised
    <3>1. inits = 0
      BY <1>4, <1>r, <1>i DEF initialize, Counts
    <3> QED BY <1>3, <1>4, <1>l, <2>2, <3>1 DEF initialize, doInitialize
  <2> QED BY <2>1, <2>2
<1>5. CASE ReconnectTimer
  BY <1>3, <1>5, <1>l DEF ReconnectTimer, doInitialize
<1>6. CASE shutdown
  BY <1>2, <1>6 DEF shutdown
<1>7. CASE TickTimeout
  <2>1. CASE ws # NoSocket /\ phase[ws] = "open"
    BY <1>2, <1>7, <2>1 DEF TickTimeout
  <2>2. CASE ~(ws # NoSocket /\ phase[ws] = "open")
    BY <1>7, <1>w, <2>2, GatewayAssumption DEF TickTimeout
  <2> QED BY <2>1, <2>2
<1>8. CASE FixConfig \/ UNCHANGED vars
  BY <1>1, <1>8 DEF FixConfig, vars, Guarded
<1>9. ASSUME NEW r \in Request, request(r) \/ RequestSettles(r)
      PROVE  /\ phase'[t] = phase[t] /\ ws' = ws /\ challengeReceived' = challengeReceived
             /\ Guarded(t) => Guarded(t)'
  BY <1>9 DEF request, RequestSettles, Guarded
<1>10. ASSUME NEW s \in Socket, SocketEvent(s)
       PROVE  /\ phase'[t] = "open" => ws' = t /\ Guarded(t)'
              /\ phase'[t] = "connecting" => ws' = t /\ ~challengeReceived'
  <2>1. CASE Open(s)
    BY <2>1, <1>r, <1>w, <1>l DEF Open, awaitChallenge, Guarded, References
  <2>2. CASE Close(s)
    <3> DEFINE ph == [phase EXCEPT ![s] = "closed"]
    <3>1. ph \in [Socket -> Phase] /\ ph[t] = "closed"
      BY <2>2, <1>l, <1>r DEF Close, References, Phase
    <3>2. phase' = ph \/ phase' = Closed(ph, ws)
      BY <2>2 DEF Close, rejectHandshakes
    <3> HIDE DEF ph
    <3>3. phase'[t] = "closed"
      BY <3>1, <3>2, <1>r, ClosedFacts DEF References
    <3> QED BY <3>3
  <2>3. CASE Challenge(s)
    <3>1. phase' = phase /\ ws' = ws /\ phase[s] # "closed" /\ phase[s] # "connecting"
      BY <2>3 DEF Challenge, Delivers
    <3>2. phase[t] = "open" => s \in responseTimers' /\ handshakes'[s] = ws /\ s = t
      BY <2>3, <3>1, <1>w, <1>l, <1>r, GatewayAssumption DEF Challenge, References
    <3> QED BY <3>1, <3>2, <1>w, <1>l, GatewayAssumption DEF Guarded
  <2>4. CASE TickEvent(s)
    BY <2>4, <1>1 DEF TickEvent, Guarded
  <2>5. CASE ConnectAccepted(s)
    BY <2>5, <1>1 DEF ConnectAccepted, AnswerConnect, onConnected, Guarded
  <2>6. CASE ConnectRejected(s)
    BY <2>6, <1>2 DEF ConnectRejected
  <2>7. CASE ChallengeTimeout(s)
    <3>1. CASE ~challengeReceived /\ phase[s] = "open"
      <4>1. phase' = Closed(phase, s) /\ ws' = ws /\ challengeReceived' = challengeReceived
        BY <2>7, <3>1 DEF ChallengeTimeout
      <4>2. phase'[t] # "open"
        BY <3>1, <4>1, <1>c, <1>l DEF Reference
      <4>3. phase'[t] = "connecting" => phase[t] = "connecting"
        BY <4>1, <1>c DEF Reference
      <4> QED BY <4>1, <4>2, <4>3, <1>w
    <3>2. CASE ~(~challengeReceived /\ phase[s] = "open")
      BY <2>7, <3>2, <1>w DEF ChallengeTimeout, Guarded
    <3> QED BY <3>1, <3>2
  <2>8. CASE ConnectTimeout(s)
    BY <2>8, <1>1, <1>2 DEF ConnectTimeout, Guarded
  <2>9. CASE PeerCloses(s)
    <3>1. phase' = Closed(phase, s)
      BY <2>9 DEF PeerCloses
    <3>2. phase'[t] \in {"open", "connecting"} => phase'[t] = phase[t]
      BY <3>1, <1>c DEF Reference
    <3>3. UNCHANGED <<ws, challengeReceived, challengeTimers, responseTimers, handshakes, tickArmed>>
      BY <2>9 DEF PeerCloses
    <3> QED BY <3>2, <3>3, <1>w DEF Guarded
  <2>10. CASE PeerVanishes(s)
    BY <2>10, <1>1 DEF PeerVanishes, Guarded
  <2> QED
    BY <1>10, <2>1, <2>2, <2>3, <2>4, <2>5, <2>6, <2>7, <2>8, <2>9, <2>10 DEF SocketEvent
<1> QED
  BY <1>1, <1>4, <1>5, <1>6, <1>7, <1>8, <1>9, <1>10 DEF Next

\* PromiseIsKept: however often initialize() is called, a _connect() that is
\* awaited has a socket that will close or connect, even after shutdown().
THEOREM PromisesAreOwed == Spec => []PromiseIsKept
<1>1. Init => PromiseIsKept
  BY DEF Init, PromiseIsKept
<1> QED
  BY <1>1, AlwaysTyped, PromiseInductive, PTL DEF Spec

\* OpenIsGuarded: from open to close, an armed timer will close a socket whose
\* gateway goes silent: no answer, time-out or rejection leaves a gap between
\* the challenge timer, the response timer and the tick timer.
THEOREM OpenSocketsAreGuarded == Spec => []OpenIsGuarded
<1>1. Init => Waiting
  BY DEF Init, Waiting
<1>2. Waiting => OpenIsGuarded
  BY DEF Waiting, OpenIsGuarded
<1> QED
  BY <1>1, <1>2, AlwaysTyped, AlwaysOwed, AlwaysLinks, WaitingInductive, PTL DEF Spec
=============================================================================
