-------------------------- MODULE ChatDispatch_proofs --------------------------
(***************************************************************************)
(* Proofs about ChatDispatch for any number of POSTs and messages, any     *)
(* size of the pool and any number of faults.                              *)
(***************************************************************************)
EXTENDS ChatDispatch, TLAPS, FiniteSetTheorems

USE DEF vars, gatewayVars, hooks, history
USE DEF Outbox!Init, Outbox!Submit, Outbox!Perform, Outbox!Finish, Outbox!GiveUp

-----------------------------------------------------------------------------
(* Types.                                                                  *)

Flags == configured \in BOOLEAN /\ connected \in BOOLEAN

Tables ==
  /\ about \in [Post -> Message \cup {NoMessage}]
  /\ phase \in [Post -> {"idle", "waiting", "dispatch", "request", "fallback", "over"}]
  /\ answer \in [Post -> {"none", "repeated", "dispatched", "unavailable", "error"}]
  /\ held \subseteq Post
  /\ stored \subseteq Message /\ taken \subseteq Message
  /\ frame \in [Post -> {"none", "sent", "acknowledged"}]
  /\ hook \in [Post -> {"none", "open", "done", "given up"}]
  /\ posted \subseteq Post /\ timedOut \subseteq Post /\ dropped \subseteq Post
  /\ faults \in Nat

\* A POST that has begun, or left a frame, has a message.
Known ==
  \A p \in Post : phase[p] # "idle" \/ frame[p] # "none" => about[p] \in Message

LEMMA TypeParts == TypeOK <=> Flags /\ Tables
  BY Zenon DEF TypeOK, Flags, Tables

\* Zenon and SMT do not share arithmetic and Booleans: the counter is on its own.
LEMMA FaultIsCounted == ASSUME faults \in Nat, Fault PROVE faults' \in Nat
  BY DEF Fault

LEMMA InitTypes == Init => Flags /\ Tables /\ Known
<1> SUFFICES ASSUME Init PROVE Flags /\ Tables /\ Known
  OBVIOUS
<1>1. Flags    BY Zenon DEF Init, Flags
<1>2. faults \in Nat   BY DEF Init
<1>3. Tables   BY <1>2 DEF Init, Tables
<1>4. Known    BY DEF Init, Known
<1> QED  BY <1>1, <1>3, <1>4

LEMMA HandlerTypes ==
  ASSUME Tables, Known, NEW p \in Post, Handler(p)
  PROVE  Tables' /\ Known'
<1> USE DEF Tables, Known
<1>1. CASE StoreNew(p)           BY <1>1 DEF StoreNew
<1>2. CASE StoreRepeated(p)      BY <1>2 DEF StoreRepeated
<1>3. CASE StoreFails(p)         BY <1>3, FaultIsCounted DEF StoreFails
<1>4. CASE TryGateway(p)         BY <1>4 DEF TryGateway
<1>5. CASE SkipGateway(p)        BY <1>5 DEF SkipGateway
<1>6. CASE RequestReturns(p)     BY <1>6 DEF RequestReturns, settle
<1>7. CASE RequestFails(p)       BY <1>7 DEF RequestFails
<1>8. CASE StoredOnly(p)         BY <1>8 DEF StoredOnly, settle
<1>9. CASE EnqueueHook(p)        BY <1>9 DEF EnqueueHook, settle
<1>10. CASE EnqueueFails(p)      BY <1>10, FaultIsCounted DEF EnqueueFails, settle
<1> QED
  BY <1>1, <1>2, <1>3, <1>4, <1>5, <1>6, <1>7, <1>8, <1>9, <1>10, Handler(p) DEF Handler

LEMMA StepTypes ==
  ASSUME Tables, Known, [Next]_vars
  PROVE  Tables' /\ Known'
<1>1. ASSUME NEW p \in Post, NEW m \in Message, SendMessage(p, m) PROVE Tables' /\ Known'
  BY <1>1 DEF SendMessage, Tables, Known
<1>2. ASSUME NEW p \in Post, Handler(p) PROVE Tables' /\ Known'
  BY <1>2, HandlerTypes
<1>3. CASE ConnectionChanges   BY <1>3 DEF ConnectionChanges, Tables, Known
<1>4. CASE Crash               BY <1>4, FaultIsCounted DEF Crash, Running, Tables, Known
<1>5. ASSUME NEW p \in Post, GatewayTakes(p) PROVE Tables' /\ Known'
  <2>1. about[p] \in Message   BY <1>5 DEF GatewayTakes, Known
  <2> QED  BY <1>5, <2>1 DEF GatewayTakes, Tables, Known
<1>6. ASSUME NEW p \in Post, HookMoves(p) PROVE Tables' /\ Known'
  BY <1>6 DEF HookMoves, Tables, Known
<1>7. CASE UNCHANGED vars      BY <1>7 DEF Tables, Known
<1> QED
  BY <1>1, <1>2, <1>3, <1>4, <1>5, <1>6, <1>7 DEF Next, Environment

\* The settings change only with the connection.
LEMMA FlagsStep ==
  ASSUME Flags, [Next]_vars
  PROVE  Flags' /\ configured' = configured
<1> USE Zenon DEF Flags
<1>1. ASSUME NEW p \in Post, Handler(p) PROVE UNCHANGED gatewayVars
  BY <1>1 DEF Handler, StoreNew, StoreRepeated, StoreFails, TryGateway, SkipGateway,
     RequestReturns, RequestFails, StoredOnly, EnqueueHook, EnqueueFails
<1>2. CASE ConnectionChanges   BY <1>2 DEF ConnectionChanges
<1>3. CASE Crash               BY <1>3 DEF Crash
<1>4. ASSUME NEW p \in Post, GatewayTakes(p) \/ HookMoves(p) PROVE UNCHANGED gatewayVars
  BY <1>4 DEF GatewayTakes, HookMoves
<1>5. ASSUME NEW p \in Post, NEW m \in Message, SendMessage(p, m) PROVE UNCHANGED gatewayVars
  BY <1>5 DEF SendMessage
<1> QED
  BY <1>1, <1>2, <1>3, <1>4, <1>5 DEF Next, Environment

\* Every reachable state of the model of POST /messages is well typed.
THEOREM TypeCorrect == Spec => []TypeOK
<1>1. Flags /\ Tables /\ Known /\ [Next]_vars => (Flags /\ Tables /\ Known)'
  BY StepTypes, FlagsStep
<1> QED
  BY <1>1, InitTypes, TypeParts, PTL DEF Spec

-----------------------------------------------------------------------------
(* The inductive invariant.                                                *)

Dispatching(p) == phase[p] \in {"dispatch", "request", "fallback"}

\* Who holds a client, and what a POST has done at each place.
Places ==
  /\ \A p \in held : Dispatching(p) /\ answer[p] = "none"
  /\ \A p \in Post :
       /\ Dispatching(p) => (p \in held \/ answer[p] = "repeated") /\ hook[p] = "none"
       /\ phase[p] \in {"idle", "waiting"} =>
            answer[p] = "none" /\ frame[p] = "none" /\ hook[p] = "none"
       /\ phase[p] = "dispatch" => frame[p] = "none"

\* Where the agent's runs come from.
Origins ==
  /\ \A p \in Post :
       /\ Dispatching(p) \/ frame[p] # "none" \/ hook[p] # "none" => about[p] \in stored
       /\ frame[p] = "acknowledged" => about[p] \in taken
       /\ frame[p] # "none" /\ (phase[p] = "fallback" \/ hook[p] # "none") => p \in timedOut
  /\ \A p \in posted : hook[p] # "none"

Sources == \A m \in taken : \E p \in Post : about[p] = m /\ frame[p] = "acknowledged"

IInv == Tables /\ Known /\ Places /\ Origins /\ Sources

LEMMA InitInv == Init => IInv
  BY InitTypes DEF IInv, Init, Places, Origins, Sources, Dispatching

\* What a step of the outbox does not change.
HookStep ==
  /\ UNCHANGED <<about, phase, answer, held, stored, frame, taken, timedOut, dropped>>
  /\ \A q \in Post : hook'[q] = "none" <=> hook[q] = "none"
  /\ \A q \in posted' : q \in Post /\ (q \in posted \/ hook[q] # "none")

LEMMA HookFacts ==
  ASSUME Tables, NEW p \in Post, HookMoves(p)
  PROVE  HookStep
<1> USE DEF HookMoves, HookStep, Tables
<1>1. CASE Outbox!Perform(p)   BY <1>1
<1>2. CASE Outbox!Finish(p)    BY <1>2
<1>3. CASE Outbox!GiveUp(p)    BY <1>3
<1> QED  BY <1>1, <1>2, <1>3

LEMMA HandlerPlaces ==
  ASSUME IInv, NEW p \in Post, Handler(p)
  PROVE  Places'
<1> USE DEF IInv, Tables, Places, Dispatching
<1>1. CASE StoreNew(p)
  <2>1. /\ phase[p] = "waiting" /\ UNCHANGED <<answer, frame, hook>>
        /\ phase' = [phase EXCEPT ![p] = "dispatch"] /\ held' = held \cup {p}
    BY <1>1 DEF StoreNew
  <2>2. /\ phase'[p] = "dispatch" /\ p \in held'
        /\ answer'[p] = "none" /\ frame'[p] = "none" /\ hook'[p] = "none"
    BY <2>1
  <2>3. \A q \in Post : q # p => phase'[q] = phase[q] /\ (q \in held' <=> q \in held)
    BY <2>1
  <2>4. \A q \in held' : Dispatching(q)' /\ answer'[q] = "none"
    BY <2>1, <2>2, <2>3
  <2>6. Places /\ UNCHANGED <<answer, frame, hook>>
    BY <2>1
  <2> HIDE DEF IInv, Tables
  <2>5. ASSUME NEW q \in Post
        PROVE  /\ Dispatching(q)' => (q \in held' \/ answer'[q] = "repeated") /\ hook'[q] = "none"
               /\ phase'[q] \in {"idle", "waiting"} =>
                    answer'[q] = "none" /\ frame'[q] = "none" /\ hook'[q] = "none"
               /\ phase'[q] = "dispatch" => frame'[q] = "none"
    <3>1. CASE q = p   BY <2>2, <3>1
    <3>2. CASE q # p   BY <2>3, <2>6, <3>2
    <3> QED  BY <3>1, <3>2
  <2> QED  BY <2>4, <2>5
<1>2. CASE StoreRepeated(p)      BY <1>2 DEF StoreRepeated
<1>3. CASE StoreFails(p)         BY <1>3 DEF StoreFails
<1>4. CASE TryGateway(p)         BY <1>4 DEF TryGateway
<1>5. CASE SkipGateway(p)        BY <1>5 DEF SkipGateway
<1>6. CASE RequestReturns(p)     BY <1>6 DEF RequestReturns, settle
<1>7. CASE RequestFails(p)       BY <1>7 DEF RequestFails
<1>8. CASE StoredOnly(p)         BY <1>8 DEF StoredOnly, settle
<1>9. CASE EnqueueHook(p)        BY <1>9 DEF EnqueueHook, settle
<1>10. CASE EnqueueFails(p)      BY <1>10 DEF EnqueueFails, settle
<1> QED
  BY <1>1, <1>2, <1>3, <1>4, <1>5, <1>6, <1>7, <1>8, <1>9, <1>10, Handler(p) DEF Handler

LEMMA HandlerOrigins ==
  ASSUME IInv, NEW p \in Post, Handler(p)
  PROVE  Origins'
<1> USE DEF IInv, Tables, Places, Origins, Dispatching
<1>1. CASE StoreNew(p)           BY <1>1 DEF StoreNew
<1>2. CASE StoreRepeated(p)      BY <1>2 DEF StoreRepeated
<1>3. CASE StoreFails(p)         BY <1>3 DEF StoreFails
<1>4. CASE TryGateway(p)         BY <1>4 DEF TryGateway
<1>5. CASE SkipGateway(p)        BY <1>5 DEF SkipGateway
<1>6. CASE RequestReturns(p)     BY <1>6 DEF RequestReturns, settle
<1>7. CASE RequestFails(p)       BY <1>7 DEF RequestFails
<1>8. CASE StoredOnly(p)         BY <1>8 DEF StoredOnly, settle
<1>9. CASE EnqueueHook(p)        BY <1>9 DEF EnqueueHook, settle
<1>10. CASE EnqueueFails(p)      BY <1>10 DEF EnqueueFails, settle
<1> QED
  BY <1>1, <1>2, <1>3, <1>4, <1>5, <1>6, <1>7, <1>8, <1>9, <1>10, Handler(p) DEF Handler

\* A frame that was acknowledged stays so, and so does what its POST is about.
LEMMA StepSources ==
  ASSUME IInv, [Next]_vars
  PROVE  Sources'
<1> USE DEF IInv, Tables, Places
<1>1. ASSUME NEW p \in Post, GatewayTakes(p) PROVE Sources'
  <2>1. /\ about' = about /\ taken' = taken \cup {about[p]} /\ frame'[p] = "acknowledged"
        /\ \A q \in Post : frame[q] = "acknowledged" => frame'[q] = "acknowledged"
    BY <1>1 DEF GatewayTakes
  <2>2. ASSUME NEW m \in taken PROVE \E q \in Post : about'[q] = m /\ frame'[q] = "acknowledged"
    <3>1. PICK q \in Post : about[q] = m /\ frame[q] = "acknowledged"
      BY DEF Sources
    <3> QED  BY <2>1, <3>1
  <2> QED  BY <2>1, <2>2 DEF Sources
<1>2. ASSUME /\ taken' = taken
             /\ \A q \in Post : frame[q] = "acknowledged" =>
                  frame'[q] = "acknowledged" /\ about'[q] = about[q]
      PROVE  Sources'
  <2>1. ASSUME NEW m \in taken PROVE \E q \in Post : about'[q] = m /\ frame'[q] = "acknowledged"
    <3>1. PICK q \in Post : about[q] = m /\ frame[q] = "acknowledged"
      BY DEF Sources
    <3> QED  BY <1>2, <3>1
  <2> QED  BY <1>2, <2>1 DEF Sources
<1>3. ASSUME NEW p \in Post, NEW m \in Message, SendMessage(p, m) PROVE Sources'
  BY <1>2, <1>3 DEF SendMessage
<1>4. ASSUME NEW p \in Post, Handler(p) PROVE Sources'
  <2>1. /\ about' = about /\ taken' = taken
        /\ \A q \in Post : frame[q] = "acknowledged" => frame'[q] = "acknowledged"
    BY <1>4 DEF Handler, StoreNew, StoreRepeated, StoreFails, TryGateway, SkipGateway,
       RequestReturns, RequestFails, StoredOnly, EnqueueHook, EnqueueFails
  <2> QED  BY <1>2, <2>1
<1>5. CASE ConnectionChanges   BY <1>2, <1>5 DEF ConnectionChanges
<1>6. CASE Crash               BY <1>2, <1>6 DEF Crash
<1>7. ASSUME NEW p \in Post, HookMoves(p) PROVE Sources'
  BY <1>2, <1>7 DEF HookMoves
<1>8. CASE UNCHANGED vars      BY <1>2, <1>8
<1> QED
  BY <1>1, <1>3, <1>4, <1>5, <1>6, <1>7, <1>8 DEF Next, Environment

LEMMA StepInv ==
  ASSUME IInv, [Next]_vars
  PROVE  IInv'
<1>1. Tables' /\ Known' /\ Sources'   BY StepTypes, StepSources DEF IInv
<1> SUFFICES Places' /\ Origins'
  BY <1>1 DEF IInv
<1> USE DEF IInv, Tables, Places, Origins, Dispatching
<1>2. ASSUME NEW p \in Post, NEW m \in Message, SendMessage(p, m) PROVE Places' /\ Origins'
  BY <1>2 DEF SendMessage
<1>3. ASSUME NEW p \in Post, Handler(p) PROVE Places' /\ Origins'
  BY <1>3, HandlerPlaces, HandlerOrigins
<1>4. CASE ConnectionChanges   BY <1>4 DEF ConnectionChanges
<1>5. CASE Crash               BY <1>5 DEF Crash, Running
<1>6. ASSUME NEW p \in Post, GatewayTakes(p) PROVE Places' /\ Origins'
  BY <1>6 DEF GatewayTakes
<1>7. ASSUME NEW p \in Post, HookMoves(p) PROVE Places' /\ Origins'
  <2>1. Places /\ Origins /\ HookStep
    BY <1>7, HookFacts
  <2> HIDE DEF IInv, Tables
  <2>2. Places'    BY <2>1 DEF HookStep
  <2>3. Origins'   BY <2>1 DEF HookStep
  <2> QED  BY <2>2, <2>3
<1>8. CASE UNCHANGED vars      BY <1>8
<1> QED
  BY <1>2, <1>3, <1>4, <1>5, <1>6, <1>7, <1>8 DEF Next, Environment

LEMMA Invariant == Spec => []IInv
  BY InitInv, StepInv, PTL DEF Spec

-----------------------------------------------------------------------------
(* One run of the agent, unless a chat.send failed or a client retried.    *)

\* Two starts are two webhooks of two POSTs, or a webhook and the WebSocket: if
\* both are of one POST, its request has failed before it fell back.
LEMMA TwoStarts == ASSUME IInv PROVE TwiceOnlyIfRepeated
<1> USE DEF IInv, Tables, Origins, Sources
<1> SUFFICES ASSUME NEW m \in Message
             PROVE  /\ Starts(m) # {} => m \in stored
                    /\ \A x, y \in Starts(m) : x # y =>
                         \/ \E p \in timedOut : about[p] = m
                         \/ \E p, q \in Post : p # q /\ about[p] = m /\ about[q] = m
  BY DEF TwiceOnlyIfRepeated
<1>1. Starts(m) # {} => m \in stored
  <2>1. ASSUME NEW p \in Post, about[p] = m, frame[p] = "acknowledged" \/ p \in posted
        PROVE  m \in stored
    BY <2>1
  <2>2. m \in taken => \E p \in Post : about[p] = m /\ frame[p] = "acknowledged"
    OBVIOUS
  <2>3. ASSUME NEW x \in Starts(m) PROVE m \in taken \/ \E p \in posted : about[p] = m
    BY DEF Starts
  <2> QED  BY <2>1, <2>2, <2>3
<1>2. ASSUME NEW x \in Starts(m), NEW y \in Starts(m), x # y
      PROVE  \/ \E p \in timedOut : about[p] = m
             \/ \E p, q \in Post : p # q /\ about[p] = m /\ about[q] = m
  <2>1. CASE x \in posted /\ about[x] = m /\ y \in posted /\ about[y] = m
    BY <1>2, <2>1
  <2>2. CASE m \in taken
    <3>1. PICK p \in Post : about[p] = m /\ frame[p] = "acknowledged"
      BY <2>2
    <3>2. PICK q \in posted : about[q] = m
      BY <1>2, <2>2 DEF Starts
    <3>3. CASE p = q
      BY <3>1, <3>2, <3>3
    <3> QED  BY <3>1, <3>2, <3>3
  <2> QED  BY <2>1, <2>2 DEF Starts
<1> QED  BY <1>1, <1>2

\* An agent is started twice for one message only after a retry of the client or
\* a chat.send that failed, however many POSTs, webhooks and crashes there are.
THEOREM StartsAreExplained == Spec => []TwiceOnlyIfRepeated
  BY Invariant, TwoStarts, PTL

-----------------------------------------------------------------------------
(* What a client was told.                                                 *)

\* What has been dispatched stays so.
LEMMA DispatchedStays ==
  ASSUME IInv, [Next]_vars, NEW p \in Post, phase[p] # "idle", Dispatched(about[p])
  PROVE  Dispatched(about[p])' /\ about'[p] = about[p]
<1> USE DEF IInv, Tables, Places, Dispatched
<1>1. ASSUME NEW q \in Post, NEW m \in Message, SendMessage(q, m)
      PROVE  Dispatched(about[p])' /\ about'[p] = about[p]
  BY <1>1 DEF SendMessage
<1>2. ASSUME NEW q \in Post, Handler(q)
      PROVE  Dispatched(about[p])' /\ about'[p] = about[p]
  <2>1. /\ about' = about /\ taken' = taken
        /\ \A r \in Post : hook[r] # "none" => hook'[r] # "none"
    BY <1>2 DEF Handler, StoreNew, StoreRepeated, StoreFails, TryGateway, SkipGateway,
       RequestReturns, RequestFails, StoredOnly, EnqueueHook, EnqueueFails
  <2> QED  BY <2>1
<1>3. CASE ConnectionChanges   BY <1>3 DEF ConnectionChanges
<1>4. CASE Crash               BY <1>4 DEF Crash
<1>5. ASSUME NEW q \in Post, GatewayTakes(q)
      PROVE  Dispatched(about[p])' /\ about'[p] = about[p]
  BY <1>5 DEF GatewayTakes
<1>6. ASSUME NEW q \in Post, HookMoves(q)
      PROVE  Dispatched(about[p])' /\ about'[p] = about[p]
  BY <1>6, HookFacts DEF HookStep
<1>7. CASE UNCHANGED vars      BY <1>7
<1> QED
  BY <1>1, <1>2, <1>3, <1>4, <1>5, <1>6, <1>7 DEF Next, Environment

\* POSTs that are owed a dispatch: the property, without the setting.
Owed(p) == answer[p] \in {"dispatched", "repeated"} /\ ~Running(p) /\ p \notin dropped

\* A step makes a POST owed one only together with the dispatch itself, or when
\* there is no gateway.
LEMMA OwedStep ==
  ASSUME IInv, [Next]_vars, NEW p \in Post, Owed(p)'
  PROVE  Owed(p) \/ Dispatched(about[p])' \/ ~configured
<1>1. ASSUME NEW q \in Post, StoredOnly(q) PROVE ~configured
  BY <1>1, Zenon DEF StoredOnly
<1> USE DEF IInv, Tables, Places, Dispatching, Owed, Running
<1>2. ASSUME NEW q \in Post, NEW m \in Message, SendMessage(q, m) PROVE Owed(p)
  BY <1>2 DEF SendMessage
<1>3. ASSUME NEW q \in Post, Handler(q), ~StoredOnly(q)
      PROVE  Owed(p) \/ Dispatched(about[p])'
  <2>1. CASE StoreNew(q)           BY <2>1 DEF StoreNew
  <2>2. CASE StoreRepeated(q)      BY <2>2 DEF StoreRepeated
  <2>3. CASE StoreFails(q)         BY <2>3 DEF StoreFails
  <2>4. CASE TryGateway(q)         BY <2>4 DEF TryGateway
  <2>5. CASE SkipGateway(q)        BY <2>5 DEF SkipGateway
  <2>6. CASE RequestReturns(q)     BY <2>6 DEF RequestReturns, settle, Dispatched, Origins
  <2>7. CASE RequestFails(q)       BY <2>7 DEF RequestFails
  <2>8. CASE EnqueueHook(q)
    <3>1. about' = about /\ hook'[q] # "none"   BY <2>8 DEF EnqueueHook
    <3>2. p = q => Dispatched(about[p])'          BY <3>1 DEF Dispatched
    <3>3. p # q => Owed(p)                        BY <2>8 DEF EnqueueHook, settle
    <3> QED  BY <3>2, <3>3
  <2>9. CASE EnqueueFails(q)       BY <2>9 DEF EnqueueFails, settle
  <2> QED
    BY <1>3, <2>1, <2>2, <2>3, <2>4, <2>5, <2>6, <2>7, <2>8, <2>9 DEF Handler
<1>4. CASE ConnectionChanges   BY <1>4 DEF ConnectionChanges
<1>5. CASE Crash               BY <1>5 DEF Crash
<1>6. ASSUME NEW q \in Post, GatewayTakes(q) PROVE Owed(p)
  BY <1>6 DEF GatewayTakes
<1>7. ASSUME NEW q \in Post, HookMoves(q) PROVE Owed(p)
  BY <1>7, HookFacts DEF HookStep
<1>8. CASE UNCHANGED vars      BY <1>8
<1> QED
  BY <1>1, <1>2, <1>3, <1>4, <1>5, <1>6, <1>7, <1>8, Zenon DEF Next, Environment

LEMMA AcknowledgedStep ==
  ASSUME IInv, Flags, AcknowledgedIsDispatched, [Next]_vars
  PROVE  AcknowledgedIsDispatched'
<1> SUFFICES ASSUME NEW p \in Post, Owed(p)'
             PROVE  Dispatched(about[p])' \/ ~configured'
  BY Zenon DEF AcknowledgedIsDispatched, Owed
<1>1. configured' = configured
  BY FlagsStep
<1>2. CASE Owed(p)
  <2>1. Dispatched(about[p]) \/ ~configured
    BY <1>2, Zenon DEF AcknowledgedIsDispatched, Owed
  <2>2. phase[p] # "idle"
    BY <1>2 DEF IInv, Places, Owed
  <2> QED  BY <1>1, <2>1, <2>2, DispatchedStays, Zenon
<1> QED  BY <1>1, <1>2, OwedStep, Zenon

\* A client that was told 2xx has its message with the gateway or in the outbox,
\* but for a background dispatch that failed afterwards or a missing gateway.
THEOREM Acknowledged == Spec => []AcknowledgedIsDispatched
<1>1. Init => AcknowledgedIsDispatched
  BY DEF Init, AcknowledgedIsDispatched
<1>2. Init => Flags
  BY InitTypes
<1>3. Flags /\ [Next]_vars => Flags'
  BY FlagsStep
<1>4. IInv /\ Flags /\ AcknowledgedIsDispatched /\ [Next]_vars => AcknowledgedIsDispatched'
  BY AcknowledgedStep
<1> QED  BY <1>1, <1>2, <1>3, <1>4, Invariant, PTL DEF Spec

-----------------------------------------------------------------------------
(***************************************************************************)
(* The pool, and the safety half of EventuallyAnswered.                    *)
(***************************************************************************)
PoolIsBalanced ==
  /\ IsFiniteSet(held) /\ Cardinality(held) <= PoolSize
  /\ \A p \in held : Dispatching(p) /\ answer[p] = "none"

\* A POST that holds a client and needs no second one to release it.
GoesOnAlone(p) ==
  \/ phase[p] \in {"dispatch", "request"}
  \/ phase[p] = "fallback" /\ ~configured

NothingElseBlocks ==
  PoolHasClient \/ PoolIsExhausted \/ \E p \in held : GoesOnAlone(p)

\* A client is taken by StoreNew only, when there is one.
LEMMA HeldStep ==
  ASSUME Tables, [Next]_vars
  PROVE  held' \subseteq held \/ (PoolHasClient /\ \E p \in Post : held' = held \cup {p})
<1>1. ASSUME NEW p \in Post, StoreNew(p)
      PROVE  PoolHasClient /\ \E q \in Post : held' = held \cup {q}
  BY <1>1 DEF StoreNew
<1>2. ASSUME NEW p \in Post, Handler(p), ~StoreNew(p) PROVE held' \subseteq held
  BY <1>2 DEF Handler, StoreRepeated, StoreFails, TryGateway, SkipGateway, RequestReturns,
     RequestFails, StoredOnly, EnqueueHook, EnqueueFails, settle
<1>3. ASSUME NEW p \in Post, NEW m \in Message, SendMessage(p, m) PROVE held' \subseteq held
  BY <1>3 DEF SendMessage
<1>4. ASSUME NEW p \in Post, GatewayTakes(p) \/ HookMoves(p) PROVE held' \subseteq held
  BY <1>4 DEF GatewayTakes, HookMoves
<1>5. CASE ConnectionChanges \/ Crash
  BY <1>5 DEF ConnectionChanges, Crash
<1>6. CASE UNCHANGED vars
  BY <1>6
<1> QED
  BY <1>1, <1>2, <1>3, <1>4, <1>5, <1>6 DEF Next, Environment

LEMMA PoolStep ==
  ASSUME Tables, Cardinality(held) <= PoolSize, [Next]_vars
  PROVE  Cardinality(held') <= PoolSize
<1>1. IsFiniteSet(held) /\ Cardinality(held) \in Nat
  BY PostAssumption, FS_Subset, FS_CardinalityType DEF Tables
<1>2. CASE held' \subseteq held
  <2>1. Cardinality(held') \in Nat /\ Cardinality(held') <= Cardinality(held)
    BY <1>1, <1>2, FS_Subset, FS_CardinalityType
  <2> QED  BY <1>1, <2>1, PoolAssumption
<1>3. ASSUME PoolHasClient, NEW p \in Post, held' = held \cup {p}
      PROVE  Cardinality(held') <= PoolSize
  <2>1. Cardinality(held') \in {Cardinality(held), Cardinality(held) + 1}
    BY <1>1, <1>3, FS_AddElement
  <2> QED  BY <1>1, <1>3, <2>1, PoolAssumption DEF PoolHasClient
<1> QED  BY <1>2, <1>3, HeldStep

\* PoolIsBalanced: no way through the handler, a repeated key, a failing
\* statement or a crash keeps a client of the pool or releases one twice.
THEOREM ClientsAreReturned == Spec => []PoolIsBalanced
<1>1. Init => Cardinality(held) <= PoolSize
  BY FS_EmptySet, PoolAssumption DEF Init
<1>2. IInv /\ Cardinality(held) <= PoolSize /\ [Next]_vars => (Cardinality(held) <= PoolSize)'
  BY PoolStep DEF IInv
<1>3. IInv /\ Cardinality(held) <= PoolSize => PoolIsBalanced
  BY PostAssumption, FS_Subset DEF IInv, Tables, Places, PoolIsBalanced
<1> QED  BY <1>1, <1>2, <1>3, Invariant, PTL DEF Spec

\* NothingElseBlocks: whenever POSTs wait for a client of the pool and there is
\* none, a POST that has one goes on without waiting for another, or all that
\* have one are in the fallback: the run chat_pool shows the only deadlock.
THEOREM OnlyThePoolBlocks == Spec => []NothingElseBlocks
<1>1. IInv => NothingElseBlocks
  <2> SUFFICES ASSUME IInv, ~PoolHasClient, \A p \in held : ~GoesOnAlone(p)
               PROVE  \A p \in held : phase[p] = "fallback" /\ configured
    BY DEF NothingElseBlocks, PoolIsExhausted
  <2> SUFFICES ASSUME NEW p \in held PROVE phase[p] = "fallback" /\ configured
    OBVIOUS
  <2>1. phase[p] \in {"dispatch", "request", "fallback"} /\ ~GoesOnAlone(p)
    BY DEF IInv, Places, Dispatching
  <2> QED  BY Zenon, <2>1 DEF GoesOnAlone
<1> QED  BY <1>1, Invariant, PTL

-----------------------------------------------------------------------------
(***************************************************************************)
(* The outbox behind the chat, and the safety half of EventuallyStarted.   *)
(***************************************************************************)

\* The chat uses the outbox by its operations only: what AtLeastOnce promises of
\* it, and WebhookOutbox implements, holds beneath every handler and crash.
THEOREM ChatKeepsOutbox == Spec => Outbox!Spec
<1>1. Init => Outbox!Init
  BY DEF Init
<1>2. [Next]_vars => [Outbox!Next]_(Outbox!taskVars)
  <2> SUFFICES ASSUME [Next]_vars PROVE Outbox!Next \/ UNCHANGED hooks
    BY DEF Outbox!taskVars
  <2> USE DEF Outbox!Next
  <2>1. ASSUME NEW p \in Post, EnqueueHook(p) PROVE Outbox!Submit(p)
    BY <2>1 DEF EnqueueHook
  <2>2. ASSUME NEW p \in Post, Handler(p), ~EnqueueHook(p) PROVE UNCHANGED hooks
    BY <2>2 DEF Handler, StoreNew, StoreRepeated, StoreFails, TryGateway, SkipGateway,
       RequestReturns, RequestFails, StoredOnly, EnqueueFails
  <2>3. ASSUME NEW p \in Post, HookMoves(p) PROVE Outbox!Perform(p) \/ Outbox!Finish(p) \/ Outbox!GiveUp(p)
    BY <2>3 DEF HookMoves
  <2>4. ASSUME NEW p \in Post, NEW m \in Message, SendMessage(p, m) PROVE UNCHANGED hooks
    BY <2>4 DEF SendMessage
  <2>5. ASSUME NEW p \in Post, GatewayTakes(p) PROVE UNCHANGED hooks
    BY <2>5 DEF GatewayTakes
  <2>6. CASE ConnectionChanges \/ Crash
    BY <2>6 DEF ConnectionChanges, Crash
  <2>7. CASE UNCHANGED vars
    BY <2>7
  <2> HIDE DEF Outbox!Submit, Outbox!Perform, Outbox!Finish, Outbox!GiveUp
  <2> QED  BY <2>1, <2>2, <2>3, <2>4, <2>5, <2>6, <2>7 DEF Next, Environment
<1> QED  BY <1>1, <1>2, PTL DEF Spec, Outbox!Spec

\* What AtLeastOnce promises of a task that is done.
DoneWasPerformed == \A p \in Post : hook[p] = "done" => p \in posted

HookTypes == hook \in [Post -> {"none", "open", "done", "given up"}]

LEMMA OutboxPromise == Outbox!Spec => [](HookTypes /\ DoneWasPerformed)
<1> USE DEF HookTypes, DoneWasPerformed
<1>1. Outbox!Init => HookTypes /\ DoneWasPerformed
  OBVIOUS
<1>2. HookTypes /\ DoneWasPerformed /\ [Outbox!Next]_(Outbox!taskVars)
        => (HookTypes /\ DoneWasPerformed)'
  <2> SUFFICES ASSUME HookTypes, DoneWasPerformed, [Outbox!Next]_(Outbox!taskVars)
               PROVE  HookTypes' /\ DoneWasPerformed'
    OBVIOUS
  <2>1. ASSUME NEW p \in Post, Outbox!Submit(p) \/ Outbox!GiveUp(p) \/ Outbox!Revive(p)
        PROVE  HookTypes' /\ DoneWasPerformed'
    BY <2>1 DEF Outbox!Revive
  <2>2. ASSUME NEW p \in Post, Outbox!Perform(p) PROVE HookTypes' /\ DoneWasPerformed'
    BY <2>2
  <2>3. ASSUME NEW p \in Post, Outbox!Finish(p) PROVE HookTypes' /\ DoneWasPerformed'
    BY <2>3
  <2>4. CASE UNCHANGED hooks
    BY <2>4
  <2> HIDE DEF Outbox!Submit, Outbox!Perform, Outbox!Finish, Outbox!GiveUp
  <2> QED  BY <2>1, <2>2, <2>3, <2>4 DEF Outbox!Next, Outbox!taskVars
<1> QED  BY <1>1, <1>2, PTL DEF Outbox!Spec

StartIsToCome ==
  \A p \in Post : answer[p] = "dispatched" /\ configured =>
    \/ Starts(about[p]) # {}
    \/ \E q \in Post : about[q] = about[p] /\ hook[q] \in {"open", "given up"}

\* Only who was answered before can lose its dispatch.
DroppedInv == \A p \in dropped : answer[p] = "repeated" /\ phase[p] = "over"

LEMMA DroppedStep ==
  ASSUME IInv, DroppedInv, [Next]_vars
  PROVE  DroppedInv'
<1> USE DEF IInv, Tables, Places, Dispatching, DroppedInv
<1>1. ASSUME NEW p \in Post, NEW m \in Message, SendMessage(p, m) PROVE DroppedInv'
  BY <1>1 DEF SendMessage
<1>2. ASSUME NEW p \in Post, Handler(p) PROVE DroppedInv'
  <2>1. CASE StoreNew(p)           BY <2>1 DEF StoreNew
  <2>2. CASE StoreRepeated(p)      BY <2>2 DEF StoreRepeated
  <2>3. CASE StoreFails(p)         BY <2>3 DEF StoreFails
  <2>4. CASE TryGateway(p)         BY <2>4 DEF TryGateway
  <2>5. CASE SkipGateway(p)        BY <2>5 DEF SkipGateway
  <2>6. CASE RequestReturns(p)     BY <2>6 DEF RequestReturns, settle
  <2>7. CASE RequestFails(p)       BY <2>7 DEF RequestFails
  <2>8. CASE StoredOnly(p)         BY <2>8 DEF StoredOnly, settle
  <2>9. CASE EnqueueHook(p)        BY <2>9 DEF EnqueueHook, settle
  <2>10. CASE EnqueueFails(p)
    <3>1. CASE p \in held         BY <2>10, <3>1 DEF EnqueueFails, settle
    <3>2. CASE p \notin held
      <4>1. /\ phase[p] = "fallback" /\ phase' = [phase EXCEPT ![p] = "over"]
            /\ answer' = answer /\ dropped' = dropped \cup {p}
        BY <2>10, <3>2 DEF EnqueueFails, settle
      <4>2. answer[p] = "repeated"
        BY <3>2, <4>1
      <4>3. phase'[p] = "over" /\ \A q \in dropped : phase'[q] = phase[q] \/ phase'[q] = "over"
        BY ONLY <4>1, Tables DEF Tables
      <4>4. \A q \in dropped : phase[q] = "over" /\ answer[q] = "repeated"
        BY DEF DroppedInv
      <4> QED  BY ONLY <4>1, <4>2, <4>3, <4>4 DEF DroppedInv
    <3> QED  BY <3>1, <3>2
  <2> QED
    BY <1>2, <2>1, <2>2, <2>3, <2>4, <2>5, <2>6, <2>7, <2>8, <2>9, <2>10 DEF Handler
<1>3. CASE ConnectionChanges   BY <1>3 DEF ConnectionChanges
<1>4. CASE Crash               BY <1>4 DEF Crash, Running
<1>5. ASSUME NEW p \in Post, GatewayTakes(p) PROVE DroppedInv'
  BY <1>5 DEF GatewayTakes
<1>6. ASSUME NEW p \in Post, HookMoves(p) PROVE DroppedInv'
  BY <1>6, HookFacts DEF HookStep
<1>7. CASE UNCHANGED vars      BY <1>7
<1> QED  BY <1>1, <1>2, <1>3, <1>4, <1>5, <1>6, <1>7 DEF Next, Environment

\* A client that was told its message is dispatched, not only stored, waits for
\* nothing but the outbox: the agent has been started, or there is a webhook
\* that the outbox holds open or has given up, whatever crashed since.
THEOREM DispatchedIsOnItsWay == Spec => []StartIsToCome
<1>1. Init => DroppedInv
  BY DEF Init, DroppedInv
<1>2. IInv /\ DroppedInv /\ [Next]_vars => DroppedInv'
  BY DroppedStep
<1>3. ASSUME IInv, DroppedInv, AcknowledgedIsDispatched, DoneWasPerformed,
             NEW p \in Post, answer[p] = "dispatched", configured
      PROVE  \/ Starts(about[p]) # {}
             \/ \E q \in Post : about[q] = about[p] /\ hook[q] \in {"open", "given up"}
  <2>1. ~Running(p) /\ p \notin dropped
    BY <1>3 DEF IInv, Places, Dispatching, Running, DroppedInv
  <2>2. Dispatched(about[p])
    BY <1>3, <2>1, Zenon DEF AcknowledgedIsDispatched
  <2>3. CASE about[p] \in taken
    BY <2>3 DEF Starts
  <2>4. ASSUME NEW q \in Post, about[q] = about[p], hook[q] # "none"
        PROVE  Starts(about[p]) # {} \/ hook[q] \in {"open", "given up"}
    <3>1. CASE hook[q] = "done"
      BY <1>3, <2>4, <3>1 DEF Starts, DoneWasPerformed
    <3> QED  BY <1>3, <2>4, <3>1 DEF IInv, Tables
  <2> QED  BY <2>2, <2>3, <2>4 DEF Dispatched
<1>4. IInv /\ DroppedInv /\ AcknowledgedIsDispatched /\ DoneWasPerformed => StartIsToCome
  BY <1>3, Zenon DEF StartIsToCome
<1> QED
  BY <1>1, <1>2, <1>4, Invariant, Acknowledged, ChatKeepsOutbox, OutboxPromise, PTL DEF Spec
=============================================================================
