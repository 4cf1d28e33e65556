------------------------ MODULE HaConnector_proofs ------------------------
(***************************************************************************)
(* For every set of providers and calls and every bound: the connector     *)
(* never stops listening for good (NeverDeaf of HaConnector), loses sight  *)
(* of a connection for the two named reasons only (StrayIsExplained), and  *)
(* never loses a change that was notified: when it comes to rest, the      *)
(* change is applied, which is what Converges rests on besides fairness.   *)
(***************************************************************************)
EXTENDS HaConnector, FiniteSetTheorems, WellFoundedInduction, TLAPS

\* Before start() and after the end of the process the listener has nothing.
NothingYet ==
  process # "up" =>
    attempt = "none" /\ ~reconnecting /\ ~retryTimer /\ listening = 0 /\ events = 0

\* While reconnecting is true, exactly one thing will make it false: the timer
\* or the retry that the timer started.
ReconnectingIsServed ==
  /\ reconnecting <=> retryTimer \/ attempt = "retry"
  /\ ~(retryTimer /\ attempt = "retry")

Counts == listening \in Nat /\ events \in Nat

IInv ==
  /\ reconnecting \in BOOLEAN /\ retryTimer \in BOOLEAN
  /\ NothingYet
  /\ ReconnectingIsServed
  /\ NeverDeaf

-----------------------------------------------------------------------------
\* Counting clients and events.

LEMMA CountsInit == Init => Counts
BY DEF Init, ListenerInit, Counts

\* What the API, reconcile() and addProvider() do does not touch the listener.
LEMMA OthersLeaveListener ==
  ASSUME \/ \E p \in Provider : Api(p)
         \/ Flush
         \/ \E k \in Activity : Activities(k)
  PROVE  UNCHANGED <<listenerVars, process>>
<1>1. ASSUME NEW p \in Provider, Api(p) PROVE UNCHANGED <<listenerVars, process>>
  BY <1>1 DEF Api, CreateProvider, DeleteProvider, ChangeProvider, NotifyChange, NotifyFails
<1>2. CASE Flush
  BY <1>2 DEF Flush
<1>3. ASSUME NEW k \in Activity, Activities(k) PROVE UNCHANGED <<listenerVars, process>>
  <2>1. ASSUME NEW t, Visit(k, t) PROVE UNCHANGED <<listenerVars, process>>
    BY <2>1 DEF Visit
  <2>2. CASE fetchProviders(k) \/ FetchFails(k)
    BY <2>2 DEF fetchProviders, FetchFails
  <2>3. CASE Resume(k) \/ Loop(k)
    BY <2>1, <2>3 DEF Resume, Loop
  <2>4. CASE Disconnected(k)
    BY <2>4 DEF Disconnected
  <2>5. CASE Connects(k) \/ ConnectFails(k)
    BY <2>5 DEF Connects, ConnectFails
  <2>6. CASE updateStatus(k) \/ UpdateFails(k)
    BY <2>6 DEF updateStatus, UpdateFails
  <2>7. QED
    BY <1>3, <2>2, <2>3, <2>4, <2>5, <2>6 DEF Activities
<1>4. QED
  BY <1>1, <1>2, <1>3

LEMMA CountsStep == ASSUME Counts, [Next]_vars PROVE Counts'
<1>1. CASE UNCHANGED listenerVars
  BY <1>1 DEF Counts, listenerVars
<1>2. CASE Up
  BY <1>2 DEF Counts, Up, StartListening
<1>3. CASE ListenerConnects
  BY <1>3 DEF Counts, ListenerConnects, Listens
<1>4. CASE Crash
  BY <1>4 DEF Counts, Crash, ListenerDies
<1>5. CASE Retry
  BY <1>5 DEF Counts, Retry
<1>6. CASE AttemptFails
  BY <1>6 DEF Counts, AttemptFails
<1>7. CASE Lost
  BY <1>7 DEF Counts, Lost
<1>8. CASE handleDisconnect
  BY <1>8 DEF Counts, handleDisconnect
<1>9. CASE Boot
  BY <1>9, <1>1 DEF Boot
<1>10. CASE UNCHANGED vars
  BY <1>10, <1>1 DEF vars
<1>11. QED
  BY <1>1, <1>2, <1>3, <1>4, <1>5, <1>6, <1>7, <1>8, <1>9, <1>10, OthersLeaveListener
  DEF Next, Listening, ListenerStep

-----------------------------------------------------------------------------
\* The steps of the listener.

LEMMA SilentStep ==
  ASSUME IInv, UNCHANGED <<listenerVars, process>>
  PROVE  IInv'
BY DEF IInv, NothingYet, ReconnectingIsServed, NeverDeaf, listenerVars

LEMMA BootStep == ASSUME IInv, Boot PROVE IInv'
BY DEF IInv, NothingYet, ReconnectingIsServed, NeverDeaf, listenerVars, Boot

LEMMA UpStep == ASSUME IInv, Up PROVE IInv'
BY DEF IInv, NothingYet, ReconnectingIsServed, NeverDeaf, Up, StartListening

LEMMA CrashStep == ASSUME IInv, Crash PROVE IInv'
BY DEF IInv, NothingYet, ReconnectingIsServed, NeverDeaf, Crash, ListenerDies

\* A subscription: there is a client that listens.
LEMMA ConnectsStep == ASSUME IInv, Counts, ListenerConnects PROVE IInv'
<1>1. listening' # 0
  BY DEF Counts, ListenerConnects, Listens
<1>2. process = "up"
  BY DEF IInv, NothingYet, ListenerConnects, Listens
<1>3. QED
  BY <1>1, <1>2
  DEF IInv, NothingYet, ReconnectingIsServed, NeverDeaf, ListenerConnects, Listens

\* The timer that fired has become an attempt.
LEMMA RetryStep == ASSUME IInv, Retry, UNCHANGED process PROVE IInv'
BY DEF IInv, NothingYet, ReconnectingIsServed, NeverDeaf, Retry

\* Whichever attempt failed, a timer is armed.
LEMMA AttemptFailsStep == ASSUME IInv, AttemptFails, UNCHANGED process PROVE IInv'
<1>1. process = "up"
  BY DEF IInv, NothingYet, AttemptFails
<1>2. retryTimer' = TRUE /\ reconnecting' = TRUE /\ attempt' = "none"
  BY DEF IInv, ReconnectingIsServed, AttemptFails, scheduleReconnect
<1>3. QED
  BY <1>1, <1>2 DEF IInv, NothingYet, ReconnectingIsServed, NeverDeaf

\* The events of the lost client are still to come.
LEMMA LostStep == ASSUME IInv, Counts, Lost, UNCHANGED process PROVE IInv'
<1>1. events' > 0 /\ listening # 0
  BY DEF Counts, Lost
<1>2. process = "up"
  BY <1>1 DEF IInv, NothingYet
<1>3. QED
  BY <1>1, <1>2 DEF IInv, NothingYet, ReconnectingIsServed, NeverDeaf, Lost

\* An event arms the timer, unless a timer or a retry is there already.
LEMMA DisconnectStep == ASSUME IInv, Counts, handleDisconnect, UNCHANGED process PROVE IInv'
<1>1. events # 0
  BY DEF Counts, handleDisconnect
<1>2. process = "up"
  BY <1>1 DEF IInv, NothingYet
<1>3. QED
  BY <1>2 DEF IInv, NothingYet, ReconnectingIsServed, NeverDeaf, handleDisconnect, scheduleReconnect

\* What is inductive: NeverDeaf with what makes it so.
THEOREM InvariantHolds == Spec => []IInv
<1>1. Init => IInv
  BY DEF Init, ListenerInit, IInv, NothingYet, ReconnectingIsServed, NeverDeaf
<1>2. IInv /\ Counts /\ [Next]_vars => IInv'
  <2> SUFFICES ASSUME IInv, Counts, [Next]_vars PROVE IInv'
    OBVIOUS
  <2>1. CASE UNCHANGED vars
    BY <2>1, SilentStep DEF vars
  <2>2. CASE Listening
    BY <2>2, RetryStep, AttemptFailsStep, LostStep, DisconnectStep DEF Listening, ListenerStep
  <2>3. CASE \/ \E p \in Provider : Api(p)
             \/ Flush
             \/ \E k \in Activity : Activities(k)
    BY <2>3, OthersLeaveListener, SilentStep
  <2>4. QED
    BY <2>1, <2>2, <2>3, BootStep, UpStep, ConnectsStep, CrashStep DEF Next
<1>3. Counts /\ [Next]_vars => Counts'
  BY CountsStep
<1>4. QED
  BY <1>1, <1>2, <1>3, CountsInit, PTL DEF Spec

\* A running connector that does not listen is about to: an attempt is pending,
\* a timer is armed, or the event of a lost client will arm one.
THEOREM NeverDeafForGood == Spec => []NeverDeaf
<1>1. IInv => NeverDeaf
  BY DEF IInv
<1>2. QED
  BY <1>1, InvariantHolds, PTL

-----------------------------------------------------------------------------
\* Connections that nobody refers to.  What is inductive says who may work on
\* what: as long as nothing went wrong, no two activities are at one provider,
\* and each of them has noted what the others worked on since it read the table.

Shape(t) ==
  /\ t = [pc |-> t.pc, rows |-> t.rows, known |-> t.known, drop |-> t.drop,
          at |-> t.at, stale |-> t.stale]
  /\ DOMAIN t.rows \subseteq Provider /\ t.at \subseteq Provider
  /\ t.drop \subseteq t.known
  /\ \A p, q \in t.at : p = q
  /\ t.pc \in {"idle", "fetching", "fetched", "looping"} => t.at = {}

Shapes ==
  /\ task = [k \in Activity |-> task[k]]
  /\ \A k \in Activity : Shape(task[k])
  /\ managed = [p \in Provider |-> managed[p]]
  /\ \A p \in Provider :
       managed[p] = [row |-> managed[p].row, state |-> managed[p].state, by |-> managed[p].by]

\* Only an entry whose connection is being opened has somebody to open it.
OpenedBySomebody ==
  \A p \in Provider : managed[p].state = "opening" \/ managed[p].by = NoActivity

NothingHeld ==
  process = "down" => /\ \A k \in Activity : ~Busy(k)
                      /\ \A p \in Provider : managed[p] = Blank

Apart == \A j, k \in Activity : j # k => task[j].at \cap task[k].at = {}

Warned == \A j, k \in Activity :
  j # k /\ task[j].pc \notin {"idle", "fetching"} => task[k].at \subseteq task[j].stale

Owned == \A k \in Activity : \A p \in task[k].at :
  /\ task[k].pc = "closing" => managed[p].state = "closed"
  /\ task[k].pc = "opening" => managed[p].state = "opening" /\ managed[p].by = k

\* A provider that was not managed when the rows came and is now was added by
\* another activity.
ListedIn(t) == (DOMAIN t.rows \ t.known) \cap Managed \subseteq t.stale
Listed == \A k \in Activity :
  task[k].pc \notin {"idle", "fetching", "fetched"} => ListedIn(task[k])

Peace == Apart /\ Warned /\ Owned /\ Listed

NoStrays == mishaps = {} => ~crossing /\ strays = {}

SInv == Shapes /\ OpenedBySomebody /\ NothingHeld /\ (~crossing => Peace) /\ NoStrays

\* What an activity goes on with: its task, with what it has noted and learnt.
Ready(k, t) ==
  /\ task[k].pc \in {"fetched", "looping", "closing"}
  /\ Shape(t)
  /\ ~crossing => task[k].stale \subseteq t.stale /\ ListedIn(t)

\* The peace is restored when everybody has ended.
LEMMA PeaceReturns == ASSUME SInv, ~Upset PROVE Peace
<1>1. CASE ~crossing
  BY <1>1 DEF SInv
<1>2. CASE \A k \in Activity : ~Busy(k)
  BY <1>2 DEF SInv, Shapes, Shape, Busy, Peace, Apart, Warned, Owned, Listed
<1>3. QED
  BY <1>1, <1>2 DEF Upset

LEMMA NoActivityIsNone == NoActivity \notin Activity
BY ConnectorAssumption DEF NoActivity, Activity

LEMMA OthersKeepPlace ==
  ASSUME SInv, NEW k \in Activity, NEW t, NEW p, Proceed(k, t, p), NEW j \in Activity \ {k}
  PROVE  /\ task'[j].at = task[j].at /\ task'[j].pc = task[j].pc
         /\ task[j].stale \subseteq task'[j].stale
         /\ Busy(j) => p \in task'[j].stale
<1>1. CASE Busy(j)
  BY <1>1 DEF Proceed, SInv, Shapes, Shape
<1>2. CASE ~Busy(j)
  BY <1>2 DEF Proceed
<1>3. QED
  BY <1>1, <1>2

\* A task that starts to work on p without crossing is the only one at p.
LEMMA ProceedAlone ==
  ASSUME SInv, NEW k \in Activity, NEW t, NEW p \in Provider, Ready(k, t),
         t.at \in {{}, {p}}, Proceed(k, t, p), ~crossing'
  PROVE  /\ ~crossing /\ p \notin t.stale
         /\ \A j \in Activity \ {k} : p \notin task[j].at
         /\ Apart' /\ Warned'
<1>1. ~crossing /\ p \notin t.stale
  BY DEF Proceed, Crossed
<1>2. \A j \in Activity \ {k} : p \notin task[j].at
  BY <1>1 DEF SInv, Peace, Warned, Ready
<1>3. task'[k] = [t EXCEPT !.stale = @ \ {p}]
  BY DEF Proceed
<1>4. task'[k].at \subseteq {p} /\ task[k].stale \ {p} \subseteq task'[k].stale
  BY <1>1, <1>3 DEF Ready, Shape
<1>5. ASSUME NEW j \in Activity \ {k}
      PROVE  /\ task'[j].at = task[j].at /\ task'[j].pc = task[j].pc
             /\ task[j].stale \subseteq task'[j].stale
             /\ Busy(j) => p \in task'[j].stale
  BY OthersKeepPlace
<1>6. Apart'
  BY <1>1, <1>2, <1>4, <1>5 DEF SInv, Peace, Apart
<1>7. Warned'
  <2> SUFFICES ASSUME NEW i \in Activity, NEW j \in Activity, i # j,
                      task'[i].pc \notin {"idle", "fetching"}
               PROVE  task'[j].at \subseteq task'[i].stale
    BY DEF Warned
  <2>1. CASE i = k
    BY <2>1, <1>1, <1>2, <1>4, <1>5 DEF SInv, Peace, Warned, Ready
  <2>2. CASE j = k
    BY <2>2, <1>4, <1>5 DEF Busy
  <2>3. CASE i # k /\ j # k
    BY <2>3, <1>1, <1>5 DEF SInv, Peace, Warned
  <2>4. QED
    BY <2>1, <2>2, <2>3
<1>8. QED
  BY <1>1, <1>2, <1>6, <1>7

\* Whatever it does to p, the shapes of the tasks stay.
LEMMA ProceedShapes ==
  ASSUME SInv, NEW k \in Activity, NEW t, NEW p \in Provider, Shape(t), Proceed(k, t, p)
  PROVE  /\ task' = [j \in Activity |-> task'[j]]
         /\ \A j \in Activity : Shape(task'[j])
<1>1. Shape(task'[k])
  BY DEF Proceed, Shape
<1>2. ASSUME NEW j \in Activity \ {k} PROVE Shape(task'[j])
  <2>1. CASE Busy(j)
    <3>1. task'[j] = [task[j] EXCEPT !.stale = @ \cup {p}] /\ Shape(task[j])
      BY <2>1 DEF Proceed, SInv, Shapes
    <3>2. QED
      BY <3>1 DEF Shape
  <2>2. CASE ~Busy(j)
    BY <2>2 DEF Proceed, SInv, Shapes
  <2>3. QED
    BY <2>1, <2>2
<1>3. QED
  BY <1>1, <1>2 DEF Proceed

\* The others have been warned of what is new in the table of connections.
LEMMA ProceedListed ==
  ASSUME SInv, NEW k \in Activity, NEW t, NEW p \in Provider, Proceed(k, t, p), ~crossing,
         Managed' \subseteq Managed \cup {p},
         ListedIn(t)', p \in t.known \/ p \notin DOMAIN t.rows, Shape(t)
  PROVE  Listed'
<1>1. task'[k] = [t EXCEPT !.stale = @ \ {p}]
  BY DEF Proceed
<1>2. ListedIn(task[k])'
  BY <1>1 DEF ListedIn, Shape
<1>3. ASSUME NEW j \in Activity \ {k}, task'[j].pc \notin {"idle", "fetching", "fetched"}
      PROVE  ListedIn(task[j])'
  BY <1>3 DEF Proceed, SInv, Shapes, Shape, Peace, Listed, ListedIn, Busy
<1>4. QED
  BY <1>2, <1>3 DEF Listed

LEMMA MarkedTask ==
  ASSUME NEW t, NEW pc, Shape(t)
  PROVE  [t EXCEPT !.pc = pc]
           = [pc |-> pc, rows |-> t.rows, known |-> t.known, drop |-> t.drop,
              at |-> t.at, stale |-> t.stale]
BY DEF Shape

LEMMA DroppedTask ==
  ASSUME NEW t, NEW drop, Shape(t), t.at = {}
  PROVE  [t EXCEPT !.drop = drop]
           = [pc |-> t.pc, rows |-> t.rows, known |-> t.known, drop |-> drop,
              at |-> {}, stale |-> t.stale]
BY DEF Shape

LEMMA PlacedTask ==
  ASSUME NEW t, NEW pc, NEW at, Shape(t)
  PROVE  [t EXCEPT !.pc = pc, !.at = at]
           = [pc |-> pc, rows |-> t.rows, known |-> t.known, drop |-> t.drop,
              at |-> at, stale |-> t.stale]
<1> DEFINE a == [t EXCEPT !.pc = pc]
<1>1. a = [pc |-> pc, rows |-> t.rows, known |-> t.known, drop |-> t.drop,
           at |-> t.at, stale |-> t.stale]
  BY MarkedTask
<1>2. /\ a.pc = pc /\ a.rows = t.rows /\ a.known = t.known /\ a.drop = t.drop
      /\ a.at = t.at /\ a.stale = t.stale
  BY <1>1
<1> HIDE DEF a
<1>3. [a EXCEPT !.at = at] = [pc |-> pc, rows |-> t.rows, known |-> t.known, drop |-> t.drop,
                              at |-> at, stale |-> t.stale]
  BY <1>1
<1>4. QED
  BY <1>3 DEF a

LEMMA OpeningTask ==
  ASSUME NEW t, NEW rows, NEW at, Shape(t)
  PROVE  [t EXCEPT !.pc = "opening", !.at = at, !.rows = rows]
           = [pc |-> "opening", rows |-> rows, known |-> t.known, drop |-> t.drop,
              at |-> at, stale |-> t.stale]
<1> DEFINE a == [t EXCEPT !.pc = "opening", !.at = at]
<1>1. a = [pc |-> "opening", rows |-> t.rows, known |-> t.known, drop |-> t.drop,
           at |-> at, stale |-> t.stale]
  BY PlacedTask
<1> HIDE DEF a
<1>2. [a EXCEPT !.rows = rows] = [pc |-> "opening", rows |-> rows, known |-> t.known,
                                  drop |-> t.drop, at |-> at, stale |-> t.stale]
  BY <1>1
<1>3. QED
  BY <1>2 DEF a

LEMMA FetchedTask ==
  ASSUME NEW t, NEW rows, NEW stale, Shape(t), t.at = {}
  PROVE  [t EXCEPT !.pc = "fetched", !.rows = rows, !.stale = stale]
           = [pc |-> "fetched", rows |-> rows, known |-> t.known, drop |-> t.drop,
              at |-> {}, stale |-> stale]
<1> DEFINE a == [t EXCEPT !.pc = "fetched"]
           b == [a EXCEPT !.rows = rows]
<1>1. a = [pc |-> "fetched", rows |-> t.rows, known |-> t.known, drop |-> t.drop,
           at |-> {}, stale |-> t.stale]
  BY MarkedTask
<1> HIDE DEF a
<1>2. b = [pc |-> "fetched", rows |-> rows, known |-> t.known, drop |-> t.drop,
           at |-> {}, stale |-> t.stale]
  BY <1>1
<1> HIDE DEF b
<1>3. [b EXCEPT !.stale = stale]
        = [pc |-> "fetched", rows |-> rows, known |-> t.known, drop |-> t.drop,
           at |-> {}, stale |-> stale]
  BY <1>2
<1>4. QED
  BY <1>3 DEF a, b

LEMMA ResumedTask ==
  ASSUME NEW k \in Activity, Shape(task[k]), task[k].pc = "fetched"
  PROVE  [task[k] EXCEPT !.known = Managed, !.drop = Managed \ DOMAIN task[k].rows]
           = [pc |-> "fetched", rows |-> task[k].rows, known |-> Managed,
              drop |-> Managed \ DOMAIN task[k].rows, at |-> {}, stale |-> task[k].stale]
<1> DEFINE w == [task[k] EXCEPT !.known = Managed]
<1>1. w = [pc |-> "fetched", rows |-> task[k].rows, known |-> Managed,
           drop |-> task[k].drop, at |-> {}, stale |-> task[k].stale]
  BY DEF Shape
<1> HIDE DEF w
<1>2. [w EXCEPT !.drop = Managed \ DOMAIN task[k].rows]
        = [pc |-> "fetched", rows |-> task[k].rows, known |-> Managed,
           drop |-> Managed \ DOMAIN task[k].rows, at |-> {}, stale |-> task[k].stale]
  BY <1>1
<1>3. QED
  BY <1>2 DEF w

\* The attempt of k writes its outcome to the entries that are still its own.
LEMMA SettleEffect ==
  ASSUME SInv, NEW k \in Activity, NEW result, Settles(k, result)
  PROVE  /\ managed' = [p \in Provider |-> managed'[p]]
         /\ \A p \in Provider : managed[p].by # k => managed'[p] = managed[p]
         /\ \A p \in Provider : managed[p].by = k =>
              managed'[p] = [row |-> managed[p].row, state |-> result, by |-> NoActivity]
<1>1. ASSUME NEW p \in Provider
      PROVE  [managed[p] EXCEPT !.state = result, !.by = NoActivity]
               = [row |-> managed[p].row, state |-> result, by |-> NoActivity]
  <2> DEFINE e == managed[p]
             a == [e EXCEPT !.state = result]
  <2>1. e = [row |-> e.row, state |-> e.state, by |-> e.by]
    BY DEF SInv, Shapes
  <2> HIDE DEF e
  <2>2. a = [row |-> e.row, state |-> result, by |-> e.by]
    BY <2>1
  <2> HIDE DEF a
  <2>3. [a EXCEPT !.by = NoActivity] = [row |-> e.row, state |-> result, by |-> NoActivity]
    BY <2>2
  <2>4. QED
    BY <2>3 DEF a, e
<1>2. managed' = [p \in Provider |->
        IF managed[p].by = k THEN [row |-> managed[p].row, state |-> result, by |-> NoActivity]
                             ELSE managed[p]]
  BY <1>1 DEF Settles
<1>3. QED
  BY <1>2

\* The three things an activity does to a provider.
LEMMA AddSafe ==
  ASSUME SInv, NEW k \in Activity, NEW t, NEW p \in DOMAIN t.rows, Ready(k, t), t.at \subseteq {p},
         addProvider(k, t, p), Forgets, UNCHANGED process, process # "down",
         ~crossing /\ p \notin t.stale => managed[p].state # "linked"
  PROVE  SInv'
<1> DEFINE u == [t EXCEPT !.pc = "opening", !.at = {p}, !.rows = Restrict(@, DOMAIN @ \ {p})]
<1>1. /\ u.pc = "opening" /\ u.at = {p} /\ u.stale = t.stale /\ u.known = t.known
      /\ u.drop = t.drop /\ DOMAIN u.rows = DOMAIN t.rows \ {p}
  BY DEF Ready, Shape, Restrict
<1>2. Shape(u) /\ p \in Provider
  <2>1. p \in Provider /\ t.drop \subseteq t.known
    BY DEF Ready, Shape
  <2>2. u = [pc |-> u.pc, rows |-> u.rows, known |-> u.known, drop |-> u.drop,
             at |-> u.at, stale |-> u.stale]
    <3>1. u = [pc |-> "opening", rows |-> Restrict(t.rows, DOMAIN t.rows \ {p}),
               known |-> t.known, drop |-> t.drop, at |-> {p}, stale |-> t.stale]
      BY OpeningTask DEF Ready
    <3>2. QED
      BY <3>1, <1>1
  <2>3. QED
    BY <2>1, <2>2, <1>1 DEF Ready, Shape
<1>3. Proceed(k, u, p)
  BY DEF addProvider
<1>4. managed' = [managed EXCEPT ![p] = [row |-> t.rows[p], state |-> "opening", by |-> k]]
  BY DEF addProvider
<1>5. task'[k].pc = "opening" /\ task'[k].at = {p}
  BY <1>1, <1>2, <1>3 DEF Proceed, Shape
<1> HIDE DEF u
<1>6. Shapes'
  BY <1>2, <1>3, <1>4, ProceedShapes DEF SInv, Shapes
<1>7. OpenedBySomebody' /\ NothingHeld'
  BY <1>2, <1>4 DEF SInv, OpenedBySomebody, NothingHeld, Shapes
<1>8. ASSUME ~crossing' PROVE Peace'
  <2>1. Ready(k, u)
    BY <1>1, <1>2 DEF Ready, ListedIn
  <2>2. /\ ~crossing /\ p \notin t.stale /\ Apart' /\ Warned'
        /\ \A j \in Activity \ {k} : p \notin task[j].at
    BY <1>1, <1>2, <1>3, <1>8, <2>1, ProceedAlone
  <2>4. Owned'
    <3>1. ASSUME NEW j \in Activity \ {k}
          PROVE  task'[j].at = task[j].at /\ task'[j].pc = task[j].pc
      BY <1>3, OthersKeepPlace
    <3>2. managed'[p].state = "opening" /\ managed'[p].by = k
      BY <1>2, <1>4 DEF SInv, Shapes
    <3>3. \A q \in Provider \ {p} : managed'[q] = managed[q]
      BY <1>2, <1>4 DEF SInv, Shapes
    <3>4. \A j \in Activity : task[j].at \subseteq Provider
      BY DEF SInv, Shapes, Shape
    <3>5. QED
      BY <1>5, <2>2, <3>1, <3>2, <3>3, <3>4 DEF SInv, Peace, Owned
  <2>5. Listed'
    <3>1. Managed' \subseteq Managed \cup {p}
      BY <1>2, <1>4 DEF Managed, SInv, Shapes
    <3>2. ListedIn(u)'
      BY <3>1, <1>1, <2>1, <2>2 DEF Ready, ListedIn
    <3>3. QED
      BY <3>1, <3>2, <1>1, <1>2, <1>3, <2>2, ProceedListed
  <2>6. QED
    BY <2>2, <2>4, <2>5 DEF Peace
<1>9. NoStrays'
  <2> SUFFICES ASSUME mishaps' = {} PROVE ~crossing' /\ strays' = {}
    BY DEF NoStrays
  <2>1. mishaps = {} /\ UNCHANGED crossing /\ p \notin t.stale
    BY <1>1, <1>3 DEF Proceed, Crossed
  <2>2. QED
    BY <2>1, <1>2, <1>4 DEF Forgets, SInv, NoStrays, Shapes
<1>10. QED
  BY <1>6, <1>7, <1>8, <1>9 DEF SInv

LEMMA DisconnectSafe ==
  ASSUME SInv, NEW k \in Activity, NEW t, NEW p \in Provider, Ready(k, t), t.at = {},
         disconnect(k, t, p), Forgets, UNCHANGED process, process # "down",
         Linked(p), p \in t.known
  PROVE  SInv'
<1> DEFINE u == [t EXCEPT !.pc = "closing", !.at = {p}]
<1>1. u = [pc |-> "closing", rows |-> t.rows, known |-> t.known, drop |-> t.drop,
           at |-> {p}, stale |-> t.stale]
  BY PlacedTask DEF Ready
<1>2. Shape(u)
  BY <1>1 DEF Ready, Shape
<1>3. Proceed(k, u, p)
  BY DEF disconnect
<1>4. /\ managed' = [q \in Provider |-> managed'[q]]
      /\ \A q \in Provider \ {p} : managed'[q] = managed[q]
      /\ managed'[p] = [row |-> managed[p].row, state |-> "closed", by |-> managed[p].by]
  BY DEF disconnect, SInv, Shapes
<1>5. task'[k].pc = "closing" /\ task'[k].at = {p}
  BY <1>1, <1>2, <1>3 DEF Proceed, Shape
<1> HIDE DEF u
<1>6. Shapes'
  <2>1. \A q \in Provider :
          managed'[q] = [row |-> managed'[q].row, state |-> managed'[q].state, by |-> managed'[q].by]
    BY <1>4 DEF SInv, Shapes
  <2>2. QED
    BY <2>1, <1>2, <1>3, <1>4, ProceedShapes DEF Shapes
<1>7. managed'[p].by = NoActivity
  BY <1>4 DEF SInv, OpenedBySomebody, Linked
<1>8. OpenedBySomebody' /\ NothingHeld'
  BY <1>4, <1>7 DEF SInv, OpenedBySomebody, NothingHeld
<1>9. ASSUME ~crossing' PROVE Peace'
  <2>1. Ready(k, u)
    BY <1>1, <1>2 DEF Ready, ListedIn
  <2>2. /\ ~crossing /\ Apart' /\ Warned'
        /\ \A j \in Activity \ {k} : p \notin task[j].at
    BY <1>1, <1>3, <1>9, <2>1, ProceedAlone
  <2>4. Owned'
    <3>1. ASSUME NEW j \in Activity \ {k}
          PROVE  task'[j].at = task[j].at /\ task'[j].pc = task[j].pc
      BY <1>3, OthersKeepPlace
    <3>2. managed'[p].state = "closed"
      BY <1>4
    <3>3. \A j \in Activity : task[j].at \subseteq Provider
      BY DEF SInv, Shapes, Shape
    <3>4. QED
      BY <1>4, <1>5, <2>2, <3>1, <3>2, <3>3 DEF SInv, Peace, Owned
  <2>5. Listed'
    <3>1. Managed' \subseteq Managed
      BY <1>4 DEF Managed, Linked
    <3>2. ListedIn(u)'
      BY <3>1, <1>1, <2>1, <2>2 DEF Ready, ListedIn
    <3>3. QED
      BY <3>1, <3>2, <1>1, <1>2, <1>3, <2>2, ProceedListed
  <2>6. QED
    BY <2>2, <2>4, <2>5 DEF Peace
<1>10. NoStrays'
  <2> SUFFICES ASSUME mishaps' = {} PROVE ~crossing' /\ strays' = {}
    BY DEF NoStrays
  <2>1. mishaps = {} /\ UNCHANGED crossing
    BY <1>3 DEF Proceed, Crossed
  <2>2. QED
    BY <2>1, <1>4 DEF Forgets, SInv, NoStrays
<1>11. QED
  BY <1>6, <1>8, <1>9, <1>10 DEF SInv

\* An entry without a connection is deleted at once.
LEMMA DeleteSafe ==
  ASSUME SInv, NEW k \in Activity, NEW t, NEW p \in Provider, Ready(k, t), t.at = {},
         managed' = [managed EXCEPT ![p] = Blank], Proceed(k, [t EXCEPT !.pc = "looping"], p),
         Forgets, UNCHANGED process, process # "down", ~Linked(p), p \in t.known
  PROVE  SInv'
<1> DEFINE u == [t EXCEPT !.pc = "looping"]
<1>1. u = [pc |-> "looping", rows |-> t.rows, known |-> t.known, drop |-> t.drop,
           at |-> {}, stale |-> t.stale]
  BY DEF Ready, Shape
<1>2. Shape(u)
  BY <1>1 DEF Ready, Shape
<1>3. Proceed(k, u, p)
  OBVIOUS
<1>4. /\ managed' = [q \in Provider |-> managed'[q]]
      /\ \A q \in Provider \ {p} : managed'[q] = managed[q]
      /\ managed'[p] = Blank
  BY DEF SInv, Shapes
<1> HIDE DEF u
<1>5. task'[k].pc = "looping" /\ task'[k].at = {}
  <2>1. task'[k] = [u EXCEPT !.stale = @ \ {p}]
    BY <1>3 DEF Proceed
  <2>2. QED
    BY <1>1, <2>1
<1>6. Shapes'
  <2>1. \A q \in Provider :
          managed'[q] = [row |-> managed'[q].row, state |-> managed'[q].state, by |-> managed'[q].by]
    BY <1>4 DEF SInv, Shapes, Blank
  <2>2. QED
    BY <2>1, <1>2, <1>3, <1>4, ProceedShapes DEF Shapes
<1>7. OpenedBySomebody' /\ NothingHeld'
  BY <1>4 DEF SInv, OpenedBySomebody, NothingHeld, Blank
<1>8. ASSUME ~crossing' PROVE Peace'
  <2>1. Ready(k, u)
    BY <1>1, <1>2 DEF Ready, ListedIn
  <2>2. /\ ~crossing /\ Apart' /\ Warned'
        /\ \A j \in Activity \ {k} : p \notin task[j].at
    BY <1>1, <1>3, <1>8, <2>1, ProceedAlone
  <2>4. Owned'
    <3>1. ASSUME NEW j \in Activity \ {k}
          PROVE  task'[j].at = task[j].at /\ task'[j].pc = task[j].pc
      BY <1>3, OthersKeepPlace
    <3>2. \A j \in Activity : task[j].at \subseteq Provider
      BY DEF SInv, Shapes, Shape
    <3>3. QED
      BY <1>4, <1>5, <2>2, <3>1, <3>2 DEF SInv, Peace, Owned
  <2>5. Listed'
    <3>1. Managed' \subseteq Managed
      BY <1>4 DEF Managed, Blank
    <3>2. ListedIn(u)'
      BY <3>1, <1>1, <2>1, <2>2 DEF Ready, ListedIn
    <3>3. QED
      BY <3>1, <3>2, <1>1, <1>2, <1>3, <2>2, ProceedListed
  <2>6. QED
    BY <2>2, <2>4, <2>5 DEF Peace
<1>9. NoStrays'
  <2> SUFFICES ASSUME mishaps' = {} PROVE ~crossing' /\ strays' = {}
    BY DEF NoStrays
  <2>1. mishaps = {} /\ UNCHANGED crossing
    BY <1>3 DEF Proceed, Crossed
  <2>2. QED
    BY <2>1, <1>4 DEF Forgets, SInv, NoStrays, Linked
<1>10. QED
  BY <1>6, <1>7, <1>8, <1>9 DEF SInv

\* An activity that only changes its own task, and is at no new provider.
LEMMA QuietSafe ==
  ASSUME SInv, NEW k \in Activity, NEW v, Shape(v), task' = [task EXCEPT ![k] = v],
         UNCHANGED <<managed, process>>, process # "down", v.pc \notin {"closing", "opening"},
         mishaps' = {} => mishaps = {} /\ UNCHANGED <<crossing, strays>>,
         ~crossing' =>
           /\ ~crossing /\ v.at \subseteq task[k].at
           /\ v.pc \notin {"idle", "fetching"} =>
                \A j \in Activity \ {k} : task[j].at \subseteq v.stale
           /\ v.pc \notin {"idle", "fetching", "fetched"} => ListedIn(v)
  PROVE  SInv'
<1>1. task'[k] = v /\ \A j \in Activity \ {k} : task'[j] = task[j]
  BY DEF SInv, Shapes
<1>2. Shapes'
  BY <1>1 DEF SInv, Shapes
<1>3. OpenedBySomebody' /\ NothingHeld'
  BY DEF SInv, OpenedBySomebody, NothingHeld
<1>4. ASSUME ~crossing' PROVE Peace'
  <2>2. Apart' /\ Warned'
    BY <1>1, <1>4 DEF SInv, Peace, Apart, Warned
  <2>3. Owned'
    BY <1>1, <1>4 DEF SInv, Peace, Owned
  <2>4. Listed'
    BY <1>1, <1>4 DEF SInv, Peace, Listed, ListedIn, Managed
  <2>5. QED
    BY <2>2, <2>3, <2>4 DEF Peace
<1>5. NoStrays'
  BY DEF SInv, NoStrays
<1>6. QED
  BY <1>2, <1>3, <1>4, <1>5 DEF SInv

LEMMA VisitSafe ==
  ASSUME SInv, NEW k \in Activity, NEW t, Ready(k, t), t.pc \in {"fetched", "looping"},
         Visit(k, t), task[k].at = {}, process # "down"
  PROVE  SInv'
<1>1. Forgets /\ UNCHANGED process /\ t.at = {}
  BY DEF Visit, Ready, Shape
<1>2. CASE t.drop # {}
  <2>1. PICK p \in First(t.drop) :
          IF p \in Managed
          THEN removeProvider(k, [t EXCEPT !.drop = @ \ {p}], p)
          ELSE /\ task' = [task EXCEPT ![k] = [t EXCEPT !.pc = "looping", !.drop = @ \ {p}]]
               /\ UNCHANGED <<managed, mishaps, announced, crossing>>
    BY <1>2 DEF Visit
  <2>2. p \in t.known
    BY DEF First, Ready, Shape
  <2> DEFINE u == [t EXCEPT !.drop = @ \ {p}]
  <2>3. u = [pc |-> t.pc, rows |-> t.rows, known |-> t.known, drop |-> t.drop \ {p},
             at |-> {}, stale |-> t.stale]
    BY <1>1, DroppedTask DEF Ready
  <2>4. Ready(k, u) /\ u.at = {} /\ p \in u.known
    BY <2>2, <2>3 DEF Ready, Shape, ListedIn
  <2>5. CASE p \in Managed
    <3>1. removeProvider(k, u, p) /\ p \in Provider
      BY <2>1, <2>5 DEF Managed
    <3> HIDE DEF u
    <3>2. QED
      BY <1>1, <2>4, <3>1, DisconnectSafe, DeleteSafe DEF removeProvider
  <2>6. CASE p \notin Managed
    <3> DEFINE v == [t EXCEPT !.pc = "looping", !.drop = @ \ {p}]
    <3>1. v = [pc |-> "looping", rows |-> t.rows, known |-> t.known, drop |-> t.drop \ {p},
               at |-> {}, stale |-> t.stale]
      <4> DEFINE w == [t EXCEPT !.pc = "looping"]
      <4>1. w = [pc |-> "looping", rows |-> t.rows, known |-> t.known, drop |-> t.drop,
                 at |-> {}, stale |-> t.stale]
        BY <1>1, MarkedTask DEF Ready
      <4> HIDE DEF w
      <4>2. [w EXCEPT !.drop = @ \ {p}] = [pc |-> "looping", rows |-> t.rows, known |-> t.known,
              drop |-> t.drop \ {p}, at |-> {}, stale |-> t.stale]
        BY <4>1
      <4>3. QED
        BY <4>2 DEF w
    <3>2. task' = [task EXCEPT ![k] = v] /\ UNCHANGED <<managed, mishaps, crossing>>
      BY <2>1, <2>6
    <3> HIDE DEF v
    <3>3. Shape(v) /\ strays' = strays
      BY <1>1, <3>1, <3>2 DEF Ready, Shape, Forgets
    <3>4. ~crossing =>
            /\ ListedIn(v)
            /\ \A j \in Activity \ {k} : task[j].at \subseteq v.stale
      BY <3>1 DEF Ready, ListedIn, SInv, Peace, Warned
    <3>5. v.pc = "looping" /\ v.at = {}
      BY <3>1
    <3>6. QED
      BY <1>1, <3>2, <3>3, <3>4, <3>5, QuietSafe
  <2>7. QED
    BY <2>5, <2>6
<1>3. CASE t.drop = {} /\ Differing(t) = {}
  <2>1. task' = [task EXCEPT ![k] = Idle] /\ UNCHANGED managed /\ Crossed(Misled(k, t))
    BY <1>3 DEF Visit
  <2>2. Shape(Idle) /\ Idle.pc = "idle" /\ Idle.at = {}
    BY DEF Shape, Idle
  <2>3. /\ strays' = strays /\ (~crossing' => ~crossing)
        /\ mishaps' = {} => mishaps = {} /\ UNCHANGED crossing
    BY <1>1, <2>1 DEF Forgets, Crossed
  <2>4. QED
    BY <1>1, <2>1, <2>2, <2>3, QuietSafe
<1>4. CASE t.drop = {} /\ Differing(t) # {}
  <2>1. PICK p \in First(Differing(t)) :
          LET u == [t EXCEPT !.rows = Restrict(@, {q \in DOMAIN @ : q >= p}),
                             !.stale = IF Misled(k, t) THEN @ \cup {p} ELSE @]
          IN  IF p \in t.known \ Managed THEN Abandons(k)
              ELSE IF p \in t.known /\ Linked(p) THEN disconnect(k, u, p)
              ELSE addProvider(k, u, p)
    BY <1>4 DEF Visit
  <2>2. p \in DOMAIN t.rows /\ p \in Provider
    BY DEF First, Differing, Ready, Shape
  <2> DEFINE u == [t EXCEPT !.rows = Restrict(@, {q \in DOMAIN @ : q >= p}),
                            !.stale = IF Misled(k, t) THEN @ \cup {p} ELSE @]
  <2>3. /\ u.pc = t.pc /\ u.at = {} /\ u.known = t.known /\ u.drop = t.drop
        /\ t.stale \subseteq u.stale
        /\ DOMAIN u.rows = {q \in DOMAIN t.rows : q >= p}
        /\ u = [pc |-> u.pc, rows |-> u.rows, known |-> u.known, drop |-> u.drop,
                at |-> u.at, stale |-> u.stale]
    <3> DEFINE rows == Restrict(t.rows, {q \in DOMAIN t.rows : q >= p})
               stale == IF Misled(k, t) THEN t.stale \cup {p} ELSE t.stale
               w == [t EXCEPT !.rows = rows]
    <3>1. DOMAIN rows = {q \in DOMAIN t.rows : q >= p} /\ t.stale \subseteq stale
      BY DEF Restrict
    <3> HIDE DEF rows, stale
    <3>2. w = [pc |-> t.pc, rows |-> rows, known |-> t.known, drop |-> t.drop,
               at |-> {}, stale |-> t.stale]
      BY <1>1 DEF Ready, Shape
    <3> HIDE DEF w
    <3>3. [w EXCEPT !.stale = stale] = [pc |-> t.pc, rows |-> rows, known |-> t.known,
            drop |-> t.drop, at |-> {}, stale |-> stale]
      BY <3>2
    <3>4. w.stale = t.stale
      BY <3>2
    <3>5. u = [w EXCEPT !.stale = stale]
      BY <3>4 DEF w, rows, stale
    <3> HIDE DEF u
    <3>6. QED
      BY <3>1, <3>3, <3>5
  <2>4. IF p \in t.known \ Managed THEN Abandons(k)
        ELSE IF p \in t.known /\ Linked(p) THEN disconnect(k, u, p)
        ELSE addProvider(k, u, p)
    BY <2>1
  <2> HIDE DEF u
  <2>5. Shape(u)
    BY <2>3 DEF Ready, Shape
  <2>6. Ready(k, u)
    BY <2>3, <2>5 DEF Ready, ListedIn
  <2>7. p \in DOMAIN u.rows
    BY <2>2, <2>3, ConnectorAssumption
  <2>8. CASE Abandons(k)
    <3>1. task' = [task EXCEPT ![k] = Idle] /\ UNCHANGED managed /\ mishaps' # {} /\ crossing'
      BY <2>8 DEF Abandons, Crossed
    <3>2. Shape(Idle) /\ Idle.pc = "idle"
      BY DEF Shape, Idle
    <3>3. QED
      BY <1>1, <3>1, <3>2, QuietSafe
  <2>9. CASE p \in t.known /\ Linked(p) /\ disconnect(k, u, p)
    BY <1>1, <2>2, <2>3, <2>6, <2>9, DisconnectSafe
  <2>10. CASE ~(p \in t.known \ Managed) /\ ~(p \in t.known /\ Linked(p)) /\ addProvider(k, u, p)
    <3>1. ~crossing /\ p \notin u.stale => managed[p].state # "linked"
      BY <2>2, <2>3, <2>10 DEF Ready, ListedIn, Managed, Linked
    <3>2. QED
      BY <1>1, <2>3, <2>6, <2>7, <2>10, <3>1, AddSafe
  <2>11. QED
    BY <2>4, <2>8, <2>9, <2>10
<1>5. QED
  BY <1>2, <1>3, <1>4

LEMMA ResumeSafe == ASSUME SInv, NEW k \in Activity, Resume(k), process # "down" PROVE SInv'
<1> DEFINE t == [task[k] EXCEPT !.known = Managed, !.drop = Managed \ DOMAIN task[k].rows]
<1>1. task[k].pc = "fetched" /\ Shape(task[k]) /\ Visit(k, t)
  BY DEF Resume, SInv, Shapes
<1>2. task[k].at = {}
  BY <1>1 DEF Shape
<1>3. t = [pc |-> "fetched", rows |-> task[k].rows, known |-> Managed,
           drop |-> Managed \ DOMAIN task[k].rows, at |-> {}, stale |-> task[k].stale]
  BY <1>1, ResumedTask
<1> HIDE DEF t
<1>4. Ready(k, t) /\ t.pc = "fetched"
  BY <1>1, <1>3 DEF Ready, Shape, ListedIn
<1>5. QED
  BY <1>1, <1>2, <1>4, VisitSafe

LEMMA LoopSafe == ASSUME SInv, NEW k \in Activity, Loop(k), process # "down" PROVE SInv'
<1>1. task[k].pc = "looping" /\ Shape(task[k]) /\ Visit(k, task[k])
  BY DEF Loop, SInv, Shapes
<1>2. Ready(k, task[k]) /\ task[k].at = {}
  BY <1>1 DEF Ready, Shape, SInv, Peace, Listed
<1>3. QED
  BY <1>1, <1>2, VisitSafe

LEMMA DisconnectedSafe ==
  ASSUME SInv, NEW k \in Activity, Disconnected(k), process # "down"
  PROVE  SInv'
<1>1. PICK p \in task[k].at :
        IF p \in DOMAIN task[k].rows
        THEN addProvider(k, task[k], p)
        ELSE /\ managed' = [managed EXCEPT ![p] = Blank]
             /\ task' = [task EXCEPT ![k].pc = "looping", ![k].at = {}]
             /\ UNCHANGED <<mishaps, announced, crossing>>
  BY DEF Disconnected
<1>2. /\ task[k].pc = "closing" /\ Shape(task[k]) /\ p \in Provider /\ task[k].at = {p}
      /\ Forgets /\ UNCHANGED process
  BY DEF Disconnected, SInv, Shapes, Shape
<1>3. ~crossing => managed[p].state = "closed"
  BY <1>2 DEF SInv, Peace, Owned
<1>4. CASE p \in DOMAIN task[k].rows
  <2>1. Ready(k, task[k])
    BY <1>2 DEF Ready, SInv, Peace, Listed
  <2>2. QED
    BY <1>1, <1>2, <1>3, <1>4, <2>1, AddSafe
<1>5. CASE p \notin DOMAIN task[k].rows
  <2> DEFINE v == [task[k] EXCEPT !.pc = "looping", !.at = {}]
  <2>1. v = [pc |-> "looping", rows |-> task[k].rows, known |-> task[k].known,
             drop |-> task[k].drop, at |-> {}, stale |-> task[k].stale]
    BY <1>2, PlacedTask
  <2>2. task'[k] = v /\ (\A j \in Activity \ {k} : task'[j] = task[j])
        /\ task' = [j \in Activity |-> task'[j]]
    BY <1>1, <1>5 DEF SInv, Shapes
  <2> HIDE DEF v
  <2>3. /\ managed' = [q \in Provider |-> managed'[q]]
        /\ \A q \in Provider \ {p} : managed'[q] = managed[q]
        /\ managed'[p] = Blank
        /\ UNCHANGED <<mishaps, crossing>>
    BY <1>1, <1>2, <1>5 DEF SInv, Shapes
  <2>4. Shape(v)
    BY <1>2, <2>1 DEF Shape
  <2>5. Shapes'
    <3>1. \A q \in Provider :
            managed'[q] = [row |-> managed'[q].row, state |-> managed'[q].state, by |-> managed'[q].by]
      BY <2>3 DEF SInv, Shapes, Blank
    <3>2. \A j \in Activity : Shape(task'[j])
      BY <2>2, <2>4 DEF SInv, Shapes
    <3>3. QED
      BY <3>1, <3>2, <2>2, <2>3 DEF Shapes
  <2>6. OpenedBySomebody' /\ NothingHeld'
    BY <1>2, <2>3 DEF SInv, OpenedBySomebody, NothingHeld, Blank
  <2>7. ASSUME ~crossing PROVE Peace'
    <3>2. Apart' /\ Warned'
      BY <1>2, <2>1, <2>2, <2>7 DEF SInv, Peace, Apart, Warned
    <3>3. \A j \in Activity \ {k} : p \notin task[j].at /\ task[j].at \subseteq Provider
      BY <1>2, <2>7 DEF SInv, Peace, Apart, Shapes, Shape
    <3>4. Owned'
      BY <2>1, <2>2, <2>3, <2>7, <3>3 DEF SInv, Peace, Owned
    <3>5. Listed'
      <4>1. Managed' \subseteq Managed
        BY <2>3 DEF Managed, Blank
      <4>2. ListedIn(task[k])'
        BY <1>2, <2>1, <2>2, <2>7, <4>1 DEF SInv, Peace, Listed, ListedIn
      <4>3. QED
        BY <2>2, <2>7, <4>1, <4>2 DEF SInv, Peace, Listed, ListedIn
    <3>6. QED
      BY <3>2, <3>4, <3>5 DEF Peace
  <2>8. NoStrays'
    BY <1>2, <1>3, <2>3 DEF Forgets, SInv, NoStrays
  <2>9. QED
    BY <2>3, <2>5, <2>6, <2>7, <2>8 DEF SInv
<1>6. QED
  BY <1>4, <1>5

\* The outcome of a connection attempt is written to the entry it belongs to.
LEMMA SettlesSafe ==
  ASSUME SInv, NEW k \in Activity, task[k].pc = "opening", process # "down", UNCHANGED process,
         NEW result \in {"linked", "dead"}, NEW pc \in {"opened", "failed"},
         Settles(k, result), task' = [task EXCEPT ![k].pc = pc], UNCHANGED crossing,
         mishaps' = {} => mishaps = {} /\ strays' \subseteq strays \cup Replaced(k)
  PROVE  SInv'
<1> DEFINE v == [task[k] EXCEPT !.pc = pc]
<1>1. Shape(task[k]) /\ k # NoActivity
  BY NoActivityIsNone DEF SInv, Shapes
<1>2. v = [pc |-> pc, rows |-> task[k].rows, known |-> task[k].known,
           drop |-> task[k].drop, at |-> task[k].at, stale |-> task[k].stale]
  BY <1>1 DEF Shape
<1>3. task'[k] = v /\ (\A j \in Activity \ {k} : task'[j] = task[j])
      /\ task' = [j \in Activity |-> task'[j]]
  BY DEF SInv, Shapes
<1> HIDE DEF v
<1>4. Shape(v)
  BY <1>1, <1>2 DEF Shape
<1>5. /\ managed' = [q \in Provider |-> managed'[q]]
      /\ \A q \in Provider : managed[q].by # k => managed'[q] = managed[q]
      /\ \A q \in Provider : managed[q].by = k =>
            managed'[q] = [row |-> managed[q].row, state |-> result, by |-> NoActivity]
  BY SettleEffect
<1>6. Shapes'
  <2>1. \A q \in Provider :
          managed'[q] = [row |-> managed'[q].row, state |-> managed'[q].state, by |-> managed'[q].by]
    BY <1>5 DEF SInv, Shapes
  <2>2. \A j \in Activity : Shape(task'[j])
    BY <1>3, <1>4 DEF SInv, Shapes
  <2>3. QED
    BY <1>3, <1>5, <2>1, <2>2 DEF Shapes
<1>7. OpenedBySomebody' /\ NothingHeld'
  BY <1>5 DEF SInv, OpenedBySomebody, NothingHeld
<1>8. ASSUME ~crossing' PROVE Peace'
  <2>2. Apart' /\ Warned'
    BY <1>2, <1>3, <1>8 DEF SInv, Peace, Apart, Warned
  <2>3. Owned'
    <3> SUFFICES ASSUME NEW j \in Activity, NEW p \in task'[j].at
                 PROVE  /\ task'[j].pc = "closing" => managed'[p].state = "closed"
                        /\ task'[j].pc = "opening" => managed'[p].state = "opening" /\ managed'[p].by = j
      BY DEF Owned
    <3>1. CASE j = k
      BY <1>2, <1>3, <3>1
    <3>2. CASE j # k
      <4>1. task'[j] = task[j] /\ p \in Provider
        BY <1>3, <3>2 DEF SInv, Shapes, Shape
      <4>2. /\ task[j].pc = "closing" => managed[p].state = "closed"
            /\ task[j].pc = "opening" => managed[p].state = "opening" /\ managed[p].by = j
        BY <1>8, <4>1 DEF SInv, Peace, Owned
      <4>3. managed[p].state = "closed" => managed[p].by # k
        BY <1>1, <4>1 DEF SInv, OpenedBySomebody
      <4>4. QED
        BY <1>5, <3>2, <4>1, <4>2, <4>3
    <3>3. QED
      BY <3>1, <3>2
  <2>4. Listed'
    <3>1. Managed' \subseteq Managed
      BY <1>1, <1>5 DEF Managed, SInv, OpenedBySomebody
    <3>2. ListedIn(task[k])'
      BY <1>2, <1>3, <1>8, <3>1 DEF SInv, Peace, Listed, ListedIn
    <3>3. QED
      BY <1>3, <1>8, <3>1, <3>2 DEF SInv, Peace, Listed, ListedIn
  <2>5. QED
    BY <2>2, <2>3, <2>4 DEF Peace
<1>9. NoStrays'
  BY DEF SInv, NoStrays, Peace, Owned, Replaced
<1>10. QED
  BY <1>6, <1>7, <1>8, <1>9 DEF SInv

LEMMA ConnectSafe ==
  ASSUME SInv, NEW k \in Activity, Connects(k) \/ ConnectFails(k), process # "down"
  PROVE  SInv'
<1>1. CASE Connects(k)
  BY <1>1, SettlesSafe DEF Connects, history
<1>2. CASE ConnectFails(k)
  <2>1. mishaps' = {} => mishaps = {} /\ strays' \subseteq strays \cup Replaced(k)
    BY <1>2 DEF ConnectFails
  <2>2. QED
    BY <1>2, <2>1, SettlesSafe DEF ConnectFails
<1>3. QED
  BY <1>1, <1>2

LEMMA FetchSafe ==
  ASSUME SInv, NEW k \in Activity, fetchProviders(k), process # "down"
  PROVE  SInv'
<1> DEFINE rows == [p \in Visible |-> RowOf(p)]
           stale == UNION {task[j].at : j \in Activity}
           v == [task[k] EXCEPT !.pc = "fetched", !.rows = rows, !.stale = stale]
<1>1. task[k].pc = "fetching" /\ Shape(task[k]) /\ task' = [task EXCEPT ![k] = v]
      /\ UNCHANGED <<managed, strays, mishaps, crossing, process>>
  BY DEF fetchProviders, SInv, Shapes, history
<1>2. DOMAIN rows \subseteq Provider /\ \A j \in Activity : task[j].at \subseteq stale
  BY DEF Visible
<1> HIDE DEF rows, stale
<1>3. v = [pc |-> "fetched", rows |-> rows, known |-> task[k].known, drop |-> task[k].drop,
           at |-> {}, stale |-> stale]
  BY <1>1, FetchedTask DEF Shape
<1> HIDE DEF v
<1>4. Shape(v) /\ v.pc = "fetched" /\ v.at = {} /\ v.stale = stale
  BY <1>1, <1>2, <1>3 DEF Shape
<1>5. QED
  BY <1>1, <1>2, <1>4, QuietSafe

LEMMA EndSafe ==
  ASSUME SInv, NEW k \in Activity, task' = [task EXCEPT ![k] = Idle], process # "down",
         UNCHANGED <<managed, strays, mishaps, crossing, process>>
  PROVE  SInv'
<1>1. Shape(Idle) /\ Idle.pc = "idle" /\ Idle.at = {}
  BY DEF Shape, Idle
<1>2. QED
  BY <1>1, QuietSafe

\* After addProvider().
LEMMA AddedSafe ==
  ASSUME SInv, NEW k \in Activity, updateStatus(k) \/ UpdateFails(k), process # "down"
  PROVE  SInv'
<1>1. /\ task[k].pc \in {"opened", "failed"} /\ Added(k) /\ Shape(task[k])
      /\ UNCHANGED <<managed, strays, mishaps, crossing, process>>
  BY DEF updateStatus, UpdateFails, SInv, Shapes, history
<1>2. CASE k \in Provider
  <2>1. task' = [task EXCEPT ![k] = Idle]
    BY <1>1, <1>2 DEF Added
  <2>2. QED
    BY <1>1, <2>1, EndSafe
<1>3. CASE k \notin Provider
  <2> DEFINE v == [task[k] EXCEPT !.pc = "looping", !.at = {}]
  <2>1. v = [pc |-> "looping", rows |-> task[k].rows, known |-> task[k].known,
             drop |-> task[k].drop, at |-> {}, stale |-> task[k].stale]
    BY <1>1, PlacedTask
  <2>2. task' = [task EXCEPT ![k] = v]
    BY <1>1, <1>3 DEF Added
  <2> HIDE DEF v
  <2>3. Shape(v) /\ v.pc = "looping" /\ v.at = {}
    BY <1>1, <2>1 DEF Shape
  <2>4. ~crossing =>
          ListedIn(v) /\ \A j \in Activity \ {k} : task[j].at \subseteq v.stale
    BY <1>1, <2>1 DEF SInv, Peace, Warned, Listed, ListedIn
  <2>5. QED
    BY <1>1, <2>2, <2>3, <2>4, QuietSafe
<1>4. QED
  BY <1>2, <1>3

LEMMA ActivitySafe == ASSUME SInv, NEW k \in Activity, Activities(k) PROVE SInv'
<1>1. process # "down"
  BY DEF Activities, fetchProviders, FetchFails, Resume, Loop, Disconnected, Connects,
         ConnectFails, updateStatus, UpdateFails, SInv, NothingHeld, Busy
<1>2. CASE FetchFails(k)
  BY <1>1, <1>2, EndSafe DEF FetchFails
<1>3. QED
  BY <1>1, <1>2, FetchSafe, ResumeSafe, LoopSafe, DisconnectedSafe, ConnectSafe, AddedSafe
  DEF Activities

\* New calls have neither read nor done anything.
LEMMA StartSafe ==
  ASSUME SInv, NEW n, StartCalls(n) \/ UNCHANGED <<task, crossing>>, process # "down",
         UNCHANGED <<managed, strays, mishaps, process>>
  PROVE  SInv'
<1> DEFINE new == [Idle EXCEPT !.pc = "fetching"]
<1>1. new.pc = "fetching" /\ Shape(new) /\ new.at = {}
  <2>1. Shape(Idle) /\ Idle.at = {}
    BY DEF Idle, Shape
  <2>2. new = [pc |-> "fetching", rows |-> Idle.rows, known |-> Idle.known, drop |-> Idle.drop,
               at |-> Idle.at, stale |-> Idle.stale]
    BY <2>1, MarkedTask
  <2> HIDE DEF new
  <2>3. QED
    BY <2>1, <2>2 DEF Shape
<1> HIDE DEF new
<1>2. ASSUME NEW k \in Activity PROVE task'[k] = task[k] \/ task'[k] = new
  BY DEF StartCalls, new
<1>3. Shapes'
  BY <1>1, <1>2 DEF SInv, Shapes, StartCalls
<1>4. OpenedBySomebody' /\ NothingHeld'
  BY DEF SInv, OpenedBySomebody, NothingHeld
<1>5. ASSUME ~crossing' PROVE Peace'
  <2>1. Peace
    BY <1>5, PeaceReturns DEF StartCalls, SInv
  <2>2. Apart' /\ Warned'
    BY <1>1, <1>2, <2>1 DEF Peace, Apart, Warned
  <2>3. Owned' /\ Listed'
    BY <1>1, <1>2, <2>1 DEF Peace, Owned, Listed, ListedIn, Managed
  <2>4. QED
    BY <2>2, <2>3 DEF Peace
<1>6. NoStrays'
  BY DEF SInv, NoStrays, StartCalls, Upset
<1>7. QED
  BY <1>3, <1>4, <1>5, <1>6 DEF SInv

LEMMA ProcessSafe ==
  ASSUME SInv, UNCHANGED <<memory, mishaps, crossing>>, process' = "down" => process = "down"
  PROVE  SInv'
BY DEF SInv, memory, Shapes, OpenedBySomebody, NothingHeld, Busy, Peace, Apart, Warned, Owned,
       Listed, ListedIn, Managed, NoStrays

LEMMA BootEffect ==
  ASSUME Boot
  PROVE  \A k \in Activity : \/ task'[k] = Idle /\ k \notin Visible
                           \/ /\ k \in Visible
                              /\ task'[k] = [pc |-> "looping", rows |-> [p \in {k} |-> RowOf(p)],
                                             known |-> {}, drop |-> {}, at |-> {}, stale |-> {}]
<1> SUFFICES ASSUME NEW k \in Activity, k \in Visible
             PROVE  task'[k] = [pc |-> "looping", rows |-> [p \in {k} |-> RowOf(p)],
                                known |-> {}, drop |-> {}, at |-> {}, stale |-> {}]
  BY DEF Boot
<1> DEFINE rows == [p \in {k} |-> RowOf(p)]
           a == [Idle EXCEPT !.pc = "looping"]
<1>1. task'[k] = [a EXCEPT !.rows = rows]
  BY DEF Boot
<1>2. a = [pc |-> "looping", rows |-> Idle.rows, known |-> {}, drop |-> {}, at |-> {}, stale |-> {}]
  <2>1. Shape(Idle) /\ Idle.known = {} /\ Idle.drop = {} /\ Idle.at = {} /\ Idle.stale = {}
    BY DEF Idle, Shape
  <2>2. QED
    BY <2>1, MarkedTask
<1> HIDE DEF a, rows
<1>3. QED
  BY <1>1, <1>2 DEF rows

LEMMA BootSafe == ASSUME SInv, Boot PROVE SInv'
<1>1. process = "down" /\ process' = "booting" /\ UNCHANGED <<managed, strays, mishaps>>
      /\ ~crossing' /\ task' = [k \in Activity |-> task'[k]]
  BY DEF Boot
<1>2. \A p \in Provider : managed[p] = Blank
  BY <1>1 DEF SInv, NothingHeld
<1>3. ASSUME NEW k \in Activity PROVE Shape(task'[k]) /\ task'[k].at = {}
  <2>1. CASE task'[k] = Idle
    BY <2>1 DEF Idle, Shape
  <2>2. CASE /\ k \in Visible
             /\ task'[k] = [pc |-> "looping", rows |-> [p \in {k} |-> RowOf(p)],
                            known |-> {}, drop |-> {}, at |-> {}, stale |-> {}]
    BY <2>2 DEF Shape, Visible
  <2>3. QED
    BY <2>1, <2>2, BootEffect
<1>4. Shapes' /\ OpenedBySomebody' /\ NothingHeld'
  BY <1>1, <1>3 DEF SInv, Shapes, OpenedBySomebody, NothingHeld
<1>5. Managed' = {}
  BY <1>1, <1>2 DEF Managed, Blank
<1>6. Peace' /\ NoStrays'
  BY <1>1, <1>3, <1>5 DEF SInv, Peace, Apart, Warned, Owned, Listed, ListedIn, NoStrays
<1>7. QED
  BY <1>1, <1>4, <1>6 DEF SInv

LEMMA NothingSafe ==
  ASSUME managed = [p \in Provider |-> Blank], strays = {}, task = [k \in Activity |-> Idle],
         mishaps = {} => ~crossing
  PROVE  SInv
<1>1. Shape(Idle) /\ Idle.at = {} /\ Idle.pc = "idle"
  BY DEF Shape, Idle
<1>2. Blank.state = "none" /\ Blank.by = NoActivity
      /\ Blank = [row |-> Blank.row, state |-> Blank.state, by |-> Blank.by]
  BY DEF Blank
<1>3. \A k \in Activity : task[k] = Idle
  OBVIOUS
<1>4. \A p \in Provider : managed[p] = Blank
  OBVIOUS
<1>5. Shapes /\ OpenedBySomebody
  BY <1>1, <1>2, <1>3, <1>4 DEF Shapes, OpenedBySomebody
<1>6. NothingHeld
  BY <1>1, <1>3, <1>4 DEF NothingHeld, Busy
<1>7. Peace
  BY <1>1, <1>3 DEF Peace, Apart, Warned, Owned, Listed
<1>8. QED
  BY <1>5, <1>6, <1>7 DEF SInv, NoStrays

LEMMA CrashSafe == ASSUME SInv, Crash PROVE SInv'
<1>1. /\ managed' = [p \in Provider |-> Blank] /\ strays' = {}
      /\ task' = [k \in Activity |-> Idle]
  BY DEF Crash
<1>2. Shape(Idle) /\ Idle.at = {} /\ Idle.pc = "idle"
  BY DEF Shape, Idle
<1>3. Blank.state = "none" /\ Blank.by = NoActivity
      /\ Blank = [row |-> Blank.row, state |-> Blank.state, by |-> Blank.by]
  BY DEF Blank
<1>4. \A k \in Activity : task'[k] = Idle
  BY <1>1
<1>5. \A p \in Provider : managed'[p] = Blank
  BY <1>1
<1>6. Shapes' /\ OpenedBySomebody'
  BY <1>1, <1>2, <1>3, <1>4, <1>5 DEF Shapes, OpenedBySomebody
<1>7. NothingHeld'
  BY <1>2, <1>4, <1>5 DEF NothingHeld, Busy
<1>8. Peace'
  BY <1>1, <1>2, <1>4 DEF Peace, Apart, Warned, Owned, Listed
<1>9. NoStrays'
  BY <1>1 DEF SInv, NoStrays, Crash
<1>10. QED
  BY <1>6, <1>7, <1>8, <1>9 DEF SInv

\* The invariant about activities and what they are at.
LEMMA OwnershipHolds == Spec => []SInv
<1>1. Init => SInv
  BY NothingSafe DEF Init
<1>2. SInv /\ IInv /\ [Next]_vars => SInv'
  <2> SUFFICES ASSUME SInv, IInv, [Next]_vars PROVE SInv'
    OBVIOUS
  <2>1. CASE UNCHANGED vars
    BY <2>1, ProcessSafe DEF vars, history
  <2>2. ASSUME NEW p \in Provider, Api(p) PROVE SInv'
    <3>1. UNCHANGED <<memory, mishaps, crossing, process>>
      BY <2>2 DEF Api, CreateProvider, DeleteProvider, ChangeProvider, NotifyChange, NotifyFails,
                  history
    <3>2. QED
      BY <3>1, ProcessSafe
  <2>3. CASE Flush
    BY <2>3, StartSafe DEF Flush, history
  <2>4. CASE Up
    BY <2>4, ProcessSafe DEF Up, history
  <2>5. CASE ListenerConnects
    <3>1. process # "down"
      BY <2>5 DEF IInv, NothingYet, ListenerConnects, Listens
    <3>2. QED
      BY <2>5, <3>1, StartSafe DEF ListenerConnects, history
  <2>6. CASE Listening
    BY <2>6, ProcessSafe DEF Listening
  <2>7. CASE Crash
    BY <2>7, CrashSafe
  <2>8. QED
    BY <2>1, <2>2, <2>3, <2>4, <2>5, <2>6, <2>7, BootSafe, ActivitySafe DEF Next
<1>3. QED
  BY <1>1, <1>2, InvariantHolds, PTL DEF Spec

\* A connection that the manager cannot disconnect any more has its reason.
THEOREM StraysAreExplained == Spec => []StrayIsExplained
<1>1. SInv => StrayIsExplained
  BY DEF SInv, NoStrays, StrayIsExplained
<1>2. QED
  BY <1>1, OwnershipHolds, PTL

-----------------------------------------------------------------------------
\* Types.

Phases == {"idle", "fetching", "fetched", "looping", "closing", "opening", "opened", "failed"}

Typed(t) ==
  /\ t.pc \in Phases
  /\ t.known \cup t.drop \cup t.at \cup t.stale \subseteq Provider
  /\ \A p \in DOMAIN t.rows : t.rows[p] \in Row

TablesTyped ==
  /\ life \in [Provider -> {"none", "present", "deleted"}]
  /\ config \in [Provider -> 0..MaxChanges]
  /\ status \in [Provider -> {"inactive", "active", "error"}]
  /\ owing \subseteq Provider
  /\ process \in {"down", "booting", "up"}
  /\ batch \in Nat

MemoryTyped ==
  /\ managed \in [Provider -> Entry] /\ strays \subseteq Provider
  /\ \A k \in Activity : Typed(task[k])

HistoryTyped ==
  /\ announced \subseteq Provider
  /\ mishaps \subseteq {"crossed", "unconnected"} /\ crossing \in BOOLEAN

TypeInv == ListenerTypeOK /\ TablesTyped /\ MemoryTyped /\ HistoryTyped

\* What becomes of the other tasks when one starts to work on p.
OthersAt(k, p) == \A j \in Activity \ {k} :
  /\ task'[j].pc = task[j].pc /\ task'[j].rows = task[j].rows
  /\ task'[j].known = task[j].known /\ task'[j].drop = task[j].drop /\ task'[j].at = task[j].at
  /\ task'[j].stale \in {task[j].stale, task[j].stale \cup {p}}
  /\ Busy(j) => p \in task'[j].stale

\* A task is v but for what it has noted about p.
Becomes(k, v, p) ==
  /\ task'[k].pc = v.pc /\ task'[k].rows = v.rows /\ task'[k].known = v.known
  /\ task'[k].drop = v.drop /\ task'[k].at = v.at /\ task'[k].stale = v.stale \ {p}

LEMMA ProceedEffect ==
  ASSUME SInv, NEW k \in Activity, NEW v, NEW p, Shape(v), Proceed(k, v, p)
  PROVE  Becomes(k, v, p) /\ OthersAt(k, p)
<1>1. Becomes(k, v, p)
  <2>1. task'[k] = [v EXCEPT !.stale = @ \ {p}]
    BY DEF Proceed
  <2>2. QED
    BY <2>1 DEF Shape, Becomes
<1>2. ASSUME NEW j \in Activity \ {k}
      PROVE  /\ task'[j].pc = task[j].pc /\ task'[j].rows = task[j].rows
             /\ task'[j].known = task[j].known /\ task'[j].drop = task[j].drop
             /\ task'[j].at = task[j].at
             /\ task'[j].stale \in {task[j].stale, task[j].stale \cup {p}}
             /\ Busy(j) => p \in task'[j].stale
  <2>1. CASE Busy(j)
    <3>1. Shape(task[j]) /\ task'[j] = [task[j] EXCEPT !.stale = @ \cup {p}]
      BY <2>1 DEF Proceed, SInv, Shapes
    <3>2. QED
      BY <3>1 DEF Shape
  <2>2. CASE ~Busy(j)
    BY <2>2 DEF Proceed
  <2>3. QED
    BY <2>1, <2>2
<1>3. QED
  BY <1>1, <1>2 DEF OthersAt

\* addProvider, disconnect and the deletion of an entry, in terms of fields.
LEMMA AddEffect ==
  ASSUME SInv, NEW k \in Activity, NEW t, NEW p \in DOMAIN t.rows, Shape(t), t.at \subseteq {p},
         addProvider(k, t, p)
  PROVE  /\ p \in Provider
         /\ managed' = [managed EXCEPT ![p] = [row |-> t.rows[p], state |-> "opening", by |-> k]]
         /\ OthersAt(k, p)
         /\ task'[k].pc = "opening" /\ task'[k].at = {p}
         /\ task'[k].known = t.known /\ task'[k].drop = t.drop /\ task'[k].stale = t.stale \ {p}
         /\ DOMAIN task'[k].rows = DOMAIN t.rows \ {p}
         /\ \A q \in DOMAIN task'[k].rows : task'[k].rows[q] = t.rows[q]
         /\ Crossed(p \in t.stale)
<1> DEFINE rows == Restrict(t.rows, DOMAIN t.rows \ {p})
           u == [t EXCEPT !.pc = "opening", !.at = {p}, !.rows = rows]
<1>1. DOMAIN rows = DOMAIN t.rows \ {p} /\ \A q \in DOMAIN rows : rows[q] = t.rows[q]
  BY DEF Restrict
<1>2. Proceed(k, u, p) /\ p \in Provider
  BY DEF addProvider, Shape
<1> HIDE DEF rows
<1>3. u = [pc |-> "opening", rows |-> rows, known |-> t.known, drop |-> t.drop,
           at |-> {p}, stale |-> t.stale]
  BY OpeningTask
<1> HIDE DEF u
<1>4. Shape(u)
  BY <1>1, <1>2, <1>3 DEF Shape
<1>5. Becomes(k, u, p) /\ OthersAt(k, p)
  BY <1>2, <1>4, ProceedEffect
<1>6. Crossed(p \in u.stale)
  BY <1>2 DEF Proceed
<1>7. QED
  BY <1>1, <1>2, <1>3, <1>5, <1>6 DEF Becomes, addProvider

LEMMA CloseEffect ==
  ASSUME SInv, NEW k \in Activity, NEW t, NEW p \in Provider, Shape(t), t.at = {},
         disconnect(k, t, p)
  PROVE  /\ managed' = [managed EXCEPT ![p] = [row |-> managed[p].row, state |-> "closed",
                                               by |-> managed[p].by]]
         /\ OthersAt(k, p)
         /\ task'[k].pc = "closing" /\ task'[k].at = {p} /\ task'[k].rows = t.rows
         /\ task'[k].known = t.known /\ task'[k].drop = t.drop /\ task'[k].stale = t.stale \ {p}
         /\ Crossed(p \in t.stale)
<1> DEFINE u == [t EXCEPT !.pc = "closing", !.at = {p}]
<1>1. u = [pc |-> "closing", rows |-> t.rows, known |-> t.known, drop |-> t.drop,
           at |-> {p}, stale |-> t.stale]
  BY PlacedTask
<1>2. Proceed(k, u, p)
  BY DEF disconnect
<1> HIDE DEF u
<1>3. Shape(u)
  BY <1>1 DEF Shape
<1>4. Becomes(k, u, p) /\ OthersAt(k, p)
  BY <1>2, <1>3, ProceedEffect
<1>5. Crossed(p \in u.stale)
  BY <1>2 DEF Proceed
<1>6. managed' = [managed EXCEPT ![p] = [row |-> managed[p].row, state |-> "closed",
                                         by |-> managed[p].by]]
  <2>1. [managed[p] EXCEPT !.state = "closed"]
          = [row |-> managed[p].row, state |-> "closed", by |-> managed[p].by]
    BY DEF SInv, Shapes
  <2>2. managed' = [managed EXCEPT ![p] = [managed[p] EXCEPT !.state = "closed"]]
    BY DEF disconnect, SInv, Shapes
  <2>3. QED
    BY <2>1, <2>2
<1>7. QED
  BY <1>1, <1>4, <1>5, <1>6 DEF Becomes

LEMMA DeleteEffect ==
  ASSUME SInv, NEW k \in Activity, NEW t, NEW p \in Provider, Shape(t), t.at = {},
         Proceed(k, [t EXCEPT !.pc = "looping"], p)
  PROVE  /\ OthersAt(k, p)
         /\ task'[k].pc = "looping" /\ task'[k].at = {} /\ task'[k].rows = t.rows
         /\ task'[k].known = t.known /\ task'[k].drop = t.drop /\ task'[k].stale = t.stale \ {p}
         /\ Crossed(p \in t.stale)
<1> DEFINE u == [t EXCEPT !.pc = "looping"]
<1>1. u = [pc |-> "looping", rows |-> t.rows, known |-> t.known, drop |-> t.drop,
           at |-> {}, stale |-> t.stale]
  BY MarkedTask
<1>2. Proceed(k, u, p)
  OBVIOUS
<1> HIDE DEF u
<1>3. Shape(u)
  BY <1>1 DEF Shape
<1>4. Becomes(k, u, p) /\ OthersAt(k, p)
  BY <1>2, <1>3, ProceedEffect
<1>5. Crossed(p \in u.stale)
  BY <1>2 DEF Proceed
<1>6. QED
  BY <1>1, <1>4, <1>5 DEF Becomes

\* What a visit to the next provider comes to.
Skips(k, t, p, v) ==
  /\ Shape(v) /\ v.pc = "looping" /\ v.at = {} /\ v.drop = t.drop \ {p}
  /\ v.rows = t.rows /\ v.known = t.known /\ v.stale = t.stale
  /\ task' = [task EXCEPT ![k] = v]
  /\ UNCHANGED <<managed, mishaps, announced, crossing>>

Removes(k, t, p, u) ==
  /\ Shape(u) /\ u.pc = t.pc /\ u.at = {} /\ u.drop = t.drop \ {p}
  /\ u.rows = t.rows /\ u.known = t.known /\ u.stale = t.stale
  /\ removeProvider(k, u, p)

\* The rows before p are passed over.
Trims(k, t, p, u) ==
  /\ Shape(u) /\ u.pc = t.pc /\ u.at = {} /\ u.drop = t.drop /\ u.known = t.known
  /\ DOMAIN u.rows = {q \in DOMAIN t.rows : q >= p}
  /\ \A q \in DOMAIN u.rows : u.rows[q] = t.rows[q]
  /\ u.stale = IF Misled(k, t) THEN t.stale \cup {p} ELSE t.stale

Renews(k, t, p, u) ==
  /\ t.drop = {} /\ p \in DOMAIN t.rows /\ Trims(k, t, p, u)
  /\ \/ p \in t.known /\ Linked(p) /\ disconnect(k, u, p)
     \/ ~(p \in t.known /\ Linked(p)) /\ addProvider(k, u, p)

LEMMA VisitCases ==
  ASSUME NEW k \in Activity, NEW t, Shape(t), t.at = {}, Visit(k, t)
  PROVE  \/ \E p \in t.drop \ Managed : \E v : Skips(k, t, p, v)
         \/ \E p \in t.drop \cap Managed : \E u : Removes(k, t, p, u)
         \/ /\ t.drop = {} /\ Differing(t) = {}
            /\ task' = [task EXCEPT ![k] = Idle] /\ UNCHANGED managed
            /\ Crossed(Misled(k, t))
         \/ t.drop = {} /\ Abandons(k)
         \/ \E p \in First(Differing(t)) : \E u : Renews(k, t, p, u)
<1>1. CASE t.drop # {}
  <2>1. PICK p \in First(t.drop) :
          IF p \in Managed
          THEN removeProvider(k, [t EXCEPT !.drop = @ \ {p}], p)
          ELSE /\ task' = [task EXCEPT ![k] = [t EXCEPT !.pc = "looping", !.drop = @ \ {p}]]
               /\ UNCHANGED <<managed, mishaps, announced, crossing>>
    BY <1>1 DEF Visit
  <2>2. p \in t.drop
    BY DEF First
  <2>3. CASE p \in Managed
    <3> DEFINE u == [t EXCEPT !.drop = @ \ {p}]
    <3>1. u = [pc |-> t.pc, rows |-> t.rows, known |-> t.known, drop |-> t.drop \ {p},
               at |-> {}, stale |-> t.stale]
      BY DroppedTask
    <3>2. removeProvider(k, u, p)
      BY <2>1, <2>3
    <3> HIDE DEF u
    <3>3. Shape(u)
      BY <3>1 DEF Shape
    <3>4. Removes(k, t, p, u)
      BY <3>1, <3>2, <3>3 DEF Removes
    <3>5. QED
      BY <2>2, <2>3, <3>4
  <2>4. CASE p \notin Managed
    <3> DEFINE w == [t EXCEPT !.pc = "looping"]
               v == [t EXCEPT !.pc = "looping", !.drop = @ \ {p}]
    <3>1. w = [pc |-> "looping", rows |-> t.rows, known |-> t.known, drop |-> t.drop,
               at |-> {}, stale |-> t.stale]
      BY MarkedTask
    <3>2. task' = [task EXCEPT ![k] = v] /\ UNCHANGED <<managed, mishaps, announced, crossing>>
      BY <2>1, <2>4
    <3>3. v = [w EXCEPT !.drop = t.drop \ {p}]
      BY <3>1
    <3> HIDE DEF w, v
    <3>4. v = [pc |-> "looping", rows |-> t.rows, known |-> t.known, drop |-> t.drop \ {p},
               at |-> {}, stale |-> t.stale]
      BY <3>1, <3>3
    <3>5. Shape(v)
      BY <3>4 DEF Shape
    <3>6. Skips(k, t, p, v)
      BY <3>2, <3>4, <3>5 DEF Skips
    <3>7. QED
      BY <2>2, <2>4, <3>6
  <2>5. QED
    BY <2>3, <2>4
<1>2. CASE t.drop = {} /\ Differing(t) = {}
  BY <1>2 DEF Visit
<1>3. CASE t.drop = {} /\ Differing(t) # {}
  <2>1. PICK p \in First(Differing(t)) :
          LET u == [t EXCEPT !.rows = Restrict(@, {q \in DOMAIN @ : q >= p}),
                             !.stale = IF Misled(k, t) THEN @ \cup {p} ELSE @]
          IN  IF p \in t.known \ Managed THEN Abandons(k)
              ELSE IF p \in t.known /\ Linked(p) THEN disconnect(k, u, p)
              ELSE addProvider(k, u, p)
    BY <1>3 DEF Visit
  <2>2. p \in DOMAIN t.rows
    BY DEF First, Differing
  <2> DEFINE rows == Restrict(t.rows, {q \in DOMAIN t.rows : q >= p})
             stale == IF Misled(k, t) THEN t.stale \cup {p} ELSE t.stale
             w == [t EXCEPT !.rows = rows]
             u == [t EXCEPT !.rows = Restrict(@, {q \in DOMAIN @ : q >= p}),
                            !.stale = IF Misled(k, t) THEN @ \cup {p} ELSE @]
  <2>3. IF p \in t.known \ Managed THEN Abandons(k)
        ELSE IF p \in t.known /\ Linked(p) THEN disconnect(k, u, p)
        ELSE addProvider(k, u, p)
    BY <2>1
  <2>4. DOMAIN rows = {q \in DOMAIN t.rows : q >= p} /\ \A q \in DOMAIN rows : rows[q] = t.rows[q]
    BY DEF Restrict
  <2>5. w = [pc |-> t.pc, rows |-> rows, known |-> t.known, drop |-> t.drop,
             at |-> {}, stale |-> t.stale]
    <3> HIDE DEF rows
    <3>1. QED
      BY DEF Shape
  <2>6. u = [w EXCEPT !.stale = stale]
    BY <2>5
  <2> HIDE DEF rows, w, u
  <2>7. u = [pc |-> t.pc, rows |-> rows, known |-> t.known, drop |-> t.drop,
             at |-> {}, stale |-> stale]
    <3> HIDE DEF stale
    <3>1. QED
      BY <2>5, <2>6
  <2>8. Shape(u)
    BY <2>4, <2>7 DEF Shape
  <2>9. Trims(k, t, p, u)
    BY <2>4, <2>7, <2>8 DEF Trims
  <2>10. CASE p \in t.known \ Managed
    BY <1>3, <2>3, <2>10
  <2>11. CASE p \notin t.known \ Managed
    <3>1. Renews(k, t, p, u)
      BY <1>3, <2>2, <2>3, <2>9, <2>11 DEF Renews
    <3>2. QED
      BY <3>1
  <2>12. QED
    BY <2>10, <2>11
<1>4. QED
  BY <1>1, <1>2, <1>3

LEMMA CrossedTyped == ASSUME HistoryTyped, NEW yes, Crossed(yes) PROVE HistoryTyped'
BY DEF HistoryTyped, Crossed

LEMMA ForgetsTyped == ASSUME MemoryTyped, Forgets PROVE strays' \subseteq Provider
BY DEF MemoryTyped, Forgets

LEMMA OthersTyped ==
  ASSUME MemoryTyped, NEW k \in Activity, NEW p \in Provider, OthersAt(k, p), Typed(task'[k])
  PROVE  \A j \in Activity : Typed(task'[j])
BY DEF MemoryTyped, OthersAt, Typed

LEMMA AddTyped ==
  ASSUME SInv, MemoryTyped, HistoryTyped, NEW k \in Activity, NEW t, NEW p \in DOMAIN t.rows,
         Shape(t), Typed(t), t.at \subseteq {p}, addProvider(k, t, p), Forgets
  PROVE  MemoryTyped' /\ HistoryTyped'
<1>1. /\ p \in Provider /\ OthersAt(k, p) /\ Crossed(p \in t.stale)
      /\ managed' = [managed EXCEPT ![p] = [row |-> t.rows[p], state |-> "opening", by |-> k]]
  BY AddEffect
<1>2. Typed(task'[k])
  BY AddEffect DEF Typed, Phases
<1>3. [row |-> t.rows[p], state |-> "opening", by |-> k] \in Entry
  BY DEF Typed, Entry
<1>4. managed' \in [Provider -> Entry]
  BY <1>1, <1>3 DEF MemoryTyped
<1>5. QED
  BY <1>1, <1>2, <1>4, OthersTyped, CrossedTyped, ForgetsTyped DEF MemoryTyped

LEMMA CloseTyped ==
  ASSUME SInv, MemoryTyped, HistoryTyped, NEW k \in Activity, NEW t, NEW p \in Provider,
         Shape(t), Typed(t), t.at = {}, disconnect(k, t, p), Forgets
  PROVE  MemoryTyped' /\ HistoryTyped'
<1>1. /\ OthersAt(k, p) /\ Crossed(p \in t.stale)
      /\ managed' = [managed EXCEPT ![p] = [row |-> managed[p].row, state |-> "closed",
                                            by |-> managed[p].by]]
  BY CloseEffect
<1>2. Typed(task'[k])
  BY CloseEffect DEF Typed, Phases
<1>3. [row |-> managed[p].row, state |-> "closed", by |-> managed[p].by] \in Entry
  BY DEF MemoryTyped, Entry
<1>4. managed' \in [Provider -> Entry]
  BY <1>1, <1>3 DEF MemoryTyped
<1>5. QED
  BY <1>1, <1>2, <1>4, OthersTyped, CrossedTyped, ForgetsTyped DEF MemoryTyped

LEMMA BlankTyped == Blank \in Entry /\ Shape(Idle) /\ Typed(Idle)
<1>1. Blank \in Entry
  BY ConnectorAssumption DEF Blank, Entry, Row
<1>2. Shape(Idle) /\ Typed(Idle)
  BY DEF Shape, Typed, Idle, Phases
<1>3. QED
  BY <1>1, <1>2

LEMMA DeleteTyped ==
  ASSUME SInv, MemoryTyped, HistoryTyped, NEW k \in Activity, NEW t, NEW p \in Provider,
         Shape(t), Typed(t), t.at = {}, managed' = [managed EXCEPT ![p] = Blank],
         Proceed(k, [t EXCEPT !.pc = "looping"], p), Forgets
  PROVE  MemoryTyped' /\ HistoryTyped'
<1>1. OthersAt(k, p) /\ Crossed(p \in t.stale)
  BY DeleteEffect
<1>2. Typed(task'[k])
  BY DeleteEffect DEF Typed, Phases
<1>3. managed' \in [Provider -> Entry]
  BY BlankTyped DEF MemoryTyped
<1>4. QED
  BY <1>1, <1>2, <1>3, OthersTyped, CrossedTyped, ForgetsTyped DEF MemoryTyped

LEMMA QuietTyped ==
  ASSUME SInv, MemoryTyped, NEW k \in Activity, NEW v, Typed(v), task' = [task EXCEPT ![k] = v],
         managed' \in [Provider -> Entry], strays' \subseteq Provider
  PROVE  MemoryTyped'
BY DEF SInv, Shapes, MemoryTyped

LEMMA VisitTyped ==
  ASSUME SInv, MemoryTyped, HistoryTyped, NEW k \in Activity, NEW t, Shape(t), Typed(t), t.at = {},
         Visit(k, t)
  PROVE  MemoryTyped' /\ HistoryTyped'
<1>1. Forgets /\ strays' \subseteq Provider
  BY ForgetsTyped DEF Visit
<1>2. ASSUME NEW p \in t.drop \ Managed, NEW v, Skips(k, t, p, v)
      PROVE  MemoryTyped' /\ HistoryTyped'
  <2>1. Typed(v)
    BY <1>2 DEF Skips, Typed, Phases
  <2>2. managed' \in [Provider -> Entry] /\ task' = [task EXCEPT ![k] = v] /\ HistoryTyped'
    BY <1>2 DEF Skips, MemoryTyped, HistoryTyped
  <2>3. QED
    BY <1>1, <2>1, <2>2, QuietTyped
<1>3. ASSUME NEW p \in t.drop \cap Managed, NEW u, Removes(k, t, p, u)
      PROVE  MemoryTyped' /\ HistoryTyped'
  <2>1. Shape(u) /\ Typed(u) /\ u.at = {} /\ removeProvider(k, u, p) /\ p \in Provider
    BY <1>3 DEF Removes, Typed, Managed
  <2>2. QED
    BY <1>1, <2>1, CloseTyped, DeleteTyped DEF removeProvider
<1>4. CASE task' = [task EXCEPT ![k] = Idle] /\ UNCHANGED managed /\ Crossed(Misled(k, t))
  BY <1>1, <1>4, BlankTyped, QuietTyped, CrossedTyped DEF MemoryTyped
<1>5. CASE Abandons(k)
  BY <1>1, <1>5, BlankTyped, QuietTyped, CrossedTyped DEF MemoryTyped, Abandons
<1>6. ASSUME NEW p \in First(Differing(t)), NEW u, Renews(k, t, p, u)
      PROVE  MemoryTyped' /\ HistoryTyped'
  <2>1. p \in Provider /\ p \in DOMAIN t.rows
    BY <1>6 DEF Renews, Shape
  <2>2. Shape(u) /\ Typed(u) /\ u.at = {} /\ p \in DOMAIN u.rows
    BY <1>6, <2>1, ConnectorAssumption DEF Renews, Trims, Typed
  <2>3. QED
    BY <1>1, <1>6, <2>1, <2>2, CloseTyped, AddTyped DEF Renews
<1>7. QED
  BY <1>2, <1>3, <1>4, <1>5, <1>6, VisitCases

\* fetchProviders, in terms of fields.
LEMMA FetchEffect ==
  ASSUME SInv, NEW k \in Activity, fetchProviders(k)
  PROVE  /\ \A j \in Activity \ {k} : task'[j] = task[j]
         /\ task'[k].pc = "fetched" /\ task'[k].at = {}
         /\ task'[k].rows = [p \in Visible |-> RowOf(p)]
         /\ task'[k].known = task[k].known /\ task'[k].drop = task[k].drop
         /\ task'[k].stale = UNION {task[j].at : j \in Activity}
<1> DEFINE rows == [p \in Visible |-> RowOf(p)]
           stale == UNION {task[j].at : j \in Activity}
           v == [task[k] EXCEPT !.pc = "fetched", !.rows = rows, !.stale = stale]
<1>1. Shape(task[k]) /\ task[k].at = {} /\ task' = [task EXCEPT ![k] = v]
  BY DEF fetchProviders, SInv, Shapes, Shape
<1> HIDE DEF rows, stale
<1>2. v = [pc |-> "fetched", rows |-> rows, known |-> task[k].known, drop |-> task[k].drop,
           at |-> {}, stale |-> stale]
  BY <1>1, FetchedTask
<1> HIDE DEF v
<1>3. task'[k] = v /\ \A j \in Activity \ {k} : task'[j] = task[j]
  BY <1>1 DEF SInv, Shapes
<1>4. QED
  BY <1>2, <1>3 DEF rows, stale

LEMMA ActivityTyped ==
  ASSUME SInv, TypeInv, NEW k \in Activity, Activities(k)
  PROVE  MemoryTyped' /\ HistoryTyped'
<1>0. MemoryTyped /\ HistoryTyped /\ TablesTyped /\ Shape(task[k]) /\ Typed(task[k])
  BY DEF TypeInv, MemoryTyped, SInv, Shapes
<1>1. CASE fetchProviders(k)
  <2>1. Typed(task'[k]) /\ \A j \in Activity \ {k} : task'[j] = task[j]
    <3>1. \A p \in Provider : RowOf(p) \in Row
      BY <1>0 DEF RowOf, Row, TablesTyped
    <3>2. UNION {task[j].at : j \in Activity} \subseteq Provider
      BY <1>0 DEF MemoryTyped, Typed
    <3>3. /\ \A j \in Activity \ {k} : task'[j] = task[j]
          /\ task'[k].pc = "fetched" /\ task'[k].at = {}
          /\ task'[k].rows = [p \in Visible |-> RowOf(p)]
          /\ task'[k].known = task[k].known /\ task'[k].drop = task[k].drop
          /\ task'[k].stale = UNION {task[j].at : j \in Activity}
      BY <1>1, FetchEffect
    <3>4. DOMAIN task'[k].rows = Visible /\ \A p \in Visible : task'[k].rows[p] \in Row
      BY <3>1, <3>3 DEF Visible
    <3>5. QED
      BY <1>0, <3>2, <3>3, <3>4 DEF Typed, Phases
  <2>2. QED
    BY <1>0, <1>1, <2>1 DEF fetchProviders, history, MemoryTyped, HistoryTyped
<1>2. CASE FetchFails(k)
  BY <1>0, <1>2, BlankTyped, QuietTyped DEF FetchFails, MemoryTyped, HistoryTyped
<1>3. CASE Resume(k)
  <2> DEFINE t == [task[k] EXCEPT !.known = Managed, !.drop = Managed \ DOMAIN task[k].rows]
  <2>1. t = [pc |-> "fetched", rows |-> task[k].rows, known |-> Managed,
             drop |-> Managed \ DOMAIN task[k].rows, at |-> {}, stale |-> task[k].stale]
    BY <1>0, <1>3, ResumedTask DEF Resume
  <2>2. Visit(k, t)
    BY <1>3 DEF Resume
  <2> HIDE DEF t
  <2>3. Shape(t) /\ Typed(t) /\ t.at = {}
    BY <1>0, <1>3, <2>1 DEF Resume, Shape, Typed, Phases, Managed
  <2>4. QED
    BY <1>0, <2>2, <2>3, VisitTyped
<1>4. CASE Loop(k)
  <2>1. task[k].at = {} /\ Visit(k, task[k])
    BY <1>0, <1>4 DEF Loop, Shape
  <2>2. QED
    BY <1>0, <2>1, VisitTyped
<1>5. CASE Disconnected(k)
  <2>1. PICK p \in task[k].at :
          IF p \in DOMAIN task[k].rows
          THEN addProvider(k, task[k], p)
          ELSE /\ managed' = [managed EXCEPT ![p] = Blank]
               /\ task' = [task EXCEPT ![k].pc = "looping", ![k].at = {}]
               /\ UNCHANGED <<mishaps, announced, crossing>>
    BY <1>5 DEF Disconnected
  <2>2. Forgets /\ strays' \subseteq Provider /\ p \in Provider /\ task[k].at \subseteq {p}
    BY <1>0, <1>5, ForgetsTyped DEF Disconnected, Shape
  <2>3. CASE p \in DOMAIN task[k].rows
    BY <1>0, <2>1, <2>2, <2>3, AddTyped
  <2>4. CASE p \notin DOMAIN task[k].rows
    <3>1. /\ managed' = [managed EXCEPT ![p] = Blank]
          /\ task' = [task EXCEPT ![k].pc = "looping", ![k].at = {}]
          /\ UNCHANGED <<mishaps, announced, crossing>>
      BY <2>1, <2>4
    <3>2. managed' \in [Provider -> Entry] /\ HistoryTyped'
      BY <1>0, <3>1, BlankTyped DEF MemoryTyped, HistoryTyped
    <3>3. \A j \in Activity : Typed(task'[j])
      <4> DEFINE v == [task[k] EXCEPT !.pc = "looping", !.at = {}]
      <4>0. v = [pc |-> "looping", rows |-> task[k].rows, known |-> task[k].known,
                 drop |-> task[k].drop, at |-> {}, stale |-> task[k].stale]
        BY <1>0, PlacedTask
      <4>1. task'[k] = v /\ \A j \in Activity \ {k} : task'[j] = task[j]
        BY <3>1 DEF SInv, Shapes
      <4> HIDE DEF v
      <4>2. QED
        BY <1>0, <4>0, <4>1 DEF MemoryTyped, Typed, Phases
    <3>4. QED
      BY <2>2, <3>2, <3>3 DEF MemoryTyped
  <2>5. QED
    BY <2>3, <2>4
<1>6. ASSUME NEW result \in {"linked", "dead"}, NEW pc \in {"opened", "failed"},
             Settles(k, result), task' = [task EXCEPT ![k].pc = pc]
      PROVE  managed' \in [Provider -> Entry] /\ \A j \in Activity : Typed(task'[j])
  <2>1. managed' \in [Provider -> Entry]
    <3>1. /\ managed' = [p \in Provider |-> managed'[p]]
          /\ \A p \in Provider : managed[p].by # k => managed'[p] = managed[p]
          /\ \A p \in Provider : managed[p].by = k =>
               managed'[p] = [row |-> managed[p].row, state |-> result, by |-> NoActivity]
      BY <1>6, SettleEffect
    <3>2. \A p \in Provider : managed'[p] \in Entry
      BY <1>0, <3>1 DEF MemoryTyped, Entry
    <3>3. QED
      BY <3>1, <3>2
  <2>2. [task[k] EXCEPT !.pc = pc]
          = [pc |-> pc, rows |-> task[k].rows, known |-> task[k].known, drop |-> task[k].drop,
             at |-> task[k].at, stale |-> task[k].stale]
    BY <1>0, MarkedTask
  <2>3. \A j \in Activity : Typed(task'[j])
    BY <1>0, <1>6, <2>2 DEF MemoryTyped, Typed, Phases, SInv, Shapes
  <2>4. QED
    BY <2>1, <2>3
<1>7. CASE Connects(k)
  BY <1>0, <1>6, <1>7 DEF Connects, Replaced, Typed, MemoryTyped, HistoryTyped, history
<1>8. CASE ConnectFails(k)
  BY <1>0, <1>6, <1>8 DEF ConnectFails, Typed, MemoryTyped, HistoryTyped
<1>9. CASE updateStatus(k) \/ UpdateFails(k)
  <2>1. Added(k) /\ UNCHANGED <<managed, strays, announced, mishaps, crossing>>
    BY <1>9 DEF updateStatus, UpdateFails, history
  <2>2. CASE k \in Provider
    BY <1>0, <2>1, <2>2, BlankTyped DEF Added, MemoryTyped, HistoryTyped, SInv, Shapes
  <2>3. CASE k \notin Provider
    <3>1. task' = [task EXCEPT ![k] = [task[k] EXCEPT !.pc = "looping", !.at = {}]]
      BY <2>1, <2>3 DEF Added
    <3>2. [task[k] EXCEPT !.pc = "looping", !.at = {}]
            = [pc |-> "looping", rows |-> task[k].rows, known |-> task[k].known,
               drop |-> task[k].drop, at |-> {}, stale |-> task[k].stale]
      BY <1>0, PlacedTask
    <3>3. \A j \in Activity : Typed(task'[j])
      BY <1>0, <3>1, <3>2 DEF MemoryTyped, Typed, Phases, SInv, Shapes
    <3>4. QED
      BY <1>0, <2>1, <3>3 DEF MemoryTyped, HistoryTyped
  <2>4. QED
    BY <2>2, <2>3
<1>10. QED
  BY <1>1, <1>2, <1>3, <1>4, <1>5, <1>7, <1>8, <1>9 DEF Activities

\* New calls, and the boot's tasks.
LEMMA StartEffect ==
  ASSUME NEW n, StartCalls(n)
  PROVE  \A k \in Activity : \/ task'[k] = task[k]
                           \/ /\ k \in Call /\ ~Busy(k)
                              /\ task'[k] = [pc |-> "fetching", rows |-> <<>>, known |-> {},
                                             drop |-> {}, at |-> {}, stale |-> {}]
BY DEF StartCalls, FirstFree, FreeCalls, Idle

LEMMA ListenerTyped ==
  ASSUME TypeInv, Listening \/ Up \/ ListenerConnects \/ Crash
  PROVE  ListenerTypeOK'
<1>1. ListenerTypeOK
  BY DEF TypeInv
<1>0. Fault => faults' \in 0..MaxFaults
  BY <1>1, FaultsAssumption DEF ListenerTypeOK, Fault
<1>2. CASE Retry
  BY <1>1, <1>2 DEF ListenerTypeOK, Retry
<1>3. CASE AttemptFails
  <2>1. attempt' = "none" /\ faults' \in 0..MaxFaults
    BY <1>0, <1>3 DEF AttemptFails
  <2>2. reconnecting' \in BOOLEAN /\ retryTimer' \in BOOLEAN
    BY <1>1, <1>3 DEF ListenerTypeOK, AttemptFails, scheduleReconnect
  <2>3. listening' \in Nat /\ events' \in Nat
    BY <1>1, <1>3 DEF ListenerTypeOK, AttemptFails
  <2>4. QED
    BY <2>1, <2>2, <2>3 DEF ListenerTypeOK
<1>4. CASE Lost
  BY <1>0, <1>1, <1>4 DEF ListenerTypeOK, Lost
<1>5. CASE handleDisconnect
  BY <1>1, <1>5 DEF ListenerTypeOK, handleDisconnect, scheduleReconnect
<1>6. CASE Up
  BY <1>1, <1>6 DEF ListenerTypeOK, Up, StartListening, history
<1>7. CASE ListenerConnects
  BY <1>1, <1>7 DEF ListenerTypeOK, ListenerConnects, Listens
<1>8. CASE Crash
  BY <1>0, <1>1, <1>8 DEF ListenerTypeOK, Crash, ListenerDies
<1>9. QED
  BY <1>2, <1>3, <1>4, <1>5, <1>6, <1>7, <1>8 DEF Listening, ListenerStep

\* The counters of the listener stay, but for the faults.
LEMMA FaultTyped ==
  ASSUME ListenerTypeOK, UNCHANGED listenerVars, Fault \/ UNCHANGED faults
  PROVE  ListenerTypeOK'
BY FaultsAssumption DEF ListenerTypeOK, Fault, listenerVars

LEMMA ApiTyped == ASSUME TypeInv, NEW p \in Provider, Api(p) PROVE TypeInv'
<1>0. ListenerTypeOK /\ TablesTyped /\ MemoryTyped /\ HistoryTyped
  BY DEF TypeInv
<1>1. UNCHANGED listenerVars /\ (Fault \/ UNCHANGED faults)
  BY DEF Api, CreateProvider, DeleteProvider, ChangeProvider, NotifyChange, NotifyFails, history
<1>2. UNCHANGED memory
  BY DEF Api, CreateProvider, DeleteProvider, ChangeProvider, NotifyChange, NotifyFails
<1>3. MemoryTyped'
  BY <1>0, <1>2 DEF MemoryTyped, memory
<1>4. ASSUME CreateProvider(p) PROVE TablesTyped' /\ HistoryTyped'
  BY <1>0, <1>4 DEF CreateProvider, TablesTyped, HistoryTyped, history
<1>5. ASSUME DeleteProvider(p) PROVE TablesTyped' /\ HistoryTyped'
  BY <1>0, <1>5 DEF DeleteProvider, TablesTyped, HistoryTyped
<1>6. ASSUME NEW s \in {"inactive", "active", "error"}, ChangeProvider(p, s)
      PROVE  TablesTyped' /\ HistoryTyped'
  <2>1. config[p] + 1 \in 0..MaxChanges
    BY <1>0, <1>6, ConnectorAssumption DEF ChangeProvider, TablesTyped
  <2>2. QED
    BY <1>0, <1>6, <2>1 DEF ChangeProvider, TablesTyped, HistoryTyped
<1>7. ASSUME NotifyChange(p) PROVE TablesTyped' /\ HistoryTyped'
  BY <1>0, <1>7 DEF NotifyChange, TablesTyped, HistoryTyped, ListenerTypeOK
<1>8. ASSUME NotifyFails(p) PROVE TablesTyped' /\ HistoryTyped'
  BY <1>0, <1>8 DEF NotifyFails, TablesTyped, HistoryTyped
<1>9. TablesTyped' /\ HistoryTyped'
  <2>1. status[p] \in {"inactive", "active", "error"}
    BY <1>0 DEF TablesTyped
  <2>2. QED
    BY <2>1, <1>4, <1>5, <1>6, <1>7, <1>8 DEF Api
<1>10. QED
  BY <1>0, <1>1, <1>3, <1>9, FaultTyped DEF TypeInv

LEMMA StartTyped ==
  ASSUME MemoryTyped, HistoryTyped, NEW n, StartCalls(n), UNCHANGED <<managed, strays, announced, mishaps>>
  PROVE  MemoryTyped' /\ HistoryTyped'
<1>1. \A k \in Activity : Typed(task'[k])
  <2>1. ASSUME NEW k \in Activity,
               task'[k] = [pc |-> "fetching", rows |-> <<>>, known |-> {},
                           drop |-> {}, at |-> {}, stale |-> {}]
        PROVE  Typed(task'[k])
    BY <2>1 DEF Typed, Phases
  <2>2. QED
    BY <2>1, StartEffect DEF MemoryTyped
<1>2. QED
  BY <1>1 DEF MemoryTyped, HistoryTyped, StartCalls, Upset

LEMMA BootTyped == ASSUME TypeInv, Boot PROVE TypeInv'
<1>1. \A k \in Activity : Typed(task'[k])
  <2>1. ASSUME NEW k \in Visible,
               task'[k] = [pc |-> "looping", rows |-> [p \in {k} |-> RowOf(p)],
                           known |-> {}, drop |-> {}, at |-> {}, stale |-> {}]
        PROVE  Typed(task'[k])
    <3>1. RowOf(k) \in Row
      BY DEF RowOf, Row, TypeInv, TablesTyped, Visible
    <3>2. QED
      BY <2>1, <3>1 DEF Typed, Phases
  <2>2. QED
    BY <2>1, BootEffect, BlankTyped
<1>2. MemoryTyped' /\ HistoryTyped'
  BY <1>1 DEF TypeInv, MemoryTyped, HistoryTyped, Boot
<1>3. ListenerTypeOK' /\ TablesTyped'
  BY FaultTyped DEF TypeInv, TablesTyped, Boot, table
<1>4. QED
  BY <1>2, <1>3 DEF TypeInv

LEMMA TypeStep == ASSUME TypeInv, SInv, [Next]_vars PROVE TypeInv'
<1>0. ListenerTypeOK /\ TablesTyped /\ MemoryTyped /\ HistoryTyped
  BY DEF TypeInv
<1>1. CASE UNCHANGED vars
  BY <1>0, <1>1, FaultTyped
  DEF TypeInv, TablesTyped, MemoryTyped, HistoryTyped, vars, table, memory, history
<1>2. CASE Flush
  <2>1. MemoryTyped' /\ HistoryTyped'
    BY <1>0, <1>2, StartTyped DEF Flush
  <2>2. ListenerTypeOK' /\ TablesTyped'
    BY <1>0, <1>2, FaultTyped DEF TablesTyped, Flush, table
  <2>3. QED
    BY <2>1, <2>2 DEF TypeInv
<1>3. CASE Up
  <2>1. TablesTyped' /\ MemoryTyped' /\ HistoryTyped'
    BY <1>0, <1>3 DEF TablesTyped, MemoryTyped, HistoryTyped, Up, table, memory, history
  <2>2. QED
    BY <1>3, <2>1, ListenerTyped DEF TypeInv
<1>4. CASE ListenerConnects
  <2>1. MemoryTyped' /\ HistoryTyped'
    <3>1. CASE UNCHANGED <<task, crossing>>
      BY <1>0, <1>4, <3>1 DEF ListenerConnects, MemoryTyped, HistoryTyped
    <3>2. CASE StartCalls(1)
      BY <1>0, <1>4, <3>2, StartTyped DEF ListenerConnects
    <3>3. QED
      BY <1>4, <3>1, <3>2 DEF ListenerConnects
  <2>2. TablesTyped'
    BY <1>0, <1>4 DEF TablesTyped, ListenerConnects, table
  <2>3. QED
    BY <1>4, <2>1, <2>2, ListenerTyped DEF TypeInv
<1>5. CASE Listening
  <2>1. TablesTyped' /\ MemoryTyped' /\ HistoryTyped'
    BY <1>0, <1>5 DEF TablesTyped, MemoryTyped, HistoryTyped, Listening, table, memory
  <2>2. QED
    BY <1>5, <2>1, ListenerTyped DEF TypeInv
<1>6. CASE Crash
  <2>1. TablesTyped' /\ HistoryTyped'
    BY <1>0, <1>6 DEF TablesTyped, HistoryTyped, Crash, table
  <2>2. MemoryTyped'
    BY <1>6, BlankTyped DEF MemoryTyped, Crash
  <2>3. QED
    BY <1>6, <2>1, <2>2, ListenerTyped DEF TypeInv
<1>7. ASSUME NEW k \in Activity, Activities(k) PROVE TypeInv'
  <2>1. MemoryTyped' /\ HistoryTyped'
    BY <1>7, ActivityTyped
  <2>2. UNCHANGED listenerVars /\ UNCHANGED <<life, config, owing, process, batch>>
        /\ (Fault \/ UNCHANGED faults) /\ (UNCHANGED status \/ updateStatus(k))
    <3>1. ASSUME NEW t, Visit(k, t)
          PROVE  UNCHANGED <<listenerVars, table, process, batch, faults>>
      BY <3>1 DEF Visit
    <3>2. CASE Resume(k) \/ Loop(k) \/ Disconnected(k)
      BY <3>1, <3>2 DEF Resume, Loop, Disconnected, table
    <3>3. CASE fetchProviders(k) \/ FetchFails(k) \/ Connects(k) \/ ConnectFails(k)
      BY <3>3 DEF fetchProviders, FetchFails, Connects, ConnectFails, table, history
    <3>4. CASE updateStatus(k) \/ UpdateFails(k)
      BY <3>4 DEF updateStatus, UpdateFails, table, history
    <3>5. QED
      BY <1>7, <3>2, <3>3, <3>4 DEF Activities
  <2>3. TablesTyped'
    BY <1>0, <2>2 DEF TablesTyped, updateStatus
  <2>4. QED
    BY <1>0, <2>1, <2>2, <2>3, FaultTyped DEF TypeInv
<1>8. QED
  BY <1>1, <1>2, <1>3, <1>4, <1>5, <1>6, <1>7, ApiTyped, BootTyped DEF Next

LEMMA TypesHold == Spec => []TypeInv
<1>1. Init => TypeInv
  <2>1. Init => ListenerTypeOK /\ TablesTyped /\ HistoryTyped
    <3>1. 0 \in 0..MaxChanges /\ 0 \in 0..MaxFaults
      BY ConnectorAssumption, FaultsAssumption
    <3>2. Init => TablesTyped
      BY <3>1 DEF Init, TablesTyped
    <3>3. ListenerInit => ListenerTypeOK
      <4>1. ListenerInit => faults \in 0..MaxFaults
        BY <3>1 DEF ListenerInit
      <4>2. ListenerInit => reconnecting \in BOOLEAN /\ retryTimer \in BOOLEAN
        BY Zenon DEF ListenerInit
      <4>3. ListenerInit => attempt \in {"none", "first", "retry"}
        BY DEF ListenerInit
      <4>4. ListenerInit => listening \in Nat /\ events \in Nat
        BY DEF ListenerInit
      <4>5. QED
        BY <4>1, <4>2, <4>3, <4>4 DEF ListenerTypeOK
    <3>4. Init => HistoryTyped
      BY DEF Init, HistoryTyped
    <3>5. QED
      BY <3>2, <3>3, <3>4 DEF Init
  <2>2. Init => MemoryTyped
    BY BlankTyped DEF Init, MemoryTyped
  <2>3. QED
    BY <2>1, <2>2 DEF TypeInv
<1>2. TypeInv /\ SInv /\ [Next]_vars => TypeInv'
  BY TypeStep
<1>3. QED
  BY <1>1, <1>2, OwnershipHolds, PTL DEF Spec

\* Whatever crosses with whatever, everything stays of its type; the rows that
\* a task has read, too.
THEOREM TypeCorrect == Spec => []TypeOK
<1>1. TypeInv => TypeOK
  BY DEF TypeInv, TablesTyped, MemoryTyped, HistoryTyped, Typed, Phases, TypeOK
<1>2. QED
  BY <1>1, TypesHold, PTL

-----------------------------------------------------------------------------
\* What an announced change still waits for: that the process starts, that a
\* notification is flushed, that the listener reconnects, or that a call reads.
ToBeRead ==
  \/ process = "down" \/ batch > 0 \/ reconnecting \/ events > 0
  \/ \E k \in Activity : task[k].pc = "fetching"

\* An activity is about to look at a provider with its present configuration.
Reads(t) == t.pc \notin {"idle", "fetching"}
Brings(k, p) ==
  /\ Reads(task[k]) /\ p \in DOMAIN task[k].rows
  /\ task[k].rows[p].config = config[p]

Current(p) == managed[p].state # "none" /\ managed[p].row.config = config[p]
Stands(p) == managed[p].state \in {"opening", "linked", "dead"} /\ Current(p)

\* A change that was announced is still to be read, is on its way in the hands
\* of an activity, or is what the provider's last connection was made for.
OnItsWay(p) == ToBeRead \/ (\E k \in Activity : Brings(k, p)) \/ Stands(p)
ChangeIsOnItsWay == \A p \in announced \cap Visible : OnItsWay(p)

\* When nobody is at work and the listener listens, it has been applied.
AtRest ==
  /\ process = "up" /\ batch = 0 /\ attempt = "none" /\ ~reconnecting /\ events = 0
  /\ \A k \in Activity : ~Busy(k)
AppliedAtRest == AtRest => \A p \in announced : Applied(p)

\* The form of a task.  A boot's task knows of its own provider only.
Form(k, t) ==
  /\ t.drop \cap DOMAIN t.rows = {}
  /\ t.pc \in {"fetching", "fetched"} => t.drop = {}
  /\ t.pc \in {"closing", "opening", "opened", "failed"} => \E p \in Provider : t.at = {p}
  /\ t.pc \in {"opening", "opened", "failed"} => t.at \cap DOMAIN t.rows = {}
  /\ k \in Provider => /\ t.pc \notin {"fetching", "fetched", "closing"} /\ t.known = {}
                       /\ DOMAIN t.rows \cup t.at \subseteq {k}
Forms == \A k \in Activity : Form(k, task[k])

\* Nobody is ahead of the table.
Past(t) == \A p \in DOMAIN t.rows : t.rows[p].config <= config[p] /\ life[p] # "none"
EntriesPast == \A p \in Provider :
  managed[p].state # "none" => managed[p].row.config <= config[p] /\ life[p] # "none"
Bounded ==
  /\ \A k \in Activity : Past(task[k])
  /\ EntriesPast
  /\ \A p \in owing \cup announced : life[p] # "none"

\* An attempt is pending, or a disconnect(), because somebody is at it.
AttendedAt(p) ==
  /\ managed[p].state = "opening" =>
       \E k \in Activity : managed[p].by = k /\ task[k].pc = "opening" /\ task[k].at = {p}
  /\ managed[p].state = "closed" => \E k \in Call : task[k].pc = "closing" /\ task[k].at = {p}
Attended == \A p \in Provider : AttendedAt(p)

Calm == announced # {} => ~Upset

\* What has not been worked on since a task read it is not in status 'error' ...
InHandOf(t) ==
  /\ Reads(t) => \A p \in DOMAIN t.rows \ t.stale : status[p] # "error"
  /\ t.pc \in {"opening", "opened", "failed"} => \A p \in t.at : status[p] # "error"

\* ... and the task's view of it is not older than its connection.
UpToDate(t) == \A p \in Visible \ t.stale : Current(p) =>
  /\ p \notin t.drop
  /\ p \in DOMAIN t.rows => t.rows[p].config = config[p]
Complete(t) == \A p \in Visible \ t.stale : Current(p) => p \in DOMAIN t.rows
OldOf(t) == (Reads(t) => UpToDate(t)) /\ (t.pc = "fetched" => Complete(t))

CInv ==
  /\ Forms /\ Bounded /\ Attended /\ Calm
  /\ ~crossing => \A k \in Activity : InHandOf(task[k]) /\ OldOf(task[k])
  /\ ChangeIsOnItsWay

\* What the lemmas below assume together.
Known == TypeInv /\ SInv /\ CInv

\* The others keep what they have, and note more at most.
Spared(k) == \A j \in Activity \ {k} :
  /\ task'[j].pc = task[j].pc /\ task'[j].rows = task[j].rows
  /\ task'[j].known = task[j].known /\ task'[j].drop = task[j].drop
  /\ task'[j].at = task[j].at /\ task[j].stale \subseteq task'[j].stale

\* A new entry is current only if the others have noted its provider.
Noticed(k) == \A p \in Provider :
  Current(p)' => Current(p) \/ \A j \in Activity \ {k} : Busy(j) => p \in task'[j].stale

LEMMA OthersAreSpared == ASSUME NEW k, NEW p, OthersAt(k, p) PROVE Spared(k)
BY DEF OthersAt, Spared

LEMMA QuietIsSpared ==
  ASSUME SInv, NEW k \in Activity, NEW v, task' = [task EXCEPT ![k] = v]
  PROVE  Spared(k) /\ task'[k] = v
BY DEF SInv, Shapes, Spared

\* The state of the parts when an activity has moved on.
LEMMA OthersKeepForm ==
  ASSUME Known, NEW k \in Activity, Spared(k), UNCHANGED <<life, config>>,
         Form(k, task'[k]), Past(task[k])'
  PROVE  Forms' /\ \A j \in Activity : Past(task[j])'
<1>1. Forms'
  BY DEF Known, CInv, Forms, Form, Spared
<1>2. ASSUME NEW j \in Activity \ {k} PROVE Past(task[j])'
  BY DEF Known, CInv, Bounded, Past, Spared
<1>3. QED
  BY <1>1, <1>2

LEMMA OthersKeepView ==
  ASSUME Known, NEW k \in Activity, Spared(k), UNCHANGED config, Visible' \subseteq Visible,
         Noticed(k), ~crossing, NEW j \in Activity \ {k}
  PROVE  OldOf(task[j])'
<1>1. OldOf(task[j]) /\ Busy(j) = (task[j].pc # "idle")
  BY DEF Known, CInv, Busy
<1>2. \A p \in Visible' \ task'[j].stale :
        Reads(task[j]) /\ Current(p)' => p \in Visible \ task[j].stale /\ Current(p)
  BY DEF Spared, Noticed, Visible, Busy, Reads
<1>3. QED
  BY <1>1, <1>2 DEF OldOf, UpToDate, Complete, Reads, Spared

\* What the table of the API and the listener look like to an activity's step.
Aside ==
  UNCHANGED <<life, config, owing, process, batch, reconnecting, events>>

\* An activity's step that crosses with nobody has to do nothing but this.
Handed(k) ==
  /\ InHandOf(task[k])' /\ OldOf(task[k])' /\ Noticed(k)
  /\ \A p \in announced \cap Visible :
       Brings(k, p) \/ Stands(p) => Brings(k, p)' \/ Stands(p)'

LEMMA OthersBring ==
  ASSUME NEW k \in Activity, Spared(k), UNCHANGED config, NEW p, NEW j \in Activity \ {k},
         Brings(j, p)
  PROVE  Brings(j, p)'
BY DEF Spared, Brings, Reads

LEMMA StillToBeRead ==
  ASSUME NEW k \in Activity, task[k].pc # "fetching", Spared(k), Aside, ToBeRead
  PROVE  ToBeRead'
BY DEF ToBeRead, Spared, Aside

LEMMA ActivityKeeps ==
  ASSUME Known, NEW k \in Activity, Busy(k), task[k].pc # "fetching", Spared(k), Aside,
         Form(k, task'[k]), Past(task[k])', EntriesPast', Attended',
         UNCHANGED announced \/ announced' = {},
         crossing' => crossing \/ announced' = {},
         ~crossing' => /\ ~crossing /\ Handed(k) /\ UNCHANGED announced
                       /\ Visible' \subseteq Visible
                       /\ \A j \in Activity \ {k} : InHandOf(task[j])'
  PROVE  CInv'
<1>1. Forms' /\ Bounded'
  BY OthersKeepForm DEF Aside, Known, CInv, Bounded
<1>2. crossing' => announced' = {}
  BY DEF Known, CInv, Calm, Upset
<1>3. Calm'
  BY <1>2 DEF Calm, Upset
<1>4. ~crossing' => \A j \in Activity : InHandOf(task[j])' /\ OldOf(task[j])'
  BY OthersKeepView DEF Handed, Aside
<1>5. ChangeIsOnItsWay'
  <2> SUFFICES ASSUME NEW p \in announced' \cap Visible' PROVE OnItsWay(p)'
    BY DEF ChangeIsOnItsWay
  <2>1. ~crossing' /\ p \in announced \cap Visible
    BY <1>2
  <2>2. OnItsWay(p)
    BY <2>1 DEF Known, CInv, ChangeIsOnItsWay
  <2>3. CASE ToBeRead
    BY <2>3, StillToBeRead DEF OnItsWay
  <2>4. CASE \E j \in Activity \ {k} : Brings(j, p)
    BY <2>4, OthersBring DEF OnItsWay, Aside
  <2>5. CASE Brings(k, p) \/ Stands(p)
    BY <2>1, <2>5 DEF Handed, OnItsWay
  <2>6. QED
    BY <2>2, <2>3, <2>4, <2>5 DEF OnItsWay
<1>6. QED
  BY <1>1, <1>3, <1>4, <1>5 DEF CInv, Known

\* Of those that leave the columns of the table alone.
LEMMA OthersKeepHand ==
  ASSUME Known, NEW k \in Activity, Spared(k), UNCHANGED <<life, status>>, ~crossing,
         NEW j \in Activity \ {k}
  PROVE  InHandOf(task[j])'
<1>1. InHandOf(task[j])
  BY DEF Known, CInv
<1>2. QED
  BY <1>1 DEF InHandOf, Reads, Spared

\* What Crossed says of the histories.
LEMMA CrossedHistory ==
  ASSUME NEW yes, Crossed(yes)
  PROVE  /\ UNCHANGED announced \/ announced' = {}
         /\ crossing' => crossing \/ announced' = {}
         /\ ~crossing' => ~crossing /\ ~yes /\ UNCHANGED announced
BY DEF Crossed

\* What an activity goes on with.
Held(k, t) ==
  /\ task[k].pc \in {"fetched", "looping", "closing"}
  /\ Shape(t) /\ Past(t)
  /\ t.drop \cap DOMAIN t.rows = {}
  /\ k \in Provider => t.known = {} /\ DOMAIN t.rows \subseteq {k}

\* It has kept what it brings, except what stands already.
Fresh(k, t) ==
  /\ \A p \in DOMAIN t.rows \ t.stale : status[p] # "error"
  /\ UpToDate(t)
  /\ \A p \in announced \cap Visible : Brings(k, p) =>
       (p \in DOMAIN t.rows /\ t.rows[p].config = config[p]) \/ Stands(p)

LEMMA AttendedElsewhere ==
  ASSUME Known, NEW k \in Activity, Spared(k), NEW q \in Provider,
         managed'[q] = managed[q], q \notin task[k].at
  PROVE  AttendedAt(q)'
<1>1. \A j \in Activity : task[j].at = {q} =>
        j # k /\ task'[j].pc = task[j].pc /\ task'[j].at = task[j].at
  BY DEF Spared
<1>2. AttendedAt(q) /\ Call \subseteq Activity
  BY DEF Known, CInv, Attended, Activity
<1>3. QED
  BY <1>1, <1>2 DEF AttendedAt

LEMMA AddKeeps ==
  ASSUME Known, NEW k \in Activity, NEW t, NEW p \in DOMAIN t.rows, Held(k, t),
         t.at \subseteq {p}, task[k].at \subseteq {p},
         addProvider(k, t, p), Aside, UNCHANGED status,
         ~crossing /\ p \notin t.stale => Fresh(k, t)
  PROVE  CInv'
<1>1. /\ p \in Provider /\ OthersAt(k, p) /\ Crossed(p \in t.stale)
      /\ managed' = [managed EXCEPT ![p] = [row |-> t.rows[p], state |-> "opening", by |-> k]]
      /\ task'[k].pc = "opening" /\ task'[k].at = {p}
      /\ task'[k].known = t.known /\ task'[k].drop = t.drop /\ task'[k].stale = t.stale \ {p}
      /\ DOMAIN task'[k].rows = DOMAIN t.rows \ {p}
      /\ \A q \in DOMAIN task'[k].rows : task'[k].rows[q] = t.rows[q]
  BY AddEffect DEF Known, Held
<1>2. Spared(k)
  BY <1>1, OthersAreSpared
<1>3. /\ managed'[p].row = t.rows[p] /\ managed'[p].state = "opening" /\ managed'[p].by = k
      /\ \A q \in Provider \ {p} : managed'[q] = managed[q]
  BY <1>1 DEF Known, SInv, Shapes
<1>4. Form(k, task'[k])
  BY <1>1 DEF Held, Form
<1>5. Past(task[k])' /\ EntriesPast'
  BY <1>1, <1>3 DEF Aside, Held, Past, EntriesPast, Known, CInv, Bounded
<1>6. Attended'
  <2> SUFFICES ASSUME NEW q \in Provider PROVE AttendedAt(q)'
    BY DEF Attended
  <2>1. CASE q = p
    BY <1>1, <1>2, <1>3, <2>1 DEF AttendedAt
  <2>2. CASE q # p
    BY <1>2, <1>3, <2>2, AttendedElsewhere
  <2>3. QED
    BY <2>1, <2>2
<1>7. ASSUME ~crossing'
      PROVE  ~crossing /\ Handed(k) /\ UNCHANGED announced /\ Visible' \subseteq Visible
  <2>1. ~crossing /\ p \notin t.stale /\ UNCHANGED announced /\ Visible' = Visible
    BY <1>1, <1>7, CrossedHistory DEF Aside, Visible
  <2>2. Fresh(k, t) /\ task'[k].stale = t.stale
    BY <1>1, <2>1 DEF Held, Shape
  <2>3. \A q \in Provider \ {p} : Current(q)' = Current(q) /\ Stands(q)' = Stands(q)
    BY <1>3 DEF Current, Stands, Aside
  <2>4. InHandOf(task[k])'
    BY <1>1, <2>1, <2>2 DEF Fresh, InHandOf
  <2>5. OldOf(task[k])'
    BY <1>1, <2>1, <2>2, <2>3 DEF Fresh, OldOf, UpToDate, Held, Visible, Aside
  <2>6. Noticed(k)
    BY <1>1, <2>3 DEF Noticed, OthersAt
  <2>7. ASSUME NEW q \in announced \cap Visible, Brings(k, q) \/ Stands(q)
        PROVE  Brings(k, q)' \/ Stands(q)'
    <3>1. CASE q = p
      <4>1. t.rows[p].config = config[p]
        BY <2>1, <2>2, <2>7, <3>1 DEF Fresh, Stands, UpToDate
      <4>2. QED
        BY <1>3, <3>1, <4>1 DEF Stands, Current, Aside
    <3>2. CASE q # p
      BY <1>1, <2>2, <2>3, <2>7, <3>2 DEF Fresh, Brings, Reads, Visible, Aside
    <3>3. QED
      BY <3>1, <3>2
  <2>8. QED
    BY <2>1, <2>4, <2>5, <2>6, <2>7 DEF Handed
<1>8. ~crossing => \A j \in Activity \ {k} : InHandOf(task[j])'
  BY <1>2, OthersKeepHand DEF Aside
<1>9. QED
  BY <1>1, <1>2, <1>4, <1>5, <1>6, <1>7, <1>8, CrossedHistory, ActivityKeeps DEF Held, Busy

\* A provider whose connection stands loses it only if it is to get a new one.
Spares(t, p) == p \in Visible \ t.stale /\ Current(p) => p \in DOMAIN t.rows

LEMMA CloseKeeps ==
  ASSUME Known, NEW k \in Activity, NEW t, NEW p \in Provider, Held(k, t), p \notin t.drop,
         t.at = {}, task[k].at = {}, k \notin Provider,
         disconnect(k, t, p), Linked(p), Aside, UNCHANGED status,
         ~crossing /\ p \notin t.stale => Fresh(k, t) /\ Spares(t, p)
  PROVE  CInv'
<1>1. /\ managed' = [managed EXCEPT ![p] = [row |-> managed[p].row, state |-> "closed",
                                            by |-> managed[p].by]]
      /\ OthersAt(k, p) /\ Crossed(p \in t.stale)
      /\ task'[k].pc = "closing" /\ task'[k].at = {p} /\ task'[k].rows = t.rows
      /\ task'[k].known = t.known /\ task'[k].drop = t.drop /\ task'[k].stale = t.stale \ {p}
  BY CloseEffect DEF Known, Held
<1>2. Spared(k) /\ k \in Call
  BY <1>1, OthersAreSpared DEF Activity
<1>3. /\ managed'[p].row = managed[p].row /\ managed'[p].state = "closed"
      /\ \A q \in Provider \ {p} : managed'[q] = managed[q]
  BY <1>1 DEF Known, SInv, Shapes
<1>4. Form(k, task'[k])
  BY <1>1 DEF Held, Form
<1>5. Past(task[k])' /\ EntriesPast'
  BY <1>1, <1>3 DEF Aside, Held, Past, EntriesPast, Known, CInv, Bounded, Linked
<1>6. Attended'
  <2> SUFFICES ASSUME NEW q \in Provider PROVE AttendedAt(q)'
    BY DEF Attended
  <2>1. CASE q = p
    BY <1>1, <1>2, <1>3, <2>1 DEF AttendedAt
  <2>2. CASE q # p
    BY <1>2, <1>3, <2>2, AttendedElsewhere
  <2>3. QED
    BY <2>1, <2>2
<1>7. ASSUME ~crossing'
      PROVE  ~crossing /\ Handed(k) /\ UNCHANGED announced /\ Visible' \subseteq Visible
  <2>1. ~crossing /\ p \notin t.stale /\ UNCHANGED announced /\ Visible' = Visible
    BY <1>1, <1>7, CrossedHistory DEF Aside, Visible
  <2>2. Fresh(k, t) /\ Spares(t, p) /\ task'[k].stale = t.stale
    BY <1>1, <2>1 DEF Held, Shape
  <2>3. /\ \A q \in Provider : Current(q)' = Current(q)
        /\ \A q \in Provider \ {p} : Stands(q)' = Stands(q)
    BY <1>3 DEF Current, Stands, Aside, Linked
  <2>4. InHandOf(task[k])'
    BY <1>1, <2>1, <2>2 DEF Fresh, InHandOf
  <2>5. OldOf(task[k])'
    BY <1>1, <2>1, <2>2, <2>3 DEF Fresh, OldOf, UpToDate, Held, Visible, Aside
  <2>6. Noticed(k)
    BY <2>3 DEF Noticed
  <2>7. ASSUME NEW q \in announced \cap Visible, Brings(k, q) \/ Stands(q)
        PROVE  Brings(k, q)' \/ Stands(q)'
    <3>1. CASE q = p
      <4>1. p \in DOMAIN t.rows /\ t.rows[p].config = config[p]
        BY <2>1, <2>2, <2>7, <3>1 DEF Fresh, Stands, UpToDate, Spares
      <4>2. QED
        BY <1>1, <3>1, <4>1 DEF Brings, Reads, Aside
    <3>2. CASE q # p
      BY <1>1, <2>2, <2>3, <2>7, <3>2 DEF Fresh, Brings, Reads, Visible, Aside
    <3>3. QED
      BY <3>1, <3>2
  <2>8. QED
    BY <2>1, <2>4, <2>5, <2>6, <2>7 DEF Handed
<1>8. ~crossing => \A j \in Activity \ {k} : InHandOf(task[j])'
  BY <1>2, OthersKeepHand DEF Aside
<1>9. QED
  BY <1>1, <1>2, <1>4, <1>5, <1>6, <1>7, <1>8, CrossedHistory, ActivityKeeps DEF Held, Busy

LEMMA DeleteKeeps ==
  ASSUME Known, NEW k \in Activity, NEW t, NEW p \in Provider, Held(k, t),
         t.at = {}, task[k].at = {},
         managed' = [managed EXCEPT ![p] = Blank], Proceed(k, [t EXCEPT !.pc = "looping"], p),
         Aside, UNCHANGED status,
         ~crossing /\ p \notin t.stale => Fresh(k, t) /\ Spares(t, p)
  PROVE  CInv'
<1>1. /\ OthersAt(k, p) /\ Crossed(p \in t.stale)
      /\ task'[k].pc = "looping" /\ task'[k].at = {} /\ task'[k].rows = t.rows
      /\ task'[k].known = t.known /\ task'[k].drop = t.drop /\ task'[k].stale = t.stale \ {p}
  BY DeleteEffect DEF Known, Held
<1>2. Spared(k)
  BY <1>1, OthersAreSpared
<1>3. managed'[p].state = "none" /\ \A q \in Provider \ {p} : managed'[q] = managed[q]
  BY DEF Known, SInv, Shapes, Blank
<1>4. Form(k, task'[k])
  BY <1>1 DEF Held, Form
<1>5. Past(task[k])' /\ EntriesPast'
  BY <1>1, <1>3 DEF Aside, Held, Past, EntriesPast, Known, CInv, Bounded
<1>6. Attended'
  <2> SUFFICES ASSUME NEW q \in Provider PROVE AttendedAt(q)'
    BY DEF Attended
  <2>1. CASE q = p
    BY <1>1, <1>2, <1>3, <2>1 DEF AttendedAt
  <2>2. CASE q # p
    BY <1>2, <1>3, <2>2, AttendedElsewhere
  <2>3. QED
    BY <2>1, <2>2
<1>7. ASSUME ~crossing'
      PROVE  ~crossing /\ Handed(k) /\ UNCHANGED announced /\ Visible' \subseteq Visible
  <2>1. ~crossing /\ p \notin t.stale /\ UNCHANGED announced /\ Visible' = Visible
    BY <1>1, <1>7, CrossedHistory DEF Aside, Visible
  <2>2. Fresh(k, t) /\ Spares(t, p) /\ task'[k].stale = t.stale
    BY <1>1, <2>1 DEF Held, Shape
  <2>3. /\ ~Current(p)'
        /\ \A q \in Provider \ {p} : Current(q)' = Current(q) /\ Stands(q)' = Stands(q)
    BY <1>3 DEF Current, Stands, Aside
  <2>4. InHandOf(task[k])'
    BY <1>1, <2>1, <2>2 DEF Fresh, InHandOf
  <2>5. OldOf(task[k])'
    BY <1>1, <2>1, <2>2, <2>3 DEF Fresh, OldOf, UpToDate, Held, Visible, Aside
  <2>6. Noticed(k)
    BY <2>3 DEF Noticed
  <2>7. ASSUME NEW q \in announced \cap Visible, Brings(k, q) \/ Stands(q)
        PROVE  Brings(k, q)' \/ Stands(q)'
    <3>1. CASE q = p
      <4>1. p \in DOMAIN t.rows /\ t.rows[p].config = config[p]
        BY <2>1, <2>2, <2>7, <3>1 DEF Fresh, Stands, UpToDate, Spares
      <4>2. QED
        BY <1>1, <3>1, <4>1 DEF Brings, Reads, Aside
    <3>2. CASE q # p
      BY <1>1, <2>2, <2>3, <2>7, <3>2 DEF Fresh, Brings, Reads, Visible, Aside
    <3>3. QED
      BY <3>1, <3>2
  <2>8. QED
    BY <2>1, <2>4, <2>5, <2>6, <2>7 DEF Handed
<1>8. ~crossing => \A j \in Activity \ {k} : InHandOf(task[j])'
  BY <1>2, OthersKeepHand DEF Aside
<1>9. QED
  BY <1>1, <1>2, <1>4, <1>5, <1>6, <1>7, <1>8, CrossedHistory, ActivityKeeps DEF Held, Busy

\* A task that goes on without touching the connections.
LEMMA QuietKeeps ==
  ASSUME Known, NEW k \in Activity, NEW v, task' = [task EXCEPT ![k] = v], UNCHANGED managed,
         Aside, UNCHANGED status, task[k].pc \in {"fetched", "looping"}, task[k].at = {},
         Form(k, v), Past(v), NEW yes, Crossed(yes),
         ~crossing /\ ~yes =>
           /\ InHandOf(v) /\ OldOf(v)
           /\ \A p \in announced \cap Visible : Brings(k, p) =>
                \/ Reads(v) /\ p \in DOMAIN v.rows /\ v.rows[p].config = config[p]
                \/ Stands(p)
  PROVE  CInv'
<1>1. Spared(k) /\ task'[k] = v
  BY QuietIsSpared DEF Known
<1>2. Past(task[k])' /\ EntriesPast'
  BY <1>1 DEF Aside, Past, EntriesPast, Known, CInv, Bounded
<1>3. Attended'
  BY <1>1, AttendedElsewhere DEF Attended
<1>4. \A p : Current(p)' = Current(p) /\ Stands(p)' = Stands(p)
  BY DEF Current, Stands, Aside
<1>5. ASSUME ~crossing'
      PROVE  ~crossing /\ Handed(k) /\ UNCHANGED announced /\ Visible' \subseteq Visible
  <2>1. ~crossing /\ ~yes /\ UNCHANGED announced /\ Visible' = Visible
    BY <1>5, CrossedHistory DEF Aside, Visible
  <2>2. InHandOf(task[k])' /\ OldOf(task[k])'
    BY <1>1, <1>4, <2>1 DEF InHandOf, OldOf, UpToDate, Complete, Aside, Visible
  <2>3. \A p \in announced \cap Visible :
          Brings(k, p) \/ Stands(p) => Brings(k, p)' \/ Stands(p)'
    BY <1>1, <1>4, <2>1 DEF Brings, Aside
  <2>4. QED
    BY <1>4, <2>1, <2>2, <2>3 DEF Handed, Noticed
<1>6. ~crossing => \A j \in Activity \ {k} : InHandOf(task[j])'
  BY <1>1, OthersKeepHand DEF Aside
<1>7. QED
  BY <1>1, <1>2, <1>3, <1>5, <1>6, CrossedHistory, ActivityKeeps DEF Busy

\* A row that is passed over equals an entry that nobody is about to delete.
LEMMA PassedOver ==
  ASSUME Known, NEW k \in Activity, NEW t, Held(k, t), task[k].pc # "closing", ~Misled(k, t),
         NEW q \in DOMAIN t.rows, \A r \in Differing(t) : q < r, t.rows[q].config = config[q]
  PROVE  Stands(q)
<1>1. q \in Provider /\ q \in Nat
  BY ConnectorAssumption DEF Held, Shape
<1>2. q \in Managed /\ managed[q].row = t.rows[q]
  BY <1>1 DEF Differing
<1>3. managed[q].state \in {"none", "opening", "linked", "closed", "dead"}
  BY <1>1 DEF Known, TypeInv, MemoryTyped, Entry
<1>4. managed[q].state # "closed"
  <2>1. ASSUME NEW j \in Call, task[j].pc = "closing", task[j].at = {q} PROVE FALSE
    BY <2>1 DEF Misled
  <2>2. QED
    BY <1>1, <2>1 DEF Known, CInv, Attended, AttendedAt
<1>5. QED
  BY <1>2, <1>3, <1>4 DEF Stands, Current, Managed

LEMMA IdleIsNothing ==
  ASSUME NEW k PROVE Form(k, Idle) /\ Past(Idle) /\ InHandOf(Idle) /\ OldOf(Idle)
<1>1. /\ Idle.pc = "idle" /\ Idle.rows = <<>> /\ Idle.drop = {} /\ Idle.known = {}
      /\ Idle.at = {} /\ DOMAIN Idle.rows = {}
  BY DEF Idle
<1>2. QED
  BY <1>1 DEF Form, Past, InHandOf, OldOf, Reads

LEMMA VisitKeeps ==
  ASSUME Known, NEW k \in Activity, NEW t, Held(k, t), task[k].pc \in {"fetched", "looping"},
         t.at = {}, t.pc \in {"fetched", "looping"}, ~crossing => Fresh(k, t), Visit(k, t)
  PROVE  CInv'
<1>1. Aside /\ UNCHANGED status /\ Shape(t) /\ task[k].at = {}
  BY DEF Visit, Aside, listenerVars, table, Held, Known, SInv, Shapes, Shape
<1>2. \A p \in t.known : k \notin Provider
  BY DEF Held
<1>3. ASSUME NEW p \in t.drop \ Managed, NEW v, Skips(k, t, p, v) PROVE CInv'
  <2>1. /\ task' = [task EXCEPT ![k] = v] /\ UNCHANGED managed /\ Crossed(FALSE)
        /\ v.pc = "looping" /\ v.at = {} /\ v.drop = t.drop \ {p}
        /\ v.rows = t.rows /\ v.known = t.known /\ v.stale = t.stale
    BY <1>3 DEF Skips, Crossed
  <2>2. Form(k, v) /\ Past(v)
    BY <2>1 DEF Held, Form, Past
  <2>3. ~crossing =>
          /\ InHandOf(v) /\ OldOf(v)
          /\ \A q \in announced \cap Visible : Brings(k, q) =>
               \/ Reads(v) /\ q \in DOMAIN v.rows /\ v.rows[q].config = config[q]
               \/ Stands(q)
    BY <2>1 DEF Fresh, InHandOf, OldOf, UpToDate, Reads
  <2>4. QED
    BY <1>1, <2>1, <2>2, <2>3, QuietKeeps
<1>4. ASSUME NEW p \in t.drop \cap Managed, NEW u, Removes(k, t, p, u) PROVE CInv'
  <2>1. /\ removeProvider(k, u, p) /\ p \in Provider /\ k \notin Provider
        /\ Shape(u) /\ u.pc = t.pc /\ u.at = {} /\ u.drop = t.drop \ {p}
        /\ u.rows = t.rows /\ u.known = t.known /\ u.stale = t.stale
    BY <1>1, <1>2, <1>4 DEF Removes, Managed, Shape
  <2>2. Held(k, u)
    BY <2>1 DEF Held, Past
  <2>3. ~crossing => Fresh(k, u) /\ Spares(u, p)
    BY <1>4, <2>1 DEF Fresh, UpToDate, Spares
  <2>4. QED
    BY <1>1, <2>1, <2>2, <2>3, CloseKeeps, DeleteKeeps DEF removeProvider
<1>5. CASE /\ t.drop = {} /\ Differing(t) = {}
           /\ task' = [task EXCEPT ![k] = Idle] /\ UNCHANGED managed
           /\ Crossed(Misled(k, t))
  <2>1. Form(k, Idle) /\ Past(Idle) /\ InHandOf(Idle) /\ OldOf(Idle)
    BY IdleIsNothing
  <2>2. ~crossing /\ ~Misled(k, t) =>
          \A q \in announced \cap Visible : Brings(k, q) => Stands(q)
    BY <1>5, PassedOver DEF Fresh
  <2>3. QED
    BY <1>1, <1>5, <2>1, <2>2, QuietKeeps
<1>6. CASE Abandons(k)
  <2>1. task' = [task EXCEPT ![k] = Idle] /\ UNCHANGED managed /\ Crossed(TRUE)
    BY <1>6 DEF Abandons
  <2>2. Form(k, Idle) /\ Past(Idle)
    BY IdleIsNothing
  <2>3. QED
    BY <1>1, <2>1, <2>2, QuietKeeps
<1>7. ASSUME NEW p \in First(Differing(t)), NEW u, Renews(k, t, p, u) PROVE CInv'
  <2>1. /\ t.drop = {} /\ p \in DOMAIN t.rows /\ p \in Provider
        /\ Shape(u) /\ u.pc = t.pc /\ u.at = {} /\ u.drop = t.drop /\ u.known = t.known
        /\ DOMAIN u.rows = {q \in DOMAIN t.rows : q >= p}
        /\ \A q \in DOMAIN u.rows : u.rows[q] = t.rows[q]
        /\ u.stale = IF Misled(k, t) THEN t.stale \cup {p} ELSE t.stale
    BY <1>1, <1>7 DEF Renews, Trims, Shape
  <2>2. p \in DOMAIN u.rows
    BY <2>1, ConnectorAssumption
  <2>3. Held(k, u)
    BY <2>1 DEF Held, Past
  <2>4. ASSUME ~crossing, p \notin u.stale PROVE Fresh(k, u)
    <3>1. u.stale = t.stale /\ ~Misled(k, t) /\ Fresh(k, t)
      BY <2>1, <2>4
    <3>2. ASSUME NEW q \in announced \cap Visible, Brings(k, q)
          PROVE  (q \in DOMAIN u.rows /\ u.rows[q].config = config[q]) \/ Stands(q)
      <4>1. CASE q \in DOMAIN t.rows /\ t.rows[q].config = config[q] /\ q >= p
        BY <2>1, <4>1
      <4>2. CASE q \in DOMAIN t.rows /\ t.rows[q].config = config[q] /\ ~(q >= p)
        <5>1. \A r \in Differing(t) : q < r
          <6>1. q \in Nat /\ p \in Nat /\ Differing(t) \subseteq Nat
            BY <1>1, <2>1, <4>2, ConnectorAssumption DEF Differing, Shape
          <6>2. \A r \in Differing(t) : p <= r
            BY DEF First
          <6>3. QED
            BY <4>2, <6>1, <6>2
        <5>2. QED
          BY <3>1, <4>2, <5>1, PassedOver
      <4>3. QED
        BY <3>1, <3>2, <4>1, <4>2 DEF Fresh
    <3>3. QED
      BY <2>1, <3>1, <3>2 DEF Fresh, UpToDate
  <2>5. CASE p \in t.known /\ Linked(p) /\ disconnect(k, u, p)
    BY <1>1, <1>2, <2>1, <2>2, <2>3, <2>4, <2>5, CloseKeeps DEF Spares
  <2>6. CASE addProvider(k, u, p)
    BY <1>1, <2>1, <2>2, <2>3, <2>4, <2>6, AddKeeps
  <2>7. QED
    BY <1>7, <2>5, <2>6 DEF Renews
<1>8. QED
  BY <1>1, <1>3, <1>4, <1>5, <1>6, <1>7, VisitCases

LEMMA TaskIsHeld ==
  ASSUME Known, NEW k \in Activity, task[k].pc \in {"fetched", "looping", "closing"}
  PROVE  /\ Held(k, task[k]) /\ Form(k, task[k])
         /\ ~crossing =>
              /\ InHandOf(task[k]) /\ OldOf(task[k]) /\ Fresh(k, task[k])
<1>1. Shape(task[k]) /\ Form(k, task[k]) /\ Past(task[k])
  BY DEF Known, SInv, Shapes, CInv, Forms, Bounded
<1>2. ~crossing => InHandOf(task[k]) /\ OldOf(task[k])
  BY DEF Known, CInv
<1>3. QED
  BY <1>1, <1>2 DEF Held, Form, Fresh, InHandOf, OldOf, Reads, Brings

LEMMA ResumeKeeps == ASSUME Known, NEW k \in Activity, Resume(k) PROVE CInv'
<1> DEFINE t == [task[k] EXCEPT !.known = Managed, !.drop = Managed \ DOMAIN task[k].rows]
<1>1. /\ task[k].pc = "fetched" /\ Held(k, task[k]) /\ Form(k, task[k]) /\ Shape(task[k])
      /\ ~crossing => InHandOf(task[k]) /\ OldOf(task[k]) /\ Fresh(k, task[k])
  BY TaskIsHeld DEF Resume, Held
<1>2. t = [pc |-> "fetched", rows |-> task[k].rows, known |-> Managed,
           drop |-> Managed \ DOMAIN task[k].rows, at |-> {}, stale |-> task[k].stale]
  BY <1>1, ResumedTask
<1>3. Visit(k, t)
  BY DEF Resume
<1> HIDE DEF t
<1>4. Shape(t) /\ t.pc = "fetched" /\ t.at = {}
  BY <1>1, <1>2 DEF Shape
<1>5. Held(k, t)
  BY <1>1, <1>2, <1>4 DEF Held, Form, Past
<1>6. ~crossing => Fresh(k, t)
  <2>1. ~crossing => UpToDate(t)
    BY <1>1, <1>2 DEF Fresh, UpToDate, OldOf, Complete
  <2>2. QED
    BY <1>1, <1>2, <2>1 DEF Fresh
<1>7. QED
  BY <1>1, <1>3, <1>4, <1>5, <1>6, VisitKeeps

LEMMA LoopKeeps == ASSUME Known, NEW k \in Activity, Loop(k) PROVE CInv'
<1>1. /\ task[k].pc = "looping" /\ Visit(k, task[k]) /\ Held(k, task[k])
      /\ ~crossing => Fresh(k, task[k])
  BY TaskIsHeld DEF Loop
<1>2. task[k].at = {}
  BY <1>1 DEF Held, Shape
<1>3. QED
  BY <1>1, <1>2, VisitKeeps

LEMMA DisconnectedKeeps == ASSUME Known, NEW k \in Activity, Disconnected(k) PROVE CInv'
<1>1. PICK p \in task[k].at :
        IF p \in DOMAIN task[k].rows
        THEN addProvider(k, task[k], p)
        ELSE /\ managed' = [managed EXCEPT ![p] = Blank]
             /\ task' = [task EXCEPT ![k].pc = "looping", ![k].at = {}]
             /\ UNCHANGED <<mishaps, announced, crossing>>
  BY DEF Disconnected
<1>2. /\ task[k].pc = "closing" /\ Held(k, task[k]) /\ Form(k, task[k]) /\ Shape(task[k])
      /\ ~crossing => InHandOf(task[k]) /\ OldOf(task[k]) /\ Fresh(k, task[k])
  BY TaskIsHeld DEF Disconnected, Held
<1>3. /\ p \in Provider /\ task[k].at = {p} /\ Aside /\ UNCHANGED status
  BY <1>2 DEF Disconnected, Shape, Aside, listenerVars, table
<1>4. CASE p \in DOMAIN task[k].rows
  BY <1>1, <1>2, <1>3, <1>4, AddKeeps
<1>5. CASE p \notin DOMAIN task[k].rows
  <2> DEFINE v == [task[k] EXCEPT !.pc = "looping", !.at = {}]
  <2>1. /\ managed' = [managed EXCEPT ![p] = Blank] /\ task' = [task EXCEPT ![k] = v]
        /\ UNCHANGED <<announced, crossing>>
    BY <1>1, <1>5
  <2>2. v = [pc |-> "looping", rows |-> task[k].rows, known |-> task[k].known,
             drop |-> task[k].drop, at |-> {}, stale |-> task[k].stale]
    BY <1>2, PlacedTask
  <2> HIDE DEF v
  <2>3. Spared(k) /\ task'[k] = v
    BY <2>1, QuietIsSpared DEF Known
  <2>4. managed'[p].state = "none" /\ \A q \in Provider \ {p} : managed'[q] = managed[q]
    BY <1>3, <2>1 DEF Known, SInv, Shapes, Blank
  <2>5. Form(k, task'[k]) /\ Past(task[k])' /\ EntriesPast'
    BY <1>2, <1>3, <2>2, <2>3, <2>4
    DEF Held, Form, Past, EntriesPast, Known, CInv, Bounded, Aside
  <2>6. Attended'
    <3> SUFFICES ASSUME NEW q \in Provider PROVE AttendedAt(q)'
      BY DEF Attended
    <3>1. CASE q = p
      BY <2>4, <3>1 DEF AttendedAt
    <3>2. CASE q # p
      BY <1>3, <2>3, <2>4, <3>2, AttendedElsewhere
    <3>3. QED
      BY <3>1, <3>2
  <2>7. ASSUME ~crossing PROVE Handed(k)
    <3>1. managed[p].state = "closed"
      BY <1>2, <1>3, <2>7 DEF Known, SInv, Peace, Owned
    <3>2. /\ ~Current(p)' /\ ~Stands(p)
          /\ \A q \in Provider \ {p} : Current(q)' = Current(q) /\ Stands(q)' = Stands(q)
      BY <1>3, <2>4, <3>1 DEF Current, Stands, Aside
    <3>3. InHandOf(task[k])' /\ OldOf(task[k])'
      BY <1>2, <1>3, <2>2, <2>3, <2>7, <3>2
      DEF Fresh, InHandOf, OldOf, UpToDate, Reads, Aside, Visible
    <3>4. \A q \in announced \cap Visible :
            Brings(k, q) \/ Stands(q) => Brings(k, q)' \/ Stands(q)'
      BY <1>2, <1>3, <2>2, <2>3, <3>2 DEF Brings, Reads, Aside, Visible
    <3>5. QED
      BY <3>2, <3>3, <3>4 DEF Handed, Noticed
  <2>8. ~crossing => \A j \in Activity \ {k} : InHandOf(task[j])'
    BY <1>3, <2>3, OthersKeepHand DEF Aside
  <2>9. Visible' = Visible
    BY <1>3 DEF Visible, Aside
  <2>10. QED
    BY <1>2, <1>3, <2>1, <2>3, <2>5, <2>6, <2>7, <2>8, <2>9, ActivityKeeps DEF Busy
<1>6. QED
  BY <1>4, <1>5

LEMMA SettlesKeeps ==
  ASSUME Known, NEW k \in Activity, task[k].pc = "opening",
         NEW result \in {"linked", "dead"}, NEW pc \in {"opened", "failed"},
         Settles(k, result), task' = [task EXCEPT ![k].pc = pc], Aside,
         UNCHANGED <<status, announced, crossing>>
  PROVE  CInv'
<1> DEFINE v == [task[k] EXCEPT !.pc = pc]
<1>1. v = [pc |-> pc, rows |-> task[k].rows, known |-> task[k].known, drop |-> task[k].drop,
           at |-> task[k].at, stale |-> task[k].stale]
  BY MarkedTask DEF Known, SInv, Shapes
<1>2. task' = [task EXCEPT ![k] = v]
  OBVIOUS
<1> HIDE DEF v
<1>3. Spared(k) /\ task'[k] = v
  BY <1>2, QuietIsSpared DEF Known
<1>4. /\ \A p \in Provider : managed[p].by # k => managed'[p] = managed[p]
      /\ \A p \in Provider : managed[p].by = k =>
           /\ managed'[p] = [row |-> managed[p].row, state |-> result, by |-> NoActivity]
           /\ managed[p].state = "opening"
  BY SettleEffect, NoActivityIsNone DEF Known, SInv, OpenedBySomebody
<1>5. ASSUME NEW p \in Provider
      PROVE  /\ managed'[p].row = managed[p].row
             /\ managed[p].by # k => managed'[p] = managed[p]
             /\ managed[p].by = k => managed[p].state = "opening" /\ managed'[p].state = result
  <2>1. CASE managed[p].by = k
    <3>1. managed'[p] = [row |-> managed[p].row, state |-> result, by |-> NoActivity]
      BY <1>4, <2>1
    <3>2. QED
      BY <1>4, <2>1, <3>1
  <2>2. CASE managed[p].by # k
    <3>1. managed'[p] = managed[p]
      BY <1>4, <2>2
    <3>2. QED
      BY <2>2, <3>1
  <2>3. QED
    BY <2>1, <2>2
<1>6. Form(k, task'[k]) /\ Past(task[k])'
  BY <1>1, <1>3 DEF Known, CInv, Forms, Bounded, Form, Past, Aside
<1>7. EntriesPast'
  BY <1>5 DEF Known, CInv, Bounded, EntriesPast, Aside
<1>8. ASSUME NEW q \in Provider PROVE AttendedAt(q)'
  <2>1. AttendedAt(q) /\ Call \subseteq Activity
    BY DEF Known, CInv, Attended, Activity
  <2>2. CASE managed[q].by = k
    BY <1>5, <2>2 DEF AttendedAt
  <2>3. CASE managed[q].by # k
    BY <1>3, <1>4, <2>1, <2>3 DEF AttendedAt, Spared
  <2>4. QED
    BY <2>2, <2>3
<1>9. \A q \in Provider : Current(q)' = Current(q) /\ (Stands(q) => Stands(q)')
  BY <1>5 DEF Current, Stands, Aside
<1>10. ASSUME ~crossing PROVE Handed(k)
  <2>1. InHandOf(task[k]) /\ OldOf(task[k])
    BY <1>10 DEF Known, CInv
  <2>2. InHandOf(task[k])' /\ OldOf(task[k])'
    BY <1>1, <1>3, <1>9, <2>1 DEF InHandOf, OldOf, UpToDate, Reads, Aside, Visible
  <2>3. \A q \in announced \cap Visible :
          Brings(k, q) \/ Stands(q) => Brings(k, q)' \/ Stands(q)'
    BY <1>1, <1>3, <1>9 DEF Brings, Reads, Aside, Visible
  <2>4. QED
    BY <1>9, <2>2, <2>3 DEF Handed, Noticed
<1>11. ~crossing => \A j \in Activity \ {k} : InHandOf(task[j])'
  BY <1>3, OthersKeepHand DEF Aside
<1>12. Visible' = Visible
  BY DEF Visible, Aside
<1>13. QED
  BY <1>3, <1>6, <1>7, <1>8, <1>10, <1>11, <1>12, ActivityKeeps DEF Busy, Attended

LEMMA ConnectKeeps ==
  ASSUME Known, NEW k \in Activity, Connects(k) \/ ConnectFails(k)
  PROVE  CInv'
BY SettlesKeeps DEF Connects, ConnectFails, Aside, listenerVars, table, history

\* After addProvider() nothing is left of what a boot's task has brought.
LEMMA AddedKeeps ==
  ASSUME Known, NEW k \in Activity, updateStatus(k) \/ UpdateFails(k)
  PROVE  CInv'
<1>1. /\ task[k].pc \in {"opened", "failed"} /\ Added(k) /\ Aside
      /\ UNCHANGED <<managed, announced, crossing>>
      /\ Shape(task[k]) /\ Form(k, task[k]) /\ Past(task[k])
  BY DEF updateStatus, UpdateFails, Aside, listenerVars, table, history, Known, SInv, Shapes,
         CInv, Forms, Bounded
<1>2. PICK v : /\ task' = [task EXCEPT ![k] = v]
               /\ \/ k \in Provider /\ v = Idle
                  \/ /\ k \notin Provider
                     /\ v = [pc |-> "looping", rows |-> task[k].rows, known |-> task[k].known,
                             drop |-> task[k].drop, at |-> {}, stale |-> task[k].stale]
  <2>1. CASE k \in Provider
    BY <1>1, <2>1 DEF Added
  <2>2. CASE k \notin Provider
    BY <1>1, <2>2, PlacedTask DEF Added
  <2>3. QED
    BY <2>1, <2>2
<1>3. Spared(k) /\ task'[k] = v
  BY <1>2, QuietIsSpared DEF Known
<1>4. Form(k, v) /\ Past(v)
  BY <1>1, <1>2, IdleIsNothing DEF Form, Past
<1>5. Past(task[k])' /\ EntriesPast'
  BY <1>1, <1>3, <1>4 DEF Past, EntriesPast, Known, CInv, Bounded, Aside
<1>6. ASSUME NEW q \in Provider PROVE AttendedAt(q)'
  <2>1. AttendedAt(q) /\ Call \subseteq Activity
    BY DEF Known, CInv, Attended, Activity
  <2>2. QED
    BY <1>1, <1>3, <2>1 DEF AttendedAt, Spared
<1>7. \A q : Current(q)' = Current(q) /\ Stands(q)' = Stands(q)
  BY <1>1 DEF Current, Stands, Aside
<1>8. PICK p \in Provider : task[k].at = {p}
  BY <1>1 DEF Form
<1>9. /\ \A q \in Provider \ {p} : status'[q] = status[q]
      /\ status'[p] = "error" => task[k].pc = "failed" \/ status[p] = "error"
  BY <1>8 DEF updateStatus, UpdateFails, table, Known, TypeInv, TablesTyped
<1>10. ASSUME ~crossing
       PROVE  /\ Handed(k) /\ Visible' \subseteq Visible
              /\ \A j \in Activity \ {k} : InHandOf(task[j])'
  <2>1. InHandOf(task[k]) /\ OldOf(task[k]) /\ status[p] # "error"
    BY <1>1, <1>8, <1>10 DEF Known, CInv, InHandOf
  <2>2. Visible' \subseteq Visible
    BY <1>1, <1>9, <2>1 DEF Visible, Aside
  <2>3. ASSUME NEW j \in Activity \ {k} PROVE InHandOf(task[j])'
    <3>1. InHandOf(task[j]) /\ p \notin task[j].at /\ (Reads(task[j]) => p \in task[j].stale)
      BY <1>8, <1>10 DEF Known, CInv, SInv, Peace, Apart, Warned, Reads
    <3>2. task[j].at \subseteq Provider /\ DOMAIN task[j].rows \subseteq Provider
      BY DEF Known, SInv, Shapes, Shape
    <3>3. QED
      BY <1>3, <1>9, <3>1, <3>2 DEF InHandOf, Reads, Spared
  <2>4. InHandOf(task[k])' /\ OldOf(task[k])'
    <3>1. CASE v = Idle
      BY <1>3, <3>1 DEF InHandOf, OldOf, Idle, Reads
    <3>2. CASE v = [pc |-> "looping", rows |-> task[k].rows, known |-> task[k].known,
                    drop |-> task[k].drop, at |-> {}, stale |-> task[k].stale]
      <4>1. p \notin DOMAIN task[k].rows /\ DOMAIN task[k].rows \subseteq Provider
        BY <1>1, <1>8 DEF Form, Shape
      <4>2. InHandOf(task[k])'
        BY <1>1, <1>3, <1>9, <2>1, <3>2, <4>1 DEF InHandOf, Reads
      <4>3. OldOf(task[k])'
        BY <1>1, <1>3, <1>7, <2>1, <2>2, <3>2 DEF OldOf, UpToDate, Reads, Aside
      <4>4. QED
        BY <4>2, <4>3
    <3>3. QED
      BY <1>2, <3>1, <3>2
  <2>5. ASSUME NEW q \in announced \cap Visible, Brings(k, q) \/ Stands(q)
        PROVE  Brings(k, q)' \/ Stands(q)'
    <3>1. CASE k \in Provider
      <4>1. DOMAIN task[k].rows = {}
        BY <1>1, <1>8, <3>1 DEF Form
      <4>2. QED
        BY <1>7, <2>5, <4>1 DEF Brings
    <3>2. CASE k \notin Provider
      BY <1>1, <1>2, <1>3, <1>7, <2>5, <3>2 DEF Brings, Reads, Aside
    <3>3. QED
      BY <3>1, <3>2
  <2>6. QED
    BY <1>7, <2>2, <2>3, <2>4, <2>5 DEF Handed, Noticed
<1>11. QED
  BY <1>1, <1>3, <1>4, <1>5, <1>6, <1>10, ActivityKeeps DEF Busy, Attended

\* The end of a SELECT, or its failure.
LEMMA FetchedKeeps ==
  ASSUME Known, NEW k \in Activity, NEW v, task[k].pc = "fetching",
         task' = [task EXCEPT ![k] = v], UNCHANGED <<managed, status, crossing>>, Aside,
         Form(k, v), Past(v), ~crossing => InHandOf(v) /\ OldOf(v),
         \/ announced' = {}
         \/ /\ UNCHANGED announced /\ Reads(v)
            /\ \A p \in announced \cap Visible : p \in DOMAIN v.rows /\ v.rows[p].config = config[p]
  PROVE  CInv'
<1>1. Spared(k) /\ task'[k] = v /\ Busy(k)
  BY QuietIsSpared DEF Known, Busy
<1>2. \A p : Current(p)' = Current(p)
  BY DEF Current, Aside
<1>3. Past(task[k])' /\ EntriesPast'
  BY <1>1 DEF Aside, Past, EntriesPast, Known, CInv, Bounded
<1>4. Forms' /\ Bounded'
  BY <1>1, <1>3, OthersKeepForm DEF Aside, Known, CInv, Bounded
<1>5. Attended'
  <2>1. task[k].at = {}
    BY DEF Known, SInv, Shapes, Shape
  <2>2. QED
    BY <1>1, <2>1, AttendedElsewhere DEF Attended
<1>6. Calm'
  BY <1>1 DEF Known, CInv, Calm, Upset
<1>7. ~crossing' => \A j \in Activity : InHandOf(task[j])' /\ OldOf(task[j])'
  <2>1. ASSUME ~crossing PROVE InHandOf(task[k])' /\ OldOf(task[k])'
    BY <1>1, <1>2, <2>1 DEF InHandOf, OldOf, UpToDate, Complete, Aside, Visible
  <2>2. ASSUME ~crossing, NEW j \in Activity \ {k} PROVE InHandOf(task[j])' /\ OldOf(task[j])'
    BY <1>1, <1>2, <2>2, OthersKeepHand, OthersKeepView DEF Noticed, Aside, Visible
  <2>3. QED
    BY <2>1, <2>2
<1>8. ChangeIsOnItsWay'
  <2> SUFFICES ASSUME NEW p \in announced' \cap Visible' PROVE OnItsWay(p)'
    BY DEF ChangeIsOnItsWay
  <2>1. Brings(k, p)'
    BY <1>1 DEF Brings, Aside, Visible
  <2>2. QED
    BY <2>1 DEF OnItsWay
<1>9. QED
  BY <1>4, <1>5, <1>6, <1>7, <1>8 DEF CInv

LEMMA FetchKeeps ==
  ASSUME Known, NEW k \in Activity, fetchProviders(k) \/ FetchFails(k)
  PROVE  CInv'
<1>1. /\ task[k].pc = "fetching" /\ Form(k, task[k]) /\ Shape(task[k])
      /\ UNCHANGED <<managed, status, crossing>> /\ Aside
  BY DEF fetchProviders, FetchFails, Known, CInv, Forms, SInv, Shapes, Aside, listenerVars,
         table, history
<1>2. CASE FetchFails(k)
  <2>1. task' = [task EXCEPT ![k] = Idle] /\ announced' = {}
    BY <1>2 DEF FetchFails
  <2>2. QED
    BY <1>1, <2>1, IdleIsNothing, FetchedKeeps
<1>3. CASE fetchProviders(k)
  <2> DEFINE rows == [p \in Visible |-> RowOf(p)]
             stale == UNION {task[j].at : j \in Activity}
             v == [task[k] EXCEPT !.pc = "fetched", !.rows = rows, !.stale = stale]
  <2>1. task' = [task EXCEPT ![k] = v] /\ UNCHANGED announced
    BY <1>3 DEF fetchProviders, history
  <2>2. DOMAIN rows = Visible /\ \A p \in Visible : rows[p].config = config[p]
    BY DEF RowOf
  <2> HIDE DEF rows, stale
  <2>3. v = [pc |-> "fetched", rows |-> rows, known |-> task[k].known, drop |-> task[k].drop,
             at |-> {}, stale |-> stale]
    BY <1>1, FetchedTask DEF Shape
  <2> HIDE DEF v
  <2>4. Form(k, v)
    BY <1>1, <2>3 DEF Form
  <2>5. Past(v)
    <3>1. \A p \in Visible : config[p] <= config[p] /\ life[p] # "none"
      BY ConnectorAssumption DEF Visible, Known, TypeInv, TablesTyped
    <3>2. QED
      BY <2>2, <2>3, <3>1 DEF Past
  <2>6. InHandOf(v) /\ OldOf(v) /\ Reads(v)
    BY <1>1, <2>2, <2>3 DEF InHandOf, OldOf, UpToDate, Complete, Reads, Visible, Form
  <2>7. QED
    BY <1>1, <2>1, <2>2, <2>3, <2>4, <2>5, <2>6, FetchedKeeps
<1>4. QED
  BY <1>2, <1>3

LEMMA ActivitiesKeep == ASSUME Known, NEW k \in Activity, Activities(k) PROVE CInv'
BY FetchKeeps, ResumeKeeps, LoopKeeps, DisconnectedKeeps, ConnectKeeps, AddedKeeps
DEF Activities

-----------------------------------------------------------------------------
\* A notification that is flushed makes somebody read.

Below == {ss \in Nat \X Nat : ss[1] < ss[2]}

LEMMA LeastNumber ==
  ASSUME NEW S, S \subseteq Nat, S # {}
  PROVE  \E x \in S : \A y \in S : x <= y
<1>1. IsWellFoundedOn(Below, Nat)
  <2>1. Below = OpToRel(<, Nat)
    BY DEF OpToRel, Below
  <2>2. QED
    BY <2>1, NatLessThanWellFounded
<1>2. PICK x \in S : \A y \in S : ~(<<y, x>> \in Below)
  BY <1>1, WFMin
<1>3. ASSUME NEW y \in S PROVE x <= y
  <2>1. x \in Nat /\ y \in Nat
    OBVIOUS
  <2>2. <<y, x>> \in Nat \X Nat /\ <<y, x>>[1] = y /\ <<y, x>>[2] = x
    BY <2>1
  <2>3. ~(y < x)
    BY <1>2, <2>2 DEF Below
  <2>4. QED
    BY <2>1, <2>3
<1>4. QED
  BY <1>3

LEMMA SomebodyStarts ==
  ASSUME NEW n \in Nat \ {0}, StartCalls(n)
  PROVE  \E k \in Activity : task'[k].pc = "fetching"
<1>1. FreeCalls # {} /\ FreeCalls \subseteq Nat
  BY FS_EmptySet, ConnectorAssumption DEF StartCalls, FreeCalls
<1>2. PICK k \in FreeCalls : \A j \in FreeCalls : k <= j
  BY <1>1, LeastNumber
<1>3. {j \in FreeCalls : j < k} = {}
  <2>1. ASSUME NEW j \in FreeCalls, j < k PROVE FALSE
    <3>1. j \in Nat /\ k \in Nat /\ k <= j
      BY <1>1, <1>2
    <3>2. QED
      BY <2>1, <3>1
  <2>2. QED
    BY <2>1
<1>4. k \in FirstFree(n)
  BY <1>3, FS_EmptySet DEF FirstFree
<1>5. k \in Activity
  BY DEF FreeCalls, Activity
<1>6. task'[k] = [Idle EXCEPT !.pc = "fetching"]
  BY <1>4, <1>5 DEF StartCalls
<1>7. QED
  BY <1>5, <1>6 DEF Idle

LEMMA StartKeeps ==
  ASSUME Known, NEW n \in Nat \ {0}, StartCalls(n),
         UNCHANGED <<managed, life, config, status, owing, announced>>
  PROVE  CInv'
<1>1. ASSUME NEW k \in Activity
      PROVE  \/ task'[k] = task[k]
             \/ /\ k \notin Provider /\ ~Busy(k) /\ task'[k].pc = "fetching"
                /\ Form(k, task'[k]) /\ Past(task'[k])
  <2>1. CASE /\ k \in Call /\ ~Busy(k)
             /\ task'[k] = [pc |-> "fetching", rows |-> <<>>, known |-> {}, drop |-> {},
                            at |-> {}, stale |-> {}]
    <3>1. k \notin Provider /\ DOMAIN task'[k].rows = {}
      BY <2>1, ConnectorAssumption
    <3>2. QED
      BY <2>1, <3>1 DEF Form, Past
  <2>2. QED
    BY <2>1, StartEffect
<1>2. Forms' /\ Bounded'
  <2>1. Forms'
    BY <1>1 DEF Known, CInv, Forms
  <2>2. ASSUME NEW k \in Activity PROVE Past(task[k])'
    BY <1>1 DEF Known, CInv, Bounded, Past
  <2>3. EntriesPast' /\ \A p \in owing' \cup announced' : life'[p] # "none"
    BY DEF Known, CInv, Bounded, EntriesPast
  <2>4. QED
    BY <2>1, <2>2, <2>3 DEF Bounded
<1>3. Attended'
  <2>1. \A k \in Activity : Busy(k) => task'[k] = task[k]
    BY <1>1
  <2>2. Call \subseteq Activity
    BY DEF Activity
  <2>3. ASSUME NEW q \in Provider PROVE AttendedAt(q)'
    <3>1. AttendedAt(q)
      BY DEF Known, CInv, Attended
    <3>2. QED
      BY <2>1, <2>2, <3>1 DEF AttendedAt, Busy
  <2>4. QED
    BY <2>3 DEF Attended
<1>4. Calm'
  BY DEF Known, CInv, Calm, StartCalls, Upset
<1>5. ASSUME ~crossing', NEW k \in Activity PROVE InHandOf(task[k])' /\ OldOf(task[k])'
  <2>1. CASE task'[k].pc = "fetching" \/ task'[k].pc = "idle"
    BY <2>1 DEF InHandOf, OldOf, Reads
  <2>2. CASE task'[k] = task[k] /\ Busy(k)
    <3>1. ~crossing
      BY <1>5, <2>2 DEF StartCalls, Upset
    <3>2. InHandOf(task[k]) /\ OldOf(task[k])
      BY <3>1 DEF Known, CInv
    <3>3. QED
      BY <2>2, <3>2 DEF InHandOf, OldOf, UpToDate, Complete, Current, Visible
  <2>3. QED
    BY <1>1, <2>1, <2>2 DEF Busy
<1>6. ChangeIsOnItsWay'
  BY SomebodyStarts DEF ChangeIsOnItsWay, OnItsWay, ToBeRead
<1>7. QED
  BY <1>2, <1>3, <1>4, <1>5, <1>6 DEF CInv

\* A step that leaves the activities and the rows alone.
LEMMA StillKeeps ==
  ASSUME Known, UNCHANGED <<task, managed, crossing, life, config, status>>,
         owing' \subseteq owing, announced' \subseteq announced \cup owing,
         ToBeRead => ToBeRead',
         announced' \subseteq announced \/ (ToBeRead' /\ ~Upset)
  PROVE  CInv'
<1>1. Forms' /\ Bounded' /\ Attended'
  <2>1. Forms /\ Bounded /\ Attended
    BY DEF Known, CInv
  <2>2. Forms' /\ Attended'
    BY <2>1 DEF Forms, Form, Attended, AttendedAt
  <2>3. Bounded'
    BY <2>1 DEF Bounded, Past, EntriesPast
  <2>4. QED
    BY <2>2, <2>3
<1>2. Calm'
  BY DEF Known, CInv, Calm, Upset, Busy
<1>3. ~crossing' => \A k \in Activity : InHandOf(task[k])' /\ OldOf(task[k])'
  BY DEF Known, CInv, InHandOf, OldOf, UpToDate, Complete, Current, Visible, Reads
<1>4. ChangeIsOnItsWay'
  <2> SUFFICES ASSUME NEW p \in announced' \cap Visible', ~ToBeRead' PROVE OnItsWay(p)'
    BY DEF ChangeIsOnItsWay, OnItsWay
  <2>1. OnItsWay(p) /\ ~ToBeRead
    BY DEF Known, CInv, ChangeIsOnItsWay, Visible
  <2>2. QED
    BY <2>1 DEF OnItsWay, Brings, Stands, Current, Reads
<1>5. QED
  BY <1>1, <1>2, <1>3, <1>4 DEF CInv

LEMMA UpKeeps == ASSUME Known, Up \/ Listening \/ UNCHANGED vars PROVE CInv'
<1>1. /\ UNCHANGED <<task, managed, crossing, life, config, status, owing, announced>>
  BY DEF Up, Listening, vars, table, memory, history
<1>2. ToBeRead => ToBeRead'
  <2>1. CASE Up \/ UNCHANGED vars
    BY <2>1 DEF Up, StartListening, vars, listenerVars, memory, history, ToBeRead
  <2>2. CASE Listening
    <3>1. UNCHANGED <<process, batch, task>>
      BY <2>2 DEF Listening, memory
    <3>2. reconnecting' \/ events' > 0 \/ UNCHANGED <<reconnecting, events>>
      BY <2>2 DEF Listening, ListenerStep, Retry, AttemptFails, scheduleReconnect, Lost,
                  handleDisconnect, Known, TypeInv, ListenerTypeOK
    <3>3. QED
      BY <3>1, <3>2 DEF ToBeRead
  <2>3. QED
    BY <2>1, <2>2
<1>3. QED
  BY <1>1, <1>2, StillKeeps

LEMMA CallsKeep == ASSUME Known, IInv, Flush \/ ListenerConnects PROVE CInv'
<1>1. CASE Flush
  <2>1. batch \in Nat \ {0}
    BY <1>1 DEF Flush, Known, TypeInv, TablesTyped
  <2>2. QED
    BY <1>1, <2>1, StartKeeps DEF Flush, table
<1>2. CASE ListenerConnects /\ attempt = "retry"
  BY <1>2, StartKeeps DEF ListenerConnects, table
<1>3. CASE ListenerConnects /\ attempt # "retry"
  <2>1. UNCHANGED <<task, managed, crossing, life, config, status, owing, announced, process, batch,
                    events>>
    BY <1>3 DEF ListenerConnects, Listens, table
  <2>2. reconnecting' = reconnecting
    BY <1>3 DEF ListenerConnects, Listens, IInv
  <2>3. ToBeRead => ToBeRead'
    BY <2>1, <2>2 DEF ToBeRead
  <2>4. QED
    BY <2>1, <2>3, StillKeeps
<1>4. QED
  BY <1>1, <1>2, <1>3

\* The rows that start() reads are brought by their own tasks.
LEMMA BootKeeps == ASSUME Known, Boot PROVE CInv'
<1>1. /\ process = "down" /\ crossing' = FALSE
      /\ UNCHANGED <<managed, life, config, status, owing, announced>>
  BY DEF Boot, table
<1>2. \A p \in Provider : managed'[p].state = "none"
  BY <1>1 DEF Known, SInv, NothingHeld, Blank
<1>3. ASSUME NEW k \in Activity
      PROVE  \/ task'[k] = Idle /\ k \notin Visible
             \/ /\ k \in Visible /\ k \in Provider
                /\ task'[k] = [pc |-> "looping", rows |-> [p \in {k} |-> RowOf(p)],
                               known |-> {}, drop |-> {}, at |-> {}, stale |-> {}]
  BY BootEffect DEF Visible
<1>4. ASSUME NEW k \in Activity
      PROVE  Form(k, task'[k]) /\ Past(task[k])' /\ InHandOf(task[k])' /\ OldOf(task[k])'
  <2>1. CASE task'[k] = Idle
    <3>1. /\ Idle.pc = "idle" /\ DOMAIN Idle.rows = {}
      BY DEF Idle
    <3>2. QED
      BY <2>1, <3>1, IdleIsNothing DEF Past, InHandOf, OldOf, Reads
  <2>2. CASE /\ k \in Visible /\ k \in Provider
             /\ task'[k] = [pc |-> "looping", rows |-> [p \in {k} |-> RowOf(p)],
                            known |-> {}, drop |-> {}, at |-> {}, stale |-> {}]
    <3>1. /\ DOMAIN task'[k].rows = {k} /\ task'[k].rows[k].config = config[k]
          /\ task'[k].pc = "looping" /\ task'[k].known = {} /\ task'[k].drop = {}
          /\ task'[k].at = {} /\ task'[k].stale = {}
      BY <2>2 DEF RowOf
    <3>2. config[k] <= config[k] /\ life[k] # "none" /\ status[k] # "error"
      BY <2>2, ConnectorAssumption DEF Visible, Known, TypeInv, TablesTyped
    <3>3. Form(k, task'[k])
      BY <3>1 DEF Form
    <3>4. Past(task[k])' /\ InHandOf(task[k])'
      BY <1>1, <3>1, <3>2 DEF Past, InHandOf
    <3>5. OldOf(task[k])'
      BY <1>2, <3>1 DEF OldOf, UpToDate, Current, Visible
    <3>6. QED
      BY <3>3, <3>4, <3>5
  <2>3. QED
    BY <1>3, <2>1, <2>2
<1>5. Forms' /\ Attended'
  BY <1>2, <1>4 DEF Forms, Attended, AttendedAt
<1>6. Bounded'
  BY <1>1, <1>2, <1>4 DEF Bounded, EntriesPast, Known, CInv
<1>7. Calm'
  BY <1>1 DEF Calm, Upset
<1>8. ChangeIsOnItsWay'
  <2> SUFFICES ASSUME NEW p \in announced' \cap Visible' PROVE OnItsWay(p)'
    BY DEF ChangeIsOnItsWay
  <2>1. p \in Visible /\ p \in Activity
    BY <1>1 DEF Visible, Activity
  <2>2. task'[p] = [pc |-> "looping", rows |-> [q \in {p} |-> RowOf(q)],
                    known |-> {}, drop |-> {}, at |-> {}, stale |-> {}]
    BY <1>3, <2>1
  <2>3. DOMAIN task'[p].rows = {p} /\ task'[p].rows[p].config = config[p]
        /\ task'[p].pc = "looping"
    BY <2>2 DEF RowOf
  <2>4. Brings(p, p)'
    BY <1>1, <2>3 DEF Brings, Reads
  <2>5. QED
    BY <2>1, <2>4 DEF OnItsWay
<1>9. QED
  BY <1>4, <1>5, <1>6, <1>7, <1>8 DEF CInv

LEMMA NothingKeeps ==
  ASSUME managed' = [p \in Provider |-> Blank], task' = [k \in Activity |-> Idle],
         process' = "down", \A p \in owing' \cup announced' : life'[p] # "none"
  PROVE  CInv'
<1>1. \A k \in Activity : task'[k] = Idle
  OBVIOUS
<1>2. \A p \in Provider : managed'[p].state = "none"
  BY DEF Blank
<1>3. Idle.pc = "idle" /\ DOMAIN Idle.rows = {}
  BY DEF Idle
<1>4. Forms'
  BY <1>1, IdleIsNothing DEF Forms
<1>5. Bounded' /\ Attended'
  BY <1>1, <1>2, <1>3 DEF Bounded, Past, EntriesPast, Attended, AttendedAt
<1>6. Calm'
  BY <1>1, <1>3 DEF Calm, Upset, Busy
<1>7. \A k \in Activity : InHandOf(task[k])' /\ OldOf(task[k])'
  BY <1>1, <1>3 DEF InHandOf, OldOf, Reads
<1>8. ChangeIsOnItsWay'
  BY DEF ChangeIsOnItsWay, OnItsWay, ToBeRead
<1>9. QED
  BY <1>4, <1>5, <1>6, <1>7, <1>8 DEF CInv

LEMMA CrashKeeps == ASSUME Known, Crash PROVE CInv'
<1>1. UNCHANGED <<life, owing, announced>>
  BY DEF Crash, table
<1>2. QED
  BY <1>1, NothingKeeps DEF Crash, Known, CInv, Bounded

\* A change of one provider that nobody has announced yet.
LEMMA TableKeeps ==
  ASSUME Known, NEW p \in Provider, UNCHANGED <<task, managed, crossing, process, batch,
                                                reconnecting, events>>,
         \A q \in Provider \ {p} : /\ life'[q] = life[q] /\ config'[q] = config[q]
                                   /\ status'[q] = status[q],
         life'[p] # "none", config[p] <= config'[p], config[p] \in Nat, config'[p] \in Nat,
         status'[p] = "error" => status[p] = "error",
         owing' \subseteq owing \cup {p}, announced' \subseteq announced \ {p},
         p \notin Visible' \/ ~Current(p)'
  PROVE  CInv'
<1>1. Forms' /\ Attended'
  <2>1. Forms /\ Attended
    BY DEF Known, CInv
  <2>2. Forms'
    BY <2>1 DEF Forms, Form
  <2>3. Attended'
    BY <2>1 DEF Attended, AttendedAt
  <2>4. QED
    BY <2>2, <2>3
<1>2. ASSUME NEW k \in Activity PROVE Past(task[k])'
  <2>1. Past(task[k]) /\ DOMAIN task[k].rows \subseteq Provider
        /\ \A q \in DOMAIN task[k].rows : task[k].rows[q].config \in Nat
    BY ConnectorAssumption
    DEF Known, CInv, Bounded, SInv, Shapes, Shape, TypeInv, MemoryTyped, Typed, Row
  <2>2. QED
    BY <2>1 DEF Past
<1>3. EntriesPast'
  <2>1. \A q \in Provider : managed[q].row.config \in Nat
    BY ConnectorAssumption DEF Known, TypeInv, MemoryTyped, Entry, Row
  <2>2. QED
    BY <2>1 DEF Known, CInv, Bounded, EntriesPast
<1>4. \A q \in owing' \cup announced' : life'[q] # "none"
  BY DEF Known, CInv, Bounded, TypeInv, TablesTyped, HistoryTyped
<1>5. Calm'
  BY DEF Known, CInv, Calm, Upset, Busy
<1>6. /\ \A q \in Provider \ {p} : Current(q)' = Current(q) /\ Stands(q)' = Stands(q)
      /\ Visible' \subseteq Visible \cup {p}
  BY DEF Current, Stands, Visible
<1>7. ASSUME ~crossing', NEW k \in Activity PROVE InHandOf(task[k])' /\ OldOf(task[k])'
  <2>1. /\ InHandOf(task[k]) /\ OldOf(task[k])
        /\ task[k].at \subseteq Provider /\ DOMAIN task[k].rows \subseteq Provider
    BY <1>7 DEF Known, CInv, SInv, Shapes, Shape
  <2>2. InHandOf(task[k])'
    BY <2>1 DEF InHandOf, Reads
  <2>3. OldOf(task[k])'
    BY <1>6, <2>1 DEF OldOf, UpToDate, Complete, Reads, Visible
  <2>4. QED
    BY <2>2, <2>3
<1>8. ChangeIsOnItsWay'
  <2> SUFFICES ASSUME NEW q \in announced' \cap Visible' PROVE OnItsWay(q)'
    BY DEF ChangeIsOnItsWay
  <2>1. q \in Provider \ {p} /\ OnItsWay(q)
    BY <1>6 DEF Known, CInv, ChangeIsOnItsWay, Visible
  <2>2. QED
    BY <1>6, <2>1 DEF OnItsWay, ToBeRead, Brings, Reads
<1>9. QED
  BY <1>1, <1>2, <1>3, <1>4, <1>5, <1>7, <1>8 DEF CInv, Bounded

\* A change is announced while somebody listens, or is about to reconnect.
LEMMA NotifyKeeps ==
  ASSUME Known, IInv, NEW p \in Provider, NotifyChange(p) \/ NotifyFails(p)
  PROVE  CInv'
<1>1. /\ UNCHANGED <<task, managed, crossing, life, config, status, process, reconnecting, events>>
      /\ owing' \subseteq owing /\ announced' \subseteq announced \cup owing
  BY DEF NotifyChange, NotifyFails, memory, listenerVars
<1>2. batch \in Nat /\ listening \in Nat /\ attempt \in {"none", "first", "retry"}
      /\ events \in Nat
  BY DEF Known, TypeInv, TablesTyped, ListenerTypeOK
<1>3. batch' = batch \/ batch' = batch + listening
  BY DEF NotifyChange, NotifyFails
<1>4. ToBeRead => ToBeRead'
  BY <1>1, <1>2, <1>3 DEF ToBeRead
<1>5. announced' \subseteq announced \/ (ToBeRead' /\ ~Upset)
  <2> SUFFICES ASSUME ~(announced' \subseteq announced) PROVE ToBeRead' /\ ~Upset
    OBVIOUS
  <2>1. process = "up" /\ attempt # "first" /\ ~Upset /\ batch' = batch + listening
    BY DEF NotifyChange, NotifyFails
  <2>2. listening > 0 \/ reconnecting \/ events > 0
    BY <1>2, <2>1 DEF IInv, NeverDeaf, ReconnectingIsServed
  <2>3. QED
    BY <1>1, <1>2, <2>1, <2>2 DEF ToBeRead
<1>6. QED
  BY <1>1, <1>4, <1>5, StillKeeps

LEMMA ApiKeeps == ASSUME Known, IInv, NEW p \in Provider, Api(p) PROVE CInv'
<1>1. /\ life = [q \in Provider |-> life[q]] /\ config = [q \in Provider |-> config[q]]
      /\ status = [q \in Provider |-> status[q]] /\ config[p] \in Nat
  BY ConnectorAssumption DEF Known, TypeInv, TablesTyped
<1>2. Bounded
  BY DEF Known, CInv
<1>3. CASE CreateProvider(p)
  <2>1. /\ UNCHANGED <<task, managed, crossing, process, batch, reconnecting, events>>
        /\ UNCHANGED <<config, status, owing, announced>>
    BY <1>3 DEF CreateProvider, memory, history, listenerVars
  <2>2. life'[p] = "present" /\ \A q \in Provider \ {p} : life'[q] = life[q]
    BY <1>1, <1>3 DEF CreateProvider
  <2>3. p \notin announced /\ ~Current(p)'
    BY <1>2, <1>3, <2>1 DEF CreateProvider, Bounded, EntriesPast, Current
  <2>4. QED
    BY <1>1, <2>1, <2>2, <2>3, TableKeeps
<1>4. CASE DeleteProvider(p)
  <2>1. /\ UNCHANGED <<task, managed, crossing, process, batch, reconnecting, events>>
        /\ UNCHANGED <<config, status, owing>> /\ announced' = announced \ {p}
    BY <1>4 DEF DeleteProvider, memory, listenerVars
  <2>2. life'[p] = "deleted" /\ \A q \in Provider \ {p} : life'[q] = life[q]
    BY <1>1, <1>4 DEF DeleteProvider
  <2>3. p \notin Visible'
    BY <2>2 DEF Visible
  <2>4. QED
    BY <1>1, <2>1, <2>2, <2>3, TableKeeps
<1>5. ASSUME NEW s, ChangeProvider(p, s), s = "error" => status[p] = "error" PROVE CInv'
  <2>1. /\ UNCHANGED <<task, managed, crossing, process, batch, reconnecting, events>>
        /\ UNCHANGED life /\ owing' = owing \cup {p} /\ announced' = announced \ {p}
    BY <1>5 DEF ChangeProvider, memory, listenerVars
  <2>2. /\ config'[p] = config[p] + 1 /\ status'[p] = s /\ life'[p] = "present"
        /\ \A q \in Provider \ {p} : config'[q] = config[q] /\ status'[q] = status[q]
    BY <1>1, <1>5 DEF ChangeProvider
  <2>3. ~Current(p)'
    BY <1>1, <1>2, <2>1, <2>2 DEF Bounded, EntriesPast, Current
  <2>4. QED
    BY <1>1, <1>5, <2>1, <2>2, <2>3, TableKeeps
<1>6. QED
  BY <1>3, <1>4, <1>5, NotifyKeeps DEF Api

LEMMA CInvInit == Init => CInv
<1> SUFFICES ASSUME Init PROVE CInv
  OBVIOUS
<1>1. \A k \in Activity : task[k] = Idle
  BY DEF Init
<1>2. \A p \in Provider : managed[p].state = "none"
  BY DEF Init, Blank
<1>3. Idle.pc = "idle" /\ DOMAIN Idle.rows = {}
  BY DEF Idle
<1>4. Forms
  BY <1>1, IdleIsNothing DEF Forms
<1>5. Bounded /\ Attended
  BY <1>1, <1>2, <1>3 DEF Init, Bounded, Past, EntriesPast, Attended, AttendedAt
<1>6. Calm /\ ChangeIsOnItsWay
  BY DEF Init, Calm, ChangeIsOnItsWay
<1>7. \A k \in Activity : InHandOf(task[k]) /\ OldOf(task[k])
  BY <1>1, <1>3 DEF InHandOf, OldOf, Reads
<1>8. QED
  BY <1>4, <1>5, <1>6, <1>7 DEF CInv

LEMMA ChangesAreKept == Spec => []CInv
<1>1. TypeInv /\ SInv /\ IInv /\ CInv /\ [Next]_vars => CInv'
  BY ApiKeeps, CallsKeep, BootKeeps, UpKeeps, CrashKeeps, ActivitiesKeep DEF Next, Known
<1>2. QED
  BY <1>1, CInvInit, TypesHold, OwnershipHolds, InvariantHolds, PTL DEF Spec

\* A change that was notified never gets lost in between: it is still to be
\* read, in the hands of an activity, or what the connection was made for.
THEOREM ChangesAreOnTheirWay == Spec => []ChangeIsOnItsWay
<1>1. CInv => ChangeIsOnItsWay
  BY DEF CInv
<1>2. QED
  BY <1>1, ChangesAreKept, PTL

\* What is left of Converges but for fairness: when the connector has come to
\* rest, every notified change is applied.
THEOREM AtRestAllIsApplied == Spec => []AppliedAtRest
<1>1. CInv /\ TypeInv => AppliedAtRest
  <2> SUFFICES ASSUME CInv, TypeInv, AtRest, NEW p \in announced, p \in Visible
               PROVE  managed[p].state \in {"linked", "dead"} /\ managed[p].row.config = config[p]
    BY DEF AppliedAtRest, Applied
  <2>1. OnItsWay(p) /\ AttendedAt(p) /\ p \in Provider
    BY DEF CInv, ChangeIsOnItsWay, Attended, Visible
  <2>2. ~ToBeRead /\ \A k \in Activity : task[k].pc = "idle"
    BY DEF AtRest, ToBeRead, Busy, TypeInv, TablesTyped, ListenerTypeOK
  <2>3. Stands(p) /\ managed[p].state # "opening"
    BY <2>1, <2>2 DEF OnItsWay, Brings, Reads, AttendedAt
  <2>4. QED
    BY <2>3 DEF Stands, Current
<1>2. QED
  BY <1>1, ChangesAreKept, TypesHold, PTL
=============================================================================
