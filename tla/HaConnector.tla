---------------------------- MODULE HaConnector ----------------------------
(***************************************************************************)
(* The Home Assistant connector (src/ha-connector/run.ts, lifecycle.ts):   *)
(* a process that holds one connection for every row of geo_provider that  *)
(* is not deleted and not in status 'error', and compares the two whenever *)
(* its NotifyListener delivers a change or has reconnected.                *)
(*                                                                         *)
(* Every notification starts a reconcile() that nobody awaits, so several  *)
(* run at once; what a reconcile() does between two of its awaits is one   *)
(* step here.  The API (src/api/server.ts) changes the table.  config[p]   *)
(* stands for the configuration and the credentials, and counts changes.   *)
(* A graceful shutdown ends, like a crash, with a process that holds       *)
(* nothing (Crash).  Calls of Home Assistant services, which share the     *)
(* listener, and the events that connections deliver are left out.         *)
(***************************************************************************)
EXTENDS NotifyListener, FiniteSets, Functions

CONSTANTS
  Provider,     \* ids of geo_provider, numbers in the order of created_at
  Call,         \* reconcile() calls that may run at once: numbers too
  MaxChanges    \* changes of each provider that the API makes

ASSUME ConnectorAssumption ==
  /\ Provider \subseteq Nat /\ Call \subseteq Nat /\ Call \cap Provider = {}
  /\ MaxChanges \in Nat

VARIABLES
  life,       \* whether a row exists: "none", "present" or "deleted"
  config, status,  \* its columns
  owing,      \* changes that are committed while their NOTIFY is still to come
  process,    \* "down", "booting" (lifecycle.start()) or "up"
  managed,    \* this.managed: fingerprint, connection and the activity opening it
  strays,     \* providers with a connection that managed does not refer to
  task,       \* the activities: reconcile() calls and the boot's addProvider()s
  batch,      \* notifications that wait for the debounce timer
  announced,  \* history: providers whose last change was notified, see Converges
  mishaps,    \* history: what makes strays, see StrayIsExplained
  crossing    \* history: activities have crossed, see Upset

table == <<life, config, status, owing>>
memory == <<managed, strays, task>>
history == <<announced, mishaps, crossing, faults>>
vars == <<listenerVars, table, process, memory, batch, history>>

Activity == Call \cup Provider
NoActivity == -1

\* providerFingerprint(): configuration, credentials and status.
Row == [config : 0..MaxChanges, status : {"inactive", "active", "error"}]
RowOf(p) == [config |-> config[p], status |-> status[p]]

\* "opening": addProvider() awaits the connection, mp.connection is null;
\* "dead": the attempt failed, it stays null.
Entry == [row : Row, state : {"none", "opening", "linked", "closed", "dead"},
          by : Activity \cup {NoActivity}]
Blank == [row |-> [config |-> 0, status |-> "inactive"], state |-> "none", by |-> NoActivity]
Managed == {p \in Provider : managed[p].state # "none"}

Idle == [pc |-> "idle", rows |-> <<>>, known |-> {}, drop |-> {}, at |-> {}, stale |-> {}]
Busy(k) == task[k].pc # "idle"
\* Activities have crossed, and some activity has been running ever since.
Upset == crossing /\ \E k \in Activity : Busy(k)

FreeCalls == {k \in Call : ~Busy(k)}
FirstFree(n) == {k \in FreeCalls : Cardinality({j \in FreeCalls : j < k}) < n}

TypeOK ==
  /\ ListenerTypeOK
  /\ life \in [Provider -> {"none", "present", "deleted"}]
  /\ config \in [Provider -> 0..MaxChanges]
  /\ status \in [Provider -> {"inactive", "active", "error"}]
  /\ owing \subseteq Provider
  /\ process \in {"down", "booting", "up"}
  /\ managed \in [Provider -> Entry]
  /\ strays \subseteq Provider
  /\ \A k \in Activity :
       /\ task[k].pc \in {"idle", "fetching", "fetched", "looping", "closing",
                          "opening", "opened", "failed"}
       /\ task[k].known \cup task[k].drop \cup task[k].at \cup task[k].stale \subseteq Provider
  /\ batch \in Nat
  /\ announced \subseteq Provider
  /\ mishaps \subseteq {"crossed", "unconnected"} /\ crossing \in BOOLEAN

Init ==
  /\ ListenerInit
  /\ life \in [Provider -> {"none", "present"}]
  /\ config = [p \in Provider |-> 0]
  /\ status = [p \in Provider |-> "inactive"]
  /\ owing = {} /\ announced = {}
  /\ process = "down"
  /\ managed = [p \in Provider |-> Blank] /\ strays = {}
  /\ task = [k \in Activity |-> Idle]
  /\ batch = 0 /\ mishaps = {} /\ crossing = FALSE

-----------------------------------------------------------------------------
\* The API.  Every change is a committed statement; those that notify do so in
\* a second one.

\* POST and DELETE notify nobody.
CreateProvider(p) ==
  /\ life[p] = "none"
  /\ life' = [life EXCEPT ![p] = "present"]
  /\ UNCHANGED <<config, status, owing, listenerVars, process, memory, batch, history>>

DeleteProvider(p) ==
  /\ life[p] = "present"
  /\ life' = [life EXCEPT ![p] = "deleted"]
  /\ announced' = announced \ {p}
  /\ UNCHANGED <<config, status, owing, listenerVars, process, memory, batch, mishaps, crossing, faults>>

\* PATCH leaves the status as it is, the OAuth callback makes it 'active'.
ChangeProvider(p, newStatus) ==
  /\ life[p] = "present" /\ config[p] < MaxChanges
  /\ config' = [config EXCEPT ![p] = @ + 1]
  /\ status' = [status EXCEPT ![p] = newStatus]
  /\ owing' = owing \cup {p}
  /\ announced' = announced \ {p}
  /\ UNCHANGED <<life, listenerVars, process, memory, batch, mishaps, crossing, faults>>

\* pg_notify: every subscribed client gets it.  A change that is notified
\* before the first LISTEN is missed: only a retry is followed by onReconnect().
\* One that is notified while activities run that have crossed, or run beside
\* such, may be undone by them.
NotifyChange(p) ==
  /\ p \in owing
  /\ batch + listening <= Cardinality(Call)
  /\ owing' = owing \ {p}
  /\ batch' = batch + listening
  /\ announced' = IF process = "up" /\ attempt # "first" /\ ~Upset
                  THEN announced \cup {p} ELSE announced
  /\ UNCHANGED <<life, config, status, listenerVars, process, memory, mishaps, crossing, faults>>

NotifyFails(p) ==
  /\ p \in owing
  /\ Fault
  /\ owing' = owing \ {p}
  /\ UNCHANGED <<life, config, status, listenerVars, process, memory, batch, announced, mishaps, crossing>>

-----------------------------------------------------------------------------
\* addProvider() and removeProvider().  A task that starts to work on a
\* provider makes what the others have read of it stale; one that works on a
\* provider with a stale row crosses with them.
Crossed(yes) ==
  IF yes THEN mishaps' = mishaps \cup {"crossed"} /\ announced' = {} /\ crossing' = TRUE
         ELSE UNCHANGED <<mishaps, announced, crossing>>

Proceed(k, t, p) ==
  /\ task' = [j \in Activity |->
                IF j = k THEN [t EXCEPT !.stale = @ \ {p}]
                ELSE IF Busy(j) THEN [task[j] EXCEPT !.stale = @ \cup {p}] ELSE task[j]]
  /\ Crossed(p \in t.stale)

\* An open connection is lost sight of when its entry is overwritten or deleted.
Forgets ==
  strays' = strays \cup {p \in Provider :
    managed[p].state = "linked" /\ managed'[p].state \notin {"linked", "closed"}}

addProvider(k, t, p) ==
  /\ managed' = [managed EXCEPT ![p] = [row |-> t.rows[p], state |-> "opening", by |-> k]]
  /\ Proceed(k, [t EXCEPT !.pc = "opening", !.at = {p}, !.rows = Restrict(@, DOMAIN @ \ {p})], p)

\* disconnect() closes the connection at once; the entry is deleted when it
\* and the router's processors have returned.
disconnect(k, t, p) ==
  /\ managed' = [managed EXCEPT ![p].state = "closed"]
  /\ Proceed(k, [t EXCEPT !.pc = "closing", !.at = {p}], p)

Linked(p) == managed[p].state \in {"linked", "closed"}

\* Mutant of removeProvider: the entry is deleted, its connection stays open.
BugRemoveKeepsConnection(k, t, p) ==
  /\ managed' = [managed EXCEPT ![p] = Blank]
  /\ Proceed(k, [t EXCEPT !.pc = "looping"], p)

removeProvider(k, t, p) ==
  IF Linked(p)
  THEN disconnect(k, t, p)
  ELSE /\ managed' = [managed EXCEPT ![p] = Blank]
       /\ Proceed(k, [t EXCEPT !.pc = "looping"], p)

-----------------------------------------------------------------------------
\* reconcile()

\* Notifications and onReconnect() start it.
StartCalls(n) ==
  /\ n <= Cardinality(FreeCalls)
  /\ crossing' = Upset
  /\ task' = [k \in Activity |->
                IF k \in FirstFree(n) THEN [Idle EXCEPT !.pc = "fetching"] ELSE task[k]]

Flush ==
  /\ process = "up" /\ batch > 0
  /\ StartCalls(batch)
  /\ batch' = 0
  /\ UNCHANGED <<listenerVars, table, process, managed, strays, announced, mishaps, faults>>

Visible == {p \in Provider : life[p] = "present" /\ status[p] # "error"}

\* The SELECT is executed; its rows are on their way.
fetchProviders(k) ==
  /\ task[k].pc = "fetching"
  /\ task' = [task EXCEPT ![k] =
       [@ EXCEPT !.pc = "fetched", !.rows = [p \in Visible |-> RowOf(p)],
                 !.stale = UNION {task[j].at : j \in Activity}]]
  /\ UNCHANGED <<listenerVars, table, process, managed, strays, batch, history>>

\* The rejection is unhandled: it ends the process (Crash) or, with Sentry's
\* handler installed, only the call.
FetchFails(k) ==
  /\ task[k].pc = "fetching"
  /\ Fault
  /\ task' = [task EXCEPT ![k] = Idle]
  /\ announced' = {}
  /\ UNCHANGED <<listenerVars, table, process, managed, strays, batch, mishaps, crossing>>

\* The rows that the second loop does not pass over.
Differing(t) ==
  {p \in DOMAIN t.rows : p \in t.known \cap Managed => managed[p].row # t.rows[p]}

\* A row that is passed over because it equals an entry that another call is
\* about to delete.
Misled(k, t) ==
  \E j \in Call \ {k} : task[j].pc = "closing" /\
    \E q \in task[j].at \cap DOMAIN t.rows : \A p \in Differing(t) : q < p

\* `existing` is undefined, though its id was listed: the call ends, and what
\* it still had to do is not done.
Abandons(k) ==
  /\ task' = [task EXCEPT ![k] = Idle]
  /\ Crossed(TRUE)
  /\ UNCHANGED managed

\* Rows come ORDER BY created_at.
First(S) == {p \in S : \A q \in S : p <= q}

\* From one await to the next.
Visit(k, t) ==
  /\ \/ /\ t.drop # {}
        /\ \E p \in First(t.drop) :
             IF p \in Managed
             THEN removeProvider(k, [t EXCEPT !.drop = @ \ {p}], p)
             ELSE /\ task' = [task EXCEPT ![k] = [t EXCEPT !.pc = "looping", !.drop = @ \ {p}]]
                  /\ UNCHANGED <<managed, mishaps, announced, crossing>>
     \/ /\ t.drop = {} /\ Differing(t) = {}
        /\ task' = [task EXCEPT ![k] = Idle]
        /\ Crossed(Misled(k, t))
        /\ UNCHANGED managed
     \/ /\ t.drop = {} /\ Differing(t) # {}
        /\ \E p \in First(Differing(t)) :
             LET u == [t EXCEPT !.rows = Restrict(@, {q \in DOMAIN @ : q >= p}),
                                !.stale = IF Misled(k, t) THEN @ \cup {p} ELSE @]
             IN  IF p \in t.known \ Managed THEN Abandons(k)
                 ELSE IF p \in t.known /\ Linked(p) THEN disconnect(k, u, p)
                 ELSE addProvider(k, u, p)
  /\ Forgets
  /\ UNCHANGED <<listenerVars, table, process, batch, faults>>

\* The rows arrive: what is managed now is compared with what was read.
Resume(k) ==
  /\ task[k].pc = "fetched"
  /\ Visit(k, [task[k] EXCEPT !.known = Managed, !.drop = Managed \ DOMAIN task[k].rows])

Loop(k) == task[k].pc = "looping" /\ Visit(k, task[k])

\* disconnect() has returned, or thrown: the entry is deleted, whatever it is
\* by now, and a changed provider added again.
Disconnected(k) ==
  /\ task[k].pc = "closing"
  /\ \E p \in task[k].at :
       IF p \in DOMAIN task[k].rows
       THEN addProvider(k, task[k], p)
       ELSE /\ managed' = [managed EXCEPT ![p] = Blank]
            /\ task' = [task EXCEPT ![k].pc = "looping", ![k].at = {}]
            /\ UNCHANGED <<mishaps, announced, crossing>>
  /\ Forgets
  /\ UNCHANGED <<listenerVars, table, process, batch, faults>>

-----------------------------------------------------------------------------
\* The connection attempt of addProvider() and its outcome.  mp, which it
\* writes to, may no longer be the entry of the provider.
Settles(k, result) ==
  managed' = [p \in Provider |->
    IF managed[p].by = k THEN [managed[p] EXCEPT !.state = result, !.by = NoActivity]
                         ELSE managed[p]]
Replaced(k) == {p \in task[k].at : managed[p].by # k}

Connects(k) ==
  /\ task[k].pc = "opening"
  /\ Settles(k, "linked")
  /\ strays' = strays \cup Replaced(k)
  /\ task' = [task EXCEPT ![k].pc = "opened"]
  /\ UNCHANGED <<listenerVars, table, process, batch, history>>

\* Refused credentials, a socket error or the thirty-second timeout; unless the
\* plugin or the decryption failed, the socket's close handler reconnects for
\* ever, because nobody set disconnecting.
ConnectFails(k) ==
  /\ task[k].pc = "opening"
  /\ Fault
  /\ Settles(k, "dead")
  /\ task' = [task EXCEPT ![k].pc = "failed"]
  /\ \/ UNCHANGED <<strays, mishaps>>
     \/ strays' = strays \cup task[k].at /\ mishaps' = mishaps \cup {"unconnected"}
  /\ UNCHANGED <<listenerVars, table, process, batch, announced, crossing>>

\* After addProvider() a reconcile() goes on, a boot task is done.
Added(k) ==
  task' = [task EXCEPT ![k] =
    IF k \in Provider THEN Idle ELSE [@ EXCEPT !.pc = "looping", !.at = {}]]

updateStatus(k) ==
  /\ task[k].pc \in {"opened", "failed"}
  /\ status' = [p \in Provider |->
       IF p \notin task[k].at THEN status[p]
       ELSE IF task[k].pc = "opened" THEN "active" ELSE "error"]
  /\ Added(k)
  /\ UNCHANGED <<listenerVars, life, config, owing, process, managed, strays, batch, history>>

\* updateStatus() logs a failing statement and returns.
UpdateFails(k) ==
  /\ task[k].pc \in {"opened", "failed"}
  /\ Fault
  /\ Added(k)
  /\ UNCHANGED <<listenerVars, table, process, managed, strays, batch, announced, mishaps, crossing>>

-----------------------------------------------------------------------------
\* The process.

\* lifecycle.start() adds every row it reads at the same time ...
Boot ==
  /\ process = "down"
  /\ process' = "booting"
  /\ task' = [k \in Activity |->
       IF k \in Visible THEN [Idle EXCEPT !.pc = "looping", !.rows = [p \in {k} |-> RowOf(p)]]
                        ELSE Idle]
  /\ crossing' = FALSE
  /\ UNCHANGED <<listenerVars, table, managed, strays, batch, announced, mishaps, faults>>

\* ... and the listener starts when all of them have returned.
Up ==
  /\ process = "booting" /\ \A k \in Activity : ~Busy(k)
  /\ process' = "up"
  /\ StartListening
  /\ UNCHANGED <<table, memory, batch, history>>

\* Mutant of ListenerConnects: no onReconnect() after a retry.
BugReconnectsSilently ==
  /\ Listens
  /\ UNCHANGED <<table, process, memory, batch, history>>

\* Only a retry is followed by onReconnect() and its reconcile().
ListenerConnects ==
  /\ Listens
  /\ IF attempt = "retry" THEN StartCalls(1) ELSE UNCHANGED <<task, crossing>>
  /\ UNCHANGED <<table, process, managed, strays, batch, announced, mishaps, faults>>

Listening == ListenerStep /\ UNCHANGED <<table, process, memory, batch, announced, mishaps, crossing>>

Crash ==
  /\ process # "down"
  /\ Fault
  /\ process' = "down"
  /\ ListenerDies
  /\ managed' = [p \in Provider |-> Blank] /\ strays' = {}
  /\ task' = [k \in Activity |-> Idle]
  /\ batch' = 0
  /\ UNCHANGED <<table, announced, mishaps, crossing>>

Activities(k) ==
  \/ fetchProviders(k) \/ FetchFails(k) \/ Resume(k) \/ Loop(k) \/ Disconnected(k)
  \/ Connects(k) \/ ConnectFails(k) \/ updateStatus(k) \/ UpdateFails(k)

Api(p) ==
  \/ CreateProvider(p) \/ DeleteProvider(p)
  \/ ChangeProvider(p, status[p]) \/ ChangeProvider(p, "active")
  \/ NotifyChange(p) \/ NotifyFails(p)

Next ==
  \/ \E p \in Provider : Api(p)
  \/ Flush \/ Boot \/ Up \/ ListenerConnects \/ Listening \/ Crash
  \/ \E k \in Activity : Activities(k)

Spec == Init /\ [][Next]_vars

\* The process is restarted, its timers fire, its statements and connection
\* attempts return; the API's requests are nobody's duty.
Fairness ==
  /\ WF_vars(Boot) /\ WF_vars(Up) /\ WF_vars(Flush) /\ WF_vars(ListenerConnects)
  /\ WF_vars(Retry /\ UNCHANGED <<table, process, memory, batch, announced, mishaps, crossing>>)
  /\ WF_vars(handleDisconnect /\ UNCHANGED <<table, process, memory, batch, announced, mishaps, crossing>>)
  /\ \A k \in Activity : WF_vars(Activities(k))

FairSpec == Spec /\ Fairness
-----------------------------------------------------------------------------
\* A running connector that nobody notifies any more will subscribe again: an
\* attempt is pending, a retry is armed, or a lost client's event is to come.
NeverDeaf ==
  process = "up" /\ listening = 0 => attempt # "none" \/ retryTimer \/ events > 0

\* Every connection that is open, or reconnects by itself, is one that the
\* manager can still disconnect, unless two reconcile() calls worked on one
\* provider with what they had read before ("crossed"), or a connection failed
\* while it was opened ("unconnected").
StrayIsExplained == strays # {} => mishaps # {}

\* A change that was notified is applied in the end, also if the notification
\* came while nobody listened: the last connection that was tried is one of the
\* new configuration.  It is not, until the next change, if calls cross or a
\* reconcile() cannot read the table.
Applied(p) ==
  p \in Visible => managed[p].state \in {"linked", "dead"} /\ managed[p].row.config = config[p]
Converges == <>[](\A p \in announced : Applied(p))
=============================================================================
