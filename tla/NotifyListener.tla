--------------------------- MODULE NotifyListener ---------------------------
(***************************************************************************)
(* src/worker/listener.ts: a pg client in LISTEN mode that reconnects by   *)
(* itself.  Clients are anonymous, and this.client is read by stop() only, *)
(* so the module counts clients instead of naming them.  Deliveries are    *)
(* actions of the process that owns the listener (HaConnector); it also    *)
(* decides when the listener starts, and what a flush does.                *)
(*                                                                         *)
(* A client that loses its connection owes the listener two events,        *)
(* 'error' and 'end', each of which runs handleDisconnect().  Nothing ties *)
(* them to the next client: they may come while it connects, or later.     *)
(***************************************************************************)
EXTENDS Integers

CONSTANT MaxFaults  \* lost connections, failing attempts and the owner's faults

ASSUME FaultsAssumption == MaxFaults \in Nat

VARIABLES
  attempt,       \* the pending connect(): the first one, a retry, or none
  reconnecting,  \* this.reconnecting
  retryTimer,    \* whether the timer of scheduleReconnect() is armed
  listening,     \* clients that are subscribed to every channel
  events,        \* 'error' and 'end' events of lost clients still to come
  faults         \* so far

listenerVars == <<attempt, reconnecting, retryTimer, listening, events>>

Fault == faults < MaxFaults /\ faults' = faults + 1

ListenerTypeOK ==
  /\ attempt \in {"none", "first", "retry"}
  /\ reconnecting \in BOOLEAN /\ retryTimer \in BOOLEAN
  /\ listening \in Nat /\ events \in Nat /\ faults \in 0..MaxFaults

ListenerInit ==
  /\ attempt = "none"
  /\ reconnecting = FALSE /\ retryTimer = FALSE
  /\ listening = 0 /\ events = 0 /\ faults = 0

\* start(): the first connect().
StartListening ==
  /\ attempt' = "first"
  /\ UNCHANGED <<reconnecting, retryTimer, listening, events>>

\* While a timer is armed or a retry is pending, reconnecting is true and the
\* call does nothing.
scheduleReconnect ==
  /\ reconnecting' = TRUE
  /\ retryTimer' = (retryTimer \/ ~reconnecting)

\* The timer fires and calls connect() with reconnecting still true.
Retry ==
  /\ retryTimer
  /\ retryTimer' = FALSE
  /\ attempt' = "retry"
  /\ UNCHANGED <<reconnecting, listening, events, faults>>

\* Every LISTEN is answered.  The owner's onReconnect() follows a retry only.
Listens ==
  /\ attempt # "none"
  /\ attempt' = "none"
  /\ listening' = listening + 1
  /\ reconnecting' = (reconnecting /\ attempt # "retry")
  /\ UNCHANGED <<retryTimer, events>>

\* Mutant of AttemptFails, the error the comment in scheduleReconnect() tells
\* of: a retry that failed leaves reconnecting true and arms no timer.
BugAttemptFails ==
  /\ attempt # "none"
  /\ Fault
  /\ attempt' = "none"
  /\ scheduleReconnect
  /\ \/ \E n \in 1..2 : events' = events + n /\ UNCHANGED listening
     \/ listening' = listening + 1 /\ UNCHANGED events

\* connect() rejects: its connection failed ('end', and 'error' if it had been
\* up), or a LISTEN was refused and the client is left behind, subscribed to
\* the channels before.  connect()'s own scheduleReconnect() serves the first
\* attempt; after a retry the timer's then() clears reconnecting and schedules.
AttemptFails ==
  /\ attempt # "none"
  /\ Fault
  /\ attempt' = "none"
  /\ IF attempt = "retry" THEN reconnecting' = TRUE /\ retryTimer' = TRUE
                          ELSE scheduleReconnect
  /\ \/ \E n \in 1..2 : events' = events + n /\ UNCHANGED listening
     \/ listening' = listening + 1 /\ UNCHANGED events

\* A subscribed client loses its connection.  Until its events come, the
\* server's notifications go nowhere.
Lost ==
  /\ listening > 0
  /\ Fault
  /\ listening' = listening - 1
  /\ events' = events + 2
  /\ UNCHANGED <<attempt, reconnecting, retryTimer>>

\* One of the events; no matter which client is this.client by now.
handleDisconnect ==
  /\ events > 0
  /\ events' = events - 1
  /\ scheduleReconnect
  /\ UNCHANGED <<attempt, listening, faults>>

\* The process ends and takes its clients with it.
ListenerDies ==
  /\ attempt' = "none"
  /\ reconnecting' = FALSE /\ retryTimer' = FALSE
  /\ listening' = 0 /\ events' = 0

\* What the listener does by itself.
ListenerStep == Retry \/ AttemptFails \/ Lost \/ handleDisconnect
=============================================================================
