------------------------------ MODULE AtLeastOnce ------------------------------
(***************************************************************************)
(* What a durable queue of this system promises, whatever its rows, locks  *)
(* and workers look like: a task that was submitted is performed at least  *)
(* once before it counts as done, done is for good, and a task that is     *)
(* neither done nor given up can still become either.  It does not promise *)
(* that a task is performed only once, or not after it is done or given    *)
(* up.  WebhookOutbox and JobQueue implement it (ImplementsTasks there).   *)
(***************************************************************************)
CONSTANT Task

VARIABLES
  state,      \* state[t]: "none", "open", "done" or "given up"
  performed   \* tasks whose effect has happened

taskVars == <<state, performed>>

Init ==
  /\ state = [t \in Task |-> "none"]
  /\ performed = {}

Submit(t) ==
  /\ state[t] = "none"
  /\ state' = [state EXCEPT ![t] = "open"]
  /\ UNCHANGED performed

\* A worker that was too slow may still be at a task others have settled.
Perform(t) ==
  /\ state[t] # "none"
  /\ performed' = performed \cup {t}
  /\ UNCHANGED state

Finish(t) ==
  /\ state[t] \in {"open", "given up"}
  /\ t \in performed
  /\ state' = [state EXCEPT ![t] = "done"]
  /\ UNCHANGED performed

GiveUp(t) ==
  /\ state[t] = "open"
  /\ state' = [state EXCEPT ![t] = "given up"]
  /\ UNCHANGED performed

\* An operator asks for another try.
Revive(t) ==
  /\ state[t] = "given up"
  /\ state' = [state EXCEPT ![t] = "open"]
  /\ UNCHANGED performed

Next == \E t \in Task : Submit(t) \/ Perform(t) \/ Finish(t) \/ GiveUp(t) \/ Revive(t)

Spec == Init /\ [][Next]_taskVars
=============================================================================
