-------------------------- MODULE ChatReplies_proofs --------------------------
(***************************************************************************)
(* Theorems about ChatReplies, for any number of runs, parts, tasks,       *)
(* events and faults.                                                      *)
(***************************************************************************)
EXTENDS ChatReplies, TLAPS, FiniteSetTheorems

USE DEF vars, agents, router, manager, user, database

-----------------------------------------------------------------------------
(***************************************************************************)
(* Types, and what a task carries: a part its run has sent, or the end its *)
(* run has come to, which alone decides which awaits the task goes         *)
(* through.                                                                *)
(***************************************************************************)
Flags == active \in BOOLEAN /\ timeoutTimer \in BOOLEAN /\ terminated \in BOOLEAN

Kinds == {"none", "part", "final", "aborted", "completed", "failed"}

Tables ==
  /\ replies \in [Run -> Nat]
  /\ sent \in [Run -> 0..MaxSeq] /\ repeated \in [Run -> Nat] /\ events \in Nat
  /\ ending \in [Run -> {"none", "final", "aborted", "completed", "failed"}]
  /\ task \in [Task -> [at : {"idle", "lookup", "insert", "update", "mark"},
                         run : Run \cup {NoRun}, kind : Kinds, seq : 0..MaxSeq]]
  /\ seenSeqs \in [WsRun -> SUBSET Seq] /\ terminatedRuns \subseteq WsRun
  /\ forgotten \subseteq WsRun
  /\ stream \in [run : Run \cup {NoRun}, last : 0..MaxSeq]
  /\ strayTimers \in Nat
  /\ shown \in [Run -> SUBSET Seq] /\ again \subseteq Run
  /\ told \in [Run -> {"none", "reply", "aborted", "failed"}]
  /\ unannounced \subseteq Run /\ faults \in Nat

Awaited(kind) ==
  CASE kind \in {"final", "completed"} -> {"lookup", "insert", "update"}
    [] kind = "failed"                 -> {"lookup", "mark"}
    [] kind = "aborted"                -> {"lookup"}

CarriesPart(t) ==
  /\ task[t].at = "lookup" /\ task[t].kind = "part"
  /\ task[t].run \in Run /\ task[t].seq \in 1..sent[task[t].run]

CarriesEnd(t) ==
  /\ task[t].run \in Run
  /\ task[t].kind \in Ends(task[t].run) /\ task[t].kind = ending[task[t].run]
  /\ task[t].at \in Awaited(task[t].kind)

TaskOK(t) == task[t] = Idle \/ CarriesPart(t) \/ CarriesEnd(t)

TaskInv ==
  /\ \A r \in Run : ending[r] \in Ends(r) \cup {"none"}
  /\ \A t \in Task : TaskOK(t)

LEMMA TypeParts == TypeOK <=> Flags /\ Tables
  BY Zenon DEF TypeOK, Flags, Tables, Kinds

LEMMA FaultIsCounted == ASSUME faults \in Nat, Fault PROVE faults' \in Nat
  BY DEF Fault

\* What the task of a step carries.
LEMMA Carried ==
  ASSUME TaskInv, NEW t \in Task, task[t].at # "idle"
  PROVE  /\ task[t].run \in Run
         /\ task[t].kind = "part" => task[t].at = "lookup" /\ task[t].seq \in 1..sent[task[t].run]
         /\ task[t].kind # "part" => CarriesEnd(t)
         /\ task[t].kind \in {"final", "aborted"} => task[t].run \in WsRun
         /\ task[t].kind \in {"completed", "failed"} =>
              task[t].run \in HttpRun /\ task[t].run \notin WsRun
<1>1. task[t] # Idle
  BY DEF Idle
<1>2. CASE CarriesPart(t)
  BY <1>2 DEF CarriesPart
<1>3. CASE CarriesEnd(t)
  BY <1>3, RunAssumption DEF CarriesEnd, Ends, Run
<1>4. QED BY <1>1, <1>2, <1>3 DEF TaskInv, TaskOK

LEMMA InitTypes == Init => Flags /\ Tables /\ TaskInv
<1> SUFFICES ASSUME Init PROVE Flags /\ Tables /\ TaskInv
  OBVIOUS
<1>1. Flags
  BY Zenon DEF Init, Flags
<1>2. Tables
  BY BoundsAssumption DEF Init, Tables, Idle, NoStream, Kinds
<1>3. TaskInv
  BY DEF Init, TaskInv, TaskOK
<1>4. QED BY <1>1, <1>2, <1>3

-----------------------------------------------------------------------------
\* What an agent sends is what its task then carries.
LEMMA SendTypes ==
  ASSUME Tables, TaskInv, NEW t \in Task, Send(t)
  PROVE  Tables' /\ TaskInv'
<1>1. PICK r \in Run : \/ \E n \in Seq : SendPart(t, r, n)
                       \/ \E kind \in Ends(r) : SendEnd(t, r, kind)
                       \/ SendAgain(t, r)
  BY DEF Send
<1>2. \A i \in Run : sent[i] \in 0..MaxSeq
  BY DEF Tables
<1>3. ASSUME NEW kind \in Kinds, NEW n \in 0..MaxSeq, Arrives(t, r, kind, n),
             sent' \in [Run -> 0..MaxSeq], \A i \in Run : sent'[i] >= sent[i],
             ending' \in [Run -> {"none", "final", "aborted", "completed", "failed"}],
             \A i \in Run : ending[i] # "none" => ending'[i] = ending[i],
             repeated' \in [Run -> Nat],
             \A i \in Run : ending'[i] \in Ends(i) \cup {"none"},
             \/ kind = "part" /\ n \in 1..sent'[r]
             \/ kind \in Ends(r) /\ kind = ending'[r]
      PROVE  Tables' /\ TaskInv'
  <2> DEFINE new == [at |-> "lookup", run |-> r, kind |-> kind, seq |-> n]
  <2>1. /\ events' \in Nat /\ task' = [task EXCEPT ![t] = new]
        /\ UNCHANGED <<router, manager, user, database, unannounced, faults>>
    BY <1>3 DEF Arrives, Tables
  <2>2. Tables'
    BY <1>3, <2>1 DEF Tables
  <2>3. task'[t] = new
    BY <2>1 DEF Tables
  <2>4. TaskOK(t)'
    BY <1>3, <2>3 DEF TaskOK, CarriesPart, CarriesEnd, Awaited, Ends
  <2>5. ASSUME NEW u \in Task, u # t PROVE TaskOK(u)'
    <3>1. task'[u] = task[u]
      BY <2>1, <2>5 DEF Tables
    <3>2. CASE CarriesPart(u)
      <4>1. /\ task[u].run \in Run /\ task[u].seq \in 1..sent[task[u].run]
            /\ sent'[task[u].run] >= sent[task[u].run] /\ sent'[task[u].run] \in 0..MaxSeq
        BY <1>3, <3>2 DEF CarriesPart
      <4>2. sent[task[u].run] \in Nat /\ sent'[task[u].run] \in Nat
        BY <1>2, <4>1
      <4>3. task[u].seq \in 1..sent'[task[u].run]
        BY <4>1, <4>2
      <4>4. QED BY <3>1, <3>2, <4>3 DEF CarriesPart, TaskOK
    <3>3. CASE CarriesEnd(u)
      <4>1. ending[task[u].run] # "none"
        BY <3>3 DEF CarriesEnd, Ends
      <4>2. QED BY <1>3, <3>1, <3>3, <4>1 DEF CarriesEnd, TaskOK
    <3>4. QED BY <3>1, <3>2, <3>3 DEF TaskInv, TaskOK
  <2>6. QED BY <1>3, <2>2, <2>4, <2>5 DEF TaskInv
<1>4. ASSUME NEW n \in Seq, SendPart(t, r, n) PROVE Tables' /\ TaskInv'
  BY <1>2, <1>3, <1>4, BoundsAssumption DEF SendPart, Seq, Kinds, Tables, TaskInv
<1>5. ASSUME NEW kind \in Ends(r), SendEnd(t, r, kind) PROVE Tables' /\ TaskInv'
  <2>1. kind \in Kinds \ {"none", "part"}
    BY DEF Ends, Kinds
  <2>2. 0 \in 0..MaxSeq
    BY BoundsAssumption
  <2>3. QED BY <1>2, <1>3, <1>5, <2>1, <2>2 DEF SendEnd, Tables, TaskInv, Kinds
<1>6. CASE SendAgain(t, r)
  <2>1. /\ UNCHANGED <<sent, ending>>
        /\ repeated' \in [Run -> Nat]
    BY <1>6 DEF SendAgain, Tables
  <2>2. CASE \E n \in 1..sent[r] : Arrives(t, r, "part", n)
    BY <1>2, <1>3, <2>1, <2>2, BoundsAssumption DEF Kinds, Tables, TaskInv
  <2>3. CASE ending[r] # "none" /\ Arrives(t, r, ending[r], 0)
    <3>1. ending[r] \in Kinds /\ 0 \in 0..MaxSeq /\ ending[r] \in Ends(r)
      BY <2>3, BoundsAssumption DEF Tables, TaskInv, Kinds
    <3>2. QED BY <1>2, <1>3, <2>1, <2>3, <3>1 DEF Tables, TaskInv
  <2>4. QED BY <1>6, <2>2, <2>3 DEF SendAgain
<1>7. QED BY <1>1, <1>4, <1>5, <1>6

TaskType == task \in [Task -> [at : {"idle", "lookup", "insert", "update", "mark"},
                               run : Run \cup {NoRun}, kind : Kinds, seq : 0..MaxSeq]]

\* A task that goes on to an await of its own, or that is over, carries what it
\* did before, or nothing.
LEMMA TaskMoves ==
  ASSUME TaskType, TaskInv, UNCHANGED agents, NEW t \in Task, task[t].at # "idle",
         \/ return(t)
         \/ /\ task[t].kind # "part"
            /\ \E w \in Awaited(task[t].kind) : advance(t, w)
  PROVE  TaskType' /\ TaskInv'
<1>1. ASSUME NEW u \in Task, u # t PROVE TaskOK(u)'
  <2>1. task'[u] = task[u]
    BY <1>1 DEF return, advance, TaskType
  <2>2. QED BY <2>1 DEF TaskInv, TaskOK, CarriesPart, CarriesEnd
<1>2. CASE return(t)
  <2>1. TaskType'
    BY <1>2, BoundsAssumption DEF TaskType, return, Idle, Kinds
  <2>2. task'[t] = Idle
    BY <1>2 DEF return, TaskType
  <2>3. QED BY <1>1, <2>1, <2>2 DEF TaskInv, TaskOK
<1>3. ASSUME task[t].kind # "part", NEW w \in Awaited(task[t].kind), advance(t, w)
      PROVE  TaskType' /\ TaskInv'
  <2>1. CarriesEnd(t)
    BY <1>3, Carried
  <2>2. w \in {"lookup", "insert", "update", "mark"}
    BY <1>3, <2>1 DEF Awaited, CarriesEnd, Ends
  <2>3. task'[t] = [task[t] EXCEPT !.at = w]
    BY <1>3 DEF advance, TaskType
  <2>4. TaskType'
    BY <1>3, <2>2 DEF advance, TaskType
  <2>5. CarriesEnd(t)'
    BY <1>3, <2>1, <2>3 DEF CarriesEnd, TaskType
  <2>6. QED BY <1>1, <2>4, <2>5 DEF TaskInv, TaskOK
<1>4. QED BY <1>2, <1>3

\* How the statements of a task move it.
LEMMA StepMoves ==
  ASSUME TaskType, TaskInv, NEW t \in Task, Step(t)
  PROVE  /\ UNCHANGED agents /\ task[t].at # "idle"
         /\ TaskType' /\ TaskInv'
<1>1. CASE \/ Discard(t) \/ RefuseChunk(t) \/ LookupFails(t) \/ handleDelta(t) \/ handleAborted(t)
           \/ AnnounceFinal(t) \/ FinalFails(t) \/ handleChunk(t) \/ AnnounceCompleted(t)
           \/ CompletedFails(t) \/ AnnounceFailed(t)
  <2>1. return(t) /\ task[t].at # "idle" /\ UNCHANGED agents
    BY <1>1
    DEF Discard, RefuseChunk, LookupFails, handleDelta, handleAborted, AnnounceFinal, FinalFails,
        handleChunk, AnnounceCompleted, CompletedFails, AnnounceFailed, Awaits
  <2>2. QED BY <2>1, TaskMoves
<1>2. CASE \/ handleFinal(t) \/ InsertFinal(t) \/ handleCompleted(t) \/ InsertCompleted(t)
           \/ handleFailed(t)
  <2>1. /\ task[t].at # "idle" /\ UNCHANGED agents
        /\ task[t].kind \in {"final", "completed", "failed"}
        /\ \/ return(t)
           \/ task[t].kind \in {"final", "completed"} /\ (advance(t, "insert") \/ advance(t, "update"))
           \/ task[t].kind = "failed" /\ advance(t, "mark")
    BY <1>2 DEF handleFinal, InsertFinal, handleCompleted, InsertCompleted, handleFailed, Awaits
  <2>2. task[t].kind # "part"
    BY <2>1
  <2>3. return(t) \/ \E w \in Awaited(task[t].kind) : advance(t, w)
    BY <2>1 DEF Awaited
  <2>4. QED BY <2>1, <2>2, <2>3, TaskMoves
<1>3. QED BY <1>1, <1>2, Step(t) DEF Step

\* The tables of the router, the manager and the database keep their types.
LEMMA StepTypes ==
  ASSUME Tables, TaskInv, NEW t \in Task, Step(t)
  PROVE  Tables' /\ TaskInv'
<1> DEFINE r == task[t].run
           n == task[t].seq
<1>1. /\ UNCHANGED agents /\ task[t].at # "idle" /\ TaskType' /\ TaskInv'
  BY StepMoves DEF Tables, TaskType
<1>2. /\ r \in Run
      /\ task[t].kind = "part" => n \in Seq
      /\ task[t].kind \in {"final", "aborted"} => r \in WsRun
  <2>1. \A i \in Run : sent[i] \in 0..MaxSeq
    BY DEF Tables
  <2>2. QED BY <1>1, <2>1, Carried, BoundsAssumption DEF Seq
<1> HIDE DEF r, n
<1>3. SUFFICES Tables'
  BY <1>1
<1>4. CASE \/ Discard(t) \/ RefuseChunk(t) \/ LookupFails(t) \/ handleFinal(t)
  BY <1>1, <1>4, FaultIsCounted
  DEF Discard, RefuseChunk, LookupFails, handleFinal, Tables, TaskType
<1>5. CASE handleDelta(t) \/ handleChunk(t)
  <2>1. n \in Seq /\ n \in 0..MaxSeq
    BY <1>2, <1>5, BoundsAssumption DEF handleDelta, handleChunk, Awaits, Seq
  <2>2. /\ shown' \in [Run -> SUBSET Seq] /\ again' \subseteq Run /\ told' = told
    BY <1>2, <1>5, <2>1 DEF handleDelta, handleChunk, Show, Tables, r, n
  <2>3. seenSeqs' \in [WsRun -> SUBSET Seq]
    BY <1>5, <2>1 DEF handleDelta, handleChunk, Tables, r, n
  <2>4. stream' \in [run : Run \cup {NoRun}, last : 0..MaxSeq]
    BY <1>2, <1>5, <2>1 DEF handleDelta, handleChunk, Tables, r, n
  <2>5. UNCHANGED <<database, terminatedRuns, forgotten, strayTimers, unannounced, faults>>
    BY <1>5 DEF handleDelta, handleChunk
  <2>6. QED BY <1>1, <2>2, <2>3, <2>4, <2>5 DEF Tables, TaskType
<1>6. CASE handleAborted(t) \/ AnnounceFinal(t) \/ FinalFails(t)
  <2>1. r \in WsRun
    BY <1>2, <1>6 DEF handleAborted, AnnounceFinal, FinalFails, Awaits
  <2>2. terminateRun(r) /\ UNCHANGED <<manager, database, shown, again>>
    BY <1>6 DEF handleAborted, AnnounceFinal, FinalFails, Tell, r
  <2>3. seenSeqs' \in [WsRun -> SUBSET Seq] /\ terminatedRuns' \subseteq WsRun /\ forgotten' = forgotten
    BY <2>1, <2>2 DEF terminateRun, Tables
  <2>4. told' \in [Run -> {"none", "reply", "aborted", "failed"}]
    BY <1>2, <1>6 DEF handleAborted, AnnounceFinal, FinalFails, Tell, Tables, r
  <2>5. unannounced' \subseteq Run /\ faults' \in Nat
    BY <1>2, <1>6, FaultIsCounted DEF handleAborted, AnnounceFinal, FinalFails, Tables, r
  <2>6. QED BY <1>1, <2>2, <2>3, <2>4, <2>5 DEF Tables, TaskType
<1>7. CASE InsertFinal(t) \/ InsertCompleted(t)
  <2>1. replies' \in [Run -> Nat]
    BY <1>2, <1>7 DEF InsertFinal, InsertCompleted, Tables, r
  <2>2. QED BY <1>1, <1>7, <2>1 DEF InsertFinal, InsertCompleted, Tables, TaskType
<1>8. CASE handleCompleted(t) \/ handleFailed(t)
  <2>1. stream' \in [run : Run \cup {NoRun}, last : 0..MaxSeq] /\ strayTimers' = strayTimers
    BY <1>8, BoundsAssumption DEF handleCompleted, handleFailed, closeStream, NoStream, Tables
  <2>2. QED BY <1>1, <1>8, <2>1 DEF handleCompleted, handleFailed, Tables, TaskType
<1>9. CASE AnnounceCompleted(t) \/ AnnounceFailed(t)
  <2>1. told' \in [Run -> {"none", "reply", "aborted", "failed"}] /\ UNCHANGED <<shown, again>>
    BY <1>2, <1>9 DEF AnnounceCompleted, AnnounceFailed, Tell, Tables, r
  <2>2. QED BY <1>1, <1>9, <2>1 DEF AnnounceCompleted, AnnounceFailed, Tables, TaskType
<1>10. CASE CompletedFails(t)
  <2>1. unannounced' \subseteq Run /\ faults' \in Nat
    BY <1>2, <1>10, FaultIsCounted DEF CompletedFails, Tables, r
  <2>2. QED BY <1>1, <1>10, <2>1 DEF CompletedFails, Tables, TaskType
<1>11. QED
  BY <1>4, <1>5, <1>6, <1>7, <1>8, <1>9, <1>10, Step(t) DEF Step

\* Timers, the end of the session and a crash.
LEMMA OtherTypes ==
  ASSUME Tables, TaskInv, Timer \/ EndSession \/ Crash
  PROVE  Tables' /\ TaskInv'
<1>1. ASSUME NEW r \in WsRun, TrackerExpires(r) \/ TerminationExpires(r) PROVE Tables' /\ TaskInv'
  BY <1>1 DEF TrackerExpires, TerminationExpires, Tables, TaskInv, TaskOK, CarriesPart, CarriesEnd
<1>2. CASE Watchdog
  <2>1. /\ stream' = NoStream
        /\ strayTimers' \in Nat
        /\ UNCHANGED <<agents, router, user, database, task, unannounced, faults>>
    BY <1>2 DEF Watchdog, Tables
  <2>2. NoStream \in [run : Run \cup {NoRun}, last : 0..MaxSeq]
    BY BoundsAssumption DEF NoStream
  <2>3. QED BY <2>1, <2>2 DEF Tables, TaskInv, TaskOK, CarriesPart, CarriesEnd
<1>3. CASE TerminatedExpires \/ EndSession
  BY <1>3 DEF TerminatedExpires, EndSession, Tables, TaskInv, TaskOK, CarriesPart, CarriesEnd
<1>4. CASE Crash
  <2>1. task' = [t \in Task |-> Idle] /\ UNCHANGED <<agents, user, database>>
    BY <1>4 DEF Crash
  <2>2. TaskInv'
    BY <2>1 DEF TaskInv, TaskOK
  <2>3. TaskType'
    BY <2>1, BoundsAssumption DEF TaskType, Idle, Kinds
  <2>4. unannounced' \subseteq Run
    <3>1. \A t \in Task : task[t].at = "update" => task[t].run \in Run
      BY Carried
    <3>2. QED BY <1>4, <3>1 DEF Crash, Tables
  <2>5. /\ seenSeqs' \in [WsRun -> SUBSET Seq] /\ terminatedRuns' \subseteq WsRun
        /\ forgotten' \subseteq WsRun
    BY <1>4 DEF Crash, Tables
  <2>6. /\ stream' \in [run : Run \cup {NoRun}, last : 0..MaxSeq]
        /\ strayTimers' \in Nat /\ faults' \in Nat
    BY <1>4, FaultIsCounted, BoundsAssumption DEF Crash, NoStream, Tables
  <2>7. QED BY <2>1, <2>2, <2>3, <2>4, <2>5, <2>6 DEF Tables, TaskType
<1>5. QED BY <1>1, <1>2, <1>3, <1>4 DEF Timer

LEMMA FlagsStep ==
  ASSUME Flags, [Next]_vars
  PROVE  Flags'
<1> USE Zenon DEF Flags
<1>1. ASSUME NEW t \in Task, Send(t) PROVE UNCHANGED <<active, timeoutTimer, terminated>>
  BY <1>1 DEF Send, SendPart, SendEnd, SendAgain, Arrives
<1>2. ASSUME NEW t \in Task,
             \/ Discard(t) \/ RefuseChunk(t) \/ LookupFails(t) \/ handleDelta(t) \/ handleAborted(t)
             \/ handleFinal(t) \/ InsertFinal(t) \/ AnnounceFinal(t) \/ FinalFails(t)
             \/ InsertCompleted(t) \/ AnnounceCompleted(t) \/ CompletedFails(t) \/ AnnounceFailed(t)
      PROVE UNCHANGED <<active, timeoutTimer, terminated>>
  BY <1>2
  DEF Discard, RefuseChunk, LookupFails, handleDelta, handleAborted, handleFinal, InsertFinal,
      AnnounceFinal, FinalFails, InsertCompleted, AnnounceCompleted, CompletedFails, AnnounceFailed
<1>3. ASSUME NEW t \in Task, handleChunk(t) PROVE Flags'
  BY <1>3 DEF handleChunk
<1>4. ASSUME NEW t \in Task, handleCompleted(t) PROVE Flags'
  BY <1>4 DEF handleCompleted, closeStream
<1>5. ASSUME NEW t \in Task, handleFailed(t) PROVE Flags'
  BY <1>5 DEF handleFailed, closeStream
<1>6. CASE Timer
  BY <1>6 DEF Timer, TrackerExpires, TerminationExpires, Watchdog, TerminatedExpires
<1>7. CASE EndSession
  BY <1>7 DEF EndSession
<1>8. CASE Crash
  BY <1>8 DEF Crash
<1>9. CASE UNCHANGED vars
  BY <1>9
<1>10. QED BY <1>1, <1>2, <1>3, <1>4, <1>5, <1>6, <1>7, <1>8, <1>9 DEF Next, Step

LEMMA TypesStep ==
  ASSUME Tables, TaskInv, [Next]_vars
  PROVE  Tables' /\ TaskInv'
<1>1. CASE UNCHANGED vars
  BY <1>1 DEF Tables, TaskInv, TaskOK, CarriesPart, CarriesEnd
<1>2. QED BY <1>1, SendTypes, StepTypes, OtherTypes DEF Next

TypeInv == Flags /\ Tables /\ TaskInv

LEMMA TypeInvHolds == Spec => []TypeInv
<1>1. TypeInv /\ [Next]_vars => TypeInv'
  BY TypesStep, FlagsStep DEF TypeInv
<1>2. QED BY <1>1, InitTypes, PTL DEF Spec, TypeInv

\* Every reachable state of the router, the stream manager and the tasks that
\* wait in them is well typed.
THEOREM TypeCorrect == Spec => []TypeOK
<1>1. TypeInv => TypeOK
  BY TypeParts DEF TypeInv
<1>2. QED BY <1>1, TypeInvHolds, PTL

-----------------------------------------------------------------------------
\* Whatever run a request belongs to and in whatever order tasks get on, closing
\* a stream disarms its watchdog, and no watchdog is armed without a stream.
THEOREM WatchdogIsTheStreams == Spec => []OneWatchdog
<1>1. Init => OneWatchdog
  BY DEF Init, OneWatchdog, NoStream
<1>2. TypeInv /\ OneWatchdog /\ [Next]_vars => OneWatchdog'
  <2> SUFFICES ASSUME TypeInv, OneWatchdog, [Next]_vars PROVE OneWatchdog'
    OBVIOUS
  <2>1. CASE UNCHANGED <<stream, timeoutTimer, strayTimers>>
    BY <2>1 DEF OneWatchdog
  <2>2. ASSUME NEW t \in Task, handleChunk(t) PROVE OneWatchdog'
    <3>1. CASE task[t].seq > stream.last
      <4>1. stream.last \in Nat
        BY BoundsAssumption DEF TypeInv, Tables
      <4>2. stream'.last # 0
        BY <2>2, <3>1, <4>1, BoundsAssumption DEF handleChunk, TypeInv, Tables
      <4>3. stream' # NoStream /\ timeoutTimer' = TRUE /\ strayTimers' = strayTimers
        BY <2>2, <3>1, <4>2 DEF handleChunk, NoStream
      <4>4. QED BY <4>3 DEF OneWatchdog
    <3>2. CASE ~(task[t].seq > stream.last)
      BY <2>1, <2>2, <3>2 DEF handleChunk
    <3>3. QED BY <3>1, <3>2
  <2>3. CASE closeStream
    BY <2>3 DEF closeStream, OneWatchdog
  <2>4. CASE Watchdog
    BY <2>4 DEF Watchdog, OneWatchdog
  <2>5. CASE Crash
    BY <2>5 DEF Crash, OneWatchdog
  <2>6. ASSUME NEW t \in Task, Step(t) PROVE OneWatchdog'
    BY <2>1, <2>2, <2>3, <2>6
    DEF Step, Discard, RefuseChunk, LookupFails, handleDelta, handleAborted, handleFinal,
        InsertFinal, AnnounceFinal, FinalFails, handleCompleted, handleFailed, InsertCompleted,
        AnnounceCompleted, CompletedFails, AnnounceFailed
  <2>7. ASSUME NEW t \in Task, Send(t) PROVE OneWatchdog'
    BY <2>1, <2>7 DEF Send, SendPart, SendEnd, SendAgain, Arrives
  <2>8. QED
    BY <2>1, <2>4, <2>5, <2>6, <2>7
    DEF Next, Timer, TrackerExpires, TerminationExpires, TerminatedExpires, EndSession
<1>3. QED BY <1>1, <1>2, TypeInvHolds, PTL DEF Spec

-----------------------------------------------------------------------------
(***************************************************************************)
(* What the router remembers of a WebSocket run: what the user was shown   *)
(* is in its tracker, and a run whose end the user was told is terminated. *)
(***************************************************************************)
Remembered(r) ==
  /\ r \notin again
  /\ told[r] # "none" => r \in terminatedRuns
  /\ r \notin terminatedRuns => shown[r] \subseteq seenSeqs[r]

MemoryInv == \A r \in WsRun : r \in forgotten \/ Remembered(r)

\* A step that touches neither the router nor what the user of a WebSocket run
\* has seen.
LEMMA MemoryKept ==
  ASSUME MemoryInv, UNCHANGED <<seenSeqs, terminatedRuns, forgotten>>,
         \A r \in WsRun : told'[r] = told[r] /\ shown'[r] = shown[r] /\ (r \in again' => r \in again)
  PROVE  MemoryInv'
  BY DEF MemoryInv, Remembered

LEMMA MemoryStep == TypeInv /\ MemoryInv /\ [Next]_vars => MemoryInv'
<1> SUFFICES ASSUME TypeInv, MemoryInv, [Next]_vars PROVE MemoryInv'
  OBVIOUS
<1>0. Tables /\ TaskInv
  BY DEF TypeInv
<1>1. CASE UNCHANGED <<router, user>>
  BY <1>1, MemoryKept
<1>2. ASSUME NEW t \in Task, handleDelta(t) PROVE MemoryInv'
  <2> DEFINE r == task[t].run
             n == task[t].seq
  <2>1. r \in WsRun /\ r \in Run /\ UNCHANGED <<terminatedRuns, forgotten>>
    BY <1>2 DEF handleDelta, Run
  <2>2. CASE Fresh(r, n)
    <3>1. /\ r \notin terminatedRuns /\ n \notin seenSeqs[r]
          /\ seenSeqs' = [seenSeqs EXCEPT ![r] = @ \cup {n}]
          /\ shown' = [shown EXCEPT ![r] = @ \cup {n}] /\ told' = told
          /\ again' = IF n \in shown[r] \/ told[r] # "none" THEN again \cup {r} ELSE again
      BY <1>2, <2>2 DEF handleDelta, Fresh, Show
    <3>2. ASSUME NEW i \in WsRun, i \notin forgotten' PROVE Remembered(i)'
      <4>1. Remembered(i)
        BY <2>1, <3>2 DEF MemoryInv
      <4>2. CASE i = r
        <5>1. n \notin shown[r] /\ told[r] = "none"
          BY <3>1, <4>1, <4>2 DEF Remembered
        <5>2. shown'[r] = shown[r] \cup {n} /\ seenSeqs'[r] = seenSeqs[r] \cup {n} /\ again' = again
          BY <1>0, <2>1, <3>1, <5>1 DEF Tables
        <5>3. QED BY <2>1, <3>1, <4>1, <4>2, <5>2 DEF Remembered
      <4>3. CASE i # r
        <5>1. shown'[i] = shown[i] /\ seenSeqs'[i] = seenSeqs[i]
          BY <1>0, <3>1, <4>3 DEF Tables, Run
        <5>2. QED BY <2>1, <3>1, <4>1, <4>3, <5>1 DEF Remembered
      <4>4. QED BY <4>2, <4>3
    <3>3. QED BY <3>2 DEF MemoryInv
  <2>3. CASE ~Fresh(r, n)
    BY <1>1, <1>2, <2>1, <2>3 DEF handleDelta
  <2>4. QED BY <2>2, <2>3
<1>3. ASSUME NEW t \in Task, handleAborted(t) \/ AnnounceFinal(t) \/ FinalFails(t) PROVE MemoryInv'
  <2> DEFINE r == task[t].run
  <2>1. /\ terminateRun(r) /\ UNCHANGED <<shown, again>>
        /\ \A i \in Run : i # r => told'[i] = told[i]
    BY <1>0, <1>3 DEF handleAborted, AnnounceFinal, FinalFails, Tell, Tables
  <2>2. ASSUME NEW i \in WsRun, i \notin forgotten' PROVE Remembered(i)'
    <3>1. Remembered(i)
      BY <2>1, <2>2 DEF terminateRun, MemoryInv
    <3>2. i # r => seenSeqs'[i] = seenSeqs[i] /\ told'[i] = told[i]
      BY <1>0, <2>1 DEF terminateRun, Tables, Run
    <3>3. terminatedRuns' = terminatedRuns \cup {r}
      BY <2>1 DEF terminateRun
    <3>4. QED BY <2>1, <3>1, <3>2, <3>3 DEF Remembered
  <2>3. QED BY <2>2 DEF MemoryInv
<1>4. ASSUME NEW t \in Task, handleChunk(t) \/ AnnounceCompleted(t) \/ AnnounceFailed(t)
      PROVE  MemoryInv'
  <2> DEFINE r == task[t].run
  <2>1. r \notin WsRun
    BY <1>0, <1>4, Carried, RunAssumption
    DEF handleChunk, AnnounceCompleted, AnnounceFailed, Awaits
  <2>2. /\ UNCHANGED router
        /\ \A i \in Run : i # r => told'[i] = told[i] /\ shown'[i] = shown[i]
        /\ again' \subseteq again \cup {r}
    BY <1>0, <1>4 DEF handleChunk, AnnounceCompleted, AnnounceFailed, Show, Tell, Tables
  <2>3. QED BY <2>1, <2>2, MemoryKept DEF Run
<1>5. ASSUME NEW r \in WsRun, TrackerExpires(r) \/ TerminationExpires(r) PROVE MemoryInv'
  <2>1. ASSUME NEW i \in WsRun, i \notin forgotten' PROVE Remembered(i)'
    <3>1. i # r /\ Remembered(i)
      BY <1>5, <2>1 DEF TrackerExpires, TerminationExpires, MemoryInv
    <3>2. /\ seenSeqs'[i] = seenSeqs[i] /\ (i \in terminatedRuns' <=> i \in terminatedRuns)
          /\ UNCHANGED user
      BY <1>0, <1>5, <3>1 DEF TrackerExpires, TerminationExpires, Tables
    <3>3. QED BY <3>1, <3>2 DEF Remembered
  <2>2. QED BY <2>1 DEF MemoryInv
<1>6. CASE Crash
  <2>1. ASSUME NEW i \in WsRun, i \notin forgotten' PROVE Remembered(i)'
    <3>1. /\ i \notin forgotten /\ i \notin terminatedRuns /\ seenSeqs[i] = {}
          /\ seenSeqs'[i] = {} /\ terminatedRuns' = {} /\ UNCHANGED user
      BY <1>6, <2>1 DEF Crash
    <3>2. Remembered(i)
      BY <3>1 DEF MemoryInv
    <3>3. QED BY <3>1, <3>2 DEF Remembered
  <2>2. QED BY <2>1 DEF MemoryInv
<1>7. ASSUME NEW t \in Task, Send(t) PROVE UNCHANGED <<router, user>>
  BY <1>7 DEF Send, SendPart, SendEnd, SendAgain, Arrives
<1>8. ASSUME NEW t \in Task, Step(t) PROVE MemoryInv'
  BY <1>1, <1>2, <1>3, <1>4, <1>8
  DEF Step, Discard, RefuseChunk, LookupFails, handleFinal, InsertFinal, handleCompleted,
      handleFailed, InsertCompleted, CompletedFails
<1>9. QED
  BY <1>1, <1>5, <1>6, <1>7, <1>8 DEF Next, Timer, Watchdog, TerminatedExpires, EndSession

\* However the events of a WebSocket run overtake each other and are sent again,
\* no part is shown twice or after the end, as long as the run is remembered.
THEOREM ShownOnce == Spec => []ShownOnceBeforeTheEnd
<1>1. Init => MemoryInv
  BY DEF Init, MemoryInv, Remembered, Run
<1>2. MemoryInv => ShownOnceBeforeTheEnd
  BY DEF MemoryInv, Remembered, ShownOnceBeforeTheEnd
<1>3. QED BY <1>1, <1>2, MemoryStep, TypeInvHolds, PTL DEF Spec

-----------------------------------------------------------------------------
(***************************************************************************)
(* How often an answer is stored.  The key of a WebSocket answer is its    *)
(* run.  Over HTTP every `completed' request can store one: rows stored    *)
(* plus requests that may still insert never exceed the ends sent.         *)
(***************************************************************************)
Undecided(r) ==
  {t \in Task : task[t].run = r /\ task[t].kind = "completed" /\ task[t].at \in {"lookup", "insert"}}

EndsSent(r) == IF ending[r] = "none" THEN 0 ELSE 1 + repeated[r]

StoredOnce == \A r \in WsRun : replies[r] <= 1

StoredPerEnd ==
  \A r \in HttpRun :
    IsFiniteSet(Undecided(r)) /\ replies[r] + Cardinality(Undecided(r)) <= EndsSent(r)

OnlyAnswersStored == \A r \in Run : replies[r] > 0 => ending[r] \in {"final", "completed"}

ReplyInv == StoredOnce /\ StoredPerEnd /\ OnlyAnswersStored

\* The ways a step can change the account of HTTP run r.
Quiet(r) == /\ replies'[r] = replies[r]
            /\ Undecided(r)' \subseteq Undecided(r)
            /\ EndsSent(r)' >= EndsSent(r)
Sends(r) == /\ replies'[r] = replies[r]
            /\ \E t \in Task : Undecided(r)' \subseteq Undecided(r) \cup {t}
            /\ EndsSent(r)' >= EndsSent(r) + 1
Stores(r) == /\ replies'[r] = replies[r] + 1
             /\ \E t \in Undecided(r) : Undecided(r)' \subseteq Undecided(r) \ {t}
             /\ EndsSent(r)' = EndsSent(r)

LEMMA AccountOfSend ==
  ASSUME TypeInv, NEW t \in Task, Send(t), NEW i \in HttpRun
  PROVE  Quiet(i) \/ Sends(i)
<1>0. Tables /\ i \in Run /\ repeated[i] \in Nat /\ EndsSent(i) \in Nat
  BY DEF TypeInv, Tables, Run, EndsSent
<1>1. UNCHANGED replies
  BY DEF Send, SendPart, SendEnd, SendAgain, Arrives
<1>2. \A u \in Task : u # t => task'[u] = task[u]
  BY <1>0 DEF Send, SendPart, SendEnd, SendAgain, Arrives, Tables
<1>3. Undecided(i)' \subseteq Undecided(i) \cup {t}
  BY <1>2 DEF Undecided
<1>4. ASSUME task'[t].run # i \/ task'[t].kind # "completed"
      PROVE  Undecided(i)' \subseteq Undecided(i)
  BY <1>2, <1>4 DEF Undecided
<1>5. ASSUME NEW r \in Run, NEW n \in Seq, SendPart(t, r, n) PROVE Quiet(i)
  <2>1. task'[t].kind = "part" /\ UNCHANGED <<ending, repeated>>
    BY <1>0, <1>5 DEF SendPart, Arrives, Tables
  <2>2. EndsSent(i)' = EndsSent(i)
    BY <2>1 DEF EndsSent
  <2>3. QED BY <1>0, <1>1, <1>4, <2>1, <2>2 DEF Quiet
<1>6. ASSUME NEW r \in Run, NEW kind \in Ends(r), SendEnd(t, r, kind) PROVE Quiet(i) \/ Sends(i)
  <2>1. /\ ending[r] = "none" /\ ending' = [ending EXCEPT ![r] = kind] /\ kind # "none"
        /\ repeated' = repeated /\ task'[t].run = r
    BY <1>0, <1>6 DEF SendEnd, Arrives, Tables, Ends
  <2>2. CASE i = r
    <3>1. EndsSent(i) = 0 /\ EndsSent(i)' = 1 + repeated[i]
      BY <1>0, <2>1, <2>2 DEF EndsSent, Tables
    <3>2. QED BY <1>0, <1>1, <1>3, <3>1 DEF Sends
  <2>3. CASE i # r
    <3>1. EndsSent(i)' = EndsSent(i)
      BY <1>0, <2>1, <2>3 DEF EndsSent, Tables
    <3>2. QED BY <1>0, <1>1, <1>4, <2>1, <2>3, <3>1 DEF Quiet
  <2>4. QED BY <2>2, <2>3
<1>7. ASSUME NEW r \in Run, SendAgain(t, r) PROVE Quiet(i) \/ Sends(i)
  <2>1. /\ ending' = ending /\ repeated' = [repeated EXCEPT ![r] = @ + 1]
        /\ task'[t].run = r /\ (ending[r] = "none" => task'[t].kind = "part")
    BY <1>0, <1>7 DEF SendAgain, Arrives, Tables
  <2>2. CASE i = r /\ ending[r] # "none"
    <3>1. EndsSent(i)' = EndsSent(i) + 1
      BY <1>0, <2>1, <2>2 DEF EndsSent, Tables
    <3>2. QED BY <1>0, <1>1, <1>3, <3>1 DEF Sends
  <2>3. CASE i # r \/ ending[r] = "none"
    <3>1. EndsSent(i)' = EndsSent(i)
      BY <1>0, <2>1, <2>3 DEF EndsSent, Tables
    <3>2. QED BY <1>0, <1>1, <1>4, <2>1, <2>3, <3>1 DEF Quiet
  <2>4. QED BY <2>2, <2>3
<1>8. QED BY <1>5, <1>6, <1>7 DEF Send

LEMMA AccountOfStep ==
  ASSUME TypeInv, NEW t \in Task, Step(t), NEW i \in HttpRun
  PROVE  Quiet(i) \/ Stores(i)
<1>0. /\ Tables /\ TaskInv /\ TaskType /\ i \in Run /\ i \notin WsRun
      /\ EndsSent(i) \in Nat /\ replies[i] \in Nat
  BY RunAssumption DEF TypeInv, Tables, TaskType, Run, EndsSent
<1>1. UNCHANGED agents /\ task[t].at # "idle"
  BY <1>0, StepMoves
<1>2. EndsSent(i)' = EndsSent(i)
  BY <1>1 DEF EndsSent
<1>3. ASSUME return(t) PROVE Undecided(i)' \subseteq Undecided(i) /\ t \notin Undecided(i)'
  BY <1>0, <1>3 DEF return, Undecided, Idle, TaskType
<1>4. ASSUME NEW w, advance(t, w),
             w \in {"lookup", "insert"} => task[t].kind # "completed" \/ task[t].at = "lookup"
      PROVE  /\ Undecided(i)' \subseteq Undecided(i)
             /\ w \notin {"lookup", "insert"} => t \notin Undecided(i)'
  BY <1>0, <1>4 DEF advance, Undecided, TaskType
<1>5. CASE InsertCompleted(t)
  <2>1. /\ task[t].kind = "completed" /\ task[t].at = "insert" /\ advance(t, "update")
        /\ replies' = [replies EXCEPT ![task[t].run] = @ + 1]
    BY <1>5 DEF InsertCompleted, Awaits
  <2>2. Undecided(i)' \subseteq Undecided(i) \ {t}
    BY <1>4, <2>1
  <2>3. CASE task[t].run = i
    <3>1. t \in Undecided(i)
      BY <2>1, <2>3 DEF Undecided
    <3>2. replies'[i] = replies[i] + 1
      BY <1>0, <2>1, <2>3 DEF Tables
    <3>3. QED BY <1>2, <2>2, <3>1, <3>2 DEF Stores
  <2>4. CASE task[t].run # i
    BY <1>0, <1>2, <2>1, <2>2, <2>4 DEF Quiet, Tables
  <2>5. QED BY <2>3, <2>4
<1>6. CASE InsertFinal(t)
  <2>1. task[t].run \in WsRun
    BY <1>0, <1>1, <1>6, Carried DEF InsertFinal, Awaits
  <2>2. replies'[i] = replies[i]
    BY <1>0, <1>6, <2>1 DEF InsertFinal, Tables
  <2>3. Undecided(i)' \subseteq Undecided(i)
    BY <1>3, <1>4, <1>6 DEF InsertFinal, Awaits
  <2>4. QED BY <1>0, <1>2, <2>2, <2>3 DEF Quiet
<1>7. ASSUME UNCHANGED replies, return(t) PROVE Quiet(i)
  BY <1>0, <1>2, <1>3, <1>7 DEF Quiet
<1>8. CASE handleFinal(t) \/ handleCompleted(t) \/ handleFailed(t)
  <2>1. Undecided(i)' \subseteq Undecided(i)
    BY <1>3, <1>4, <1>8 DEF handleFinal, handleCompleted, handleFailed, Awaits
  <2>2. UNCHANGED replies
    BY <1>8 DEF handleFinal, handleCompleted, handleFailed
  <2>3. QED BY <1>0, <1>2, <2>1, <2>2 DEF Quiet
<1>9. QED
  BY <1>5, <1>6, <1>7, <1>8, Step(t)
  DEF Step, Discard, RefuseChunk, LookupFails, handleDelta, handleAborted, AnnounceFinal,
      FinalFails, handleChunk, AnnounceCompleted, CompletedFails, AnnounceFailed

\* What a set that loses or gains a member does to a count of it.
LEMMA OneMoreOrLess ==
  ASSUME NEW S, IsFiniteSet(S), NEW t
  PROVE  /\ \A T \in SUBSET S : IsFiniteSet(T) /\ Cardinality(T) <= Cardinality(S)
         /\ \A T \in SUBSET (S \cup {t}) : IsFiniteSet(T) /\ Cardinality(T) <= Cardinality(S) + 1
         /\ t \in S => \A T \in SUBSET (S \ {t}) : Cardinality(T) + 1 <= Cardinality(S)
<1>1. Cardinality(S) \in Nat
  BY FS_CardinalityType
<1>2. IsFiniteSet(S \cup {t}) /\ Cardinality(S \cup {t}) <= Cardinality(S) + 1
  BY <1>1, FS_AddElement
<1>3. \A T \in SUBSET S : IsFiniteSet(T) /\ Cardinality(T) <= Cardinality(S)
  BY FS_Subset
<1>4. ASSUME NEW T \in SUBSET (S \cup {t})
      PROVE  IsFiniteSet(T) /\ Cardinality(T) <= Cardinality(S) + 1
  <2>1. IsFiniteSet(T) /\ Cardinality(T) <= Cardinality(S \cup {t})
    BY <1>2, FS_Subset
  <2>2. Cardinality(T) \in Nat /\ Cardinality(S \cup {t}) \in Nat
    BY <1>2, <2>1, FS_CardinalityType
  <2>3. QED BY <1>1, <1>2, <2>1, <2>2
<1>5. ASSUME t \in S, NEW T \in SUBSET (S \ {t}) PROVE Cardinality(T) + 1 <= Cardinality(S)
  <2>1. IsFiniteSet(S \ {t}) /\ Cardinality(S \ {t}) = Cardinality(S) - 1
    BY <1>5, FS_RemoveElement
  <2>2. Cardinality(T) <= Cardinality(S \ {t}) /\ IsFiniteSet(T)
    BY <2>1, FS_Subset
  <2>3. Cardinality(T) \in Nat
    BY <2>2, FS_CardinalityType
  <2>4. QED BY <1>1, <2>1, <2>2, <2>3
<1>6. QED BY <1>3, <1>4, <1>5

\* Every step keeps the account of an HTTP run.
LEMMA StoredPerEndStep ==
  ASSUME TypeInv, TypeInv', StoredPerEnd, [Next]_vars
  PROVE  StoredPerEnd'
<1> SUFFICES ASSUME NEW r \in HttpRun
             PROVE  /\ IsFiniteSet(Undecided(r)')
                    /\ replies'[r] + Cardinality(Undecided(r)') <= EndsSent(r)'
  BY DEF StoredPerEnd
<1>1. Quiet(r) \/ Sends(r) \/ Stores(r)
  <2>1. ASSUME NEW t \in Task, Send(t) \/ Step(t) PROVE Quiet(r) \/ Sends(r) \/ Stores(r)
    BY <2>1, AccountOfSend, AccountOfStep
  <2>2. ASSUME UNCHANGED <<agents, replies>>, Undecided(r)' \subseteq Undecided(r) PROVE Quiet(r)
    <3>1. EndsSent(r)' = EndsSent(r) /\ EndsSent(r) \in Nat
      BY <2>2 DEF EndsSent, TypeInv, Tables, Run
    <3>2. QED BY <2>2, <3>1 DEF Quiet
  <2>3. CASE UNCHANGED <<agents, replies, task>>
    BY <2>2, <2>3 DEF Undecided
  <2>4. CASE Crash
    <3>1. Undecided(r)' = {}
      BY <2>4 DEF Crash, Undecided, Idle
    <3>2. QED BY <2>2, <2>4, <3>1 DEF Crash
  <2>5. QED
    BY <2>1, <2>3, <2>4
    DEF Next, Timer, TrackerExpires, TerminationExpires, Watchdog, TerminatedExpires, EndSession
<1> DEFINE n == Cardinality(Undecided(r))
           m == Cardinality(Undecided(r)')
           e == EndsSent(r)
           f == EndsSent(r)'
<1>2. IsFiniteSet(Undecided(r)) /\ replies[r] + n <= e
  BY DEF StoredPerEnd
<1>3. IsFiniteSet(Undecided(r)')
  BY <1>1, <1>2, OneMoreOrLess DEF Quiet, Sends, Stores
<1>4. n \in Nat /\ m \in Nat
  BY <1>2, <1>3, FS_CardinalityType
<1>5. replies[r] \in Nat /\ e \in Nat /\ f \in Nat
  BY DEF TypeInv, Tables, EndsSent, Run
<1>6. CASE Quiet(r)
  <2>1. m <= n /\ f >= e /\ replies'[r] = replies[r]
    BY <1>2, <1>6, OneMoreOrLess DEF Quiet
  <2> HIDE DEF n, m, e, f
  <2>2. replies'[r] + m <= f
    BY <1>2, <1>4, <1>5, <2>1
  <2>3. QED BY <1>3, <2>2 DEF m, f
<1>7. CASE Sends(r)
  <2>1. m <= n + 1 /\ f >= e + 1 /\ replies'[r] = replies[r]
    BY <1>2, <1>7, OneMoreOrLess DEF Sends
  <2> HIDE DEF n, m, e, f
  <2>2. replies'[r] + m <= f
    BY <1>2, <1>4, <1>5, <2>1
  <2>3. QED BY <1>3, <2>2 DEF m, f
<1>8. CASE Stores(r)
  <2>1. m + 1 <= n /\ f = e /\ replies'[r] = replies[r] + 1
    BY <1>2, <1>8, OneMoreOrLess DEF Stores
  <2> HIDE DEF n, m, e, f
  <2>2. replies'[r] + m <= f
    BY <1>2, <1>4, <1>5, <2>1
  <2>3. QED BY <1>3, <2>2 DEF m, f
<1>9. QED BY <1>1, <1>6, <1>7, <1>8

\* Only the two INSERTs store an answer: that of the router once for a run, and
\* each only for a run that has ended with an answer.
LEMMA RowsStep ==
  ASSUME TypeInv, [Next]_vars
  PROVE  \/ replies' = replies
         \/ \E t \in Task :
              /\ task[t].at = "insert" /\ CarriesEnd(t)
              /\ advance(t, "update") /\ UNCHANGED <<agents, user, unannounced>>
              /\ task[t].kind \in {"final", "completed"}
              /\ task[t].kind = "final" => replies[task[t].run] = 0
              /\ replies' = [replies EXCEPT ![task[t].run] = @ + 1]
<1>0. Tables /\ TaskInv
  BY DEF TypeInv
<1>1. ASSUME NEW t \in Task, Send(t) PROVE replies' = replies
  BY <1>1 DEF Send, SendPart, SendEnd, SendAgain, Arrives
<1>2. ASSUME NEW t \in Task, InsertFinal(t)
      PROVE  \/ replies' = replies
             \/ /\ task[t].at = "insert" /\ CarriesEnd(t) /\ task[t].kind = "final"
                /\ advance(t, "update") /\ UNCHANGED <<agents, user, unannounced>>
                /\ replies[task[t].run] = 0
                /\ replies' = [replies EXCEPT ![task[t].run] = @ + 1]
  <2>1. task[t].at = "insert" /\ task[t].kind = "final" /\ CarriesEnd(t) /\ task[t].run \in Run
    BY <1>0, <1>2, Carried DEF InsertFinal, Awaits
  <2>2. CASE replies[task[t].run] = 0
    <3>1. /\ replies' = [replies EXCEPT ![task[t].run] = 1]
          /\ advance(t, "update") /\ UNCHANGED <<agents, user, unannounced>>
      BY <1>2, <2>2 DEF InsertFinal
    <3>2. replies' = [replies EXCEPT ![task[t].run] = @ + 1]
      BY <1>0, <2>1, <2>2, <3>1 DEF Tables
    <3>3. QED BY <2>1, <2>2, <3>1, <3>2
  <2>3. CASE replies[task[t].run] # 0
    BY <1>2, <2>3 DEF InsertFinal
  <2>4. QED BY <2>2, <2>3
<1>3. ASSUME NEW t \in Task, InsertCompleted(t)
      PROVE  /\ task[t].at = "insert" /\ CarriesEnd(t) /\ task[t].kind = "completed"
             /\ advance(t, "update") /\ UNCHANGED <<agents, user, unannounced>>
             /\ replies' = [replies EXCEPT ![task[t].run] = @ + 1]
  BY <1>0, <1>3, Carried DEF InsertCompleted, Awaits
<1>4. ASSUME NEW t \in Task, Step(t), ~InsertFinal(t), ~InsertCompleted(t) PROVE replies' = replies
  BY <1>4
  DEF Step, Discard, RefuseChunk, LookupFails, handleDelta, handleAborted, handleFinal,
      AnnounceFinal, FinalFails, handleChunk, handleCompleted, handleFailed, AnnounceCompleted,
      CompletedFails, AnnounceFailed
<1>5. CASE Timer \/ EndSession \/ Crash \/ UNCHANGED vars
  BY <1>5
  DEF Timer, TrackerExpires, TerminationExpires, Watchdog, TerminatedExpires, EndSession, Crash
<1>6. QED
  <2>1. ASSUME NEW t \in Task, Step(t)
        PROVE  InsertFinal(t) \/ InsertCompleted(t) \/ replies' = replies
    BY <1>4, <2>1
  <2>2. QED BY <1>1, <1>2, <1>3, <1>5, <2>1 DEF Next

\* A run ends once.
LEMMA EndingStays ==
  ASSUME TypeInv, [Next]_vars, NEW r \in Run, ending[r] # "none"
  PROVE  ending'[r] = ending[r]
<1>0. Tables /\ TaskInv /\ TaskType
  BY DEF TypeInv, Tables, TaskType
<1>1. ASSUME NEW t \in Task, Send(t) PROVE ending'[r] = ending[r]
  BY <1>0, <1>1 DEF Send, SendPart, SendEnd, SendAgain, Tables
<1>2. ASSUME NEW t \in Task, Step(t) PROVE ending'[r] = ending[r]
  BY <1>0, <1>2, StepMoves
<1>3. QED
  BY <1>1, <1>2
  DEF Next, Timer, TrackerExpires, TerminationExpires, Watchdog, TerminatedExpires, EndSession, Crash

LEMMA ReplyStep == TypeInv /\ TypeInv' /\ ReplyInv /\ [Next]_vars => ReplyInv'
<1> SUFFICES ASSUME TypeInv, TypeInv', ReplyInv, [Next]_vars PROVE ReplyInv'
  OBVIOUS
<1>0. Tables /\ StoredOnce /\ OnlyAnswersStored
  BY DEF TypeInv, ReplyInv
<1>1. StoredPerEnd'
  BY StoredPerEndStep DEF ReplyInv
<1>2. ASSUME NEW r \in Run, replies'[r] = replies[r], replies'[r] > 0
      PROVE ending'[r] \in {"final", "completed"}
  BY <1>0, <1>2, EndingStays DEF OnlyAnswersStored
<1>3. CASE replies' = replies
  BY <1>0, <1>1, <1>2, <1>3 DEF ReplyInv, StoredOnce, OnlyAnswersStored
<1>4. ASSUME NEW t \in Task, CarriesEnd(t), task[t].kind \in {"final", "completed"},
             UNCHANGED agents, task[t].kind = "final" => replies[task[t].run] = 0,
             replies' = [replies EXCEPT ![task[t].run] = @ + 1]
      PROVE  ReplyInv'
  <2>1. /\ task[t].run \in Run /\ ending'[task[t].run] \in {"final", "completed"}
        /\ task[t].run \in WsRun => replies[task[t].run] = 0
    BY <1>4, RunAssumption DEF CarriesEnd, Ends
  <2>2. ASSUME NEW r \in WsRun PROVE replies'[r] <= 1
    BY <1>0, <1>4, <2>1 DEF Run, StoredOnce, Tables
  <2>3. ASSUME NEW r \in Run, replies'[r] > 0 PROVE ending'[r] \in {"final", "completed"}
    <3>1. CASE r = task[t].run
      BY <2>1, <3>1
    <3>2. CASE r # task[t].run
      BY <1>0, <1>2, <1>4, <2>3, <3>2 DEF Tables
    <3>3. QED BY <3>1, <3>2
  <2>4. QED BY <1>1, <2>2, <2>3 DEF ReplyInv, StoredOnce, OnlyAnswersStored
<1>5. QED BY <1>3, <1>4, RowsStep

LEMMA ReplyInvHolds == Spec => []ReplyInv
<1>1. Init => ReplyInv
  <2> SUFFICES ASSUME Init PROVE ReplyInv
    OBVIOUS
  <2>1. ASSUME NEW r \in HttpRun
        PROVE  IsFiniteSet(Undecided(r)) /\ replies[r] + Cardinality(Undecided(r)) <= EndsSent(r)
    <3>1. Undecided(r) = {} /\ replies[r] = 0 /\ EndsSent(r) = 0
      BY DEF Init, Undecided, Idle, EndsSent, Run
    <3>2. QED BY <3>1, FS_EmptySet
  <2>2. QED BY <2>1 DEF Init, ReplyInv, StoredOnce, StoredPerEnd, OnlyAnswersStored, Run
<1>2. QED BY <1>1, ReplyStep, TypeInvHolds, PTL DEF Spec

\* However often a gateway or an agent repeats itself, and wherever a handler
\* breaks off, answers are stored only for runs that ended with one: once for a
\* run of the WebSocket, over HTTP at most once for each end sent.
THEOREM AnswersAreAccounted == Spec => []RepliesAccounted
<1>1. TypeInv /\ ReplyInv => RepliesAccounted
  <2> SUFFICES ASSUME TypeInv, ReplyInv, NEW r \in Run
               PROVE  /\ replies[r] > 0 => ending[r] \in {"final", "completed"}
                      /\ replies[r] <= IF r \in WsRun THEN 1 ELSE 1 + repeated[r]
    BY DEF RepliesAccounted
  <2>1. CASE r \in WsRun
    BY <2>1 DEF ReplyInv, StoredOnce, OnlyAnswersStored
  <2>2. CASE r \notin WsRun
    <3>1. Cardinality(Undecided(r)) \in Nat /\ replies[r] + Cardinality(Undecided(r)) <= EndsSent(r)
      BY <2>2, FS_CardinalityType DEF Run, ReplyInv, StoredPerEnd
    <3>2. repeated[r] \in Nat /\ replies[r] \in Nat
      BY DEF TypeInv, Tables
    <3>3. QED BY <2>2, <3>1, <3>2 DEF EndsSent, ReplyInv, OnlyAnswersStored
  <2>3. QED BY <2>1, <2>2
<1>2. QED BY <1>1, ReplyInvHolds, TypeInvHolds, PTL

-----------------------------------------------------------------------------
(***************************************************************************)
(* The safety half of StoredIsAnnounced: a stored answer has been          *)
(* announced, or is about to be by a handler between its two statements,   *)
(* or that handler broke off.  That handlers get on is left to fairness.   *)
(***************************************************************************)
Announcing(r) == \E t \in Task : task[t].run = r /\ task[t].at = "update"

StoredIsNotLost ==
  \A r \in Run : replies[r] > 0 => told[r] = "reply" \/ r \in unannounced \/ Announcing(r)

LEMMA NotLostStep ==
  TypeInv /\ ReplyInv /\ StoredIsNotLost /\ [Next]_vars => StoredIsNotLost'
<1> SUFFICES ASSUME TypeInv, ReplyInv, StoredIsNotLost, [Next]_vars, NEW r \in Run, replies'[r] > 0
             PROVE  (told[r] = "reply" \/ r \in unannounced \/ Announcing(r))'
  BY DEF StoredIsNotLost
<1> DEFINE Safe == told[r] = "reply" \/ r \in unannounced \/ Announcing(r)
<1>0. Tables /\ TaskInv
  BY DEF TypeInv
<1>1. CASE replies'[r] # replies[r]
  <2>1. PICK t \in Task : /\ advance(t, "update")
                          /\ replies' = [replies EXCEPT ![task[t].run] = @ + 1]
    BY <1>1, RowsStep
  <2>2. r = task[t].run
    BY <1>0, <1>1, <2>1 DEF Tables
  <2>3. task'[t].run = r /\ task'[t].at = "update"
    BY <1>0, <2>1, <2>2 DEF advance, Tables
  <2>4. QED BY <2>3 DEF Announcing
<1>2. CASE replies'[r] = replies[r]
  <2>1. Safe /\ ending[r] \in {"final", "completed"}
    BY <1>2 DEF StoredIsNotLost, ReplyInv, OnlyAnswersStored
  <2>2. ASSUME told[r] = "reply" => told'[r] = "reply",
               unannounced \subseteq unannounced',
               \A t \in Task : task[t].run = r /\ task[t].at = "update" =>
                 task'[t] = task[t] \/ told'[r] = "reply" \/ r \in unannounced'
        PROVE  Safe'
    BY <2>1, <2>2 DEF Announcing
  <2>3. ASSUME NEW t \in Task, \A u \in Task : u # t => task'[u] = task[u],
               task[t].at # "update", UNCHANGED <<told, unannounced>>
        PROVE  Safe'
    BY <2>2, <2>3
  <2>4. ASSUME NEW t \in Task, Send(t) PROVE Safe'
    BY <1>0, <2>3, <2>4
    DEF Send, SendPart, SendEnd, SendAgain, Arrives, Idle, Tables
  <2>5. ASSUME NEW t \in Task,
               \/ Discard(t) \/ RefuseChunk(t) \/ LookupFails(t) \/ handleDelta(t)
               \/ handleChunk(t) \/ handleFinal(t) \/ InsertFinal(t)
               \/ handleCompleted(t) \/ handleFailed(t) \/ InsertCompleted(t)
        PROVE  Safe'
    <3>1. /\ UNCHANGED <<told, unannounced>> /\ task[t].at # "update"
          /\ return(t) \/ \E w \in {"insert", "update", "mark"} : advance(t, w)
      BY <2>5
      DEF Discard, RefuseChunk, LookupFails, handleDelta, handleChunk, handleFinal, InsertFinal,
          handleCompleted, handleFailed, InsertCompleted, Awaits, Show
    <3>2. \A u \in Task : u # t => task'[u] = task[u]
      BY <1>0, <3>1 DEF return, advance, Tables
    <3>3. QED BY <2>3, <3>1, <3>2
  <2>6. ASSUME NEW t \in Task, AnnounceFinal(t) \/ AnnounceCompleted(t) PROVE Safe'
    <3>1. /\ told' = [told EXCEPT ![task[t].run] = "reply"] /\ unannounced' = unannounced /\ return(t)
      BY <2>6 DEF AnnounceFinal, AnnounceCompleted, Tell
    <3>2. (told[r] = "reply" \/ task[t].run = r) => told'[r] = "reply"
      BY <1>0, <3>1 DEF Tables
    <3>3. \A u \in Task : u # t => task'[u] = task[u]
      BY <1>0, <3>1 DEF return, Tables
    <3>4. QED BY <2>2, <3>1, <3>2, <3>3
  <2>7. ASSUME NEW t \in Task, handleAborted(t) \/ AnnounceFailed(t) PROVE Safe'
    <3>1. /\ task[t].run # r /\ task[t].at # "update"
      BY <1>0, <2>1, <2>7, Carried DEF handleAborted, AnnounceFailed, Awaits, CarriesEnd
    <3>2. /\ \E what \in {"aborted", "failed"} : told' = [told EXCEPT ![task[t].run] = what]
          /\ unannounced' = unannounced /\ return(t)
      BY <2>7 DEF handleAborted, AnnounceFailed, Tell
    <3>3. told'[r] = told[r]
      BY <1>0, <3>1, <3>2 DEF Tables
    <3>4. \A u \in Task : u # t => task'[u] = task[u]
      BY <1>0, <3>2 DEF return, Tables
    <3>5. QED BY <2>2, <3>1, <3>2, <3>3, <3>4
  <2>8. ASSUME NEW t \in Task, FinalFails(t) \/ CompletedFails(t) PROVE Safe'
    <3>1. /\ unannounced' = IF task[t].at = "update" THEN unannounced \cup {task[t].run} ELSE unannounced
          /\ told' = told /\ return(t)
      BY <2>8 DEF FinalFails, CompletedFails
    <3>2. \A u \in Task : u # t => task'[u] = task[u]
      BY <1>0, <3>1 DEF return, Tables
    <3>3. QED BY <2>2, <3>1, <3>2
  <2>9. CASE Crash
    BY <2>2, <2>9 DEF Crash
  <2>10. CASE UNCHANGED <<told, unannounced, task>>
    BY <2>2, <2>10
  <2>11. ASSUME NEW t \in Task, Step(t) PROVE Safe'
    BY <2>5, <2>6, <2>7, <2>8, <2>11 DEF Step
  <2>12. QED
    BY <2>4, <2>9, <2>10, <2>11
    DEF Next, Timer, TrackerExpires, TerminationExpires, Watchdog, TerminatedExpires, EndSession
<1>3. QED BY <1>1, <1>2

\* No interleaving, end of the session, timer or repeated event makes a stored
\* answer be forgotten: only a failing statement or a crash between storing and
\* announcing it does.
THEOREM StoredIsRemembered == Spec => []StoredIsNotLost
<1>1. Init => StoredIsNotLost
  BY DEF Init, StoredIsNotLost
<1>2. QED BY <1>1, NotLostStep, ReplyInvHolds, TypeInvHolds, PTL DEF Spec
=============================================================================
