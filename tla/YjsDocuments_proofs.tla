-------------------------- MODULE YjsDocuments_proofs --------------------------
(***************************************************************************)
(* Proofs about YjsDocuments for any number of connections, edits, objects *)
(* and saves.                                                              *)
(***************************************************************************)
EXTENDS YjsDocuments, TLAPS

USE DEF objects, timers, joins, note, history

\* Facts of the environment of every proof.
USE YjsAssumption

-----------------------------------------------------------------------------
(* The slots that the model chooses.                                       *)

\* persistDoc takes a slot of Save that is idle.
LEMMA IdleSaveChosen ==
  ASSUME \E v \in Save : save[v] = Idle
  PROVE  IdleSave \in Save /\ save[IdleSave] = Idle
  BY Zenon DEF IdleSave

\* A load makes an object that nothing refers to.
LEMMA UnusedDocChosen ==
  ASSUME \E d \in Doc : Unused(d)
  PROVE  UnusedDoc \in Doc /\ Unused(UnusedDoc)
  BY Zenon DEF UnusedDoc

\* The fields of an idle call.
LEMMA IdleFields ==
  /\ Idle \in [doc : Doc \cup {NoDoc}, snap : SUBSET Edit, stage : Stages,
               then : {"nothing", "leave", "flush"}]
  /\ Idle.doc = NoDoc /\ Idle.snap = {} /\ Idle.stage = "idle" /\ Idle.then = "nothing"
  BY DEF Idle, Stages

-----------------------------------------------------------------------------
(* Types.                                                                  *)

Call == [doc : Doc \cup {NoDoc}, snap : SUBSET Edit, stage : Stages,
         then : {"nothing", "leave", "flush"}]

\* TypeOK in two parts, which the steps change together or not at all.
ManagerTypes ==
  /\ docs \in Doc \cup {NoDoc}
  /\ content \in [Doc -> SUBSET Edit] /\ clients \in [Doc -> SUBSET Client]
  /\ dirty \in SUBSET Doc /\ persistTimer \in SUBSET Doc
  /\ maxFlushTimer \in SUBSET Doc /\ evictionTimer \in SUBSET Doc
  /\ strayTimers \in Nat
  /\ save \in [Save -> Call]

OtherTypes ==
  /\ conn \in [Client -> Joining \cup {"new", "joined", "ghost", "left"}]
  /\ gone \in SUBSET Client /\ row \in [Client -> SUBSET Edit]
  /\ closing \in {"no", "flushing", "down"}
  /\ yjsState \in SUBSET Edit /\ restOnly \in BOOLEAN
  /\ accepted \in SUBSET Edit /\ raced \in SUBSET Edit
  /\ mishaps \in SUBSET {"failed", "evicted", "duplicated", "stale"}
  /\ faults \in Nat

LEMMA TypeParts == TypeOK <=> ManagerTypes /\ OtherTypes
  BY DEF TypeOK, ManagerTypes, OtherTypes, Call

\* A call of persistDoc keeps the types of what it changes.
LEMMA PersistTypes ==
  ASSUME TypeOK, NEW P \in SUBSET Doc, NEW M \in SUBSET Doc,
         NEW t \in {"nothing", "leave", "flush"}, persistDoc(P, M, t)
  PROVE  /\ save' \in [Save -> Call]
         /\ persistTimer' \in SUBSET Doc /\ maxFlushTimer' \in SUBSET Doc
<1>1. CASE docs \in dirty
  <2>1. IdleSave \in Save
    BY <1>1, IdleSaveChosen DEF persistDoc
  <2>2. [doc |-> docs, snap |-> content[docs], stage |-> "waiting", then |-> t] \in Call
    BY <1>1 DEF TypeOK, Call, Stages
  <2> QED BY <1>1, <2>1, <2>2 DEF persistDoc, TypeOK, Call
<1>2. CASE docs \notin dirty
  BY <1>2 DEF persistDoc, TypeOK, Call
<1> QED BY <1>1, <1>2

LEMMA DropTypes ==
  ASSUME TypeOK, NEW E \in SUBSET Doc, drop(E)
  PROVE  /\ docs' \in Doc \cup {NoDoc}
         /\ content' \in [Doc -> SUBSET Edit] /\ clients' \in [Doc -> SUBSET Client]
         /\ dirty' \in SUBSET Doc /\ persistTimer' \in SUBSET Doc
         /\ maxFlushTimer' \in SUBSET Doc /\ evictionTimer' \in SUBSET Doc
  BY DEF drop, TypeOK

LEMMA EvictTypes ==
  ASSUME TypeOK, NEW E \in SUBSET Doc, evictDoc(E)
  PROVE  /\ docs' \in Doc \cup {NoDoc}
         /\ content' \in [Doc -> SUBSET Edit] /\ clients' \in [Doc -> SUBSET Client]
         /\ dirty' \in SUBSET Doc /\ persistTimer' \in SUBSET Doc
         /\ maxFlushTimer' \in SUBSET Doc /\ evictionTimer' \in SUBSET Doc
         /\ mishaps' \in SUBSET {"failed", "evicted", "duplicated", "stale"}
<1>1. CASE Evictable
  BY <1>1, DropTypes DEF evictDoc, TypeOK
<1>2. CASE ~Evictable
  BY <1>2 DEF evictDoc, TypeOK
<1> QED BY <1>1, <1>2

LEMMA ArmTypes ==
  ASSUME TypeOK, NEW d \in Doc, armEviction(d)
  PROVE  evictionTimer' \in SUBSET Doc /\ strayTimers' \in Nat
  BY DEF armEviction, TypeOK

\* A save that waits is a save of an object: persistDoc returns without one.
SavesSomething == \A v \in Save :
  /\ save[v].stage # "idle" => save[v].doc \in Doc
  /\ save[v].then # "nothing" => save[v].stage # "idle"

TypeInv == TypeOK /\ SavesSomething

LEMMA PersistSaves ==
  ASSUME TypeInv, NEW P, NEW M, NEW t, persistDoc(P, M, t)
  PROVE  SavesSomething'
<1>1. CASE docs \in dirty
  <2>1. IdleSave \in Save
    BY <1>1, IdleSaveChosen DEF persistDoc
  <2> QED BY <1>1, <2>1 DEF persistDoc, TypeInv, TypeOK, SavesSomething
<1>2. CASE docs \notin dirty
  BY <1>2 DEF persistDoc, TypeInv, SavesSomething
<1> QED BY <1>1, <1>2

LEMMA ContinueTypes ==
  ASSUME TypeInv, NEW v \in Save, save[v].stage # "idle", Continue(v)
  PROVE  /\ save' \in [Save -> Call] /\ SavesSomething'
         /\ evictionTimer' \in SUBSET Doc /\ strayTimers' \in Nat
<1>1. save' \in [Save -> Call]
  BY IdleFields DEF Continue, TypeInv, TypeOK, Call
<1>2. SavesSomething'
  BY IdleFields DEF Continue, TypeInv, TypeOK, SavesSomething
<1>3. evictionTimer' \in SUBSET Doc /\ strayTimers' \in Nat
  BY ArmTypes DEF Continue, TypeInv, TypeOK, SavesSomething
<1> QED BY <1>1, <1>2, <1>3

-----------------------------------------------------------------------------
LEMMA TypeInvStep == TypeInv /\ [Next]_vars => TypeInv'
<1> SUFFICES ASSUME TypeInv, [Next]_vars PROVE TypeInv'
  OBVIOUS
<1> USE DEF TypeInv
<1> DEFINE AllTypes == ManagerTypes /\ OtherTypes
<1>0. AllTypes /\ SavesSomething
  BY TypeParts
<1> SUFFICES AllTypes' /\ SavesSomething'
  BY TypeParts DEF TypeOK, ManagerTypes, OtherTypes, Call
<1>1. ASSUME NEW c \in Client, Join(c) PROVE AllTypes' /\ SavesSomething'
  <2>1. CASE Connect(c) \/ SocketCloses(c) \/ JoinThrows(c) \/ StartLoad(c)
    BY <1>0, <2>1 DEF Connect, SocketCloses, JoinThrows, StartLoad, ManagerTypes, OtherTypes,
                      Joining, SavesSomething
  <2>2. CASE JoinActive(c)
    <3>1. ManagerTypes'
      BY <1>0, <2>2 DEF JoinActive, enterRoom, ManagerTypes
    <3>2. OtherTypes' /\ SavesSomething'
      BY <1>0, <2>2 DEF JoinActive, enterRoom, OtherTypes, Joining, SavesSomething
    <3> QED BY <3>1, <3>2
  <2>3. CASE ReadNote(c)
    BY <1>0, <2>3 DEF ReadNote, ManagerTypes, OtherTypes, Joining, SavesSomething
  <2>4. CASE loadOrCreateDoc(c)
    <3>1. UnusedDoc \in Doc
      BY <2>4, UnusedDocChosen DEF loadOrCreateDoc
    <3>2. ManagerTypes'
      BY <1>0, <2>4, <3>1 DEF loadOrCreateDoc, enterRoom, ManagerTypes, OtherTypes
    <3>3. OtherTypes' /\ SavesSomething'
      BY <1>0, <2>4 DEF loadOrCreateDoc, enterRoom, OtherTypes, Joining, SavesSomething
    <3> QED BY <3>2, <3>3
  <2> QED BY <1>1, <2>1, <2>2, <2>3, <2>4 DEF Join
<1>2. ASSUME NEW c \in Client, leaveRoom(c) PROVE AllTypes' /\ SavesSomething'
  <2>1. OtherTypes'
    BY <1>0, <1>2 DEF leaveRoom, OtherTypes
  <2>2. CASE docs # NoDoc /\ clients[docs] \subseteq {c}
    <3>1. lastLeaves /\ docs \in Doc
      BY <1>0, <1>2, <2>2 DEF leaveRoom, ManagerTypes
    <3>2. SavesSomething'
      BY <3>1, PersistSaves DEF lastLeaves
    <3>3. /\ save' \in [Save -> Call]
          /\ persistTimer' \in SUBSET Doc /\ maxFlushTimer' \in SUBSET Doc
      BY <1>0, <3>1, PersistTypes DEF lastLeaves, ManagerTypes
    <3>4. evictionTimer' \in SUBSET Doc /\ strayTimers' \in Nat
      BY <1>0, <3>1, ArmTypes DEF lastLeaves, ManagerTypes
    <3>5. ManagerTypes'
      BY <1>0, <1>2, <3>3, <3>4 DEF leaveRoom, ManagerTypes
    <3> QED BY <2>1, <3>2, <3>5
  <2>3. CASE ~(docs # NoDoc /\ clients[docs] \subseteq {c})
    BY <1>0, <1>2, <2>1, <2>3 DEF leaveRoom, ManagerTypes, SavesSomething
  <2> QED BY <2>2, <2>3
<1>3. ASSUME NEW c \in Client, NEW e \in Edit, handleMessage(c, e)
      PROVE AllTypes' /\ SavesSomething'
  BY <1>0, <1>3 DEF handleMessage, markDirty, ManagerTypes, OtherTypes, SavesSomething
<1>4. ASSUME NEW v \in Save, SaveCommits(v) PROVE AllTypes' /\ SavesSomething'
  <2>1. ManagerTypes'
    BY <1>0, <1>4 DEF SaveCommits, ManagerTypes, Call, Stages
  <2>2. OtherTypes'
    BY <1>0, <1>4 DEF SaveCommits, ManagerTypes, OtherTypes, Call
  <2>3. SavesSomething'
    BY <1>0, <1>4 DEF SaveCommits, SavesSomething, ManagerTypes, Call
  <2> QED BY <2>1, <2>2, <2>3
<1>5. ASSUME NEW v \in Save, SaveReturns(v) PROVE AllTypes' /\ SavesSomething'
  <2>1. /\ save' \in [Save -> Call] /\ SavesSomething'
        /\ evictionTimer' \in SUBSET Doc /\ strayTimers' \in Nat
    BY <1>5, ContinueTypes DEF SaveReturns
  <2>2. ManagerTypes'
    BY <1>0, <1>5, <2>1 DEF SaveReturns, Continue, ManagerTypes
  <2>3. OtherTypes'
    BY <1>0, <1>5 DEF SaveReturns, Continue, OtherTypes
  <2> QED BY <2>1, <2>2, <2>3
<1>6. ASSUME NEW v \in Save, SaveFails(v) PROVE AllTypes' /\ SavesSomething'
  <2>1. /\ save' \in [Save -> Call] /\ SavesSomething'
        /\ evictionTimer' \in SUBSET Doc /\ strayTimers' \in Nat
    BY <1>6, ContinueTypes DEF SaveFails
  <2>2. ManagerTypes'
    BY <1>0, <1>6, <2>1 DEF SaveFails, Continue, ManagerTypes, SavesSomething
  <2>3. OtherTypes'
    BY <1>0, <1>6 DEF SaveFails, Continue, OtherTypes
  <2> QED BY <2>1, <2>2, <2>3
<1>7. ASSUME NEW d \in Doc, PersistTimer(d) PROVE AllTypes' /\ SavesSomething'
  <2>1. SavesSomething'
    BY <1>7, PersistSaves DEF PersistTimer
  <2>2. /\ save' \in [Save -> Call]
        /\ persistTimer' \in SUBSET Doc /\ maxFlushTimer' \in SUBSET Doc
    <3>1. persistTimer \ {d} \in SUBSET Doc /\ maxFlushTimer \in SUBSET Doc
      BY <1>0 DEF ManagerTypes
    <3> QED BY <1>7, <3>1, PersistTypes DEF PersistTimer
  <2>3. ManagerTypes' /\ OtherTypes'
    BY <1>0, <1>7, <2>2 DEF PersistTimer, ManagerTypes, OtherTypes
  <2> QED BY <2>1, <2>3
<1>8. ASSUME NEW d \in Doc, MaxFlushTimer(d) PROVE AllTypes' /\ SavesSomething'
  <2>1. CASE d \in dirty
    <3>1. SavesSomething'
      BY <1>8, <2>1, PersistSaves DEF MaxFlushTimer
    <3>2. /\ save' \in [Save -> Call]
          /\ persistTimer' \in SUBSET Doc /\ maxFlushTimer' \in SUBSET Doc
      <4>1. persistTimer \in SUBSET Doc /\ maxFlushTimer \ {d} \in SUBSET Doc
        BY <1>0 DEF ManagerTypes
      <4> QED BY <1>8, <2>1, <4>1, PersistTypes DEF MaxFlushTimer
    <3>3. ManagerTypes' /\ OtherTypes'
      BY <1>0, <1>8, <3>2 DEF MaxFlushTimer, ManagerTypes, OtherTypes
    <3> QED BY <3>1, <3>3
  <2>2. CASE d \notin dirty
    BY <1>0, <1>8, <2>2 DEF MaxFlushTimer, ManagerTypes, OtherTypes, SavesSomething
  <2> QED BY <2>1, <2>2
<1>9. ASSUME NEW d \in Doc, EvictionTimer(d) PROVE AllTypes' /\ SavesSomething'
  <2>1. evictionTimer \ {d} \in SUBSET Doc
    BY <1>0 DEF ManagerTypes
  <2> QED BY <1>0, <1>9, <2>1, EvictTypes
          DEF EvictionTimer, ManagerTypes, OtherTypes, SavesSomething
<1>10. ASSUME StrayTimer PROVE AllTypes' /\ SavesSomething'
  BY <1>0, <1>10, EvictTypes DEF StrayTimer, ManagerTypes, OtherTypes, SavesSomething
<1>11. ASSUME evictLeastRecentlyUsed PROVE AllTypes' /\ SavesSomething'
  BY <1>0, <1>11, EvictTypes
  DEF evictLeastRecentlyUsed, ManagerTypes, OtherTypes, SavesSomething
<1>12. ASSUME shutdown PROVE AllTypes' /\ SavesSomething'
  <2>1. SavesSomething'
    BY <1>12, PersistSaves DEF shutdown
  <2>2. /\ save' \in [Save -> Call]
        /\ persistTimer' \in SUBSET Doc /\ maxFlushTimer' \in SUBSET Doc
    BY <1>0, <1>12, PersistTypes DEF shutdown, ManagerTypes
  <2>3. ManagerTypes' /\ OtherTypes'
    BY <1>0, <1>12, <2>2 DEF shutdown, ManagerTypes, OtherTypes
  <2> QED BY <2>1, <2>3
<1>13. ASSUME ShutdownEnds PROVE AllTypes' /\ SavesSomething'
  BY <1>0, <1>13, DropTypes DEF ShutdownEnds, ManagerTypes, OtherTypes, SavesSomething
<1>14. CASE UNCHANGED vars
  BY <1>0, <1>14 DEF vars, ManagerTypes, OtherTypes, SavesSomething
<1> QED BY <1>1, <1>2, <1>3, <1>4, <1>5, <1>6, <1>7, <1>8, <1>9, <1>10, <1>11, <1>12, <1>13,
           <1>14 DEF Next, Timer

LEMMA TypeInvInit == Init => TypeInv
  BY IdleFields DEF Init, TypeInv, TypeOK, SavesSomething, Stages, Joining

\* TypeOK holds for every number of connections, objects and saves: no timer
\* refers to a missing document, and no stray timer fires twice.
THEOREM TypeCorrect == Spec => []TypeOK
<1>1. TypeInv => TypeOK
  BY DEF TypeInv
<1> QED BY TypeInvInit, TypeInvStep, <1>1, PTL DEF Spec

-----------------------------------------------------------------------------
(***************************************************************************)
(* Joined clients.                                                         *)
(***************************************************************************)

\* Once the server closes, no client is joined and none will be.
ClosedOK ==
  closing # "no" => \A c \in Client :
    conn[c] # "joined" /\ (conn[c] \in Joining => c \in gone)

ServedInv == TypeInv /\ ClosedOK /\ JoinedIsServed

\* Whatever drops a document, it has no clients.
LEMMA EvictServes ==
  ASSUME ServedInv, NEW E, evictDoc(E), UNCHANGED conn
  PROVE  JoinedIsServed'
<1>1. CASE Evictable
  BY <1>1 DEF ServedInv, JoinedIsServed, evictDoc, drop, Evictable
<1>2. CASE ~Evictable
  BY <1>2 DEF ServedInv, JoinedIsServed, evictDoc
<1> QED BY <1>1, <1>2

LEMMA ServedInvStep == ServedInv /\ [Next]_vars => ServedInv'
<1> SUFFICES ASSUME ServedInv, [Next]_vars PROVE ServedInv'
  OBVIOUS
<1>0. TypeInv'
  BY TypeInvStep DEF ServedInv
<1> SUFFICES ClosedOK' /\ JoinedIsServed'
  BY <1>0 DEF ServedInv
<1> USE DEF ClosedOK, JoinedIsServed, ServedInv, TypeInv
<1>1. ASSUME NEW c \in Client, Join(c) PROVE ClosedOK' /\ JoinedIsServed'
  <2>1. CASE Connect(c) \/ SocketCloses(c) \/ JoinThrows(c) \/ StartLoad(c) \/ ReadNote(c)
    BY <2>1 DEF Connect, SocketCloses, JoinThrows, StartLoad, ReadNote, Joining, TypeOK
  <2>2. CASE JoinActive(c)
    BY <2>2 DEF JoinActive, enterRoom, Joining, TypeOK
  <2>3. CASE loadOrCreateDoc(c)
    <3>1. UnusedDoc \in Doc
      BY <2>3, UnusedDocChosen DEF loadOrCreateDoc
    <3> QED BY <2>3, <3>1 DEF loadOrCreateDoc, enterRoom, Joining, TypeOK
  <2> QED BY <1>1, <2>1, <2>2, <2>3 DEF Join
<1>2. ASSUME NEW c \in Client, leaveRoom(c) PROVE ClosedOK' /\ JoinedIsServed'
  BY <1>2 DEF leaveRoom, Joining, TypeOK
<1>3. ASSUME NEW c \in Client, NEW e \in Edit, handleMessage(c, e)
      PROVE ClosedOK' /\ JoinedIsServed'
  BY <1>3 DEF handleMessage
<1>4. ASSUME NEW v \in Save, SaveCommits(v) \/ SaveReturns(v) \/ SaveFails(v)
      PROVE ClosedOK' /\ JoinedIsServed'
  BY <1>4 DEF SaveCommits, SaveReturns, SaveFails, Continue
<1>5. ASSUME NEW d \in Doc, PersistTimer(d) \/ MaxFlushTimer(d)
      PROVE ClosedOK' /\ JoinedIsServed'
  BY <1>5 DEF PersistTimer, MaxFlushTimer
<1>6. ASSUME NEW d \in Doc, EvictionTimer(d) PROVE ClosedOK' /\ JoinedIsServed'
  <2>1. JoinedIsServed'
    BY <1>6, EvictServes DEF EvictionTimer
  <2> QED BY <1>6, <2>1 DEF EvictionTimer
<1>7. ASSUME StrayTimer PROVE ClosedOK' /\ JoinedIsServed'
  <2>1. JoinedIsServed'
    BY <1>7, EvictServes DEF StrayTimer
  <2> QED BY <1>7, <2>1 DEF StrayTimer
<1>8. ASSUME evictLeastRecentlyUsed PROVE ClosedOK' /\ JoinedIsServed'
  <2>1. JoinedIsServed'
    BY <1>8, EvictServes DEF evictLeastRecentlyUsed
  <2> QED BY <1>8, <2>1 DEF evictLeastRecentlyUsed
<1>9. ASSUME shutdown PROVE ClosedOK' /\ JoinedIsServed'
  BY <1>9 DEF shutdown, Joining, TypeOK
<1>10. ASSUME ShutdownEnds PROVE ClosedOK' /\ JoinedIsServed'
  BY <1>10 DEF ShutdownEnds
<1>11. CASE UNCHANGED vars
  BY <1>11 DEF vars
<1> QED BY <1>1, <1>2, <1>3, <1>4, <1>5, <1>6, <1>7, <1>8, <1>9, <1>10, <1>11 DEF Next, Timer

\* A joined client has the document its updates go to, unless two joins made
\* two objects for the note.
THEOREM ClientsAreServed == Spec => []JoinedIsServed
<1>1. Init => ServedInv
  BY TypeInvInit DEF Init, ServedInv, ClosedOK, JoinedIsServed
<1>2. ServedInv => JoinedIsServed
  BY DEF ServedInv
<1> QED BY <1>1, ServedInvStep, <1>2, PTL DEF Spec

-----------------------------------------------------------------------------
(***************************************************************************)
(* Stored edits.                                                           *)
(***************************************************************************)

\* The edits no save was waiting for when they came.
Calm == accepted \ raced

\* No copy of the document holds an edit that no client sent.
CopiesOK ==
  /\ yjsState \subseteq accepted
  /\ \A d \in Doc : content[d] \subseteq accepted
  /\ \A c \in Client : row[c] \subseteq accepted
  /\ \A v \in Save : save[v].snap \subseteq accepted

\* Where the calm edits are: in the document; in the note if the document is
\* clean, absent, or a save of it has committed; in every save that is under
\* way, and those are of the current document.
WhereCalmIs ==
  /\ docs # NoDoc => Calm \subseteq content[docs]
  /\ docs \notin dirty => Calm \subseteq yjsState
  /\ \A v \in Save : save[v].stage # "idle" =>
       save[v].doc = docs /\ Calm \subseteq save[v].snap
  /\ \A v \in Save : save[v].stage = "committed" => Calm \subseteq yjsState

\* A dirty document that can be dropped is being saved; when the server closes
\* the calm edits are written, or flushAll waits for the save that does it.
DropsAreSafe ==
  /\ Evictable /\ docs \in dirty => Saving(docs)
  /\ closing # "no" => Calm \subseteq yjsState \/ \E v \in Save : save[v].then = "flush"

StoreInv == ServedInv /\ CopiesOK /\ (mishaps = {} => WhereCalmIs /\ DropsAreSafe)

\* A call of persistDoc copies the current document, which is dirty.
LEMMA PersistStores ==
  ASSUME StoreInv, NEW P, NEW M, NEW t \in {"nothing", "leave", "flush"}, persistDoc(P, M, t),
         UNCHANGED <<docs, content, dirty, row, accepted, raced, yjsState>>
  PROVE  /\ CopiesOK'
         /\ mishaps = {} => WhereCalmIs'
         /\ docs \in dirty => Saving(docs)' /\ \E v \in Save : save'[v].then = t
         /\ Saving(docs) => Saving(docs)'
         /\ \A v \in Save : save[v].then = "flush" => save'[v].then = "flush"
<1> USE DEF StoreInv, ServedInv, TypeInv
<1>1. CASE docs \in dirty
  <2>1. IdleSave \in Save /\ save[IdleSave] = Idle
    BY <1>1, IdleSaveChosen DEF persistDoc
  <2>2. /\ save'[IdleSave].doc = docs /\ save'[IdleSave].snap = content[docs]
        /\ save'[IdleSave].stage = "waiting" /\ save'[IdleSave].then = t
    BY <1>1, <2>1 DEF persistDoc, TypeOK
  <2>3. \A v \in Save : v # IdleSave => save'[v] = save[v]
    BY <1>1, <2>1 DEF persistDoc, TypeOK
  <2>4. docs \in Doc
    BY <1>1 DEF TypeOK
  <2>5. CopiesOK'
    BY <2>2, <2>3, <2>4 DEF CopiesOK
  <2>6. mishaps = {} => WhereCalmIs'
    BY <1>1, <2>2, <2>3, <2>4 DEF WhereCalmIs, Calm
  <2>7. \A v \in Save : v # IdleSave \/ (save[v].stage = "idle" /\ save[v].then = "nothing")
    BY <2>1, IdleFields
  <2> QED BY <2>1, <2>2, <2>3, <2>5, <2>6, <2>7 DEF Saving
<1>2. CASE docs \notin dirty
  BY <1>2 DEF persistDoc, CopiesOK, WhereCalmIs, Calm, Saving
<1> QED BY <1>1, <1>2

\* No save is under way if none is of the current document.
LEMMA NoSaves ==
  ASSUME StoreInv, mishaps = {}, ~Saving(docs) \/ docs = NoDoc
  PROVE  \A v \in Save : save[v].stage = "idle"
  BY DEF StoreInv, ServedInv, TypeInv, SavesSomething, WhereCalmIs, Saving

\* A document is dropped once it is stored.
LEMMA DropStores ==
  ASSUME StoreInv, NEW E, drop(E), mishaps = {}, ~Saving(docs), Calm \subseteq yjsState,
         UNCHANGED <<save, accepted, raced, yjsState>>
  PROVE  WhereCalmIs' /\ (Evictable => Saving(docs))' /\ (Calm \subseteq yjsState)'
<1>1. \A v \in Save : save[v].stage = "idle"
  BY NoSaves
<1> QED BY <1>1 DEF drop, WhereCalmIs, Calm, Evictable

LEMMA DropCopies ==
  ASSUME StoreInv, NEW E, drop(E), UNCHANGED <<row, save, accepted, yjsState>>
  PROVE  CopiesOK'
  BY DEF StoreInv, drop, CopiesOK

\* evictDoc drops a document that is neither dirty nor being saved.
LEMMA EvictStores ==
  ASSUME StoreInv, NEW E, evictDoc(E),
         UNCHANGED <<row, save, closing, accepted, raced, yjsState>>
  PROVE  CopiesOK' /\ (mishaps' = {} => WhereCalmIs' /\ DropsAreSafe')
<1>1. CASE Evictable
  <2>1. CopiesOK'
    BY <1>1, DropCopies DEF evictDoc
  <2>2. ASSUME mishaps' = {} PROVE WhereCalmIs' /\ DropsAreSafe'
    <3>1. mishaps = {} /\ ~Saving(docs)
      BY <1>1, <2>2 DEF evictDoc
    <3>2. Calm \subseteq yjsState
      BY <1>1, <3>1 DEF StoreInv, DropsAreSafe, WhereCalmIs
    <3>3. WhereCalmIs' /\ (Evictable => Saving(docs))' /\ (Calm \subseteq yjsState)'
      BY <1>1, <3>1, <3>2, DropStores DEF evictDoc
    <3> QED BY <3>3 DEF DropsAreSafe
  <2> QED BY <2>1, <2>2
<1>2. CASE ~Evictable
  BY <1>2 DEF evictDoc, StoreInv, CopiesOK, WhereCalmIs, DropsAreSafe, Calm, Evictable, Saving
<1> QED BY <1>1, <1>2

Stored == CopiesOK /\ (mishaps = {} => WhereCalmIs /\ DropsAreSafe)

LEMMA JoinStores ==
  ASSUME StoreInv, NEW c \in Client, Join(c)
  PROVE  Stored'
<1> USE DEF StoreInv, ServedInv, TypeInv, Stored
<1>1. CASE Connect(c) \/ SocketCloses(c) \/ JoinThrows(c) \/ StartLoad(c)
  BY <1>1 DEF Connect, SocketCloses, JoinThrows, StartLoad, CopiesOK, WhereCalmIs, DropsAreSafe,
              Calm, Evictable, Saving
<1>2. CASE ReadNote(c)
  <2>1. CopiesOK'
    BY <1>2 DEF ReadNote, CopiesOK, TypeOK
  <2> QED BY <1>2, <2>1 DEF ReadNote, WhereCalmIs, DropsAreSafe, Calm, Evictable, Saving
<1>3. CASE JoinActive(c)
  <2>1. CopiesOK'
    BY <1>3 DEF JoinActive, enterRoom, CopiesOK
  <2>2. ~Evictable'
    BY <1>3 DEF JoinActive, enterRoom, Evictable, TypeOK
  <2> QED BY <1>3, <2>1, <2>2 DEF JoinActive, enterRoom, WhereCalmIs, DropsAreSafe, Calm
<1>4. CASE loadOrCreateDoc(c)
  <2>1. UnusedDoc \in Doc
    BY <1>4, UnusedDocChosen DEF loadOrCreateDoc
  <2>2. CopiesOK'
    BY <1>4, <2>1 DEF loadOrCreateDoc, enterRoom, CopiesOK, TypeOK
  <2>3. ASSUME mishaps' = {} PROVE WhereCalmIs' /\ DropsAreSafe'
    <3>1. mishaps = {} /\ docs = NoDoc /\ row[c] = yjsState
      BY <1>4, <2>3 DEF loadOrCreateDoc
    <3>2. \A v \in Save : save[v].stage = "idle"
      BY <3>1, NoSaves
    <3>3. Calm \subseteq yjsState
      BY <3>1 DEF WhereCalmIs, TypeOK
    <3>4. docs' = UnusedDoc /\ content'[UnusedDoc] = yjsState /\ Calm' = Calm
      BY <1>4, <2>1, <3>1 DEF loadOrCreateDoc, enterRoom, TypeOK, Calm
    <3>5. WhereCalmIs'
      BY <1>4, <3>2, <3>3, <3>4 DEF loadOrCreateDoc, enterRoom, WhereCalmIs
    <3>6. c \in clients'[docs']
      BY <1>4, <2>1, <3>4 DEF loadOrCreateDoc, enterRoom, TypeOK
    <3> QED BY <1>4, <3>3, <3>4, <3>5, <3>6
            DEF loadOrCreateDoc, enterRoom, DropsAreSafe, Evictable
  <2> QED BY <2>2, <2>3
<1> QED BY <1>1, <1>2, <1>3, <1>4 DEF Join

LEMMA MessageStores ==
  ASSUME StoreInv, NEW c \in Client, NEW e \in Edit, handleMessage(c, e)
  PROVE  Stored'
<1> USE DEF StoreInv, ServedInv, TypeInv, Stored
<1>1. docs \in Doc /\ docs' = docs /\ docs \in dirty' /\ save' = save
  BY DEF handleMessage, markDirty, TypeOK
<1>2. content'[docs] = content[docs] \cup {e}
  BY <1>1 DEF handleMessage, TypeOK
<1>3. CopiesOK'
  BY <1>1 DEF handleMessage, CopiesOK, TypeOK
<1>4. ASSUME mishaps' = {} PROVE WhereCalmIs' /\ DropsAreSafe'
  <2>1. mishaps = {} /\ c \in clients[docs] /\ closing = "no"
    BY <1>4 DEF handleMessage, JoinedIsServed, ClosedOK
  <2>2. DropsAreSafe'
    BY <1>1, <2>1 DEF handleMessage, DropsAreSafe, Evictable
  <2>3. CASE Saving(docs)
    <3>1. Calm' \subseteq Calm
      BY <2>3 DEF handleMessage, Calm
    <3>2. WhereCalmIs'
      BY <1>1, <1>2, <2>1, <3>1 DEF handleMessage, WhereCalmIs
    <3> QED BY <2>2, <3>2
  <2>4. CASE ~Saving(docs)
    <3>1. \A v \in Save : save[v].stage = "idle"
      BY <2>1, <2>4, NoSaves
    <3>2. Calm' \subseteq Calm \cup {e}
      BY DEF handleMessage, Calm
    <3>3. WhereCalmIs'
      BY <1>1, <1>2, <2>1, <3>1, <3>2 DEF WhereCalmIs
    <3> QED BY <2>2, <3>3
  <2> QED BY <2>3, <2>4
<1> QED BY <1>3, <1>4

LEMMA SaveStores ==
  ASSUME StoreInv, NEW v \in Save, SaveCommits(v) \/ SaveReturns(v) \/ SaveFails(v)
  PROVE  Stored'
<1> USE DEF StoreInv, ServedInv, TypeInv, Stored
<1>1. CASE SaveCommits(v)
  <2>1. /\ save'[v].doc = save[v].doc /\ save'[v].snap = save[v].snap
        /\ save'[v].then = save[v].then /\ save[v].stage # "idle"
        /\ \A u \in Save : u # v => save'[u] = save[u]
    BY <1>1 DEF SaveCommits, TypeOK
  <2>2. CopiesOK'
    BY <1>1, <2>1 DEF SaveCommits, CopiesOK
  <2>3. ASSUME mishaps = {} PROVE (Calm \subseteq yjsState)' /\ WhereCalmIs'
    BY <1>1, <2>1, <2>3 DEF SaveCommits, WhereCalmIs, Calm
  <2>4. Saving(docs) => Saving(docs)'
    BY <1>1, <2>1 DEF SaveCommits, Saving
  <2>5. ASSUME mishaps = {} PROVE DropsAreSafe'
    BY <1>1, <2>3, <2>4, <2>5 DEF SaveCommits, DropsAreSafe, Evictable
  <2> QED BY <1>1, <2>2, <2>3, <2>5 DEF SaveCommits
<1>2. CASE SaveReturns(v)
  <2>1. save'[v] = Idle /\ \A u \in Save : u # v => save'[u] = save[u]
    BY <1>2 DEF SaveReturns, Continue, TypeOK
  <2>2. CopiesOK'
    BY <1>2, <2>1, IdleFields DEF SaveReturns, Continue, CopiesOK
  <2>3. ASSUME mishaps = {} PROVE WhereCalmIs' /\ DropsAreSafe'
    <3>1. Calm \subseteq yjsState /\ save[v].doc = docs /\ docs \notin dirty' /\ docs' = docs
      BY <1>2, <2>3 DEF SaveReturns, Continue, WhereCalmIs
    <3>2. WhereCalmIs'
      BY <1>2, <2>1, <2>3, <3>1, IdleFields DEF SaveReturns, Continue, WhereCalmIs, Calm
    <3> QED BY <1>2, <3>1, <3>2 DEF SaveReturns, Continue, DropsAreSafe, Calm
  <2> QED BY <1>2, <2>2, <2>3 DEF SaveReturns
<1>3. CASE SaveFails(v)
  <2>1. save'[v] = Idle /\ \A u \in Save : u # v => save'[u] = save[u]
    BY <1>3 DEF SaveFails, Continue, TypeOK
  <2>2. CopiesOK'
    BY <1>3, <2>1, IdleFields DEF SaveFails, Continue, CopiesOK
  <2> QED BY <1>3, <2>2 DEF SaveFails
<1> QED BY <1>1, <1>2, <1>3

LEMMA StoreInvStep == StoreInv /\ [Next]_vars => StoreInv'
<1> SUFFICES ASSUME StoreInv, [Next]_vars PROVE StoreInv'
  OBVIOUS
<1>0. ServedInv'
  BY ServedInvStep DEF StoreInv
<1> SUFFICES Stored'
  BY <1>0 DEF StoreInv, Stored
<1> USE DEF StoreInv, Stored
<1>1. ASSUME NEW c \in Client, Join(c) PROVE Stored'
  BY <1>1, JoinStores
<1>2. ASSUME NEW c \in Client, leaveRoom(c) PROVE Stored'
  <2>1. docs' = docs /\ closing' = closing /\ mishaps' = mishaps
    BY <1>2 DEF leaveRoom
  <2>2. CASE docs # NoDoc /\ clients[docs] \subseteq {c}
    <3>1. persistDoc(persistTimer, maxFlushTimer, "leave")
      BY <1>2, <2>2 DEF leaveRoom, lastLeaves
    <3>2. /\ CopiesOK'
          /\ mishaps = {} => WhereCalmIs'
          /\ docs \in dirty => Saving(docs)'
          /\ \A v \in Save : save[v].then = "flush" => save'[v].then = "flush"
      BY <1>2, <3>1, PersistStores DEF leaveRoom
    <3>3. mishaps = {} => DropsAreSafe'
      BY <1>2, <2>1, <3>2 DEF leaveRoom, DropsAreSafe, Calm
    <3> QED BY <2>1, <3>2, <3>3
  <2>3. CASE docs = NoDoc
    BY <1>2, <2>3 DEF leaveRoom, CopiesOK, WhereCalmIs, DropsAreSafe, Calm, Evictable, Saving
  <2>4. CASE docs # NoDoc /\ ~(clients[docs] \subseteq {c})
    <3>1. ~Evictable'
      BY <1>2, <2>4 DEF leaveRoom, Evictable, ServedInv, TypeInv, TypeOK
    <3> QED BY <1>2, <2>4, <3>1 DEF leaveRoom, CopiesOK, WhereCalmIs, DropsAreSafe, Calm
  <2> QED BY <2>2, <2>3, <2>4
<1>3. ASSUME NEW c \in Client, NEW e \in Edit, handleMessage(c, e) PROVE Stored'
  BY <1>3, MessageStores
<1>4. ASSUME NEW v \in Save, SaveCommits(v) \/ SaveReturns(v) \/ SaveFails(v)
      PROVE Stored'
  BY <1>4, SaveStores
<1>5. ASSUME NEW d \in Doc, PersistTimer(d) PROVE Stored'
  <2>1. /\ CopiesOK'
        /\ mishaps = {} => WhereCalmIs'
        /\ Saving(docs) => Saving(docs)'
        /\ \A v \in Save : save[v].then = "flush" => save'[v].then = "flush"
    BY <1>5, PersistStores DEF PersistTimer
  <2> QED BY <1>5, <2>1 DEF PersistTimer, DropsAreSafe, Evictable, Calm, Saving
<1>6. ASSUME NEW d \in Doc, MaxFlushTimer(d) PROVE Stored'
  <2>1. CASE d \in dirty
    <3>1. /\ CopiesOK'
          /\ mishaps = {} => WhereCalmIs'
          /\ Saving(docs) => Saving(docs)'
          /\ \A v \in Save : save[v].then = "flush" => save'[v].then = "flush"
      BY <1>6, <2>1, PersistStores DEF MaxFlushTimer
    <3> QED BY <1>6, <3>1 DEF MaxFlushTimer, DropsAreSafe, Evictable, Calm, Saving
  <2>2. CASE d \notin dirty
    BY <1>6, <2>2
    DEF MaxFlushTimer, CopiesOK, WhereCalmIs, DropsAreSafe, Evictable, Calm, Saving
  <2> QED BY <2>1, <2>2
<1>7. ASSUME NEW d \in Doc, EvictionTimer(d) PROVE Stored'
  BY <1>7, EvictStores DEF EvictionTimer
<1>8. ASSUME StrayTimer PROVE Stored'
  BY <1>8, EvictStores DEF StrayTimer
<1>9. ASSUME evictLeastRecentlyUsed PROVE Stored'
  BY <1>9, EvictStores DEF evictLeastRecentlyUsed
<1>10. ASSUME shutdown PROVE Stored'
  <2>1. /\ CopiesOK'
        /\ mishaps = {} => WhereCalmIs'
        /\ docs \in dirty => Saving(docs)' /\ \E v \in Save : save'[v].then = "flush"
    BY <1>10, PersistStores DEF shutdown
  <2>2. ASSUME mishaps = {} PROVE DropsAreSafe'
    BY <1>10, <2>1, <2>2 DEF shutdown, DropsAreSafe, WhereCalmIs, Evictable, Calm, Saving
  <2> QED BY <1>10, <2>1, <2>2 DEF shutdown
<1>11. ASSUME ShutdownEnds PROVE Stored'
  <2>1. CopiesOK'
    BY <1>11, DropCopies DEF ShutdownEnds
  <2>2. ASSUME mishaps' = {} PROVE WhereCalmIs' /\ DropsAreSafe'
    <3>1. mishaps = {} /\ ~Saving(docs) /\ Calm \subseteq yjsState
      BY <1>11, <2>2 DEF ShutdownEnds, DropsAreSafe
    <3>2. WhereCalmIs' /\ (Evictable => Saving(docs))' /\ (Calm \subseteq yjsState)'
      BY <1>11, <3>1, DropStores DEF ShutdownEnds
    <3> QED BY <3>2 DEF DropsAreSafe
  <2> QED BY <2>1, <2>2
<1>12. CASE UNCHANGED vars
  BY <1>12 DEF vars, CopiesOK, WhereCalmIs, DropsAreSafe, Evictable, Calm, Saving
<1> QED BY <1>1, <1>2, <1>3, <1>4, <1>5, <1>6, <1>7, <1>8, <1>9, <1>10, <1>11, <1>12
        DEF Next, Timer

LEMMA StoreInvInit == Init => StoreInv
<1> SUFFICES ASSUME Init PROVE StoreInv
  OBVIOUS
<1>1. ServedInv
  BY TypeInvInit DEF Init, ServedInv, ClosedOK, JoinedIsServed
<1>2. \A v \in Save : save[v] = Idle
  BY DEF Init
<1>3. CopiesOK
  BY <1>2, IdleFields DEF Init, CopiesOK
<1>4. WhereCalmIs /\ DropsAreSafe
  BY <1>2, IdleFields DEF Init, WhereCalmIs, DropsAreSafe, Calm, Evictable
<1> QED BY <1>1, <1>3, <1>4 DEF StoreInv

\* A clean or dropped document is in note.yjs_state but for the edits that came
\* during a save, unless one of the four mishaps happened.
THEOREM CleanDocumentsAreStored == Spec => []CleanIsStored
<1>1. StoreInv => CleanIsStored
  BY DEF StoreInv, WhereCalmIs, CleanIsStored, Calm
<1> QED BY StoreInvInit, StoreInvStep, <1>1, PTL DEF Spec

\* No save takes an edit away that another one wrote, with the same exceptions:
\* every save under way holds all calm edits.
THEOREM WritesStay == Spec => StoredStays
<1>1. StoreInv /\ [Next]_vars => [mishaps' = {} => yjsState \ raced \subseteq yjsState']_vars
  <2> SUFFICES ASSUME StoreInv, Next, mishaps' = {}
               PROVE  yjsState \ raced \subseteq yjsState'
    BY DEF vars
  <2>1. CASE yjsState' = yjsState
    BY <2>1
  <2>2. ASSUME NEW v \in Save, SaveCommits(v) PROVE yjsState \ raced \subseteq yjsState'
    <3>1. mishaps = {} /\ save[v].stage # "idle" /\ yjsState' = save[v].snap
      BY <2>2 DEF SaveCommits
    <3> QED BY <3>1 DEF StoreInv, WhereCalmIs, CopiesOK, Calm
  <2>3. yjsState' = yjsState \/ \E v \in Save : SaveCommits(v)
    BY DEF Next, Join, Timer, Connect, SocketCloses, JoinThrows, JoinActive, StartLoad,
           ReadNote, loadOrCreateDoc, enterRoom, leaveRoom, handleMessage, SaveReturns,
           SaveFails, Continue, PersistTimer, MaxFlushTimer, EvictionTimer, StrayTimer,
           evictLeastRecentlyUsed, shutdown, ShutdownEnds
  <2> QED BY <2>1, <2>2, <2>3
<1> QED BY StoreInvInit, StoreInvStep, <1>1, PTL DEF Spec, StoredStays

-----------------------------------------------------------------------------
(***************************************************************************)
(* The safety half of EventuallyStored: no calm edit is in memory only     *)
(* with nothing under way to write it.  The premises of the fairness are   *)
(* what is left: that timers fire and the database answers.                *)
(***************************************************************************)
Scheduled ==
  \/ \E v \in Save : save[v].stage # "idle" /\ save[v].doc = docs /\ Calm \subseteq save[v].snap
  \/ docs \in dirty /\ docs \in persistTimer \cap maxFlushTimer

UnstoredIsScheduled == mishaps = {} => Calm \subseteq yjsState \/ Scheduled

\* What is written is no longer pending; what is pending is saved or timed.
Pending ==
  mishaps = {} => Calm \subseteq yjsState \/ Saving(docs) \/ docs \in persistTimer \cap maxFlushTimer

\* A call of persistDoc takes a dirty document from its timers to a save; a
\* clean one has nothing to write.
LEMMA PersistKeepsPending ==
  ASSUME StoreInv, Pending, NEW P, NEW M, NEW t \in {"nothing", "leave", "flush"},
         persistDoc(P, M, t),
         UNCHANGED <<docs, content, dirty, row, accepted, raced, yjsState, mishaps>>
  PROVE  Pending'
<1>1. /\ docs \in dirty => Saving(docs)'
      /\ Saving(docs) => Saving(docs)'
  BY PersistStores
<1>2. CASE docs \in dirty
  BY <1>1, <1>2 DEF Pending
<1>3. CASE docs \notin dirty
  BY <1>3 DEF Pending, StoreInv, WhereCalmIs, Calm
<1> QED BY <1>2, <1>3

LEMMA PendingStep == StoreInv /\ Pending /\ [Next]_vars => Pending'
<1> SUFFICES ASSUME StoreInv, Pending, [Next]_vars, mishaps' = {}
             PROVE  (Calm \subseteq yjsState \/ Saving(docs) \/ docs \in persistTimer \cap maxFlushTimer)'
  BY DEF Pending
<1> DEFINE Goal == (Calm \subseteq yjsState \/ Saving(docs) \/ docs \in persistTimer \cap maxFlushTimer)'
<1>t. /\ persistTimer \in SUBSET Doc /\ maxFlushTimer \in SUBSET Doc
      /\ save \in [Save -> Call] /\ docs \in Doc \cup {NoDoc}
  BY DEF StoreInv, ServedInv, TypeInv, TypeOK, Call
<1>1. ASSUME NEW c \in Client, Join(c) PROVE Goal
  <2>1. CASE loadOrCreateDoc(c)
    <3>1. docs = NoDoc /\ mishaps = {} /\ UNCHANGED <<accepted, raced, yjsState>>
      BY <1>1, <2>1 DEF loadOrCreateDoc, enterRoom
    <3>2. docs \notin dirty
      BY <3>1 DEF StoreInv, ServedInv, TypeInv, TypeOK
    <3> QED BY <3>1, <3>2 DEF StoreInv, WhereCalmIs, Calm
  <2>2. CASE ~loadOrCreateDoc(c)
    <3>1. UNCHANGED <<docs, persistTimer, maxFlushTimer, save, accepted, raced, yjsState, mishaps>>
      BY <1>1, <2>2
      DEF Join, Connect, SocketCloses, JoinThrows, JoinActive, enterRoom, StartLoad, ReadNote
    <3> QED BY <3>1 DEF Pending, Calm, Saving
  <2> QED BY <2>1, <2>2
<1>2. ASSUME NEW c \in Client, leaveRoom(c) PROVE Goal
  <2>1. CASE persistDoc(persistTimer, maxFlushTimer, "leave")
    <3>1. UNCHANGED <<docs, content, dirty, row, accepted, raced, yjsState, mishaps>>
      BY <1>2 DEF leaveRoom
    <3> QED BY <1>t, <2>1, <3>1, PersistKeepsPending DEF Pending
  <2>2. CASE UNCHANGED <<persistTimer, maxFlushTimer, save>>
    BY <1>2, <2>2 DEF leaveRoom, Pending, Calm, Saving
  <2> QED BY <1>2, <2>1, <2>2 DEF leaveRoom, lastLeaves
<1>3. ASSUME NEW c \in Client, NEW e \in Edit, handleMessage(c, e) PROVE Goal
  BY <1>3, <1>t DEF handleMessage, markDirty
<1>4. ASSUME NEW v \in Save, SaveCommits(v) PROVE Goal
  <2>1. Saving(docs) => Saving(docs)'
    BY <1>4, <1>t DEF SaveCommits, Saving, Call
  <2>2. mishaps = {} /\ Calm \subseteq save[v].snap /\ Calm' = Calm
    BY <1>4 DEF SaveCommits, StoreInv, WhereCalmIs, Calm
  <2> QED BY <1>4, <2>2 DEF SaveCommits
<1>5. ASSUME NEW v \in Save, SaveReturns(v) PROVE Goal
  BY <1>5 DEF SaveReturns, Continue, StoreInv, WhereCalmIs, Calm
<1>6. ASSUME NEW v \in Save, SaveFails(v) PROVE FALSE
  BY <1>6 DEF SaveFails
<1>7. ASSUME NEW d \in Doc, PersistTimer(d) PROVE Goal
  BY <1>7, <1>t, PersistKeepsPending DEF PersistTimer, Pending
<1>8. ASSUME NEW d \in Doc, MaxFlushTimer(d) PROVE Goal
  <2>1. CASE d \in dirty
    BY <1>8, <1>t, <2>1, PersistKeepsPending DEF MaxFlushTimer, Pending
  <2>2. CASE d \notin dirty
    <3>1. /\ UNCHANGED <<docs, dirty, persistTimer, save, accepted, raced, yjsState, mishaps>>
          /\ maxFlushTimer' = maxFlushTimer \ {d}
      BY <1>8, <2>2 DEF MaxFlushTimer
    <3>2. CASE d = docs
      BY <2>2, <3>1, <3>2 DEF StoreInv, WhereCalmIs, Calm
    <3>3. CASE d # docs
      BY <3>1, <3>3 DEF Pending, Calm, Saving
    <3> QED BY <3>2, <3>3
  <2> QED BY <2>1, <2>2
<1>9. ASSUME NEW E, evictDoc(E), UNCHANGED <<save, accepted, raced, yjsState>> PROVE Goal
  <2>1. CASE Evictable
    <3>1. mishaps = {} /\ ~Saving(docs)
      BY <1>9, <2>1 DEF evictDoc
    <3> QED BY <1>9, <2>1, <3>1 DEF StoreInv, DropsAreSafe, WhereCalmIs, Calm
  <2>2. CASE ~Evictable
    BY <1>9, <2>2 DEF evictDoc, Pending, Calm, Saving
  <2> QED BY <2>1, <2>2
<1>10. CASE \/ \E d \in Doc : EvictionTimer(d)
            \/ StrayTimer \/ evictLeastRecentlyUsed
  BY <1>9, <1>10 DEF EvictionTimer, StrayTimer, evictLeastRecentlyUsed
<1>11. CASE shutdown
  BY <1>11, <1>t, PersistKeepsPending DEF shutdown, Pending
<1>12. CASE ShutdownEnds
  <2>1. mishaps = {} /\ closing # "no" /\ \A v \in Save : save[v].then # "flush"
    BY <1>12 DEF ShutdownEnds
  <2> QED BY <1>12, <2>1 DEF ShutdownEnds, StoreInv, DropsAreSafe, Calm
<1>13. CASE UNCHANGED vars
  BY <1>13 DEF vars, Pending, Calm, Saving
<1> QED BY <1>1, <1>2, <1>3, <1>4, <1>5, <1>6, <1>7, <1>8, <1>10, <1>11, <1>12, <1>13
        DEF Next, Timer

\* An edit that waits to be written has both timers armed, or is in a save under
\* way: no leave, eviction, shutdown, timer that fires early or second join
\* leaves it in memory alone, with the exceptions of CleanIsStored.
THEOREM EditsAreScheduled == Spec => []UnstoredIsScheduled
<1>1. Init => Pending
  BY DEF Init, Pending, Calm
<1>2. StoreInv /\ Pending => UnstoredIsScheduled
  <2> SUFFICES ASSUME StoreInv, Pending, mishaps = {}, ~(Calm \subseteq yjsState)
               PROVE  Scheduled
    BY DEF UnstoredIsScheduled
  <2>1. docs \in dirty /\ \A v \in Save : save[v].stage # "idle" => Calm \subseteq save[v].snap
    BY DEF StoreInv, WhereCalmIs
  <2> QED BY <2>1 DEF Pending, Saving, Scheduled
<1> QED BY <1>1, <1>2, StoreInvInit, StoreInvStep, PendingStep, PTL DEF Spec
=============================================================================
