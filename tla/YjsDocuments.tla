----------------------------- MODULE YjsDocuments -----------------------------
(***************************************************************************)
(* YjsDocManager and YjsWsHandler (src/api/realtime): the server's copy of *)
(* one collaboratively edited note, the clients joined to it, and the      *)
(* timers that write it to note.yjs_state and drop it from memory.         *)
(*                                                                         *)
(* Every stretch of code between two awaits, and every timer callback, is  *)
(* one action.  A ManagedDoc object is separate from the map entry that    *)
(* refers to it: two joins can make two objects for the note, and the      *)
(* timers and saves of an object outlive its entry.  A Yjs document and    *)
(* its encoded state are the set of edits they contain.                    *)
(***************************************************************************)
EXTENDS Naturals, FiniteSets

CONSTANTS
  Client,     \* connections; the server gives each a fresh client id
  Edit,       \* updates the clients send, each of them new to the server
  Doc,        \* ManagedDoc objects; one that nothing refers to is reused
  NoDoc,      \* docs.get(noteId) is undefined
  Save,       \* bound: calls of persistDoc that wait for the database at once
  MaxFaults   \* bound: failing saves

ASSUME YjsAssumption == NoDoc \notin Doc /\ MaxFaults \in Nat

VARIABLES
  docs,           \* docs.get(noteId)
  content,        \* content[d]: d.doc
  clients,        \* clients[d]: the keys of d.clients
  dirty,          \* objects whose dirty is true
  persistTimer,   \* objects whose persistTimer is armed
  maxFlushTimer,  \* objects whose maxFlushTimer is armed
  evictionTimer,  \* objects whose evictionTimer is armed
  strayTimers,    \* armed eviction timers no object refers to any more
  conn,           \* conn[c]: how far handleConnection is
  gone,           \* connections that were closed before their 'close' handler
                  \* was installed
  row,            \* row[c]: the note's edits as the load for c has read them
  save,           \* save[v]: a call of persistDoc
  closing,        \* onClose: "no", then "flushing", then "down"
  yjsState,       \* the edits in note.yjs_state
  restOnly,       \* the note has content and yjs_state is NULL
  accepted,       \* history: edits applied to the server's document
  raced,          \* history: those applied while a save of it was waiting
  mishaps,        \* history: what else went wrong with the note
  faults

objects  == <<docs, content, clients, dirty>>
timers   == <<persistTimer, maxFlushTimer, evictionTimer, strayTimers>>
joins    == <<conn, gone, row>>
note     == <<yjsState, restOnly>>
history  == <<accepted, raced>>
vars == <<objects, timers, joins, save, closing, note, history, mishaps, faults>>

Idle == [doc |-> NoDoc, snap |-> {}, stage |-> "idle", then |-> "nothing"]

Init ==
  /\ docs = NoDoc
  /\ content = [d \in Doc |-> {}] /\ clients = [d \in Doc |-> {}] /\ dirty = {}
  /\ persistTimer = {} /\ maxFlushTimer = {} /\ evictionTimer = {} /\ strayTimers = 0
  /\ conn = [c \in Client |-> "new"] /\ gone = {} /\ row = [c \in Client |-> {}]
  /\ save = [v \in Save |-> Idle]
  /\ closing = "no"
  /\ yjsState = {} /\ restOnly \in BOOLEAN
  /\ accepted = {} /\ raced = {} /\ mishaps = {} /\ faults = 0

-----------------------------------------------------------------------------
(* persistDoc.                                                             *)

Saving(d) == \E v \in Save : save[v].stage # "idle" /\ save[v].doc = d

IdleSave == CHOOSE v \in Save : save[v] = Idle

\* Up to the first await; the arguments are the timers that are armed before.
\* A call without a current, dirty document returns at once.
persistDoc(persist, maxFlush, then) ==
  IF docs \in dirty
  THEN /\ \E v \in Save : save[v] = Idle
       /\ save' = [save EXCEPT ![IdleSave] =
            [doc |-> docs, snap |-> content[docs], stage |-> "waiting", then |-> then]]
       /\ persistTimer' = persist \ {docs}
       /\ maxFlushTimer' = maxFlush \ {docs}
  ELSE save' = save /\ persistTimer' = persist /\ maxFlushTimer' = maxFlush

\* Mutant of SaveCommits: only what is new is encoded, not the full state.
BugSaveDifference(v) ==
  /\ save[v].stage = "waiting"
  /\ save' = [save EXCEPT ![v].stage = "committed"]
  /\ yjsState' = save[v].snap \ yjsState
  /\ restOnly' = FALSE
  /\ UNCHANGED <<objects, timers, joins, closing, history, mishaps, faults>>

\* The transaction commits; another one may have overtaken it.
SaveCommits(v) ==
  /\ save[v].stage = "waiting"
  /\ save' = [save EXCEPT ![v].stage = "committed"]
  /\ yjsState' = save[v].snap
  /\ restOnly' = FALSE
  /\ UNCHANGED <<objects, timers, joins, closing, history, mishaps, faults>>

\* The reference to an armed timer is overwritten, not cleared.
armEviction(d) ==
  /\ evictionTimer' = evictionTimer \cup {d}
  /\ strayTimers' = IF d \in evictionTimer THEN strayTimers + 1 ELSE strayTimers

\* leaveRoom goes on when the save it awaits is over.
Continue(v) ==
  /\ save' = [save EXCEPT ![v] = Idle]
  /\ IF save[v].then = "leave" THEN armEviction(save[v].doc)
                               ELSE UNCHANGED <<evictionTimer, strayTimers>>
  /\ UNCHANGED <<docs, content, clients, persistTimer, maxFlushTimer, joins, closing,
                 note, history>>

SaveReturns(v) ==
  /\ save[v].stage = "committed"
  /\ dirty' = dirty \ {save[v].doc}
  /\ Continue(v)
  /\ UNCHANGED <<mishaps, faults>>

\* No connection, a failing statement, or a commit whose answer is lost.
SaveFails(v) ==
  /\ save[v].stage # "idle"
  /\ faults < MaxFaults /\ faults' = faults + 1
  /\ dirty' = dirty \cup {save[v].doc}
  /\ mishaps' = mishaps \cup {"failed"}
  /\ Continue(v)

-----------------------------------------------------------------------------
(* The timers of markDirty.                                                *)

PersistTimer(d) ==
  /\ d \in persistTimer
  /\ persistDoc(persistTimer \ {d}, maxFlushTimer, "nothing")
  /\ UNCHANGED <<evictionTimer, strayTimers, objects, joins, closing, note, history,
                 mishaps, faults>>

MaxFlushTimer(d) ==
  /\ d \in maxFlushTimer
  /\ IF d \in dirty
     THEN persistDoc(persistTimer, maxFlushTimer \ {d}, "nothing")
     ELSE maxFlushTimer' = maxFlushTimer \ {d} /\ UNCHANGED <<save, persistTimer>>
  /\ UNCHANGED <<evictionTimer, strayTimers, objects, joins, closing, note, history,
                 mishaps, faults>>

-----------------------------------------------------------------------------
(* Eviction.                                                               *)

\* The entry is deleted with the timers its object knows of; its document is
\* destroyed, and only a save of it may still refer to the object.
drop(eviction) ==
  /\ docs' = NoDoc
  /\ content' = [d \in Doc |-> IF d = docs THEN {} ELSE content[d]]
  /\ clients' = [d \in Doc |-> IF d = docs THEN {} ELSE clients[d]]
  /\ dirty' = dirty \ {docs}
  /\ persistTimer' = persistTimer \ {docs}
  /\ maxFlushTimer' = maxFlushTimer \ {docs}
  /\ evictionTimer' = eviction \ {docs}

\* Mutant of Evictable: documents with clients are evicted too.
BugEvictInUse == docs # NoDoc

Evictable == docs # NoDoc /\ clients[docs] = {}

\* Dropped while it is being written, the document may be loaded again before
\* the write commits: the history records it.
evictDoc(eviction) ==
  IF Evictable
  THEN /\ drop(eviction)
       /\ mishaps' = IF Saving(docs) THEN mishaps \cup {"evicted"} ELSE mishaps
  ELSE /\ evictionTimer' = eviction
       /\ UNCHANGED <<objects, persistTimer, maxFlushTimer, mishaps>>

EvictionTimer(d) ==
  /\ d \in evictionTimer
  /\ evictDoc(evictionTimer \ {d})
  /\ UNCHANGED <<strayTimers, joins, save, closing, note, history, faults>>

StrayTimer ==
  /\ strayTimers > 0
  /\ strayTimers' = strayTimers - 1
  /\ evictDoc(evictionTimer)
  /\ UNCHANGED <<joins, save, closing, note, history, faults>>

\* Another note is loaded while YJS_MAX_DOCS documents are in memory.
evictLeastRecentlyUsed ==
  /\ Evictable
  /\ evictDoc(evictionTimer)
  /\ UNCHANGED <<strayTimers, joins, save, closing, note, history, faults>>

-----------------------------------------------------------------------------
(* joinRoom, called by handleConnection.                                   *)

Connect(c) ==
  /\ conn[c] = "new" /\ closing = "no"
  /\ conn' = [conn EXCEPT ![c] = "authorizing"]
  /\ UNCHANGED <<objects, timers, gone, row, save, closing, note, history, mishaps, faults>>

Joining == {"authorizing", "loading", "loaded", "bootstrapped"}

\* handleConnection's caller installs the socket's handlers when it returns.
SocketCloses(c) ==
  /\ conn[c] \in Joining /\ c \notin gone
  /\ gone' = gone \cup {c}
  /\ UNCHANGED <<objects, timers, conn, row, save, closing, note, history, mishaps, faults>>

\* Access is denied, the note is deleted, or a query fails.
JoinThrows(c) ==
  /\ conn[c] \in {"authorizing", "loading"}
  /\ conn' = [conn EXCEPT ![c] = "left"]
  /\ UNCHANGED <<objects, timers, gone, row, save, closing, note, history, mishaps, faults>>

\* The entry's object is d, whose members so far are known.  A connection that
\* was closed meanwhile becomes a member that nothing will remove.
enterRoom(c, d, members) ==
  /\ clients' = [clients EXCEPT ![d] = members \cup {c}]
  /\ evictionTimer' = evictionTimer \ {d}
  /\ conn' = [conn EXCEPT ![c] = IF c \in gone THEN "ghost" ELSE "joined"]
  /\ UNCHANGED <<persistTimer, maxFlushTimer, strayTimers, gone, save, closing, note,
                 history, faults>>

JoinActive(c) ==
  /\ conn[c] = "authorizing" /\ docs # NoDoc
  /\ enterRoom(c, docs, clients[docs])
  /\ UNCHANGED <<docs, content, dirty, row, mishaps>>

StartLoad(c) ==
  /\ conn[c] = "authorizing" /\ docs = NoDoc
  /\ conn' = [conn EXCEPT ![c] = "loading"]
  /\ UNCHANGED <<objects, timers, gone, row, save, closing, note, history, mishaps, faults>>

ReadNote(c) ==
  /\ conn[c] = "loading"
  /\ row' = [row EXCEPT ![c] = yjsState]
  /\ conn' = [conn EXCEPT ![c] = IF restOnly THEN "bootstrapped" ELSE "loaded"]
  /\ UNCHANGED <<objects, timers, gone, save, closing, note, history, mishaps, faults>>

Unused(d) ==
  /\ d # docs /\ ~Saving(d)
  /\ d \notin persistTimer \cup maxFlushTimer \cup evictionTimer

UnusedDoc == CHOOSE d \in Doc : Unused(d)

\* Nothing looks again whether another join has made an object meanwhile, or
\* whether one that came and went has saved the note.
loadOrCreateDoc(c) ==
  /\ conn[c] \in {"loaded", "bootstrapped"}
  /\ \E d \in Doc : Unused(d)
  /\ LET d == UnusedDoc IN
       /\ docs' = d
       /\ content' = [content EXCEPT ![d] = row[c]]
       /\ dirty' = IF conn[c] = "bootstrapped" THEN dirty \cup {d} ELSE dirty \ {d}
       /\ enterRoom(c, d, {})
  /\ row' = [row EXCEPT ![c] = {}]
  /\ mishaps' = mishaps \cup (IF docs # NoDoc THEN {"duplicated"} ELSE {})
                        \cup (IF row[c] # yjsState THEN {"stale"} ELSE {})

-----------------------------------------------------------------------------
(* Editing and leaving.                                                    *)

\* Mutant of markDirty: the timers are armed when the document becomes dirty.
BugArmOnce(d) ==
  /\ dirty' = dirty \cup {d}
  /\ persistTimer' = IF d \in dirty THEN persistTimer ELSE persistTimer \cup {d}
  /\ maxFlushTimer' = IF d \in dirty THEN maxFlushTimer ELSE maxFlushTimer \cup {d}

markDirty(d) ==
  /\ dirty' = dirty \cup {d}
  /\ persistTimer' = persistTimer \cup {d}
  /\ maxFlushTimer' = maxFlushTimer \cup {d}

\* An update for a note without a document is dropped.
handleMessage(c, e) ==
  /\ conn[c] = "joined" /\ docs # NoDoc
  /\ e \notin accepted
  /\ content' = [content EXCEPT ![docs] = @ \cup {e}]
  /\ markDirty(docs)
  /\ accepted' = accepted \cup {e}
  /\ raced' = IF Saving(docs) THEN raced \cup {e} ELSE raced
  /\ UNCHANGED <<docs, clients, evictionTimer, strayTimers, joins, save, closing, note,
                 mishaps, faults>>

\* Mutant of lastLeaves: eviction is scheduled and nothing is written first.
BugLeaveUnsaved ==
  /\ armEviction(docs)
  /\ UNCHANGED <<persistTimer, maxFlushTimer, save>>

\* The last client has left: save, then schedule the eviction.
lastLeaves ==
  /\ persistDoc(persistTimer, maxFlushTimer, "leave")
  /\ IF docs \in dirty THEN UNCHANGED <<evictionTimer, strayTimers>> ELSE armEviction(docs)

\* handleDisconnect, which calls leaveRoom.
leaveRoom(c) ==
  /\ conn[c] = "joined"
  /\ conn' = [conn EXCEPT ![c] = "left"]
  /\ IF docs = NoDoc
     THEN UNCHANGED <<clients, timers, save>>
     ELSE /\ clients' = [clients EXCEPT ![docs] = @ \ {c}]
          /\ IF clients[docs] \subseteq {c} THEN lastLeaves ELSE UNCHANGED <<timers, save>>
  /\ UNCHANGED <<docs, content, dirty, gone, row, closing, note, history, mishaps, faults>>

-----------------------------------------------------------------------------
(* Shutdown.                                                               *)

\* @fastify/websocket has begun to close every socket, YjsWsHandler forgets its
\* clients, and flushAll saves the document.  YjsHandler's shutdown of the same
\* manager repeats the save.
shutdown ==
  /\ closing = "no"
  /\ closing' = "flushing"
  /\ conn' = [c \in Client |-> IF conn[c] = "joined" THEN "left" ELSE conn[c]]
  /\ gone' = gone \cup {c \in Client : conn[c] \in Joining}
  /\ persistDoc(persistTimer, maxFlushTimer, "flush")
  /\ UNCHANGED <<objects, evictionTimer, strayTimers, row, note, history, mishaps, faults>>

ShutdownEnds ==
  /\ closing = "flushing"
  /\ \A v \in Save : save[v].then # "flush"
  /\ closing' = "down"
  /\ drop(evictionTimer)
  /\ mishaps' = IF Saving(docs) THEN mishaps \cup {"evicted"} ELSE mishaps
  /\ UNCHANGED <<strayTimers, joins, save, note, history, faults>>

-----------------------------------------------------------------------------
Join(c) ==
  \/ Connect(c) \/ SocketCloses(c) \/ JoinThrows(c)
  \/ JoinActive(c) \/ StartLoad(c) \/ ReadNote(c) \/ loadOrCreateDoc(c)

Timer ==
  \/ \E d \in Doc : PersistTimer(d) \/ MaxFlushTimer(d) \/ EvictionTimer(d)
  \/ StrayTimer

Next ==
  \/ \E c \in Client : Join(c) \/ leaveRoom(c)
  \/ \E c \in Client, e \in Edit : handleMessage(c, e)
  \/ \E v \in Save : SaveCommits(v) \/ SaveReturns(v) \/ SaveFails(v)
  \/ Timer
  \/ evictLeastRecentlyUsed
  \/ shutdown \/ ShutdownEnds

Spec == Init /\ [][Next]_vars

\* Timers fire and the database answers.
FairSpec ==
  /\ Spec
  /\ \A d \in Doc :
       WF_vars(PersistTimer(d)) /\ WF_vars(MaxFlushTimer(d)) /\ WF_vars(EvictionTimer(d))
  /\ WF_vars(StrayTimer)
  /\ \A v \in Save : WF_vars(SaveCommits(v)) /\ WF_vars(SaveReturns(v))

-----------------------------------------------------------------------------
(* Properties.                                                             *)

Stages == {"idle", "waiting", "committed"}

TypeOK ==
  /\ docs \in Doc \cup {NoDoc}
  /\ content \in [Doc -> SUBSET Edit] /\ clients \in [Doc -> SUBSET Client]
  /\ dirty \in SUBSET Doc /\ persistTimer \in SUBSET Doc
  /\ maxFlushTimer \in SUBSET Doc /\ evictionTimer \in SUBSET Doc
  /\ strayTimers \in Nat
  /\ conn \in [Client -> Joining \cup {"new", "joined", "ghost", "left"}]
  /\ gone \in SUBSET Client /\ row \in [Client -> SUBSET Edit]
  /\ save \in [Save -> [doc : Doc \cup {NoDoc}, snap : SUBSET Edit, stage : Stages,
                        then : {"nothing", "leave", "flush"}]]
  /\ closing \in {"no", "flushing", "down"}
  /\ yjsState \in SUBSET Edit /\ restOnly \in BOOLEAN
  /\ accepted \in SUBSET Edit /\ raced \in SUBSET Edit
  /\ mishaps \in SUBSET {"failed", "evicted", "duplicated", "stale"}
  /\ faults \in Nat

Quiet == \A v \in Save : save[v].stage = "idle"

\* A document that is clean or dropped has been written: unless a save failed,
\* two joins made two objects, a load was overtaken by a save, or a document
\* was dropped while it was being written, every edit the server applied is in
\* note.yjs_state then, but for those that came while a save was waiting.
CleanIsStored ==
  mishaps = {} /\ Quiet /\ docs \notin dirty => accepted \ raced \subseteq yjsState

\* A client that is joined has the document its updates go to, and keeps it in
\* memory, as long as no two joins made two objects: no timer, no late
\* continuation of a leave and no other note takes it away.
JoinedIsServed ==
  "duplicated" \notin mishaps =>
    \A c \in Client : conn[c] = "joined" => docs # NoDoc /\ c \in clients[docs]

\* What is written stays written: no save puts an older state of the document
\* over a newer one, with the same exceptions.
StoredStays ==
  [][mishaps' = {} => yjsState \ raced \subseteq yjsState']_vars

\* Every edit is written in the end although nobody leaves or edits again, with
\* the same exceptions.
EventuallyStored == \A e \in Edit :
  e \in accepted ~> (e \in yjsState \/ e \in raced \/ mishaps # {})

\* YJS_MAX_FLUSH_INTERVAL_MS: "Max forced flush interval (ms) - caps crash-loss
\* window".
EveryEditIsStored == \A e \in Edit : e \in accepted ~> e \in yjsState
=============================================================================
