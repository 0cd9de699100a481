---------------------------- MODULE ServerLedger ----------------------------
(***************************************************************************)
(* Aurora's authoritative side of synchronization: the tables notes,       *)
(* canvas_objects, operations, conflicts and snapshots, and the HTTP       *)
(* handlers that read and write them concurrently.                         *)
(*                                                                         *)
(* A handler serves one request.  Between two of its awaited queries any   *)
(* other handler may run, so each query outside a transaction is an action *)
(* of its own.  A transaction is one action where its row locks make it    *)
(* atomic: FOR UPDATE on the object's row, or on the note's.  Where the    *)
(* object has no row there is nothing to lock, and the transaction is two  *)
(* actions: the read that finds nothing, and the writes up to the commit.  *)
(*                                                                         *)
(* Deletion of the ledger's old rows is allowed at any time, which covers  *)
(* every retention period.  The owner check is left out (one owner), and   *)
(* an object belongs to one note for good, its id being a fresh UUID.      *)
(***************************************************************************)
EXTENDS CanvasRevisions, Sequences, FiniteSets

CONSTANTS
    Objects, Notes, OpIds, ConflictIds, Handlers,
    NoConflict,      \* an unused row of the conflicts table
    NoteOf,          \* [Objects -> Notes]
    ObjectOf,        \* [OpIds -> Objects]: an operation id is never moved to another object
    MaxOperations,   \* bound: operations received, over all batches
    MaxBatch,        \* bound: operations in one batch
    MaxBase,         \* bound: largest base revision a client names
    MaxNoteRevision, \* bound: owner requests stop once a note reached this revision
    MaxSnapshots     \* bound: snapshots kept at once

ASSUME NoteOfType == NoteOf \in [Objects -> Notes]
ASSUME ObjectOfType == ObjectOf \in [OpIds -> Objects]
ASSUME BoundsType == {MaxOperations, MaxBatch, MaxBase, MaxNoteRevision, MaxSnapshots} \subseteq Nat

NoteRow == [state : {"live", "trashed", "gone"}, revision : Nat]
Outcomes == {"none", "applied", "conflict"}
Operation == [id : OpIds, base : Nat, mutation : Mutation]
Conflict == [op : OpIds, mutation : Mutation, resolved : BOOLEAN]
Snapshot == [note : Notes, state : {"live", "trashed"}, saved : [Objects -> Contents \cup {Absent}]]
Change == [object : Objects, version : MaybeVersion]
Ack == [op : OpIds, status : {"applied", "duplicate", "conflict"}]

ASSUME NoConflictIsNoRow == NoConflict \notin Conflict

VARIABLES
    objects,    \* canvas_objects: the authoritative version of each object
    notes,      \* notes: [state, revision] of each note
    ledger,     \* operations: the recorded outcome of each operation id
    conflicts,  \* conflicts: the row of each conflict id
    snapshots,  \* snapshots
    pc,         \* where each handler is in its request
    todo,       \* the notes an ingesting handler has yet to check
    queue,      \* the operations it has yet to ingest
    row,        \* the ledger row it read for a duplicate delivery
    target,     \* the conflict a resolving handler works on
    outbound,   \* the changes it committed and has yet to broadcast
    acks,       \* the acknowledgements its response will carry
    sent,       \* every change broadcast so far
    received,   \* operations received so far
    effects,    \* history: how often each operation id was decided
    forgotten,  \* history: how often its ledger row was deleted
    highest,    \* history: the highest revision each object was ever given
    dropped     \* history: some handler died with changes to broadcast

tables == <<objects, notes, ledger, conflicts, snapshots>>
handler == <<pc, todo, queue, row, target, outbound, acks>>
history == <<effects, forgotten, highest>>
vars == <<tables, handler, sent, received, history, dropped>>

Steps == {"idle", "check", "dup", "reack", "reload", "txn", "write",
          "resolve", "rewrite", "cast", "respond"}

TablesType ==
    /\ objects \in [Objects -> MaybeVersion]
    /\ notes \in [Notes -> NoteRow]
    /\ ledger \in [OpIds -> Outcomes]
    /\ conflicts \in [ConflictIds -> Conflict \cup {NoConflict}]
    /\ snapshots \subseteq Snapshot

\* A handler between the arrival of a batch and the end of an operation has one.
Ingesting == {"check", "dup", "reack", "reload", "txn", "write"}

HandlersType ==
    /\ pc \in [Handlers -> Steps]
    /\ todo \in [Handlers -> SUBSET Notes]
    /\ queue \in [Handlers -> Seq(Operation)]
    /\ \A h \in Handlers : pc[h] \in Ingesting => queue[h] # <<>>
    /\ row \in [Handlers -> Outcomes]
    /\ target \in [Handlers -> ConflictIds \cup {NoConflict}]
    /\ outbound \in [Handlers -> SUBSET Change]
    /\ acks \in [Handlers -> SUBSET Ack]

HistoryType ==
    /\ sent \subseteq Change
    /\ received \in Nat
    /\ effects \in [OpIds -> Nat]
    /\ forgotten \in [OpIds -> Nat]
    /\ highest \in [Objects -> Int]
    /\ dropped \in BOOLEAN

TypeOK == TablesType /\ HandlersType /\ HistoryType

Init ==
    /\ objects = [o \in Objects |-> Absent]
    /\ notes = [n \in Notes |-> [state |-> "live", revision |-> 0]]
    /\ ledger = [id \in OpIds |-> "none"]
    /\ conflicts = [c \in ConflictIds |-> NoConflict]
    /\ snapshots = {}
    /\ pc = [h \in Handlers |-> "idle"]
    /\ todo = [h \in Handlers |-> {}]
    /\ queue = [h \in Handlers |-> <<>>]
    /\ row = [h \in Handlers |-> "none"]
    /\ target = [h \in Handlers |-> NoConflict]
    /\ outbound = [h \in Handlers |-> {}]
    /\ acks = [h \in Handlers |-> {}]
    /\ sent = {}
    /\ received = 0
    /\ effects = [id \in OpIds |-> 0]
    /\ forgotten = [id \in OpIds |-> 0]
    /\ highest = [o \in Objects |-> -1]
    /\ dropped = FALSE
-----------------------------------------------------------------------------
(* What a transaction does to the tables *)

ObjectsOf(n) == {o \in Objects : NoteOf[o] = n}

\* A note update that forgets the revision, as "SET updated_at = now()" alone would.
TouchedWithoutRevision(n) == notes[n]

\* touchNote
Touched(n) == [notes[n] EXCEPT !.revision = @ + 1]
TouchNote(n) == notes' = [notes EXCEPT ![n] = Touched(n)]

\* canvas_objects after the rows of some objects were replaced, and its history.
WriteObjects(new) ==
    /\ objects' = new
    /\ highest' = [o \in Objects |-> IF new[o] = Absent THEN highest[o]
                                     ELSE Larger(highest[o], new[o].revision)]

\* An "ON CONFLICT DO NOTHING" on the ledger insert: a second row is no error.
AnyKeyAccepted(id) == TRUE

\* The primary key of the operations table.
KeyIsFree(id) == ledger[id] = "none"

\* insertOperationRow: a second row of an id is a unique violation.
RecordOutcome(id, outcome) ==
    /\ KeyIsFree(id)
    /\ ledger' = [ledger EXCEPT ![id] = outcome]
    /\ effects' = [effects EXCEPT ![id] = @ + 1]
    /\ UNCHANGED forgotten

\* insertConflictRow
RecordConflict(op) ==
    \E c \in ConflictIds :
        /\ conflicts[c] = NoConflict
        /\ conflicts' = [conflicts EXCEPT
               ![c] = [op |-> op.id, mutation |-> op.mutation, resolved |-> FALSE]]
-----------------------------------------------------------------------------
(* Ingestion of a batch: ingestOperations and ingestOperation *)

Batches ==
    UNION {{b \in [1..k -> [id : OpIds, base : 0..MaxBase, mutation : Mutation]] :
               \A i, j \in 1..k : i # j => b[i].id # b[j].id} : k \in 1..MaxBatch}

\* Handler h moves to step s of its request.
GoTo(h, s) == pc' = [pc EXCEPT ![h] = s]

\* A batch loop that never looks whether operations are left.
NextStepWithoutEnd(rest) == "dup"

\* The next operation of the batch, or the response when there is none left.
NextStep(rest) == IF rest = <<>> THEN "respond" ELSE "dup"

\* A batch arrives; each distinct note of it is checked before any operation.
Receive(h, batch) ==
    /\ pc[h] = "idle"
    /\ received + Len(batch) <= MaxOperations
    /\ received' = received + Len(batch)
    /\ queue' = [queue EXCEPT ![h] = batch]
    /\ todo' = [todo EXCEPT ![h] = {NoteOf[ObjectOf[batch[i].id]] : i \in DOMAIN batch}]
    /\ GoTo(h, "check")
    /\ UNCHANGED <<tables, row, target, outbound, acks, sent, history, dropped>>

\* ensureNoteOwned; a missing or trashed note fails the whole request (Fail).
CheckNote(h) ==
    /\ pc[h] = "check"
    /\ \E n \in todo[h] :
           /\ notes[n].state = "live"
           /\ todo' = [todo EXCEPT ![h] = @ \ {n}]
           /\ GoTo(h, IF todo[h] = {n} THEN "dup" ELSE "check")
    /\ UNCHANGED <<tables, queue, row, target, outbound, acks, sent, received, history, dropped>>

\* The duplicate check, before and outside the transaction.
DuplicateCheck(h) ==
    /\ pc[h] = "dup"
    /\ GoTo(h, IF ledger[Head(queue[h]).id] = "none" THEN "txn" ELSE "reack")
    /\ UNCHANGED <<tables, todo, queue, row, target, outbound, acks, sent, received, history, dropped>>

\* reackDuplicate reads the ledger again; a row deleted since is "not found" (Fail).
ReadRecorded(h) ==
    /\ pc[h] = "reack"
    /\ ledger[Head(queue[h]).id] # "none"
    /\ row' = [row EXCEPT ![h] = ledger[Head(queue[h]).id]]
    /\ GoTo(h, "reload")
    /\ UNCHANGED <<tables, todo, queue, target, outbound, acks, sent, received, history, dropped>>

ReackStatus(recorded) == IF recorded = "applied" THEN "duplicate" ELSE "conflict"

\* The rest of reackDuplicate: the current object is read for the acknowledgement.
ReloadCurrent(h) ==
    /\ pc[h] = "reload"
    /\ acks' = [acks EXCEPT ![h] = @ \cup
           {[op |-> Head(queue[h]).id, status |-> ReackStatus(row[h])]}]
    /\ queue' = [queue EXCEPT ![h] = Tail(@)]
    /\ GoTo(h, NextStep(Tail(queue[h])))
    /\ UNCHANGED <<tables, todo, row, target, outbound, sent, received, history, dropped>>

\* loadObjectForUpdate finds no row, and locks nothing.
ReadAbsent(h) ==
    /\ pc[h] = "txn"
    /\ objects[ObjectOf[Head(queue[h]).id]] = Absent
    /\ GoTo(h, "write")
    /\ UNCHANGED <<tables, todo, queue, row, target, outbound, acks, sent, received, history, dropped>>

\* The object's version the transaction of h works with.
Loaded(h) == IF pc[h] = "write" THEN Absent ELSE objects[ObjectOf[Head(queue[h]).id]]

\* h may commit: it holds the row's lock, or found no row before.
InTransaction(h) ==
    \/ pc[h] = "write"
    \/ pc[h] = "txn" /\ objects[ObjectOf[Head(queue[h]).id]] # Absent

Acknowledge(h, status) ==
    /\ acks' = [acks EXCEPT ![h] = @ \cup {[op |-> Head(queue[h]).id, status |-> status]}]
    /\ queue' = [queue EXCEPT ![h] = Tail(@)]

\* The foreign keys of the rows written refuse a note that is gone (Fail).
ForeignKeyHolds(n) == notes[n].state # "gone"

\* The transaction of an upsert that applies.
ApplyUpsert(h, op, o) ==
    /\ InTransaction(h)
    /\ ForeignKeyHolds(NoteOf[o])
    /\ op.mutation # Deleted
    /\ Applies(Loaded(h), op.base)
    /\ LET v == [revision |-> NextRevision(Loaded(h)), content |-> op.mutation] IN
           /\ WriteObjects([objects EXCEPT ![o] = v])
           /\ outbound' = [outbound EXCEPT ![h] = {[object |-> o, version |-> v]}]
    /\ RecordOutcome(op.id, "applied")
    /\ TouchNote(NoteOf[o])
    /\ Acknowledge(h, "applied")
    /\ GoTo(h, "cast")
    /\ UNCHANGED <<conflicts, snapshots, todo, row, target, sent, received, dropped>>

\* Trusting the row that was loaded, not the row that was deleted.
LoadedSomething(h, o) == Loaded(h) # Absent

\* deleteObject's result: the DELETE returned a row.
Existed(h, o) == objects[o] # Absent

\* The transaction of a delete that applies; only a row that went touches the note.
ApplyDelete(h, op, o) ==
    /\ InTransaction(h)
    /\ ForeignKeyHolds(NoteOf[o])
    /\ op.mutation = Deleted
    /\ Applies(Loaded(h), op.base)
    /\ WriteObjects([objects EXCEPT ![o] = Absent])
    /\ outbound' = [outbound EXCEPT ![h] = {[object |-> o, version |-> Absent]}]
    /\ RecordOutcome(op.id, "applied")
    /\ IF Existed(h, o) THEN TouchNote(NoteOf[o]) ELSE UNCHANGED notes
    /\ Acknowledge(h, "applied")
    /\ GoTo(h, "cast")
    /\ UNCHANGED <<conflicts, snapshots, todo, row, target, sent, received, dropped>>

\* The transaction of an operation that conflicts; nothing is broadcast.
Park(h, op, o) ==
    /\ InTransaction(h)
    /\ ForeignKeyHolds(NoteOf[o])
    /\ ~Applies(Loaded(h), op.base)
    /\ RecordConflict(op)
    /\ RecordOutcome(op.id, "conflict")
    /\ TouchNote(NoteOf[o])
    /\ Acknowledge(h, "conflict")
    /\ GoTo(h, NextStep(Tail(queue[h])))
    /\ UNCHANGED <<objects, snapshots, todo, row, target, outbound, sent, received, highest, dropped>>

\* The ledger insert hits the primary key: rollback, then the duplicate's answer.
UniqueViolation(h) ==
    /\ InTransaction(h)
    /\ ledger[Head(queue[h]).id] # "none"
    /\ GoTo(h, "reack")
    /\ UNCHANGED <<tables, todo, queue, row, target, outbound, acks, sent, received, history, dropped>>

Ingest(h) ==
    LET op == Head(queue[h])
        o  == ObjectOf[op.id]
    IN  ApplyUpsert(h, op, o) \/ ApplyDelete(h, op, o) \/ Park(h, op, o)

\* broadcastToOwner, after the commit.
Broadcast(h) ==
    /\ pc[h] = "cast"
    /\ sent' = sent \cup outbound[h]
    /\ outbound' = [outbound EXCEPT ![h] = {}]
    /\ GoTo(h, NextStep(queue[h]))
    /\ UNCHANGED <<tables, todo, queue, row, target, acks, received, history, dropped>>

\* Handler h forgets its request.
Leave(h) ==
    /\ GoTo(h, "idle")
    /\ todo' = [todo EXCEPT ![h] = {}]
    /\ queue' = [queue EXCEPT ![h] = <<>>]
    /\ row' = [row EXCEPT ![h] = "none"]
    /\ target' = [target EXCEPT ![h] = NoConflict]
    /\ outbound' = [outbound EXCEPT ![h] = {}]
    /\ acks' = [acks EXCEPT ![h] = {}]

Respond(h) ==
    /\ pc[h] = "respond"
    /\ Leave(h)
    /\ UNCHANGED <<tables, sent, received, history, dropped>>

\* An exception or the death of the process: open transactions roll back, the
\* committed ones stay, and the client gets an error or nothing at all.
Fail(h) ==
    /\ pc[h] # "idle"
    /\ Leave(h)
    /\ dropped' = (dropped \/ outbound[h] # {})
    /\ UNCHANGED <<tables, sent, received, history>>
-----------------------------------------------------------------------------
(* Conflict resolution: POST /api/sync/conflicts/:id/resolve *)

StartResolve(h, c) ==
    /\ pc[h] = "idle"
    /\ conflicts[c] # NoConflict
    /\ target' = [target EXCEPT ![h] = c]
    /\ GoTo(h, "resolve")
    /\ UNCHANGED <<tables, todo, queue, row, outbound, acks, sent, received, history, dropped>>

\* Another handler's open transaction holds the lock on conflict row c.
ConflictLocked(h, c) == \E g \in Handlers \ {h} : pc[g] = "rewrite" /\ target[g] = c

\* A conflict row that is there, unlocked and not resolved yet.
Resolvable(h, c) ==
    /\ c # NoConflict
    /\ conflicts[c] # NoConflict
    /\ ~conflicts[c].resolved
    /\ ~ConflictLocked(h, c)

MarkResolved(c) == conflicts' = [conflicts EXCEPT ![c].resolved = TRUE]

\* "base" keeps what the server has now.
KeepBase(h, c) ==
    /\ pc[h] = "resolve"
    /\ Resolvable(h, c)
    /\ MarkResolved(c)
    /\ LET o == ObjectOf[conflicts[c].op] IN
           /\ TouchNote(NoteOf[o])
           /\ outbound' = [outbound EXCEPT ![h] =
                  IF objects[o] = Absent THEN {} ELSE {[object |-> o, version |-> objects[o]]}]
    /\ GoTo(h, "cast")
    /\ UNCHANGED <<objects, ledger, snapshots, todo, queue, row, target, acks, sent, received, history, dropped>>

\* "incoming" finds no object to lock; the conflict row stays locked.
ResolveReadsAbsent(h, c) ==
    /\ pc[h] = "resolve"
    /\ Resolvable(h, c)
    /\ objects[ObjectOf[conflicts[c].op]] = Absent
    /\ GoTo(h, "rewrite")
    /\ UNCHANGED <<tables, todo, queue, row, target, outbound, acks, sent, received, history, dropped>>

\* "incoming" writes the parked version over whatever revision is current, or deletes.
TakeIncoming(h, c) ==
    /\ Resolvable(h, c)
    /\ LET o == ObjectOf[conflicts[c].op]
           current == IF pc[h] = "rewrite" THEN Absent ELSE objects[o]
           v == IF conflicts[c].mutation = Deleted THEN Absent
                ELSE [revision |-> NextRevision(current), content |-> conflicts[c].mutation]
       IN  /\ pc[h] = "rewrite" \/ (pc[h] = "resolve" /\ objects[o] # Absent)
           /\ WriteObjects([objects EXCEPT ![o] = v])
           /\ TouchNote(NoteOf[o])
           /\ outbound' = [outbound EXCEPT ![h] = {[object |-> o, version |-> v]}]
    /\ MarkResolved(c)
    /\ GoTo(h, "cast")
    /\ UNCHANGED <<ledger, snapshots, todo, queue, row, target, acks, sent, received,
                   effects, forgotten, dropped>>

Resolve(h) == KeepBase(h, target[h]) \/ ResolveReadsAbsent(h, target[h]) \/ TakeIncoming(h, target[h])
-----------------------------------------------------------------------------
(* Other requests that change a note and its objects *)

\* Owner requests are modelled while the note's revision is within the bound.
OwnerMayEdit(n) == notes[n].state # "gone" /\ notes[n].revision < MaxNoteRevision

\* createSnapshot: the note's lock keeps the objects it reads from changing.
CreateSnapshot(n) ==
    /\ OwnerMayEdit(n)
    /\ Cardinality(snapshots) < MaxSnapshots
    /\ snapshots' = snapshots \cup
           {[note |-> n, state |-> notes[n].state,
             saved |-> [o \in Objects |-> IF objects[o] = Absent \/ NoteOf[o] # n THEN Absent
                                          ELSE objects[o].content]]}
    /\ TouchNote(n)
    /\ UNCHANGED <<objects, ledger, conflicts, handler, sent, received, history, dropped>>

\* cleanupSnapshots
ExpireSnapshot(s) ==
    /\ snapshots' = snapshots \ {s}
    /\ UNCHANGED <<objects, notes, ledger, conflicts, handler, sent, received, history, dropped>>

\* The object o as the restore of snapshot s leaves it.
RestoredVersion(s, o) ==
    IF NoteOf[o] # s.note THEN objects[o]
    ELSE IF s.saved[o] = Absent THEN Absent
    ELSE [revision |-> RestoredRevision(objects[o], notes[s.note].revision),
          content |-> s.saved[o]]

\* restoreSnapshot: every object of the note is replaced under the note's lock.
RestoreSnapshot(h, s) ==
    /\ pc[h] = "idle"
    /\ OwnerMayEdit(s.note)
    /\ LET new == [o \in Objects |-> RestoredVersion(s, o)]
           told == {o \in ObjectsOf(s.note) : new[o] # Absent \/ objects[o] # Absent}
       IN  /\ WriteObjects(new)
           /\ outbound' = [outbound EXCEPT ![h] =
                  {[object |-> o, version |-> new[o]] : o \in told}]
    /\ notes' = [notes EXCEPT ![s.note] = [Touched(s.note) EXCEPT !.state = s.state]]
    /\ GoTo(h, "cast")
    /\ UNCHANGED <<ledger, conflicts, snapshots, todo, queue, row, target, acks, sent, received,
                   effects, forgotten, dropped>>

\* The page route without the broadcast of the objects it moved.
NothingToAnnounce(moved) == {}

ShiftedVersion(o) == [objects[o] EXCEPT !.revision = @ + 1]

\* The broadcast of the page route: the rows the UPDATE returned.
ShiftedChanges(moved) == {[object |-> o, version |-> ShiftedVersion(o)] : o \in moved}

\* createPageBelow: the objects below the new page, whichever they are, move down.
InsertPage(h, n, moved) ==
    /\ pc[h] = "idle"
    /\ OwnerMayEdit(n)
    /\ \A o \in moved : objects[o] # Absent
    /\ WriteObjects([o \in Objects |-> IF o \in moved THEN ShiftedVersion(o) ELSE objects[o]])
    /\ TouchNote(n)
    /\ outbound' = [outbound EXCEPT ![h] = ShiftedChanges(moved)]
    /\ GoTo(h, "cast")
    /\ UNCHANGED <<ledger, conflicts, snapshots, todo, queue, row, target, acks, sent, received,
                   effects, forgotten, dropped>>

\* setNoteTrashed, both ways.
SetTrashed(n, s) ==
    /\ OwnerMayEdit(n)
    /\ notes' = [notes EXCEPT ![n] = [Touched(n) EXCEPT !.state = s]]
    /\ UNCHANGED <<objects, ledger, conflicts, snapshots, handler, sent, received, history, dropped>>

\* deleteNote's permanent delete and cleanupExpiredTrash: everything of the note
\* cascades.  deleteNote does not look at trashed_at again, so the note may be live.
PurgeNote(n) ==
    /\ notes[n].state # "gone"
    /\ \A h \in Handlers : ~(pc[h] = "rewrite" /\ NoteOf[ObjectOf[conflicts[target[h]].op]] = n)
    /\ notes' = [notes EXCEPT ![n].state = "gone"]
    /\ objects' = [o \in Objects |-> IF NoteOf[o] = n THEN Absent ELSE objects[o]]
    /\ ledger' = [id \in OpIds |-> IF NoteOf[ObjectOf[id]] = n THEN "none" ELSE ledger[id]]
    /\ forgotten' = [id \in OpIds |-> IF NoteOf[ObjectOf[id]] = n /\ ledger[id] # "none"
                                      THEN forgotten[id] + 1 ELSE forgotten[id]]
    /\ conflicts' = [c \in ConflictIds |->
           IF conflicts[c] = NoConflict THEN NoConflict
           ELSE IF NoteOf[ObjectOf[conflicts[c].op]] = n THEN NoConflict ELSE conflicts[c]]
    /\ snapshots' = {s \in snapshots : s.note # n}
    /\ UNCHANGED <<handler, sent, received, effects, highest, dropped>>

\* cleanupOperations
ExpireOperation(id) ==
    /\ ledger[id] # "none"
    /\ ledger' = [ledger EXCEPT ![id] = "none"]
    /\ forgotten' = [forgotten EXCEPT ![id] = @ + 1]
    /\ UNCHANGED <<objects, notes, conflicts, snapshots, handler, sent, received, effects, highest, dropped>>
-----------------------------------------------------------------------------
Handle(h) ==
    \/ \E batch \in Batches : Receive(h, batch)
    \/ CheckNote(h)
    \/ DuplicateCheck(h)
    \/ ReadRecorded(h)
    \/ ReloadCurrent(h)
    \/ ReadAbsent(h)
    \/ Ingest(h)
    \/ UniqueViolation(h)
    \/ Broadcast(h)
    \/ Respond(h)
    \/ Fail(h)
    \/ \E c \in ConflictIds : StartResolve(h, c)
    \/ Resolve(h)
    \/ \E s \in snapshots : RestoreSnapshot(h, s)
    \/ \E n \in Notes : \E moved \in SUBSET ObjectsOf(n) : InsertPage(h, n, moved)

Housekeeping ==
    \/ \E n \in Notes : CreateSnapshot(n) \/ PurgeNote(n)
    \/ \E n \in Notes, s \in {"live", "trashed"} : SetTrashed(n, s)
    \/ \E s \in snapshots : ExpireSnapshot(s)
    \/ \E id \in OpIds : ExpireOperation(id)

Next == (\E h \in Handlers : Handle(h)) \/ Housekeeping

Spec == Init /\ [][Next]_vars
-----------------------------------------------------------------------------
(* Properties *)

\* "The server makes operation IDs idempotent" (docs/ARCHITECTURE.md, boundary 4):
\* however many handlers ingest deliveries of one id, it is decided once for as
\* long as its ledger row is kept.
DecidedOncePerRow ==
    \A id \in OpIds : effects[id] = forgotten[id] + (IF ledger[id] = "none" THEN 0 ELSE 1)

\* An acknowledgement tells what the ledger recorded, also when it is answered from
\* a second delivery, after a unique violation or while other handlers commit.
AcksTellTheOutcome ==
    \A h \in Handlers : \A a \in acks[h] :
        forgotten[a.op] = 0 =>
            ledger[a.op] = IF a.status = "conflict" THEN "conflict" ELSE "applied"

\* A note's revision is at least every revision any of its objects ever had, so
\* that it can serve as the watermark restoreSnapshot and the clients use it as.
WatermarkCoversObjects ==
    \A o \in Objects :
        /\ highest[o] <= notes[NoteOf[o]].revision
        /\ objects[o] # Absent => objects[o].revision <= highest[o]

\* An operation recorded as a conflict has its row in the conflicts table: what the
\* client sent is kept for its owner even if the response never arrives.
ConflictsAreKept ==
    \A id \in OpIds : ledger[id] = "conflict" =>
        \E c \in ConflictIds : conflicts[c] # NoConflict /\ conflicts[c].op = id

\* When no request is running and none died between commit and broadcast, the
\* version of every object has been broadcast, whichever request wrote it.
QuietMeansBroadcast ==
    (~dropped /\ \A h \in Handlers : pc[h] = "idle") =>
        \A o \in Objects : objects[o] # Absent => [object |-> o, version |-> objects[o]] \in sent

\* nextRestoredObjectRevision: a restored object is newer than every version of it
\* any client may have cached, deleted or not.
RestoredIsNewest ==
    [][\A h \in Handlers : \A s \in snapshots : RestoreSnapshot(h, s) =>
           \A o \in ObjectsOf(s.note) :
               objects'[o] # Absent => objects'[o].revision > highest[o]]_vars

\* Whatever commits a change to a note's objects also raises the note's revision,
\* even a delete that found no row first and a row when it deleted.
ChangesRaiseTheNote ==
    [][\A o \in Objects :
           (objects'[o] # objects[o] /\ notes'[NoteOf[o]].state # "gone") =>
               notes'[NoteOf[o]].revision > notes[NoteOf[o]].revision]_vars

\* The service as its clients may rely on it.
Promise == INSTANCE OperationOutcomes WITH outcome <- ledger, value <- objects
ImplementsOutcomes == Promise!Spec

\* "Object and note revisions increase monotonically inside the same mutation
\* transaction" (docs/ARCHITECTURE.md): the version an object has is never older
\* by its revision than one it had before.
RevisionsNeverGoBack ==
    \A o \in Objects : objects[o] # Absent => objects[o].revision >= highest[o]
=============================================================================
