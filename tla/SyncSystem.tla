----------------------------- MODULE SyncSystem -----------------------------
(***************************************************************************)
(* Devices editing one canvas object offline-first, and the server: each   *)
(* device's canvas, IndexedDB cache and durable outbox, the flush loop     *)
(* that sends the outbox and stores the acknowledgements, the WebSocket    *)
(* broadcasts and the hydration of the cache.                              *)
(*                                                                         *)
(* An action of a device is what runs between two awaits.  IndexedDB does  *)
(* the page's work in the order it is asked, so the flows that read the    *)
(* outbox and then write go on in the order they read; a handler that does *)
(* nothing between its read and its write is one action.  A handler of the *)
(* server ingests an operation in one step, the steps in between being     *)
(* ServerLedger's.  An edit is known by its number: the number is its      *)
(* content, and the operation id it was given when it was made.            *)
(***************************************************************************)
EXTENDS CanvasRevisions, FiniteSets, Sequences

CONSTANTS
    Devices,
    Start,             \* the object as every device and the server first have it
    None,              \* no operation, no message, no author
    MaxFailures,       \* bound: network errors and page reloads
    MaxHydrations,     \* bound: hydrations started
    MaxDeletes,        \* bound: edits that delete
    EditsDuringFlush,  \* whether the user goes on editing while a flush runs
    ResponsesGetLost   \* whether the response of a request the server got may be lost

\* rev is the revision inside the object an upsert carries; edit the user's edit.
Op == [id : Contents, edit : Contents, kind : {"upsert", "delete"}, base : Nat, rev : Nat]
Row == [op : Op, due : BOOLEAN]
AckRecord == [id : Contents, status : {"applied", "duplicate", "conflict"}, object : MaybeVersion]
Request == [device : Devices, attempt : Nat, todo : SUBSET Op, acks : SUBSET AckRecord,
            outbound : MaybeVersion \cup {None}]
\* What storing an acknowledgement has read and is about to write.
Stored == [object : MaybeVersion, row : Row \cup {None}]
Hydration == [from : Int, got : MaybeVersion \cup {None}]

ASSUME ContentsAreNumbers == Contents \subseteq Nat
ASSUME StartType == Start \in MaybeVersion
ASSUME NoneIsFresh ==
    None \notin Contents \cup Devices \cup MaybeVersion \cup Op \cup Row \cup Stored \cup Hydration
ASSUME BoundsType == {MaxFailures, MaxHydrations, MaxDeletes} \subseteq Nat
ASSUME SwitchesType == {EditsDuringFlush, ResponsesGetLost} \subseteq BOOLEAN
-----------------------------------------------------------------------------
VARIABLES
    server,     \* the authoritative object
    ledger,     \* the recorded outcome of each operation id
    parked,     \* the operations the server keeps as conflicts
    requests,   \* requests the server is working on or has answered
    canvas,     \* the canvas's copy of the object (mirror)
    undoable,   \* whether the canvas's history can bring the object back
    unacked,    \* pendingObjectsRef: the last upsert the canvas has not seen confirmed
    cache,      \* db.objects
    outbox,     \* db.outbox, ordered by operation id
    entering,   \* enqueueChains: operations on their way into the outbox
    found,      \* the queued row that the enqueue under way will replace
    reads,      \* who read the outbox and has yet to go on, in order
    flight,     \* inFlightByObject
    at,         \* where the flush loop is
    batch,      \* the rows it sent
    attempt,    \* number of its request
    acks,       \* the acknowledgements it has yet to store
    awaited,    \* enqueues that storing the next acknowledgement waits for
    stored,     \* what it has read for the acknowledgement it is storing
    told,       \* the changes it will tell the canvas about
    channel,    \* broadcasts on their way to the device
    hydration,  \* the current hydration request
    budget,     \* failures, hydrations and deletes used up
    author,     \* history: who made each edit
    shown,      \* history: the edits each canvas has shown
    saw,        \* history: what the author's canvas had shown before each edit
    latest,     \* history: the last edit each device stored durably
    crossed,    \* history: devices where a flush started in the middle of an enqueue
    landed      \* history: the edits the server applied

served == <<server, ledger, parked>>
copy == <<canvas, unacked, shown>>
screen == <<copy, undoable>>
entry == <<entering, found, reads>>
flushing == <<flight, at, batch, attempt, acks, awaited, stored, told>>
incoming == <<channel, hydration>>
edits == <<author, saw, latest, crossed>>
vars == <<served, requests, screen, cache, outbox, entry, flushing, incoming, budget, edits,
          landed>>

FlushSteps == {"idle", "select", "picked", "wait", "store", "write", "tell"}

TypeOK ==
    /\ server \in MaybeVersion
    /\ ledger \in [Contents -> {"none", "applied", "conflict"}]
    /\ parked \subseteq Op
    /\ requests \subseteq Request
    /\ canvas \in [Devices -> MaybeVersion]
    /\ undoable \in [Devices -> BOOLEAN]
    /\ unacked \in [Devices -> Contents \cup {None}]
    /\ cache \in [Devices -> MaybeVersion]
    /\ outbox \in [Devices -> SUBSET Row]
    /\ entering \in [Devices -> Seq(Op)]
    /\ found \in [Devices -> Row \cup {None}]
    /\ reads \in [Devices -> Seq({"enqueue", "flush", "ack"})]
    /\ flight \in [Devices -> Op \cup {None}]
    /\ at \in [Devices -> FlushSteps]
    /\ batch \in [Devices -> SUBSET Row]
    /\ attempt \in [Devices -> Nat]
    /\ acks \in [Devices -> SUBSET AckRecord]
    /\ awaited \in [Devices -> Nat]
    /\ stored \in [Devices -> Stored \cup {None}]
    /\ told \in [Devices -> Seq(MaybeVersion)]
    /\ channel \in [Devices -> Seq(MaybeVersion)]
    /\ hydration \in [Devices -> Hydration \cup {None}]
    /\ budget \in [{"failures", "hydrations", "deletes"} -> Nat]
    /\ author \in [Contents -> Devices \cup {None}]
    /\ shown \in [Devices -> SUBSET Contents]
    /\ saw \in [Contents -> SUBSET Contents]
    /\ latest \in [Devices -> Contents \cup {None}]
    /\ crossed \subseteq Devices
    /\ landed \subseteq Contents

Init ==
    /\ server = Start
    /\ ledger = [id \in Contents |-> "none"]
    /\ parked = {}
    /\ requests = {}
    /\ canvas = [d \in Devices |-> Start]
    /\ undoable = [d \in Devices |-> FALSE]
    /\ unacked = [d \in Devices |-> None]
    /\ cache = [d \in Devices |-> Start]
    /\ outbox = [d \in Devices |-> {}]
    /\ entering = [d \in Devices |-> <<>>]
    /\ found = [d \in Devices |-> None]
    /\ reads = [d \in Devices |-> <<>>]
    /\ flight = [d \in Devices |-> None]
    /\ at = [d \in Devices |-> "idle"]
    /\ batch = [d \in Devices |-> {}]
    /\ attempt = [d \in Devices |-> 0]
    /\ acks = [d \in Devices |-> {}]
    /\ awaited = [d \in Devices |-> 0]
    /\ stored = [d \in Devices |-> None]
    /\ told = [d \in Devices |-> <<>>]
    /\ channel = [d \in Devices |-> <<>>]
    /\ hydration = [d \in Devices |-> None]
    /\ budget = [b \in {"failures", "hydrations", "deletes"} |-> 0]
    /\ author = [k \in Contents |-> None]
    /\ shown = [d \in Devices |-> IF Start = Absent THEN {} ELSE {Start.content}]
    /\ saw = [k \in Contents |-> {}]
    /\ latest = [d \in Devices |-> None]
    /\ crossed = {}
    /\ landed = {}
-----------------------------------------------------------------------------
(* The canvas *)

Oldest(rows) == CHOOSE r \in rows : \A x \in rows : r.op.id <= x.op.id
Newest(rows) == CHOOSE r \in rows : \A x \in rows : r.op.id >= x.op.id

\* db.outbox.put: the operation id is the primary key.
PutRow(rows, row) == {r \in rows : r.op.id # row.op.id} \cup {row}

RevisionOf(version) == IF version = Absent THEN -1 ELSE version.revision

\* The canvas of d shows version v.
Show(d, v) ==
    /\ canvas' = [canvas EXCEPT ![d] = v]
    /\ shown' = [shown EXCEPT ![d] = IF v = Absent THEN @ ELSE @ \cup {v.content}]

Unmade == {k \in Contents \ {0} : author[k] = None}
NextEdit == CHOOSE k \in Unmade : \A j \in Unmade : k <= j

MayEdit(d) ==
    /\ Unmade # {}
    /\ EditsDuringFlush \/ (at[d] = "idle" /\ entering[d] = <<>>)

\* An edit is shown at once and its operation handed to the enqueue chain.
Edited(d, op) ==
    /\ entering' = [entering EXCEPT ![d] = Append(@, op)]
    /\ undoable' = [undoable EXCEPT ![d] = TRUE]
    /\ author' = [author EXCEPT ![op.edit] = d]
    /\ saw' = [saw EXCEPT ![op.edit] = shown[d]]
    /\ UNCHANGED <<served, requests, cache, outbox, found, reads, flushing, incoming,
                   latest, crossed, landed>>

\* commitUpsert; an undo may bring an object back under its id, at revision 0.
Upsert(d) ==
    LET k == NextEdit
        rev == IF canvas[d] = Absent THEN 0 ELSE canvas[d].revision
    IN  /\ MayEdit(d)
        /\ canvas[d] = Absent => undoable[d] \/ (Start = Absent /\ Unmade = Contents \ {0})
        /\ Show(d, [revision |-> rev, content |-> k])
        /\ unacked' = [unacked EXCEPT ![d] = k]
        /\ Edited(d, [id |-> k, edit |-> k, kind |-> "upsert", base |-> rev, rev |-> rev])
        /\ UNCHANGED budget

\* makeDeleteOperation; pendingObjectsRef keeps what it has.
Delete(d) ==
    LET k == NextEdit
    IN  /\ MayEdit(d)
        /\ canvas[d] # Absent
        /\ budget["deletes"] < MaxDeletes
        /\ budget' = [budget EXCEPT !["deletes"] = @ + 1]
        /\ Show(d, Absent)
        /\ Edited(d, [id |-> k, edit |-> k, kind |-> "delete", base |-> canvas[d].revision,
                      rev |-> 0])
        /\ UNCHANGED unacked

\* reconcileObject, for a newer change: an edit that it does not confirm keeps its
\* content and takes its revision.
Reconciled(local, change, pending) ==
    IF pending \in {None, change.content} THEN change
    ELSE [local EXCEPT !.revision = change.revision]

\* The onRemoteChange listener: only newer revisions replace the canvas's copy.
Notify(d, change) ==
    LET local == canvas[d]
    IN  \/ /\ change = Absent
           /\ Show(d, IF unacked[d] = None THEN Absent ELSE local)
           /\ UNCHANGED unacked
        \/ /\ change # Absent /\ local = Absent
           /\ Show(d, change)
           /\ UNCHANGED unacked
        \/ /\ change # Absent /\ local # Absent /\ change.revision > local.revision
           /\ Show(d, Reconciled(local, change, unacked[d]))
           /\ unacked' = [unacked EXCEPT ![d] = IF @ = change.content THEN None ELSE @]
        \/ /\ change # Absent /\ local # Absent /\ change.revision <= local.revision
           /\ UNCHANGED <<canvas, shown, unacked>>
-----------------------------------------------------------------------------
(* The durable outbox: enqueueObjectMutation *)

\* A flow that has read the outbox goes on after those that read it before.
Reads(d, flow) == reads' = [reads EXCEPT ![d] = Append(@, flow)]
GoesOn(d, flow) ==
    /\ reads[d] # <<>> /\ Head(reads[d]) = flow
    /\ reads' = [reads EXCEPT ![d] = Tail(@)]

\* The queued rows that an edit may be merged into.
Unsent(d) == {r \in outbox[d] : flight[d] = None \/ r.op.id # flight[d].id}

\* The chain runs its next enqueue: it looks for the oldest queued row that is not in
\* flight.
EnqueueReads(d) ==
    /\ entering[d] # <<>>
    /\ \A i \in DOMAIN reads[d] : reads[d][i] # "enqueue"
    /\ found' = [found EXCEPT ![d] = IF Unsent(d) = {} THEN None ELSE Oldest(Unsent(d))]
    /\ Reads(d, "enqueue")
    /\ UNCHANGED <<served, requests, screen, cache, outbox, entering, flushing, incoming, budget,
                   edits, landed>>

\* The operation as it is queued: under the id and base of the row it replaces, or
\* on top of the operation in flight, or as the canvas made it.
Queued(d, op) ==
    IF found[d] # None THEN [op EXCEPT !.id = found[d].op.id, !.base = found[d].op.base]
    ELSE IF flight[d] # None THEN [op EXCEPT !.base = flight[d].base + 1]
    ELSE op

\* Every enqueue is counted, whether it is waited for or not.
AlwaysCounted(n) == n - 1

\* One enqueue fewer to wait for.
CountedDown(n) == IF n = 0 THEN 0 ELSE n - 1

\* The outbox row is written, then the cached object.
Enqueue(d) ==
    /\ GoesOn(d, "enqueue")
    /\ LET op == Queued(d, Head(entering[d]))
       IN  /\ outbox' = [outbox EXCEPT ![d] = PutRow(@, [op |-> op, due |-> TRUE])]
           /\ cache' = [cache EXCEPT ![d] =
                  IF op.kind = "delete" THEN Absent
                  ELSE [revision |-> op.rev, content |-> op.edit]]
           /\ latest' = [latest EXCEPT ![d] = op.edit]
    /\ entering' = [entering EXCEPT ![d] = Tail(@)]
    /\ found' = [found EXCEPT ![d] = None]
    /\ awaited' = [awaited EXCEPT ![d] = CountedDown(@)]
    /\ UNCHANGED <<served, requests, screen, flight, at, batch, attempt, acks, stored, told,
                   incoming, budget, author, saw, crossed, landed>>
-----------------------------------------------------------------------------
(* The flush loop: flushOutbox, run by the engine's timer and after each edit *)

\* A backoff that is never over.
NeverRetried(row) == row

RetryDue(row) == [row EXCEPT !.due = TRUE]

\* Time passes: the backoff of a failed row is over.
BackoffEnds(d) ==
    /\ \E r \in outbox[d] :
           /\ ~r.due
           /\ outbox' = [outbox EXCEPT ![d] = PutRow(@, RetryDue(r))]
    /\ UNCHANGED <<served, requests, screen, cache, entry, flushing, incoming, budget, edits,
                   landed>>

Due(d) == {r \in outbox[d] : r.due}

\* selectDueBatch, run by the timer whether or not an enqueue is under way
PickBatch(d) ==
    /\ at[d] \in {"idle", "select"}
    /\ Due(d) # {}
    /\ batch' = [batch EXCEPT ![d] = Due(d)]
    /\ at' = [at EXCEPT ![d] = "picked"]
    /\ Reads(d, "flush")
    /\ crossed' = IF entering[d] = <<>> THEN crossed ELSE crossed \cup {d}
    /\ UNCHANGED <<served, requests, screen, cache, outbox, entering, found, flight, attempt, acks,
                   awaited, stored, told, incoming, budget, author, saw, latest, landed>>

\* The operations are marked in flight, the last one of the object standing for all of
\* them, and sent.
SendBatch(d) ==
    /\ at[d] = "picked"
    /\ GoesOn(d, "flush")
    /\ flight' = [flight EXCEPT ![d] = Newest(batch[d]).op]
    /\ attempt' = [attempt EXCEPT ![d] = @ + 1]
    /\ requests' = requests \cup {[device |-> d, attempt |-> attempt[d] + 1,
           todo |-> {r.op : r \in batch[d]}, acks |-> {}, outbound |-> None]}
    /\ at' = [at EXCEPT ![d] = "wait"]
    /\ UNCHANGED <<served, screen, cache, outbox, entering, found, batch, acks, awaited, stored,
                   told, incoming, budget, edits, landed>>

\* The request of d that is being waited for.
Awaits(d, q) == at[d] = "wait" /\ q.device = d /\ q.attempt = attempt[d]

\* A failed batch that is dropped.
RowsForgotten(rows) == {}

\* The outbox without the rows that were sent, and those rows once they failed.
WithoutBatch(d) == {r \in outbox[d] : \A b \in batch[d] : b.op.id # r.op.id}
AttemptFailed(rows) == {[b EXCEPT !.due = FALSE] : b \in rows}

\* A network error or an HTTP error: the rows sent are put back, to be retried later.
FlushFails(d, q) ==
    /\ Awaits(d, q)
    /\ budget["failures"] < MaxFailures
    /\ budget' = [budget EXCEPT !["failures"] = @ + 1]
    /\ IF ResponsesGetLost THEN requests' \in {requests, requests \ {q}}
       ELSE q.todo = {r.op : r \in batch[d]} /\ requests' = requests \ {q}
    /\ outbox' = [outbox EXCEPT ![d] = WithoutBatch(d) \cup AttemptFailed(batch[d])]
    /\ flight' = [flight EXCEPT ![d] = None]
    /\ batch' = [batch EXCEPT ![d] = {}]
    /\ at' = [at EXCEPT ![d] = "tell"]
    /\ UNCHANGED <<served, screen, cache, entry, attempt, acks, awaited, stored, told, incoming,
                   edits, landed>>

\* The next acknowledgement waits for the enqueues under way now.
WaitForEnqueues(d) == awaited' = [awaited EXCEPT ![d] = Len(entering[d])]

Answered(d, q) ==
    /\ Awaits(d, q)
    /\ q.todo = {} /\ q.outbound = None
    /\ requests' = requests \ {q}
    /\ acks' = [acks EXCEPT ![d] = q.acks]
    /\ WaitForEnqueues(d)
    /\ at' = [at EXCEPT ![d] = "store"]
    /\ UNCHANGED <<served, screen, cache, outbox, entry, flight, batch, attempt, stored, told,
                   incoming, budget, edits, landed>>

\* Acknowledgements come in the order of the operations.
NextAck(d) == CHOOSE a \in acks[d] : \A x \in acks[d] : a.id <= x.id
SentOp(d, a) == (CHOOSE r \in batch[d] : r.op.id = a.id).op

\* A conflict: the operation is left to the conflict list.
StoreConflict(d) ==
    /\ at[d] = "store" /\ acks[d] # {}
    /\ NextAck(d).status = "conflict"
    /\ acks' = [acks EXCEPT ![d] = @ \ {NextAck(d)}]
    /\ WaitForEnqueues(d)
    /\ UNCHANGED <<served, requests, screen, cache, outbox, entry, flight, at, batch, attempt,
                   stored, told, incoming, budget, edits, landed>>

\* preserveLocalDraft's updated row: the draft on top of the acknowledged revision.
Rebased(row, authoritative) ==
    [row EXCEPT !.op.base = Larger(@, authoritative.revision),
                !.op.rev = authoritative.revision]

\* storeAckedRevision reads the outbox for a newer draft of the object.
ReadDraft(d) ==
    /\ at[d] = "store" /\ acks[d] # {} /\ awaited[d] = 0
    /\ LET a == NextAck(d)
           drafts == {r \in outbox[d] : r.op.id # a.id /\ r.op.kind = "upsert"}
       IN  /\ a.status # "conflict" /\ a.object # Absent
           /\ stored' = [stored EXCEPT ![d] =
                  IF drafts = {} THEN [object |-> a.object, row |-> None]
                  ELSE [object |-> [a.object EXCEPT !.content = Newest(drafts).op.edit],
                        row |-> Rebased(Newest(drafts), a.object)]]
    /\ at' = [at EXCEPT ![d] = "write"]
    /\ Reads(d, "ack")
    /\ UNCHANGED <<served, requests, screen, cache, outbox, entering, found, flight, batch,
                   attempt, acks,
                   awaited, told, incoming, budget, edits, landed>>

\* The acknowledgement of d that is stored is done with.
AckStored(d, version) ==
    /\ cache' = [cache EXCEPT ![d] = version]
    /\ told' = [told EXCEPT ![d] = Append(@, version)]
    /\ acks' = [acks EXCEPT ![d] = @ \ {NextAck(d)}]
    /\ WaitForEnqueues(d)
    /\ at' = [at EXCEPT ![d] = "store"]

\* It writes the rebased draft and the object.
WriteAcked(d) ==
    /\ at[d] = "write"
    /\ GoesOn(d, "ack")
    /\ outbox' = [outbox EXCEPT ![d] = IF stored[d].row = None THEN @ ELSE PutRow(@, stored[d].row)]
    /\ AckStored(d, stored[d].object)
    /\ stored' = [stored EXCEPT ![d] = None]
    /\ UNCHANGED <<served, requests, screen, entering, found, flight, batch, attempt, incoming,
                   budget, edits, landed>>

\* An acknowledgement without an object: the version that was sent is stored.
WriteUnechoed(d) ==
    /\ at[d] = "store" /\ acks[d] # {} /\ awaited[d] = 0
    /\ NextAck(d).status # "conflict" /\ NextAck(d).object = Absent
    /\ LET op == SentOp(d, NextAck(d))
       IN  AckStored(d, IF op.kind = "delete" THEN Absent
                        ELSE [revision |-> op.rev, content |-> op.edit])
    /\ UNCHANGED <<served, requests, screen, outbox, entry, flight, batch, attempt, stored,
                   incoming, budget, edits, landed>>

\* Every acknowledgement is stored: the rows of the batch leave the outbox.
FinishBatch(d) ==
    /\ at[d] = "store" /\ acks[d] = {}
    /\ outbox' = [outbox EXCEPT ![d] = WithoutBatch(d)]
    /\ flight' = [flight EXCEPT ![d] = None]
    /\ batch' = [batch EXCEPT ![d] = {}]
    /\ at' = [at EXCEPT ![d] = "select"]
    /\ UNCHANGED <<served, requests, screen, cache, entry, attempt, acks, awaited, stored, told,
                   incoming, budget, edits, landed>>

NothingDue(d) ==
    /\ at[d] = "select" /\ Due(d) = {}
    /\ at' = [at EXCEPT ![d] = "tell"]
    /\ UNCHANGED <<served, requests, screen, cache, outbox, entry, flight, batch, attempt, acks,
                   awaited, stored, told, incoming, budget, edits, landed>>

\* The engine tells the canvas about each stored change, then the flush is over.
Tell(d) ==
    /\ at[d] = "tell"
    /\ IF told[d] = <<>>
       THEN /\ at' = [at EXCEPT ![d] = "idle"]
            /\ UNCHANGED <<copy, told>>
       ELSE /\ Notify(d, Head(told[d]))
            /\ told' = [told EXCEPT ![d] = Tail(@)]
            /\ UNCHANGED at
    /\ UNCHANGED <<served, requests, undoable, cache, outbox, entry, flight, batch, attempt, acks,
                   awaited, stored, incoming, budget, edits, landed>>
-----------------------------------------------------------------------------
(* The server *)

\* A server without the operations table.
NeverDecided(op) == FALSE

Decided(op) == ledger[op.id] # "none"

\* ingestOperation: decided once, acknowledged with the object as it is then.
Ingest(q) ==
    LET op == CHOOSE x \in q.todo : \A y \in q.todo : x.id <= y.id
        answer(status, object, change) ==
            requests' = (requests \ {q}) \cup {[q EXCEPT
                !.todo = @ \ {op},
                !.acks = @ \cup {[id |-> op.id, status |-> status, object |-> object]},
                !.outbound = change]}
        written == IF op.kind = "delete" THEN Absent
                   ELSE [revision |-> NextRevision(server), content |-> op.edit]
    IN  /\ q.todo # {} /\ q.outbound = None
        /\ \/ /\ Decided(op)
              /\ answer(IF ledger[op.id] = "applied" THEN "duplicate" ELSE "conflict", server, None)
              /\ UNCHANGED <<served, landed>>
           \/ /\ ~Decided(op) /\ Applies(server, op.base)
              /\ server' = written
              /\ ledger' = [ledger EXCEPT ![op.id] = "applied"]
              /\ landed' = landed \cup {op.edit}
              /\ answer("applied", written, written)
              /\ UNCHANGED parked
           \/ /\ ~Decided(op) /\ ~Applies(server, op.base)
              /\ parked' = parked \cup {op}
              /\ ledger' = [ledger EXCEPT ![op.id] = "conflict"]
              /\ answer("conflict", server, None)
              /\ UNCHANGED <<server, landed>>
        /\ UNCHANGED <<screen, cache, outbox, entry, flushing, incoming, budget, edits>>

\* broadcastToOwner: to the sockets of every device, the sender's too.
Broadcast(q) ==
    /\ q.outbound # None
    /\ channel' = [d \in Devices |-> Append(channel[d], q.outbound)]
    /\ requests' = (requests \ {q}) \cup {[q EXCEPT !.outbound = None]}
    /\ UNCHANGED <<served, screen, cache, outbox, entry, flushing, hydration, budget,
                   edits, landed>>

\* Nobody waits for the answer any more.
Discard(q) ==
    /\ q.todo = {} /\ q.outbound = None
    /\ ~Awaits(q.device, q)
    /\ requests' = requests \ {q}
    /\ UNCHANGED <<served, screen, cache, outbox, entry, flushing, incoming, budget, edits, landed>>
-----------------------------------------------------------------------------
(* Broadcasts and hydration *)

\* A handler that does not look into the outbox.
NothingPending(d) == TRUE

\* filterChangesForPendingOperations keeps a change of an object without queued work.
NoQueuedWork(d) == outbox[d] = {}

\* handleServerEvent: the change is written to the cache and the canvas is told.
HandleEvent(d) ==
    /\ channel[d] # <<>>
    /\ channel' = [channel EXCEPT ![d] = Tail(@)]
    /\ IF NoQueuedWork(d)
       THEN cache' = [cache EXCEPT ![d] = Head(channel[d])] /\ Notify(d, Head(channel[d]))
       ELSE UNCHANGED <<cache, copy>>
    /\ UNCHANGED <<served, requests, undoable, outbox, entry, flushing, hydration, budget, edits,
                   landed>>

\* A new hydration supersedes the one under way.
BeginHydration(d, from) ==
    hydration' = [hydration EXCEPT ![d] = [from |-> RevisionOf(from), got |-> None]]

\* The viewport moved: hydrateRegion notes the cached revision and asks the server.
Hydrate(d) ==
    /\ budget["hydrations"] < MaxHydrations
    /\ budget' = [budget EXCEPT !["hydrations"] = @ + 1]
    /\ BeginHydration(d, cache[d])
    /\ UNCHANGED <<served, requests, screen, cache, outbox, entry, flushing, channel,
                   edits, landed>>

\* queryRegionalObjects
HydrationAnswered(d) ==
    /\ hydration[d] # None /\ hydration[d].got = None
    /\ hydration' = [hydration EXCEPT ![d].got = server]
    /\ UNCHANGED <<served, requests, screen, cache, outbox, entry, flushing, channel,
                   budget, edits, landed>>

\* Any answer that differs from the cache replaces it.
AnswerDiffers(d, got) == got # cache[d]

\* newerHydratedObjects and safeMissingObjectIds: a newer version, or the absence of
\* the version that was cached when the request started.
AnswerReplaces(d, got) ==
    IF got = Absent THEN cache[d] # Absent /\ cache[d].revision = hydration[d].from
    ELSE got.revision > RevisionOf(cache[d])

\* The answer is merged into the cache, in one transaction, and shown.
HydrationApplies(d) ==
    /\ hydration[d] # None /\ hydration[d].got # None
    /\ LET got == hydration[d].got
       IN  IF NoQueuedWork(d) /\ AnswerReplaces(d, got)
           THEN cache' = [cache EXCEPT ![d] = got] /\ Notify(d, got)
           ELSE UNCHANGED <<cache, copy>>
    /\ hydration' = [hydration EXCEPT ![d] = None]
    /\ UNCHANGED <<served, requests, undoable, outbox, entry, flushing, channel, budget, edits,
                   landed>>

\* The socket broke and is open again: what was sent meanwhile is lost, and the
\* region on screen is hydrated.
Reconnect(d) ==
    /\ budget["hydrations"] < MaxHydrations
    /\ budget' = [budget EXCEPT !["hydrations"] = @ + 1]
    /\ channel' = [channel EXCEPT ![d] = <<>>]
    /\ BeginHydration(d, cache[d])
    /\ UNCHANGED <<served, requests, screen, cache, outbox, entry, flushing, edits, landed>>

\* The page is reloaded: IndexedDB is all that is left, the response of a request
\* under way is lost, and the note is hydrated.
Reload(d) ==
    /\ ResponsesGetLost
    /\ budget["failures"] < MaxFailures
    /\ budget' = [budget EXCEPT !["failures"] = @ + 1]
    /\ Show(d, cache[d])
    /\ undoable' = [undoable EXCEPT ![d] = FALSE]
    /\ unacked' = [unacked EXCEPT ![d] = None]
    /\ entering' = [entering EXCEPT ![d] = <<>>]
    /\ found' = [found EXCEPT ![d] = None]
    /\ reads' = [reads EXCEPT ![d] = <<>>]
    /\ flight' = [flight EXCEPT ![d] = None]
    /\ at' = [at EXCEPT ![d] = "idle"]
    /\ batch' = [batch EXCEPT ![d] = {}]
    /\ acks' = [acks EXCEPT ![d] = {}]
    /\ awaited' = [awaited EXCEPT ![d] = 0]
    /\ stored' = [stored EXCEPT ![d] = None]
    /\ told' = [told EXCEPT ![d] = <<>>]
    /\ channel' = [channel EXCEPT ![d] = <<>>]
    /\ BeginHydration(d, cache[d])
    /\ UNCHANGED <<served, requests, cache, outbox, attempt, edits, landed>>
-----------------------------------------------------------------------------
Server == \E q \in requests : Ingest(q) \/ Broadcast(q) \/ Discard(q)

\* What a device does by itself once there is something to do.
Works(d) ==
    \/ EnqueueReads(d) \/ Enqueue(d)
    \/ BackoffEnds(d) \/ PickBatch(d) \/ SendBatch(d)
    \/ \E q \in requests : Answered(d, q)
    \/ StoreConflict(d) \/ ReadDraft(d) \/ WriteAcked(d) \/ WriteUnechoed(d)
    \/ FinishBatch(d) \/ NothingDue(d) \/ Tell(d)

Listens(d) ==
    \/ HandleEvent(d)
    \/ HydrationAnswered(d) \/ HydrationApplies(d)

\* What the user and the network may do to it.
Meets(d) ==
    \/ Upsert(d) \/ Delete(d)
    \/ \E q \in requests : FlushFails(d, q)
    \/ Hydrate(d) \/ Reconnect(d) \/ Reload(d)

Next == Server \/ \E d \in Devices : Works(d) \/ Listens(d) \/ Meets(d)

\* The event loop of each device and the server run on; the network answers in the
\* end, since its failures are bounded.
Fairness ==
    /\ WF_vars(Server)
    /\ \A d \in Devices : WF_vars(Works(d)) /\ WF_vars(Listens(d))

Spec == Init /\ [][Next]_vars
FairSpec == Spec /\ Fairness
-----------------------------------------------------------------------------
(* Properties *)

Queue(d) == {r.op.edit : r \in outbox[d]}

\* The last edit device d stored is still queued, was applied by the server, or is kept
\* there as a conflict.
KeepsLastEdit(d) ==
    latest[d] # None => latest[d] \in Queue(d) \cup landed \cup {op.edit : op \in parked}

\* "Outbox: durable" (docs/ARCHITECTURE.md, apps/web sync): every device keeps its last
\* edit, whenever its flushes start.
LastEditIsKept == \A d \in Devices : KeepsLastEdit(d)

\* A device keeps its last edit, whatever fails, is broadcast or hydrated, until one of
\* its flushes reads the outbox while an enqueue is under way (outbox.ts:70, 178).
UncrossedEditIsKept == \A d \in Devices \ crossed : KeepsLastEdit(d)

\* "An acknowledged operation leaves the outbox only after its resulting revision is
\* stored locally" (docs/ARCHITECTURE.md): the server has decided what leaves, and a
\* last edit that the server still has is cached as the server has it.
LeavesOnceStored ==
    [][\A d \in Devices : \A r \in outbox[d] :
           (\A x \in outbox'[d] : x.op.id # r.op.id) =>
               /\ ledger[r.op.id] # "none"
               /\ (r.op.edit = latest[d] /\ server # Absent /\ server.content = r.op.edit)
                      => cache[d] = server]_vars

\* The server never replaces a version by an edit whose author had not seen it.
NoBlindOverwrite ==
    [][(server # Absent /\ server' # Absent /\ server'.content # server.content) =>
           server.content \in saw[server'.content]]_vars

Settled ==
    /\ requests = {}
    /\ \A d \in Devices :
           /\ entering[d] = <<>> /\ outbox[d] = {} /\ at[d] = "idle"
           /\ channel[d] = <<>> /\ hydration[d] = None

\* When all is quiet, what a device has cached is what the server has.
SettledCachesAgree == (Settled /\ parked = {}) => \A d \in Devices : cache[d] = server

\* When all is quiet, the only device that edited the object has it cached, and shows
\* it, as the server has it, unless it deleted the object once or a flush of it read the
\* outbox in the middle of an enqueue.
OnlyEditorAgrees ==
    \A d \in Devices \ crossed :
        (/\ Settled /\ parked = {} /\ budget["deletes"] = 0
         /\ \A k \in Contents : author[k] \in {None, d})
            => cache[d] = server /\ canvas[d] = server

\* Every outbox drains.
OutboxDrains == \A d \in Devices : []<>(outbox[d] = {})

\* Operation ids make delivery idempotent: a version that was replaced or deleted
\* never comes back by itself, however often its operation is sent.
AppliedOnce ==
    [][\A k \in landed : (server # Absent => server.content # k)
           => (server' # Absent => server'.content # k)]_vars

\* The cache keeps the user's newest draft while it waits to be synced: no
\* acknowledgement, broadcast or hydration replaces it, on a device whose flushes all read
\* the outbox between two enqueues.
CacheKeepsDraft ==
    \A d \in Devices \ crossed : \A r \in outbox[d] :
        r.op.edit = latest[d] =>
            IF r.op.kind = "delete" THEN cache[d] = Absent
            ELSE cache[d] # Absent /\ cache[d].content = latest[d]

\* The one-step server above keeps the promise that ServerLedger's handlers keep: an
\* operation, however often devices send it, is decided once and changes one object.
Promise == INSTANCE OperationOutcomes
    WITH Objects <- {"object"}, OpIds <- Contents, ObjectOf <- [id \in Contents |-> "object"],
         outcome <- ledger, value <- [o \in {"object"} |-> server]
ImplementsOutcomes == Promise!Spec
=============================================================================
