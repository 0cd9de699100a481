# Aurora: a verification project

TLA+ specifications of Aurora (the note and canvas application in `src/`), the
TLC models that check them on small instances, and proofs that TLAPS checks for
every instance. Aurora is offline-first: several devices edit the same notes
without talking to each other first, a server decides, and a standalone cleanup
deletes what nobody refers to any more. Almost everything that is hard in it is
an order of events that no unit test produces, or a drag that meets two limits at
once, so this is what the modules model.

Contents: [the system](#the-system), [the modules](#the-modules),
[the runs](#the-runs), [the proofs](#the-proofs),
[what disagrees with the documentation](#what-disagrees-with-the-documentation),
[what is not modelled](#what-is-not-modelled), [the plan](#the-plan).

To check a run: `tlc -workers 2 -config MCServerLedger.cfg MCServerLedger`. To
check a proof module: `tlapm ServerLedgerProofs.tla`. `PROJECT.json` lists every
run, the source lines each definition stands for, the hazards, and for every
property a mutation of the code that breaks it.

## The system

Paths are relative to `src/`; `server/` is `apps/server/src/`, `web/` is
`apps/web/src/`.

### Components, their state and their operations

| Component | State | Operations | What makes it correct |
|---|---|---|---|
| Operation ingestion (`server/sync/ingest.ts`, `classify.ts`) | `operations`, `conflicts`, `canvas_objects`, `notes.revision` | a batch of at most 50: notes checked, then per operation the duplicate check, one transaction, a broadcast, an acknowledgement | an operation is decided once; what is acknowledged is what was recorded; a conflict keeps what the client sent |
| Conflict resolution (`server/sync/routes.ts`) | the same | keep the base, or write the incoming version over what is there | a conflict is resolved once, revisions stay ordered |
| Canvas object store (`server/canvas/objects.ts`) | `canvas_objects` | load for update, upsert, delete, regional query, checks of referenced files | a reference has its file |
| Snapshots (`server/history/snapshots.ts`) | `snapshots` | create, list, restore, expire | a restored object is newer than anything cached |
| Notes and pages (`server/library/notes.ts`) | `notes`, `pages`, `note_links` | create, update, trash, restore, delete, insert a page | one lifecycle per note, pages numbered without gaps |
| Projects and folders (`server/library/`) | `projects`, `folders` | create, rename, move, delete | folders form a forest |
| Files (`server/files/`) | upload directory, `files` | streaming upload, publication by rename, metadata, download | a row has its bytes, bytes have a row |
| Retention (`server/jobs/cleanup.ts`) | all of the above | trash, operations, snapshots, sessions, files | it deletes only what nobody needs |
| Broadcasts (`server/sync/ws.ts`, `web/lib/websocket.ts`) | sockets, back-off | one message to every socket of the owner, reconnection | what is committed is announced |
| Durable outbox (`web/sync/outbox.ts`, `outboxCore.ts`, `db.ts`) | IndexedDB `outbox`, `objects`; `inFlightByObject`, `enqueueChains` | enqueue, coalesce, flush, back off, store acknowledgements | an edit is kept until the server has it |
| Sync engine, hydration (`web/sync/engine.ts`, `hydrate.ts`, `hydrateCore.ts`) | one flush at a time, hydration generations | events, hydration, reconnection | cached objects converge to the server's |
| Canvas working set (`web/features/canvas/CanvasWorkspace.tsx`, `reconcileObject.ts`) | the mirror and its ref, gestures, pending edits, undo history | gestures, styles, delete, undo, import, reconcile a remote change | an edit stays on screen, undo walks the user's own steps |
| Conflict dialog (`web/sync/ConflictDialog.tsx`) | the local conflict list | choose a version | |
| Library cache (`web/features/library/`) | the tree a tab shows, its copy in IndexedDB | refresh, optimistic edits, roll-back | a tab that is left alone shows the server's library |
| Chat turns (`server/ai/turn.ts`, `conversations.ts`) | `chat_conversations`, `chat_messages`, an advisory lock per conversation, a pool of ten connections | create, delete, list, run a turn: repair, append, ask the model, append its answer | one turn at a time, a history the model accepts |
| Chat agent loop (`web/features/chat/agentLoop.ts`) | rounds, sandbox iframe | send, run tools, answer | it stops |
| Credentials (`server/ai/oauth.ts`) | the device-code login, tokens | start, poll, refresh, disconnect | disconnected stays disconnected |
| Authentication (`server/auth/`, `web/features/auth/`) | setup token, ceremonies, passkeys, sessions; the screen of each browser | start, enroll, sign in, log out, reset | tokens and challenges are used once, the owner is never locked out |
| Migrations, pool (`server/db/`) | `schema_migrations` | migrate at the start | each migration once |
| Search, metadata export, math and Python helpers | none | one query, one stream, one sandboxed process | |
| PDF page cache (`web/features/pdf/pageCache.ts`) | rendered pages in a budget | render, evict | within its budget |
| Palette save queue (`web/features/auth/session.ts`) | the latest palette, a chain of saves | edit, save in order, revert | what is shown is what is saved |
| Canvas geometry and viewport (`web/features/canvas/objects.ts`, `pageLayout.ts`, `viewport.ts`, `useViewport.ts`) | bounds, the view | hit test, move, resize, create, pan, zoom, scroll | objects on their sheet, content in view |
| Rendering, text editor, calculator, shell | view state | rendering | |

### How they interact

```
 canvas ──edit──▶ enqueue chain ──▶ outbox (IndexedDB) ──flush──▶ POST /sync/operations
   ▲                                   │  ▲                             │
   │ onRemoteChange                    ▼  │ acknowledgements            ▼
   └────────────── cache (IndexedDB) ◀────┴──────────────── canvas_objects, operations,
        ▲                 ▲                                 conflicts, notes  ◀── snapshots,
        │ WebSocket       │ hydration                             │               pages, trash
        └─────────────────┴── broadcasts, GET objects ◀───────────┤
                                                                  ▼
 upload ──▶ temporary file ──rename──▶ bytes ◀──unlink── cleanup ─▶ files
```

Devices and the server share no memory: they exchange requests, responses and
broadcasts. In the server, the request handlers and the cleanup process share
the tables and, for files, an advisory lock per digest. In a device, the enqueue
chain, the flush, the WebSocket handler and hydration share IndexedDB and two
maps in memory, and take turns at each `await`.

### What is hard

- *Interleaving*: two deliveries of one operation, two creations of one object
  (`FOR UPDATE` locks nothing where there is no row), an upload racing a cleanup
  of identical bytes, an edit made while its predecessor is being sent.
- *Failure*: a batch is one transaction per operation, so a crash in the middle
  leaves some decided and none acknowledged; a lost response makes the client
  send again what was done; a reload leaves only IndexedDB.
- *Ordering*: broadcasts, acknowledgements and hydration answers meet in any order.
- *Limits*: a chat turn holds one of ten connections while it needs another.
- *Retention*: rows that something may still refer to are deleted for good.

- *Statements of one request*: what the library's requests check, they check in
  statements of their own before the one that writes.
- *Two copies of React's state*: handlers compute from a ref, remote changes update
  the state, and a render in between decides which of them survives.

The list, each at its line, is `hazards` in `PROJECT.json`. Some that it has no
room for: page insertion locks note then objects while ingestion locks object then
note (`server/library/notes.ts:170`), a cycle that PostgreSQL breaks by aborting
one of the two; edits made between `flushNow` and a page insertion are not in the
flush (`web/sync/engine.ts:249`); broadcasts of two handlers may leave in another
order than they committed (`web/sync/engine.ts:169`); the tree is read in three
queries (`server/library/tree.ts:11`); an object erased while a broadcast of it
arrives comes back (`CanvasWorkspace.tsx:668`).

## The modules

| Module | What it is |
|---|---|
| `CanvasRevisions` | the revision rules: which operation applies, which revision a write, a restore or a re-creation gets |
| `OperationOutcomes` | abstract: what the service promises about an operation |
| `ServerLedger` | the server's tables and concurrent handlers, query by query |
| `SyncSystem` | devices (canvas, outbox, cache, engine), the network and a one-step server |
| `FileStore` | uploads, references to files, concurrent cleanups, digest locks |
| `ChatTurns` | agent loops of several tabs, turns, deletions, the connection pool |
| `CanvasGeometry` | bounds, hit tests, resizes, page layout and scroll bounds as pure operators |
| `CanvasSurface` | the pointer's drags and the viewport over `CanvasGeometry` |
| `CanvasEditor` | the working set of an open note: gestures, history, imports, remote changes, renders |
| `Library` | the library's tables and requests, statement by statement |
| `LibraryTabs` | `Library` with the trees that tabs show and keep |
| `Access` | setup token, ceremonies, sessions, resets, the browsers' screens and the palette's save queue |
| `MC...` | the instances TLC checks |
| `ServerLedgerProofs`, `SyncProofs`, `FileStoreProofs`, `ChatTurnsProofs`, `AccessProofs`, `LibraryProofs`, `CanvasSurfaceProofs`, `CanvasEditorProofs` | theorems |

`ServerLedger` and `SyncSystem` share `CanvasRevisions`, and both are shown to
implement `OperationOutcomes`. This is how they compose: `SyncSystem` needs the
server only as something that decides an operation once, at one instant, so it
has a server of one step; `ServerLedger` shows that handlers which read, wait,
fail and meet at the primary key decide it just so. `LibraryTabs` extends `Library`
and lets its tabs be callers of it. `CanvasSurface` says where a drag puts an
object, `CanvasEditor` what becomes of the working set when it does, and
`SyncSystem` how the edit reaches the server; each leaves the others' part to choice.

### ServerLedger

*State.* `objects`, `notes`, `ledger` (the table `operations`), `conflicts` and
`snapshots` are the tables. Each handler has a program counter `pc`, the notes
it has yet to check (`todo`), the operations it has yet to ingest (`queue`), what
a duplicate check read (`row`), the conflict it resolves (`target`), what it has
committed and not broadcast (`outbound`) and the acknowledgements collected
(`acks`). `effects`, `forgotten`, `highest`, `sent` and `dropped` are history.

*Atomicity.* Between two awaited queries any other handler may run. A
transaction is one action where its row locks make it so: `FOR UPDATE` on an
object's or a note's row. Where an object has no row, nothing is locked, and the
transaction is two actions, the read that finds nothing (`ReadAbsent`) and the
writes. A conflict row stays locked between them.

*Actions.* `Receive`, `CheckNote`, `DuplicateCheck`, `ReadRecorded` and
`ReloadCurrent` (the answer to a duplicate), `ReadAbsent`, `ApplyUpsert`,
`ApplyDelete`, `Park`, `UniqueViolation`, `Broadcast`, `Respond`, `Fail` follow
`ingestOperations`; `StartResolve`, `KeepBase`, `ResolveReadsAbsent`,
`TakeIncoming` the resolution route; `CreateSnapshot`, `RestoreSnapshot`,
`ExpireSnapshot`, `InsertPage`, `SetTrashed`, `PurgeNote`, `ExpireOperation` the
other requests and the retention job. `Fail` is an exception, the death of the
process or the choice of the transaction as a deadlock victim, at any step.

*Abstraction.* One owner. Contents are opaque: no rule looks into a payload. An
object stays in its note and an operation id on its object, both being fresh
UUIDs. Retention may delete any operation or snapshot at any time, whatever its
age, which covers every retention period. A page insertion moves any set of
objects, whatever their positions.

### SyncSystem

One object, several devices. *State of a device*: what the canvas shows
(`canvas`), whether its history can bring the object back (`undoable`), the
unconfirmed edit (`unacked`, the code's `pendingObjectsRef`), `cache` and
`outbox` in IndexedDB, the enqueue chain (`entering`, `found`), the flush loop
(`at`, `batch`, `attempt`, `acks`, `stored`, `told`, `awaited`) with what it
marks as in flight (`flight`), the socket (`channel`), one `hydration`. The
server is `server`, `ledger`, `parked`; `requests` are under way or answered.

*Atomicity.* An action is what runs between two awaits. IndexedDB does the work
of a page in the order it is asked, so a flow that reads the outbox and then
writes goes on in the order of the reads: that is the sequence `reads`, without
which the model has interleavings the browser has not. The WebSocket handler
does nothing between its outbox read and its cache write, so it is one action.

*Abstraction.* An edit is a number: its content, and the operation id it was
given, numbers being ordered as `createdAt` orders rows. Trashed notes, several
objects in one batch and note metadata are left out. A network error is possible
before the server gets a request and, with `ResponsesGetLost`, after.

*Environments.* `EditsDuringFlush = FALSE` is a patient user, who edits only while no
flush runs; `ResponsesGetLost = FALSE` a network that loses requests but no response.
A user's patience does not keep the timer from starting a flush while the enqueue of an
edit is under way, as it does at any moment in the model. The flush then sends the row
the enqueue is about to replace, and the edit is lost (`sync_lost_edit`). The history
variable `crossed` names the devices where that happened, and the properties of
`sync_patient` are about the others.

### FileStore

*State.* `bytes` and `partial` on disk; `files`, `refs` (what each object refers
to), `snapshots` and `parked` (unresolved conflicts) in the database; `holder`
of each digest's advisory lock; `pc` of each upload, writer and cleaner.

*Actions.* An upload writes a temporary file, publishes it by `rename` *without*
the lock, then locks the digest, checks that the bytes are still there and
inserts the row. A writer (an ingestion, a resolution, a restoration) looks up
each file, locks its digest, looks again and keeps the locks until it commits.
A cleaner selects unreferenced rows, locks their digests in sorted order, deletes
with the predicate asked again, commits, then for each digest checks that no row
(any owner's) names it and unlinks the bytes, a failure being swallowed; its
session locks outlive the commit. With `ProcessesDie`, any process dies at any
step; victims of lock cycles are among these. A cleaner that lives may also lose its
session, and with it the locks, after its last look for rows of a digest
(`LoseSession`): it still unlinks the bytes (`UnlinkLate`), and only its next query
fails. `strayed` names the digests this happened to, until somebody publishes the bytes
again.

*Abstraction.* Each owner has one note. A digest is a number, for its order. A
file id is the serial number of its row. `pdf_file_id` is left out: no code path
sets it. The purge of a note is several statements, each an action of its own
here, which allows more than the code does. Conflicts are parked without a check
of their file (`server/sync/ingest.ts:182`), so a parked operation may refer to a
file that is gone; no property claims otherwise.

### ChatTurns

*State.* `state` and `messages` are `chat_conversations` and `chat_messages`;
`lock` is the advisory lock of each conversation, `clients` who holds a client of
the pool. A turn has its `step`, its `request`, the `history` it works with, the
`calls` of the answer, how its response ended (`reply`) and whether its browser
has left (`aborted`). A tab has a `loop`, a deleter a `deletion`.

*Actions.* `Connect`, `Poll`, `Prepare`, `ReadHistory`, `Repair`, `Insert`,
`Answer`, `StoreAnswer`, `TurnFails`, `Unlock`, `Release` are the awaited steps of
`streamTurn` and `runTurn`; `BeginDelete`, `ConnectDelete`, `CommitDelete` those of
`deleteConversation`; `SendMessage`, `GetReply`, `SendResults`, `Leave` the agent
loop and the chat view; `DeleteProject` and `Crash` take away what a turn relies
on. A query outside a transaction takes a client for its duration only, so its
action is guarded by a free client and takes none.

*Abstraction.* A message is its role and the ids of its tool calls or results;
ids are fresh in each answer. The browser sends the results of all calls of an
answer, as `agentLoop.ts` does, so a message with some of them is not an input.
Titles, models, credentials and the conversion for the model are left out. A
conversation belongs to a project, and is modelled as the only one of it.

### CanvasGeometry and CanvasSurface

*State.* The `objects` of a note with their bounds and, for those drawn by
coordinates, their `ink`; `before`, as the gesture found them; the `drag` under
way; the `view` and the `screen`; which axes are `locks`ed; the number of `pages`.

*Actions.* Pressing on an object, a handle or the sheet starts a move, a resize or
a creation, the pointer `Pull`s it anywhere, on or off the sheet, and it is dropped or
cancelled; panning, zooming about a point, dragging a scrollbar, a new size of the
element, another number of pages, a new content. The layout effect that brings the
view back into the scroll bounds (`CanvasWorkspace.tsx:1951`) runs before the next event,
so it ends every action.

*Abstraction.* Integers for doubles. A zoom is written as its scale, canvas units
per screen unit; `PlainScale` is that of a zoom of 1. The sheet is 102 by 132 units (816 by 1056 at 8 pixels each). Rotation,
snapping to angles, arrow heads and stroke outlines are left out.

### CanvasEditor

*State.* React keeps the objects twice: `mirror` is the state of the next render,
`ref` what handlers read. `drag` and `styled` are the gesture and the property panel's
edit under way, `undo` and `redo` the history, `pending` the own edits that no
broadcast confirmed, `imports` the uploads under way, `seeded` whether the cache's rows
have arrived.

*Actions.* `Render` copies `mirror` to `ref`. A handler computes from `ref` and sets
both, which loses what was merged into `mirror` and not rendered; a broadcast or a
hydration updates `mirror`. The other side may say anything about any object, at any
revision up to a bound.

*Abstraction.* An object is a place and a text: how a drag computes the place is
`CanvasSurface`'s. Objects to which a known hazard happened are named by the history
variables `unrecorded` (changed by what makes no history entry) and `tangled` (changed
by a key, a finger or a late render while a gesture held them, or back after their
deletion) and left out of the properties; the rest of the canvas must not suffer.

### Library and LibraryTabs

*State.* The tables, `used` ids (the database never gives one twice), and a request per
caller with its `step` and what it has read. `version` numbers the states of the tables.

*Actions.* `Request` sends one of the nineteen kinds of requests; `Check` runs its next
read (the row itself, the project, the folder, one level of `isDescendant`'s walk up),
`Write` the statement or transaction that writes, with the foreign keys' cascades;
`Announce` broadcasts, `Hear` is the answer. A foreign key that does not hold makes the
write fail. A tab shows a tree, keeps a `copy` of it in IndexedDB, has `fetches` under way
that may be answered in any order from any state of each table since they were sent, and
loses what is broadcast while its socket is closed.

Screen and copy change in steps of their own, in the order the code has for each, and
fetches and answers come between the two. A refresh stores its answer (`Keep`) and shows
it later (`Show`, from `kept`). An edit of a note shows itself (`EditNote`), is stored
(`EditStored`) and then sent; its answer is shown and then stored, the answer of every other
edit stored and then shown (`Learn`, `LearnTheRest`). A failed edit of a note puts its row back
in the copy and then on the screen (`RollBack`, `RollBackTheRest`). Any fetch may fail, whatever the
socket does: it is dropped, and nothing repeats it (`FetchFails`).

*Abstraction.* Favorite, archive and trash are `flags`; a background stands with the
name. A PATCH changes one field. The purge of old trash is `PurgeNote`. A tab has one edit
under way, and what an edit writes to IndexedDB is stored.

### Access

*State.* The rows of the owner, passkeys, ceremonies and sessions; the handlers and
the commands under way; what each browser shows, waits for and has queued; which
authenticator holds which passkey.

*Actions.* Each handler runs statement by statement (`TakeToken`, `OpenSession`,
`ReadKey`, `TakeChallenge`, `InsertKey`, `MarkEnrolled`, ...), beside the starts of
servers and the reset commands (`StorePreset`, `ReadStatus`, `StoreToken`,
`RotateToken`, `PrintToken`, `RevokeKeys`). A connection may break while its handler
goes on, the request of a setup token or of a ceremony may arrive once more, at any time
while its first handler is not forgotten (`Resend`), a page may be reloaded, the server may
crash between two statements, sessions and challenges expire at any time.

*Abstraction.* What an authenticator signs always verifies. Counters, names,
transports and the theme are left out. A handler's session check is merged with its
next statement, and the passkeys listed in a ceremony's options with its row. The row of
the owner is always there (`ensureBootstrapUser` begins every handler).

## The runs

Every run is one question. Each property has a mutant in `PROJECT.json`, a plausible
bug in one definition, under which TLC finds it violated: the bounds are large
enough for the case the property is about to happen.

| Run | Instance | What it shows |
|---|---|---|
| `server_ledger` | 1 object, 1 note, 2 operation ids, 2 conflicts, 2 handlers; 2 operations, batches of 2, base 0..1, 4 note revisions, 1 snapshot; 891,249 states | the ledger, revisions and broadcasts stay consistent, and the server implements `OperationOutcomes` |
| `sync_patient` | 2 devices, edits 0..2, 1 failure, 1 hydration, 1 delete, patient users, no lost response; 280,651 states | what a device promises its user |
| `sync_chaos` | 1 device, edits 0..3, 1 failure or reload, 1 delete, edits during flushes, lost responses; 1,530,669 states | what survives retries, and that the outbox drains |
| `file_store` | 2 uploads, 1 writer, 2 cleaners, 2 owners, 2 objects, 2 digests, deaths and lost sessions anywhere; 1,765,738 states; deadlock is checked | files, references and disk agree |
| `chat_turns` | 1 conversation, 2 turns, 2 tabs, 1 deleter, 4 clients, 2 rounds, 1 call per answer, 2 messages, 1 crash; 541,550 states | turns exclude each other, histories stay acceptable, everything is given back |
| `canvas_surface` | 3 scenes, 4 modes, 5 points of the pointer, 4 scales, 2 screens, 2 steps of 2 pulls; 445,354 states | drags keep objects on the sheet, the view keeps its content |
| `canvas_editor` | 2 notes, 3 objects, 2 places, a history of 2, 3 edits, 2 events; 1,940,649 states | history, pending edits and the dragged selection |
| `library` | 2 projects, 3 folders, 2 notes, 2 callers, any 3 requests, or an empty library; 1,992,860 states | the tables' integrity beyond the foreign keys |
| `library_tabs` | 1 tab and 1 caller, any 2 of six kinds of requests, 2 fetches, 1 broken socket; 4,276,463 states | a tab that is left alone agrees with the server |
| `access` | 2 browsers, 2 processes, 2 passkeys, 2 tokens and a configured one, 2 handlers, 2 ceremonies, 2 sessions, 1 failure; 3,141,825 states | tokens, lock-out, palette |
| `sync_lost_edit`, `canvas_flat` | as small as the violation allows | see [below](#what-disagrees-with-the-documentation) |

**`server_ledger`.** `DecidedOncePerRow`: while its row exists an operation has one
outcome and took effect at most once, although two handlers may ingest it at once
and meet only at the primary key. `WatermarkCoversObjects`: the note's revision is at
least that of each of its objects, which is what makes a restored object newer than any
cached copy. `ChangesRaiseTheNote`: a step that changes objects raises the revision of
their note. `QuietMeansBroadcast`: when no handler is working and none died, every
committed change has been announced. `ImplementsOutcomes`: refinement. One object is
enough because the rules never relate two objects except through their note's revision;
two handlers, because a conflict of two is already the whole race (the third would meet
a row that exists).

**`sync_patient`, `sync_chaos`.** Three properties of `sync_patient` are about devices of
which no flush has read the outbox in the middle of an enqueue. `UncrossedEditIsKept`: the
last edit a device stored is
still queued, was applied, or is kept as a conflict. `CacheKeepsDraft`: no
acknowledgement, broadcast or hydration replaces a queued last edit in the cache.
`OnlyEditorAgrees`: when all is quiet and nothing was deleted, a device that alone edited
caches and shows what the server has. The run has one deletion, so that the first two are
about deletions too. `AppliedOnce`: a version that was replaced or deleted never comes back
by itself, however often its operation is sent. `OutboxDrains`: with failures that are
bounded, every outbox empties again and again.

The fairness of `OutboxDrains` is weak fairness of the server's step, of the
device's own steps and of its listening: the event loop runs, the flush timer
(`FLUSH_INTERVAL`, 5 s, `web/sync/engine.ts`) fires again and again, and failures
are bounded by `MaxFailures`. Users and the network owe nothing; deadlock is not
checked there because a user may stop editing.

**`file_store`.** `RowsHaveBytes`: a committed row's bytes are on disk, unless a cleaner
unlinked them without its locks and nobody published them since.
`ObjectsHaveFiles`: a live object refers only to files its owner has. `QuietMeansNoOrphans`: as long as nothing
died or failed, no bytes without a row and no temporary file outlast the work.
`CleanersDoNotDeadlock`: sorted digests, hence no circle. Two digests are needed
for the order, two owners because bytes are shared and rows are not.

**`chat_turns`.** `AnswersWholeHistory`: what the model was asked with is the
conversation its answer is appended to. `HistoryIsWellFormed`: results answer
open calls of the last answer, and nothing else follows a call still open:
neither late results after another tab went on, nor a turn after one that died
between two insertions. `NothingLeaks`: no lock or client outlives its turn.
`TurnsEnd`: every turn and every deletion ends. Its fairness is weak
fairness of each turn's progress and each deletion: the event loop runs, and a request to
the model ends, by its end or by its time-out. A turn polls for the lock without
a queue, so it could starve if others never stopped; `MaxSends` bounds them.
`PoolSize` is one more than all turns and deleters that can hold a client. That
is a condition, not a convenience: with 3 or fewer clients
here, which the turns and the deleter can all hold, the property fails ([why](#what-disagrees-with-the-documentation)).
Deadlock is not checked because users may stop.

**`canvas_surface`.** `OnSheet`: however objects are created, moved and resized, none
crosses a limited edge further than the gesture found it, where an object found thinner
than the smallest size counts as that wide (a handle of the other axis widens it, past the
edge if need be); a new one lies on the sheet or begins on it. `InkFollowsBounds`: what is
drawn by coordinates stays inside the bounds that culling, hit tests and the server's
regional query go by. `ResizeHolds`: the edges a handle does not move stay, the smallest
size is kept. `ContentStaysInView`: three quarters of the screen or the whole content
stay in view. The points lie on and off the sheet on two sides, the scales on and beyond
both limits, one screen is smaller and one larger than the sheet, one object reaches
below it. Two gestures suffice, because a gesture starts from any bounds the one before
leaves.

**`canvas_editor`.** `HistoryIsAPath`: what an entry of the history leads to is what the
next one starts from, through the version on the canvas, so undo and redo walk the
user's own steps. `PendingIsShown`: an own edit that is not confirmed is what the canvas
shows. `SelectionKeepsShape`: what arrives during a drag takes nothing out of the
selection, nor moves one object against another. Three edits make an undo, a redo and a
new edit between; a history of two makes it overflow.

**`library`, `library_tabs`.** `RowsPointHome`: parents and folders exist and are of the
same project, which no foreign key demands. `FoldersAreForest`: without two overlapping
updates of folders there is no cycle (with them there is, see below). `PagesAreNumbered`:
from 0, without gaps. `SettledTabsAgree`: a connected tab with nothing under way shows
the server's library, and its copy holds it, each unless the last answer it took had
been overtaken, a fetch of something later failed, or a change fell between the last fetch
and the first opening of the socket. Snapshots are not restored here. Of the edits whose
answer is stored and shown as a new row, the creation of a folder stands for those of projects and notes.
Two callers are a race, three requests let a third one use what two made.

**`access`.** `UsedOnce`: a token opens as many sessions at most as times it was stored,
and a challenge is answered by one registration or sign-in, although requests arrive twice.
`EnrolledHasKey`: an enrolled owner has a passkey that
works, wherever enrollment, sign-in, start and reset break off, except between the two
statements of `revoke-all` - for good if it dies there - and once the account was
marked as enrolled with a token stored or by a passkey revoked meanwhile. `PaletteSettles`:
what a browser shows once its saves are over is the account's palette, except after another
browser saved, a save's answer was lost, two saves failed in a row, or the session was
read while a save of the browser's own was under way. Three beginnings share the run (`MCAccess`): a new account, one with a configured
token and failures, and two signed-in browsers.

`CHECK_DEADLOCK FALSE` stands where users may stop, or gestures and requests are bounded.

## The proofs

Liveness under fairness (`OutboxDrains`, `TurnsEnd`) and `ENABLED` are out of the prover's reach and
stay with TLC. Every invariant and action property of the passing runs is a theorem. The only
assumptions are the named `ASSUME`s of the modules:

- constants are sets, naturals or integers of the kind their comments say, kinds of processes are
  disjoint, tabs are callers (`TabsCall`), `None` and `Nobody` are none of them, digests are
  naturals (they are sorted), names in requests are names (`NamesAreKnown`), `None` is no content,
  device, version, operation, row, stored value or hydration of `SyncSystem` (`NoneIsFresh`), and
  the cached rows of a note have ids of their own, being keyed by them (`RowsAreKeyed`);
- what a run begins with is of the kind the invariants describe: accounts (`StartsAreSound`),
  libraries, whose folders are a forest (`ShelvesAreSound`), and scenes, in which no line was
  resized before (`ScenesAreDrawn`; one that was may have left its bounds, see below). An empty
  account, an empty library and an empty scene are among them. Scenes need not lie on the sheet: a
  note whose mode was changed is among them.

Five theorems have a hypothesis besides the specification. `PatientKeepsLastEdit` and
`PatientKeepsDraft` are about devices that are not edited during a flush and lose no response
(`Patient`, the constants of `sync_patient`). The hypothesis says nothing about when flushes start;
that no flush of the device has read the outbox in the middle of an enqueue is part of what the
properties say, and without it an edit is lost, as `sync_lost_edit` shows.
`OnlyEditorEndsCurrent` also assumes that the object is there from the start, and its property
that nothing was deleted. TLC found it false otherwise, with one device and two
hydrations: an answer read before the object's creation was applied, and merged after its
acknowledgement, takes the object from the cache, and one read before its deletion was applied
brings it back (`web/sync/hydrateCore.ts`). `FoldersStayAForest` assumes that no folder is deeper
than the 64 levels `isDescendant` walks (`Shallow`): below, the walk ends before it meets the folder
that is moved, and the check lets a cycle through. It is a condition on use, which TLC confirmed on
the run. `SettledTabsShowTheLibrary` assumes that nobody restores a snapshot (`Unrestored`, as in
`library_tabs`): a restore changes the tree and tells no tab (`snapshots.ts:291`), so that a settled
tab may show the row from before it, as TLC found when it let a client restore one.

| Theorem | States | Along |
|---|---|---|
| `TypeCorrect` (`ServerLedgerProofs`) | `TypeOK` | inductive as it stands |
| `DecidedOnce` | `DecidedOncePerRow` | an effect is recorded with its row or not at all |
| `Watermark`, `RestoreNewest` | `WatermarkCoversObjects`, `RestoredIsNewest` | the note's revision bounds its objects and everything ever seen; every write touches the note |
| `AcksTell` | `AcksTellTheOutcome` | `AcksInv`: what a handler has read of a row is still what the row says, or the row is gone |
| `ConflictsKept` | `ConflictsAreKept` | a row of the conflicts table keeps its operation until the note is purged, and with the note goes the operation's row |
| `LedgerImplementsOutcomes` | every step of the server is a step of `OperationOutcomes` or stutters | the invariants above, one case per action |
| `QuietIsBroadcast` | `QuietMeansBroadcast` | `BroadcastInv`: what a handler has committed and not sent is in its own `outbound`, and only a handler that is still to broadcast has one (`OnlyCastersHold`); everything committed is sent or in such a list (`CommittedIsTold`) |
| `ChangesAreCounted` | `ChangesRaiseTheNote` | one lemma per writer of `objects` (`IngestRaises`, `ResolveRaises`, `OwnerRaises`); a delete that removed a row touched the note, whatever it had read; a purge leaves the note gone |
| `SyncTypes`, `SyncImplementsOutcomes` (`SyncProofs`) | `TypeOK`; every step of devices, network and server is a step of `OperationOutcomes` or stutters | `FlowInv`: a device reads its outbox for one enqueue at a time (`EnqueuesInTurn`), and the request it waits for and the answers it handles are about rows it has sent (`BatchInv`), of which there are finitely many, hence an oldest and a newest |
| `VersionsStayGone` | `AppliedOnce` | `NamesInv`: an edit is queued once, travels under one id in rows, requests and what a flush is about to write, and once it has been applied that id is in the server's ledger |
| `PatientKeepsLastEdit`, `PatientKeepsDraft` | `UncrossedEditIsKept`, `CacheKeepsDraft` | `PatientInv`: one edit at a time goes through a device that is not `crossed`: it enters, waits in its one row, is sent; the request that is awaited is about that row (`PatientRequest`), and what is acknowledged, stored and cached stands for it (`Settles`, `Means`) |
| `OnlyEditorEndsCurrent` | `OnlyEditorAgrees` | `AloneInv`: while one device that is not `crossed` has made every edit and nothing was deleted, no other has anything to send (`OthersRest`); an acknowledgement or a change to tell is the server's version (`AnswersFit`); what is queued fits the server's revision, and the canvas shows the last of it (`EditsFit`); broadcasts and hydrations carry versions the server has or had, the last broadcast the present one (`MessagesFit`); and the cache has that version, or something under way will bring it (`CacheFits`) |
| `FileTypes`, `RowsKeepBytes`, `ObjectsKeepFiles`, `SnapshotsKeepFiles` (`FileStoreProofs`) | `TypeOK`, `RowsHaveBytes`, `ObjectsHaveFiles`, `SnapshotsHaveFiles` | `LockInv`: between its check and its commit an upload, a writer and a cleaner hold the digest's lock (`LocksAreHeld`), and nobody else's step takes away what they checked (`FilesAreKept`), but for the unlink of a cleaner without its session, which `strayed` records |
| `DiskIsTidy` | `QuietMeansNoOrphans` | `DiskInv`: every byte on disk is accounted for by a row, an upload or a cleaner that is still to look at it |
| `CleanersPass` | `CleanersDoNotDeadlock` | `OrderInv`: the digests a cleaner holds are below the one it waits for |
| `ChatTypes`, `TurnsAreSerial`, `HistoriesAreWellFormed`, `TurnsLeakNothing`, `DeletesWait` (`ChatTurnsProofs`) | `TypeOK`, `AnswersWholeHistory`, `HistoryIsWellFormed`, `NothingLeaks`, `DeletesWaitForTurns` | `ChatInv`: a turn holds the lock between taking it and giving it back, and no one else then (`LocksAreHeld`); so the history it read is still the conversation (`Knows`), and what it is about to append may follow (`GoesOn`); what an append does to the pending calls are four lemmas |
| `TokensAreUsedOnce` (`AccessProofs`) | `UsedOnce` | `UseInv`: the token the account holds has been taken less often than stored, an open challenge has not been used, and a command that is to store a configured token found one |
| `AccessTypes`, `PaletteIsTheAccounts` | `TypeOK`, `PaletteSettles` | `TabsInv`: each save goes back to the palette of the one before it (`ChainOK`), the request of a save is the one its browser waits for (`SavesOwned`), and the account's palette is what the browser shows, is saving or would go back to (`Agrees`), or the browser is marked `apart` |
| `OwnerKeepsAKey` | `EnrolledHasKey` | `KeysInv`: the passkey a handler is about to mark the account with is live, and an enrolled account holds no token, unless a command stands between its two statements or one of the two other ways out was taken |
| `LibraryTypes`, `RowsStayHome`, `PagesStayNumbered` (`LibraryProofs`) | `TypeOK`, `RowsPointHome`, `PagesAreNumbered` | `LibInv`: what a request has checked (`FoundOut`) stays true or its row is gone for good, since ids are not given again and no statement changes a folder's or a note's project (`RowsStay`); snapshots satisfy what they will restore |
| `FoldersStayAForest` | `FoldersAreForest` | `TreeInv`: unless two updates overlapped, one folder at a time is updated (`OneUpdate`); the folder it moves is not among those its walk has passed (`Passed`), whatever folders and notes others make, delete or restore meanwhile; what a new parent or a new folder does to the ways up are lemmas about `IsForest` |
| `SettledTabsShowTheLibrary` | `SettledTabsAgree` | `TabsInv`: unless its socket is closed, a tab has shown or missed the last change, or a fetch, an answer it is yet to show, a message or a request that is to broadcast will tell it (`Informed`); a tab whose last fetch is of the present version shows the present tree, or will when the row of its click is put back (`ShowsFetched`), and the same of its copy, except while an answer is shown and not stored yet (`CopyFetched`); every step of the server either leaves the tree and its version or commits both (`Served`) |
| `SurfaceTypes`, `ObjectsStayOnSheet`, `InkStaysInBounds`, `ResizesHold`, `ContentInView` (`CanvasSurfaceProofs`) | `TypeOK`, `OnSheet`, `InkFollowsBounds`, `ResizeHolds`, `ContentStaysInView` | `Inv`: a drag holds what the gesture found and has brought each of its objects to a place computed from that (`GestureInv`), and the view is settled for the present content (`ShowsContent`); lemmas for what each handle, clamp and scroll bound computes |
| `EditorTypes` (`CanvasEditorProofs`) | `TypeOK` | `TypeInv`: entries hold each object under its id, a gesture and a style are never under way together |
| `EditsAreShown`, `SelectionsKeepShape` | `PendingIsShown`, `SelectionKeepsShape` | `GoodInv`: outside `tangled` an object is on the canvas once, what a gesture holds is shown and will be shown next, and an edit not confirmed is what the gesture found or what is shown; `NamesInv`: what is around has an id that was taken, and no import's id is around; `ShapeInv`: the distance the drag has gone |
| `HistoriesArePaths` | `HistoryIsAPath` | `PathInv`: each stack is a path of the object's versions (`Path`) that ends in what the style or the gesture under way found of it (`BaseOf`), also where entries are forgotten at the limit (`PathGrows`) or go to the other stack (`UndoWalks`, `RedoWalks`) |

The safety properties alone are not inductive: that a file's row has its bytes,
for instance, survives a cleaner's unlink only because no upload that has seen
the bytes can insert its row meanwhile, which is a statement about locks and
program counters. Just so, that a note's folder belongs to the note's project holds
although the check and the write are two statements and the folder may be deleted
between them: the foreign key refuses a folder that is gone, and one that is there is
still of the project the check saw. TLC checked each strengthening as an invariant first, on the
same instances the runs use (`FlowInv` and `NamesInv` on both of `SyncSystem`). That a
non-empty finite collection has an oldest, newest or greatest member is proved by a least
counterexample where it is needed (`LeastOfNats`), since the library's induction theorems cannot be used.

A proof that failed has changed a property once: `OnSheet` used to say that an object lying on the
sheet stays on it, which is false for one thinner than the smallest size.

## What disagrees with the documentation

Two runs expect a violation: the code does what the model does, and a document or a
comment says otherwise. `findings` in `PROJECT.json` has the details.

1. `LastEditIsKept` (`web/sync/outbox.ts:70`): an enqueue reads the row it will merge with,
   the timer's flush reads the same row (`outbox.ts:178`), and the enqueue puts the newer
   content under the same operation id; the row is deleted with the older edit's
   acknowledgement, and the newer edit is nowhere. This user edits only while no flush runs.
   An edit that coalesces with a row whose response was lost goes the same way, the retry
   being a duplicate. `ARCHITECTURE.md:21` promises that edits enter IndexedDB
   before transmission and leave once their result is stored.
2. `ObjectsHaveExtent` (`web/features/canvas/CanvasWorkspace.tsx:1765`): a drag along an
   axis creates an object without a height. `contracts.ts:47-48` asks for positive
   numbers, and the server refuses the batch with it, at every retry.

The modules state further properties that TLC finds violated when they are checked:

- `RevisionsNeverGoBack` (`ServerLedger`; `server/sync/ingest.ts:163`): an object that was
  deleted and is created again starts at revision 0, below what devices have cached.
  `ARCHITECTURE.md:58` calls revisions monotonic.
- `LeavesOnceStored` (`SyncSystem`; `web/sync/outboxCore.ts:41`), under the bounds of
  `sync_chaos`: of two rows sent in one batch after a failure the older one is taken for
  the newer draft, and its content is stored under the newer one's revision; the comment
  at line 35 says "newer local draft".
- `NoBlindOverwrite` (`SyncSystem`; `web/sync/outbox.ts:87`), with two devices and edits
  during flushes: the base revision of an edit behind one in flight is predicted; if that
  one conflicts, the prediction may match a revision another device wrote, and its change
  is overwritten unseen (`ARCHITECTURE.md:72`).
- `SettledCachesAgree` (`SyncSystem`; `web/sync/hydrateCore.ts:27`), with a deletion and a
  hydration: a deletion that arrives between a hydration's answer and its merge is undone by
  the merge, for ever, against the comment at `hydrate.ts:30-32`.
- `FailedUnlinkIsRetried` (`FileStore`; `server/jobs/cleanup.ts:187`): the row is gone before
  the unlink, and later cleanups start from rows; the comment at line 190 says "A later
  cleanup can retry".
- `RowsAlwaysHaveBytes` (`FileStore`; `server/jobs/cleanup.ts:187`): a cleaner that loses its session
  after it found no row of a digest has lost its locks and unlinks the bytes all the same; an
  upload of the same bytes that published before and locked since inserts its row, which has
  none. The comment at lines 97-99 says that the locks "prevent a new metadata row for identical
  bytes from appearing between the final DB check and unlinking".
- `ImportsStayHome` (`CanvasEditor`; `CanvasWorkspace.tsx:851`): an upload that ends after
  another note was opened appends its object to that note's canvas and history, although the
  effect at line 605 says "Reset the working set when the note changes".
- `ResizedInkFollows` (`CanvasSurface`; `CanvasWorkspace.tsx:1558`): each move of the pointer
  scales the endpoints the move before has scaled by the gesture's whole factor, so a resized
  line leaves its bounds at the second move (`objects.ts:435`: "Resizes vector endpoint payloads
  with their selection bounds").

Seen while modelling, without a run of their own:

- a device that edits during its own flush may conflict with itself; the dialog
  (`ConflictDialog.tsx:66-67`) speaks of another device;
- a broadcast that arrives while a row is in the outbox is dropped
  (`web/sync/engine.ts:164-167`), so two devices may stay apart until the next change;
- the canvas hears of an acknowledgement only when the flush loop ends
  (`engine.ts:288`); a deletion's acknowledgement removes a draft created meanwhile
  from the cache (`outbox.ts:128-133`); an acknowledgement may replace a draft whose
  enqueue began after the check (`outbox.ts:114`);
- two overlapping moves of folders make a cycle, which neither the tree nor
  `isDescendant` (at most 64 levels) finds: `ARCHITECTURE.md:58` speaks of "a transaction
  check that prevents cycles", and there is no transaction (`FoldersAreForest` leaves
  overlapping updates out for this);
- a PATCH writes back the folder and the background it read before
  (`server/library/notes.ts:240-258`), over another update; `deleteNote` deletes for good a
  note that was restored after it was read (`notes.ts:329`); a snapshot is restored without
  telling the library's tabs (`server/history/snapshots.ts:291`);
- a tab misses a change made while its first socket opens (`web/sync/engine.ts:102`), does not
  repeat a fetch that failed (`LibraryContext.tsx:176`, `199`), online or not, and an answer may replace a newer one
  (`LibraryContext.tsx:146`);
- the owner can be locked out by three commands in a row: `setup-token` for an owner who
  is enrolled, `revoke-all`, which then leaves the account enrolled since a token is stored
  (`bootstrap.ts:91`), and an enrollment that breaks off once the token is consumed; a start
  then prints no token, only `setup-token` helps. The token `revoke-all` rotates to is never
  printed (`reset-cli.ts:67`);
- two starts at once print two tokens, one of them void, and a start may store a token for an
  owner who has just enrolled (`bootstrap.ts:75-79`), against the comment at line 56;
- the login screen invites to "Use the server's setup token" on a device without a passkey, but
  the enroll screen opens only while no passkey exists at all (`LoginScreen.tsx:53`, `85`);
- `revoke-all` that dies between its two statements leaves an account that counts as enrolled and
  has no passkey (`reset-cli.ts:60`, `67`); a start prints no token for it, only `setup-token` helps;
- when two palette saves fail in a row, "Your change was reverted" shows a palette that was
  never saved (`session.ts:88`);
- a session that is read again, as after a sign-out that failed, while a palette save is
  under way may be answered with the older palette and shows it over the saved one
  (`session.ts:39-44`), until the next save or reading;
- a hit test takes the topmost by z, while images and PDF pages are painted below all vectors
  (`objects.ts:350`); undoing an older move reverts a text typed since;
- a resize from the east allows a width of what is left of the sheet (`pageLayout.ts:294`), so an
  object found beyond the far edge (its note's mode was changed) gets a negative or zero width, by
  which a line's ends are then scaled; an object thinner than the smallest size is widened by a handle
  of the other axis, past the far edge if it lies there;
- a note whose `canvasMode` is patched to `paged` gets no page rows, so a page cannot
  be inserted (only the API allows it; the web application never asks);
- a chat turn takes a client of the pool before it waits for the lock
  (`server/ai/turn.ts:374`) and another for every query. When ten turns hold all ten
  clients (`server/db/pool.ts:17`, no time-out), each waits for an eleventh for
  ever, and so does every other request. `TurnsEnd` fails in the model
  whenever turns and deleters that wait for a lock can hold every client.

## What is not modelled

`PROJECT.json` lists each component with what is missing. Left out for good:

- pure reads (search, the metadata export), rendering (`ObjectRenderer`, the toolbar, the
  sidebar's own state), wiring, the conversions of messages and contracts: they keep no
  state that another part relies on;
- stroke outlines, rotation and angles, which are floating-point geometry, and the
  calculator and math helpers, which are stateless functions of text;
- the rich-text editor, a library's state machine.

Not modelled yet, though it could be: the ChatGPT credentials, whose refresh may end after a
disconnect and store them again (`oauth.ts:287`); the conflict dialog; the PDF page cache;
migrations, which run under one advisory lock. Of the modelled parts the following is left
out: several owners in the ledger, several objects in one outbox batch, heartbeats and
back-off times, file contents other than their digest, tool execution.

## The plan

Done: `ServerLedger` with `OperationOutcomes` and `CanvasRevisions`, `SyncSystem`,
`FileStore`, `ChatTurns`, `Library` with `LibraryTabs`, `CanvasGeometry` with
`CanvasSurface`, `CanvasEditor`, `Access`.

Proved are the theorems above. What would add most next is to model:

1. several notes in one outbox, where an operation on a trashed note fails the whole batch
   (`server/sync/ingest.ts:66`);
2. credentials: the refresh that races a disconnect.
