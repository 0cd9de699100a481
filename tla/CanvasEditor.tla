----------------------------- MODULE CanvasEditor -----------------------------
(***************************************************************************)
(* The working set of one open canvas (CanvasWorkspace): gestures that edit*)
(* it, undo and redo, imports that finish when they may, remote changes    *)
(* that are merged into it, and notes opened one after another.            *)
(*                                                                         *)
(* React keeps the objects twice.  Handlers read and write objectsRef      *)
(* (ref); setMirror sets the state the next render shows (mirror) and the  *)
(* render copies to ref.  A remote change is an updater of mirror; a       *)
(* handler sets mirror to what it computed from ref, and a change that was *)
(* not rendered yet is gone.                                               *)
(*                                                                         *)
(* Where an object is and what it holds are a place and a text; how drags  *)
(* compute the place is CanvasSurface's, how edits reach the server and    *)
(* what it answers SyncSystem's: here the other side may say anything.     *)
(***************************************************************************)
EXTENDS Integers, Sequences, FiniteSets, SequencesExt

CONSTANTS
    Ids,
    KindOf,        \* of each id: "stroke", "shape" or "page" (of a PDF, locked)
    NoteCount,     \* the notes 1..NoteCount, opened in this order
    Cached,        \* the objects of each note in the local cache
    Places,        \* 0..Places - 1
    HistoryLimit,  \* HISTORY_LIMIT
    MaxRevision,   \* bound
    MaxEdits,      \* bound: gestures, keys and imports of the user
    MaxEvents      \* bound: changes from the other side

Note == 1..NoteCount
Texts == {0, 1}
Kinds == {"stroke", "shape", "page"}
Object == [id : Ids, home : Note, place : 0..Places - 1, text : Texts, revision : 0..MaxRevision]

ASSUME EditorConstants ==
    /\ KindOf \in [Ids -> Kinds]
    /\ {NoteCount, Places, HistoryLimit} \subseteq Nat \ {0}
    /\ {MaxRevision, MaxEdits, MaxEvents} \subseteq Nat
    /\ Cached \in [Note -> Seq(Object)]

\* The key of the cache's table is the object's id (sync/db.ts).
ASSUME RowsAreKeyed ==
    \A n \in Note : \A i, j \in DOMAIN Cached[n] : Cached[n][i].id = Cached[n][j].id => i = j
-----------------------------------------------------------------------------
VARIABLES
    note,        \* noteId
    mirror,      \* the objects of the next render
    ref,         \* objectsRef.current
    seeded,      \* whether the cache's rows have arrived
    drag,        \* gestureRef
    styled,      \* shapeEditOriginRef
    undo, redo,  \* historyRef
    pending,     \* pendingObjectsRef: the last own upsert not seen confirmed
    imports,     \* uploads under way, each with the note it was begun in
    made,        \* the ids taken, each with the note its object is in
    unrecorded,  \* history: objects of its entries changed by what makes no entry
    tangled,     \* history: objects that a key, a finger or a late render changed while
                 \* a gesture held them, or that came back after they were deleted here
    edits, events

canvas == <<mirror, ref>>
history == <<undo, redo>>
traces == <<unrecorded, tangled>>
vars == <<note, canvas, seeded, drag, styled, history, pending, imports, made, traces, edits, events>>

None == [kind |-> "none"]
Free == drag = None /\ styled = None

IdsOf(objects) == {objects[i].id : i \in DOMAIN objects}
\* objects.find: the first of the id.
Find(objects, id) == objects[CHOOSE i \in DOMAIN objects :
                                objects[i].id = id /\ \A j \in DOMAIN objects :
                                                        objects[j].id = id => i <= j]
\* objects.filter: what is at the positions S, in the list's order.
Nth(S, k) == CHOOSE i \in S : Cardinality({j \in S : j < i}) = k - 1
At(objects, S) == [k \in 1..Cardinality(S) |-> objects[Nth(S, k)]]
Without(objects, ids) == At(objects, {i \in DOMAIN objects : objects[i].id \notin ids})
Mapped(objects, Change(_)) == [i \in DOMAIN objects |-> Change(objects[i])]

Fresh(id) == \A n \in Note : <<id, n>> \notin made

\* contentKey: what two versions of an object are compared by.
Content(o) == <<o.place, o.text>>
Locked(id) == KindOf[id] = "page"

Init ==
    /\ note = 1
    /\ mirror = << >> /\ ref = << >> /\ seeded = FALSE
    /\ drag = None /\ styled = None
    /\ undo = << >> /\ redo = << >>
    /\ pending = [id \in Ids |-> None]
    /\ imports = {}
    /\ made = UNION {IdsOf(Cached[n]) \X {n} : n \in Note}
    /\ unrecorded = {} /\ tangled = {}
    /\ edits = 0 /\ events = 0

(***************************************************************************)
(* What every handler is made of.                                          *)
(***************************************************************************)
Edit == edits < MaxEdits /\ edits' = edits + 1

\* objectsRef.current = next; setMirror(next).
Show(objects) == ref' = objects /\ mirror' = objects

\* commitUpsert of several objects, given by a function of their ids.
Committed(versions) ==
    [id \in Ids |-> IF id \in DOMAIN versions THEN versions[id] ELSE pending[id]]

\* Mutant: the history has no limit.
RecordUnlimited(before, after) ==
    undo' = Append(undo, [before |-> before, after |-> after]) /\ redo' = << >>

\* Mutant: a new edit leaves what could be redone.
RecordBesideRedo(before, after) ==
    LET longer == Append(undo, [before |-> before, after |-> after])
    IN /\ undo' = IF Len(longer) > HistoryLimit THEN Tail(longer) ELSE longer
       /\ UNCHANGED redo

\* recordHistory: the oldest entry beyond the limit is forgotten, as is the redo stack.
Record(before, after) ==
    LET longer == Append(undo, [before |-> before, after |-> after])
    IN /\ undo' = IF Len(longer) > HistoryLimit THEN Tail(longer) ELSE longer
       /\ redo' = << >>

Nothing == [id \in {} |-> None]
Single(o) == [id \in {o.id} |-> o]

\* The objects the gesture under way holds.
Held == CASE drag.kind = "move" -> DOMAIN drag.origins
          [] drag.kind = "resize" -> {drag.object.id}
          [] drag.kind = "erase" -> DOMAIN drag.removed
          [] OTHER -> {}

\* The objects of the history's entries, and of the one a style will make.
Mentioned == (UNION {DOMAIN e.before \cup DOMAIN e.after : e \in ToSet(undo \o redo)})
                 \cup {id \in Ids : styled # None /\ styled.id = id}

ForgetHistory == undo' = << >> /\ redo' = << >>

(***************************************************************************)
(* Opening a note drops all that belongs to the last one, except imports:  *)
(* the rows of the cache come later, and only into a canvas that is empty. *)
(***************************************************************************)
OpenNote ==
    /\ note < NoteCount /\ note' = note + 1
    /\ Show(<< >>) /\ seeded' = FALSE
    /\ drag' = None /\ styled' = None
    /\ ForgetHistory
    /\ pending' = [id \in Ids |-> None]
    /\ unrecorded' = {} /\ tangled' = {}
    /\ UNCHANGED <<imports, made, edits, events>>

Seed ==
    LET rows == IF mirror = << >> THEN Cached[note] ELSE << >>
    IN /\ ~seeded /\ seeded' = TRUE
       /\ mirror' = mirror \o rows
       /\ tangled' = tangled \cup {id \in IdsOf(rows) : pending[id] # None \/ id \in Held}
       /\ unrecorded' = unrecorded \cup (IdsOf(rows) \cap Mentioned)
       /\ UNCHANGED <<note, ref, drag, styled, history, pending, imports, made, edits, events>>

Render ==
    /\ ref # mirror /\ ref' = mirror
    /\ UNCHANGED <<note, mirror, seeded, drag, styled, history, pending, imports, made, traces,
                   edits, events>>

(***************************************************************************)
(* Remote changes: broadcasts, acknowledgements, hydrated regions.  An own *)
(* edit that is not confirmed keeps its content and takes the revision; an *)
(* object the gesture holds is left alone, if it is on the canvas.         *)
(***************************************************************************)
\* Mutant: a newer revision replaces an own edit that is still being saved.
ReconcileNewest(local, remote) == remote

Acknowledges(remote) ==
    pending[remote.id] # None /\ Content(pending[remote.id]) = Content(remote)

Reconcile(local, remote) ==
    IF pending[local.id] # None /\ ~Acknowledges(remote)
    THEN [local EXCEPT !.revision = remote.revision]
    ELSE remote

\* Mutant: only resizes and erasures keep their objects.
SparedByMoves(id) == drag.kind # "move" /\ id \in Held

Spared(id) == id \in Held

\* new Map(objects): the last of an id's versions in the place of the first.
Deduplicated(objects) ==
    LET last(id) == objects[CHOOSE i \in DOMAIN objects :
                                objects[i].id = id /\ \A j \in DOMAIN objects :
                                                        objects[j].id = id => j <= i]
        firsts == {i \in DOMAIN objects : \A j \in 1..i - 1 : objects[j].id # objects[i].id}
    IN At([i \in DOMAIN objects |-> last(objects[i].id)], firsts)

RemoteUpsert(remote) ==
    LET id == remote.id
        present == id \in IdsOf(mirror)
        local == Find(Deduplicated(mirror), id)
        merged == Reconcile(local, remote)
        newer == remote.revision > local.revision /\ ~Spared(id)
    IN /\ events < MaxEvents /\ events' = events + 1
       /\ ~Fresh(id) => <<id, note>> \in made
       /\ \A i \in imports : i.id # id
       /\ IF present
          THEN /\ newer
               /\ mirror' = Mapped(Deduplicated(mirror), LAMBDA o : IF o.id = id THEN merged ELSE o)
               /\ pending' = IF Acknowledges(remote)
                             THEN [pending EXCEPT ![id] = None] ELSE pending
               /\ unrecorded' = IF Content(merged) = Content(local) THEN unrecorded
                                                ELSE unrecorded \cup ({id} \cap Mentioned)
               /\ UNCHANGED tangled
          ELSE /\ mirror' = Append(Deduplicated(mirror), remote)
               /\ tangled' = IF pending[id] # None \/ id \in Held THEN tangled \cup {id} ELSE tangled
               /\ unrecorded' = unrecorded \cup ({id} \cap Mentioned)
               /\ UNCHANGED pending
       /\ made' = made \cup {<<id, note>>}
       /\ UNCHANGED <<note, ref, seeded, drag, styled, history, imports, edits>>

RemoteDelete(id) ==
    /\ events < MaxEvents /\ events' = events + 1
    /\ id \in IdsOf(mirror) /\ ~Spared(id) /\ pending[id] = None
    /\ mirror' = Without(Deduplicated(mirror), {id})
    /\ unrecorded' = unrecorded \cup ({id} \cap Mentioned)
    /\ UNCHANGED <<note, ref, seeded, drag, styled, history, pending, imports, made, tangled,
                   edits>>

(***************************************************************************)
(* Gestures.  Nothing is committed before the pointer goes up.             *)
(***************************************************************************)
Begin(gesture, ids) ==
    /\ Free /\ Edit
    /\ drag' = gesture
    /\ tangled' = tangled \cup {id \in ids : id \notin IdsOf(mirror) \/ Find(mirror, id) # Find(ref, id)}
    /\ UNCHANGED <<note, canvas, seeded, styled, history, pending, imports, made, unrecorded,
                   events>>

DownMove(ids) ==
    /\ ids # {} /\ \A id \in ids : ~Locked(id)
    /\ Begin([kind |-> "move", origins |-> [id \in ids |-> Find(ref, id).place]], ids)

DownResize(id) ==
    /\ KindOf[id] = "shape"
    /\ Begin([kind |-> "resize", object |-> Find(ref, id)], {id})

DownErase == Begin([kind |-> "erase", removed |-> Nothing], {})

Dragging == UNCHANGED <<note, seeded, styled, history, pending, imports, made, traces, edits, events>>

Shifted(origin, by) == (origin + by) % Places

\* The selection moves by one distance; a resized object keeps the text it has now.
Move(by) ==
    /\ \/ /\ drag.kind = "move"
          /\ Show(Mapped(ref, LAMBDA o : IF o.id \in Held
                                         THEN [o EXCEPT !.place = Shifted(drag.origins[o.id], by)]
                                         ELSE o))
       \/ /\ drag.kind = "resize"
          /\ Show(Mapped(ref, LAMBDA o : IF o.id \in Held
                                         THEN [drag.object EXCEPT !.place = Shifted(@, by),
                                                                  !.text = o.text]
                                         ELSE o))
    /\ UNCHANGED drag
    /\ Dragging

EraseAt(id) ==
    /\ drag.kind = "erase" /\ KindOf[id] = "stroke"
    /\ id \in IdsOf(ref) \ Held
    /\ drag' = [drag EXCEPT !.removed =
                    [k \in Held \cup {id} |-> IF k = id THEN Find(ref, id) ELSE @[k]]]
    /\ Show(Without(ref, {id}))
    /\ Dragging

\* The objects of a gesture as they were when it began and as they are now.
Found == CASE drag.kind = "move" ->
                  [id \in Held \cap IdsOf(ref) |->
                      [Find(ref, id) EXCEPT !.place = drag.origins[id]]]
           [] drag.kind = "resize" -> [id \in Held \cap IdsOf(ref) |-> drag.object]
           [] OTHER -> Nothing

\* Up commits what has moved and does not set the mirror.
Drop ==
    LET changed == {id \in DOMAIN Found : Find(ref, id).place # Found[id].place}
        after == [id \in changed |-> Find(ref, id)]
    IN /\ drag.kind \in {"move", "resize"}
       /\ drag' = None
       /\ pending' = Committed(after)
       /\ IF changed # {} THEN Record([id \in changed |-> Found[id]], after)
                          ELSE UNCHANGED history
       /\ UNCHANGED <<note, canvas, seeded, styled, imports, made, traces, edits, events>>

DropEraser ==
    /\ drag.kind = "erase"
    /\ drag' = None
    /\ IF Held # {} THEN Record(drag.removed, Nothing) ELSE UNCHANGED history
    /\ UNCHANGED <<note, canvas, seeded, styled, pending, imports, made, traces, edits, events>>

\* A pointercancel puts back what the gesture found.
Cancel ==
    /\ drag # None
    /\ IF drag.kind = "erase"
       THEN Show(ref \o SetToSeq({drag.removed[id] : id \in Held}))
       ELSE Show(Mapped(ref, LAMBDA o : IF o.id \in DOMAIN Found THEN
                                            IF drag.kind = "resize" THEN drag.object
                                            ELSE [o EXCEPT !.place = drag.origins[o.id]]
                                        ELSE o))
    /\ drag' = None
    /\ Dragging

\* A finger on the canvas takes the gesture over for panning: neither committed nor put back.
Abandon ==
    /\ drag # None /\ drag' = None
    /\ tangled' = tangled \cup Held
    /\ UNCHANGED <<note, canvas, seeded, styled, history, pending, imports, made, unrecorded,
                   edits, events>>

(***************************************************************************)
(* Edits of one event: new objects, the Delete key, undo, redo, text, the  *)
(* style of the selected shape.  Keys work during a gesture as well, but   *)
(* not while an input of the style panel has the focus.                    *)
(***************************************************************************)
Appended(o) ==
    /\ Show(Append(ref, o))
    /\ pending' = Committed(Single(o))
    /\ Record(Nothing, Single(o))

Create(id, place) ==
    /\ Free /\ Edit
    /\ Fresh(id) /\ made' = made \cup {<<id, note>>}
    /\ KindOf[id] \in {"stroke", "shape"}
    /\ Appended([id |-> id, home |-> note, place |-> place, text |-> 0, revision |-> 0])
    /\ UNCHANGED <<note, seeded, drag, styled, imports, traces, events>>

\* An edit by key or by typing reaches ids while a gesture may hold some of them.
Tangle(ids) == tangled' = tangled \cup (ids \cap Held)

DeleteSelection(ids) ==
    LET removed == {id \in ids : ~Locked(id)}
    IN /\ styled = None /\ Edit
       /\ removed # {}
       /\ Show(Without(ref, removed))
       /\ Record([id \in removed |-> Find(ref, id)], Nothing)
       /\ Tangle(removed)
       /\ UNCHANGED <<note, seeded, drag, styled, pending, imports, made, unrecorded, events>>

\* applyHistory: the entry's objects as one of its sides has them, in the revision
\* the canvas knows, and above the others.
Restored(entry, desired) ==
    Without(ref, DOMAIN entry.before \cup DOMAIN entry.after)
        \o SetToSeq({[desired[id] EXCEPT !.revision = IF id \in IdsOf(ref) THEN Find(ref, id).revision
                                                                           ELSE 0]
                       : id \in DOMAIN desired})

ApplyHistory(entry, desired) ==
    LET objects == Restored(entry, desired)
    IN /\ styled = None /\ Edit
       /\ Show(objects)
       /\ pending' = Committed([id \in DOMAIN desired |-> Find(objects, id)])
       /\ Tangle(DOMAIN entry.before \cup DOMAIN entry.after)
       /\ UNCHANGED <<note, seeded, drag, styled, imports, made, unrecorded, events>>

Undo ==
    /\ undo # << >>
    /\ ApplyHistory(Last(undo), Last(undo).before)
    /\ undo' = Front(undo) /\ redo' = Append(redo, Last(undo))

Redo ==
    /\ redo # << >>
    /\ ApplyHistory(Last(redo), Last(redo).after)
    /\ undo' = Append(undo, Last(redo)) /\ redo' = Front(redo)

WithText(o, text) == [o EXCEPT !.text = text]

\* Typing is committed at once and makes no history entry.
Type(id, text) ==
    LET o == WithText(Find(ref, id), text)
    IN /\ Edit /\ styled = None
       /\ KindOf[id] = "shape" /\ Find(ref, id).text # text
       /\ Show(Mapped(ref, LAMBDA old : IF old.id = id THEN o ELSE old))
       /\ pending' = Committed(Single(o))
       /\ unrecorded' = unrecorded \cup ({id} \cap Mentioned)
       /\ Tangle({id})
       /\ UNCHANGED <<note, seeded, drag, styled, history, imports, made, events>>

\* A slider of the style panel: every value is committed, the first origin is kept.
PreviewStyle(id, text) ==
    LET found == Find(ref, id)
        o == WithText(found, text)
    IN /\ Edit /\ drag = None
       /\ KindOf[id] = "shape" /\ found.text # text
       /\ styled # None => styled.id = id
       /\ styled' = IF styled = None THEN found ELSE styled
       /\ Show(Mapped(ref, LAMBDA old : IF old.id = id THEN o ELSE old))
       /\ pending' = Committed(Single(o))
       /\ UNCHANGED <<note, seeded, drag, history, imports, made, traces, events>>

CommitStyle ==
    /\ styled # None /\ styled' = None
    /\ IF styled.id \in IdsOf(ref) /\ Find(ref, styled.id).text # styled.text
       THEN Record(Single(styled), Single(Find(ref, styled.id)))
       ELSE UNCHANGED history
    /\ UNCHANGED <<note, canvas, seeded, drag, pending, imports, made, traces, edits, events>>

(***************************************************************************)
(* Imports: a file is read and uploaded, then its object appended to the   *)
(* canvas there is by then.  A failed upload appends nothing.              *)
(***************************************************************************)
BeginImport(id) ==
    /\ Edit
    /\ Fresh(id) /\ made' = made \cup {<<id, note>>}
    /\ KindOf[id] = "page"
    /\ imports' = imports \cup {[id |-> id, note |-> note]}
    /\ UNCHANGED <<note, canvas, seeded, drag, styled, history, pending, traces, events>>

EndImport(i) ==
    /\ imports' = imports \ {i}
    /\ Appended([id |-> i.id, home |-> i.note, place |-> 0, text |-> 0, revision |-> 0])
    /\ UNCHANGED <<note, seeded, drag, styled, made, unrecorded, tangled, edits, events>>

FailImport(i) ==
    /\ imports' = imports \ {i}
    /\ UNCHANGED <<note, canvas, seeded, drag, styled, history, pending, made, traces, edits, events>>

Next ==
    \/ OpenNote
    \/ Seed
    \/ Render
    \/ \E id \in Ids, place \in 0..Places - 1, text \in Texts, revision \in 1..MaxRevision :
           RemoteUpsert([id |-> id, home |-> note, place |-> place, text |-> text,
                         revision |-> revision])
    \/ \E id \in Ids : RemoteDelete(id)
    \/ \E ids \in SUBSET IdsOf(ref) : DownMove(ids) \/ DeleteSelection(ids)
    \/ \E id \in IdsOf(ref) : DownResize(id) \/ EraseAt(id)
    \/ DownErase
    \/ \E by \in 0..Places - 1 : Move(by)
    \/ Drop
    \/ DropEraser
    \/ Cancel
    \/ Abandon
    \/ \E id \in Ids, place \in 0..Places - 1 : Create(id, place)
    \/ Undo
    \/ Redo
    \/ \E id \in IdsOf(ref), text \in Texts : Type(id, text) \/ PreviewStyle(id, text)
    \/ CommitStyle
    \/ \E id \in Ids : BeginImport(id)
    \/ \E i \in imports : EndImport(i) \/ FailImport(i)

Spec == Init /\ [][Next]_vars
-----------------------------------------------------------------------------
(***************************************************************************)
(* The variables hold what the program's refs and states can hold, and no  *)
(* way around undo, redo and new edits lets the history outgrow its limit. *)
(***************************************************************************)
IsDrag(d) ==
    \/ d = None
    \/ d.kind = "move" /\ \E S \in SUBSET Ids : d.origins \in [S -> 0..Places - 1]
    \/ d.kind = "resize" /\ d.object \in Object
    \/ d.kind = "erase" /\ \A id \in DOMAIN d.removed : d.removed[id] \in Object

TypeOK ==
    /\ note \in Note
    /\ mirror \in Seq(Object) /\ ref \in Seq(Object)
    /\ seeded \in BOOLEAN
    /\ IsDrag(drag)
    /\ styled \in Object \cup {None}
    /\ \A e \in ToSet(undo \o redo) : \A id \in DOMAIN e.before : e.before[id] \in Object
    /\ \A e \in ToSet(undo \o redo) : \A id \in DOMAIN e.after : e.after[id] \in Object
    /\ Len(undo) + Len(redo) <= HistoryLimit
    /\ pending \in [Ids -> Object \cup {None}]
    /\ imports \subseteq [id : Ids, note : Note]
    /\ made \subseteq Ids \X Note
    /\ unrecorded \cup tangled \subseteq Ids
    /\ edits \in 0..MaxEdits /\ events \in 0..MaxEvents

(***************************************************************************)
(* The history is a path of each object's versions through the one on the  *)
(* canvas: what an entry leads to is what the next one starts from.  Undo  *)
(* and redo then walk exactly the user's own steps, whatever gestures were *)
(* cancelled and erased, deleted or restored in between.                   *)
(***************************************************************************)
VersionIn(side, id) == IF id \in DOMAIN side THEN Content(side[id]) ELSE <<>>
OnCanvas(id) == IF id \in IdsOf(ref) THEN Content(Find(ref, id)) ELSE <<>>

HistoryIsAPath ==
    Free => \A id \in Ids \ (unrecorded \cup tangled) :
        LET of(e) == id \in DOMAIN e.before \cup DOMAIN e.after
            \* Entries i and j of a stack are about id, and none between them is.
            next(stack, i, j) == /\ i < j /\ of(stack[i]) /\ of(stack[j])
                                 /\ \A k \in i + 1..j - 1 : ~of(stack[k])
            top(stack, i) == of(stack[i]) /\ \A k \in i + 1..Len(stack) : ~of(stack[k])
        IN /\ \A i, j \in DOMAIN undo : next(undo, i, j) =>
                  VersionIn(undo[i].after, id) = VersionIn(undo[j].before, id)
           /\ \A i, j \in DOMAIN redo : next(redo, i, j) =>
                  VersionIn(redo[i].before, id) = VersionIn(redo[j].after, id)
           /\ \A i \in DOMAIN undo : top(undo, i) => VersionIn(undo[i].after, id) = OnCanvas(id)
           /\ \A i \in DOMAIN redo : top(redo, i) => VersionIn(redo[i].before, id) = OnCanvas(id)

(***************************************************************************)
(* An own edit that is not confirmed yet is what the canvas shows, though  *)
(* broadcasts, hydrations and confirmations of earlier edits come in.      *)
(***************************************************************************)
PendingIsShown ==
    \A id \in IdsOf(ref) \ (Held \cup tangled) :
        pending[id] # None => Content(Find(ref, id)) = Content(pending[id])

(***************************************************************************)
(* "Objects under an active gesture keep their local state until the       *)
(* gesture commits" (CanvasWorkspace.tsx): what arrives during a drag      *)
(* takes no object out of the selection that is dragged, nor moves one     *)
(* against the others.                                                     *)
(***************************************************************************)
SelectionKeepsShape ==
    drag.kind = "move" =>
        /\ Held \ tangled \subseteq IdsOf(ref)
        /\ \E by \in 0..Places - 1 : \A id \in Held \ tangled :
               Find(ref, id).place = Shifted(drag.origins[id], by)

(***************************************************************************)
(* "Reset the working set when the note changes" (CanvasWorkspace.tsx). An *)
(* upload that ends after another note was opened appends its object to    *)
(* that note's canvas, and to its history.                                 *)
(***************************************************************************)
ImportsStayHome == \A i \in DOMAIN ref : ref[i].home = note
=============================================================================
