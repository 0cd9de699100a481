----------------------------- MODULE LibraryTabs -----------------------------
(***************************************************************************)
(* The library as the web application keeps it: what a tab shows, and its  *)
(* offline copy in IndexedDB, beside the server's Library.  Every change   *)
(* is broadcast, a tab fetches the whole library when it hears of one, and *)
(* the answer replaces what it has; its own edits are shown before or when *)
(* their answer arrives, computed from what the tab showed at the click.   *)
(* What a tab shows and what it stores change in steps of their own, in    *)
(* the order the code has for each, and others come in between.            *)
(*                                                                         *)
(* A tab has one edit under way at a time, and what it puts into IndexedDB *)
(* is stored.                                                              *)
(***************************************************************************)
EXTENDS Library

CONSTANTS
    Tabs,        \* the callers that keep a tree, each with an offline copy
    MaxFetches,  \* bound: fetches a tab has under way
    MaxDrops     \* bound: times a socket closes

ASSUME TabsCall == Tabs \subseteq Callers /\ MaxFetches \in Nat \ {0} /\ MaxDrops \in Nat

VARIABLES
    shown,    \* projects, folders, notes and trashedNotes: React's state
    copy,     \* the tables of the same names in IndexedDB
    saved,    \* what the edit under way was computed from: its closure
    fetches,  \* the fetches a tab has under way: the version each was sent at
    kept,     \* the answers it has stored and is yet to show: each with that version
    signals,  \* library-changed messages on their way to a tab
    socket,   \* of a tab: "never" opened yet, "open" or "closed"
    drops,    \* times a socket has closed
    past,     \* history: the library at every version
    stamp,    \* history: the version the tree shown was fetched at, 0 when mixed
    copied,   \* history: the same of the copy
    heard     \* history: the latest version a fetch has shown or a tab has missed

tabVars == <<shown, copy, saved, fetches, kept, signals, socket, drops, past, stamp, copied, heard>>

NoteView(row) == [project |-> row.project, folder |-> row.folder,
                  name |-> row.name, flags |-> row.flags]
TableView(table) == CASE table = "projects" -> projects
                      [] table = "folders" -> folders
                      [] table = "notes" -> [n \in DOMAIN notes |-> NoteView(notes[n])]
Kept == {"projects", "folders", "notes"}
Tree == [table \in Kept |-> TableView(table)]
NoTree == [table \in Kept |-> << >>]

NoEdit == [op |-> "none", step |-> "none"]
Later(a, b) == IF a >= b THEN a ELSE b

\* The tab shows the copy an earlier visit may have left, and fetches.
InitTabs ==
    /\ copy \in [Tabs -> {NoTree, Tree}] /\ shown = copy
    /\ saved = [t \in Tabs |-> NoEdit]
    /\ fetches = [t \in Tabs |-> <<version>>] /\ kept = [t \in Tabs |-> << >>] /\ past = <<Tree>>
    /\ signals = [t \in Tabs |-> 0] /\ socket = [t \in Tabs |-> "never"] /\ drops = 0
    /\ stamp = [t \in Tabs |-> 0] /\ copied = stamp /\ heard = stamp
-----------------------------------------------------------------------------
(***************************************************************************)
(* Fetches.  The server reads the three tables by statements of their own, *)
(* so each holds its rows of some moment between the request and the       *)
(* answer; answers arrive in any order.                                    *)
(***************************************************************************)
Fetch(t) == /\ Len(fetches[t]) + Len(kept[t]) < MaxFetches
            /\ fetches' = [fetches EXCEPT ![t] = Append(@, version)]

Answers(at) ==
    {[table \in Kept |-> past[read[table]][table]] : read \in [Kept -> at..version]}

Without1(s, i) == SubSeq(s, 1, i - 1) \o SubSeq(s, i + 1, Len(s))

\* refresh: all three tables of the copy are replaced, in one transaction,
Keep(t, i) ==
    \E tree \in Answers(fetches[t][i]) :
        /\ copy' = [copy EXCEPT ![t] = tree]
        /\ copied' = [copied EXCEPT ![t] = fetches[t][i]]
        /\ kept' = [kept EXCEPT ![t] = Append(@, [at |-> fetches[t][i], tree |-> tree])]
        /\ fetches' = [fetches EXCEPT ![t] = Without1(@, i)]
        /\ UNCHANGED <<vars, shown, saved, signals, socket, drops, past, stamp, heard>>

\* and then the same is shown; transactions end in the order they were committed in.
Show(t) ==
    /\ kept[t] # << >>
    /\ shown' = [shown EXCEPT ![t] = Head(kept[t]).tree]
    /\ stamp' = [stamp EXCEPT ![t] = Head(kept[t]).at]
    /\ heard' = [heard EXCEPT ![t] = Later(@, Head(kept[t]).at)]
    /\ kept' = [kept EXCEPT ![t] = Tail(@)]
    /\ UNCHANGED <<vars, copy, saved, fetches, signals, socket, drops, past, copied>>

\* Whatever a fetch fails of, online or not, nothing is told and it is not tried again
\* by itself: the tab has missed what it asked for.
FetchFails(t, i) ==
    /\ heard' = [heard EXCEPT ![t] = Later(@, fetches[t][i])]
    /\ fetches' = [fetches EXCEPT ![t] = Without1(@, i)]
    /\ UNCHANGED <<vars, shown, copy, saved, kept, signals, socket, drops, past, stamp, copied>>

HearSignal(t) ==
    /\ signals[t] > 0 /\ signals' = [signals EXCEPT ![t] = @ - 1]
    /\ Fetch(t)
    /\ UNCHANGED <<vars, shown, copy, saved, kept, socket, drops, past, stamp, copied, heard>>

\* The messages under way to a closed socket are lost.
Drop(t) ==
    /\ socket[t] = "open" /\ drops < MaxDrops
    /\ socket' = [socket EXCEPT ![t] = "closed"] /\ drops' = drops + 1
    /\ signals' = [signals EXCEPT ![t] = 0]
    /\ UNCHANGED <<vars, shown, copy, saved, fetches, kept, past, stamp, copied, heard>>

\* Mutant: a tab that comes back does not fetch.
ConnectQuietly(t) ==
    /\ socket[t] # "open"
    /\ socket' = [socket EXCEPT ![t] = "open"]
    /\ UNCHANGED <<vars, shown, copy, saved, signals, fetches, kept, drops, past, stamp, copied, heard>>

\* The first time a socket opens it is left to the initial fetch.
Connect(t) ==
    /\ socket[t] # "open"
    /\ IF socket[t] = "never" THEN UNCHANGED fetches ELSE Fetch(t)
    /\ socket' = [socket EXCEPT ![t] = "open"]
    /\ UNCHANGED <<vars, shown, copy, saved, kept, signals, drops, past, stamp, copied, heard>>

\* broadcastToOwner reaches the open sockets.
AnnounceToTabs(c) ==
    /\ Announce(c)
    /\ signals' = [t \in Tabs |-> IF socket[t] = "open" THEN signals[t] + 1 ELSE signals[t]]
    /\ heard' = [t \in Tabs |-> IF socket[t] = "never" THEN Later(heard[t], calls[c].at)
                                                      ELSE heard[t]]
    /\ UNCHANGED <<shown, copy, saved, fetches, kept, socket, drops, past, stamp, copied>>
-----------------------------------------------------------------------------
(***************************************************************************)
(* Edits.                                                                  *)
(***************************************************************************)
Click(t, op, step, row) ==
    /\ saved' = [saved EXCEPT ![t] = [op |-> op, step |-> step, row |-> row,
                                      tree |-> shown[t], stamp |-> stamp[t]]]
    /\ UNCHANGED <<copy, fetches, kept, signals, socket, drops, past, stamp, copied, heard>>

PutNote(tree, n, row) == [tree EXCEPT !.notes = With(@, n, row)]
TakeNote(tree, n) == [tree EXCEPT !.notes = Without(@, {n})]

\* Sent as asked; what is shown changes with the answer.
SentAtOnce(t, op) == Click(t, op, "asked", None)

EditShelf(t) ==
    LET P == DOMAIN shown[t].projects
        F == DOMAIN shown[t].folders
        In(p) == {None} \cup {f \in F : shown[t].folders[f].project = p}
    IN /\ \/ \E name \in NewNames :
                \/ SendCreateProject(t, name) /\ SentAtOnce(t, "createProject")
                \/ \E p \in P : SendRenameProject(t, p, name) /\ SentAtOnce(t, "renameProject")
                \/ \E p \in P : \E f \in In(p) :
                        SendCreateFolder(t, p, f, name) /\ SentAtOnce(t, "createFolder")
                \/ \E f \in F : SendRenameFolder(t, f, name) /\ SentAtOnce(t, "renameFolder")
          \/ \E p \in P : SendDeleteProject(t, p) /\ SentAtOnce(t, "deleteProject")
          \/ \E f \in F : SendDeleteFolder(t, f) /\ SentAtOnce(t, "deleteFolder")
          \/ \E p \in P, paged \in BOOLEAN : \E f \in In(p) :
                SendCreateNote(t, p, f, paged) /\ SentAtOnce(t, "createNote")
       /\ UNCHANGED shown

\* mutateNote shows the edit at once; only the state buttons and the title edit notes.
EditNote(t, n) ==
    LET row == shown[t].notes[n]
        edited(next) == /\ shown' = [shown EXCEPT ![t] = PutNote(@, n, next)]
                        /\ Click(t, "editNote", "shown", next)
    IN \/ \E name \in NewNames : SendRenameNote(t, n, name) /\ edited([row EXCEPT !.name = name])
       \/ \E flag \in Flags :
                \/ SendMark(t, n, flag) /\ edited([row EXCEPT !.flags = @ \cup {flag}])
                \/ SendUnmark(t, n, flag) /\ edited([row EXCEPT !.flags = @ \ {flag}])

\* deleteNoteForever takes the note out of sight before it asks.
PurgeFromTrash(t, n) ==
    /\ "trashed" \in shown[t].notes[n].flags
    /\ SendDeleteNote(t, n)
    /\ shown' = [shown EXCEPT ![t] = TakeNote(@, n)]
    /\ Click(t, "purge", "shown", None)

EditGoesOn(t, step) == saved' = [saved EXCEPT ![t].step = step] /\ UNCHANGED vars

\* The request of such an edit, set down at the click, leaves once the copy has it.
EditStored(t) ==
    /\ saved[t].step = "shown"
    /\ copy' = [copy EXCEPT ![t] =
            IF saved[t].op = "purge" THEN TakeNote(@, calls[t].of)
                                     ELSE PutNote(@, calls[t].of, saved[t].row)]
    /\ EditGoesOn(t, "asked")
    /\ UNCHANGED <<shown, fetches, kept, signals, socket, drops, past, stamp, copied, heard>>
-----------------------------------------------------------------------------
(***************************************************************************)
(* Answers.  The tab computes from the rows it showed at the click.        *)
(***************************************************************************)
Freed(rows, gone) ==
    [n \in DOMAIN rows |-> IF rows[n].folder \in gone THEN [rows[n] EXCEPT !.folder = None] ELSE rows[n]]
Overlay(rows, new) == [n \in DOMAIN rows \cup DOMAIN new |-> IF n \in DOMAIN new THEN new[n] ELSE rows[n]]
OfProject(rows, p) == {id \in DOMAIN rows : rows[id].project = p}
\* A rename shows only where the row is still shown.
Renamed(rows, id, row) == IF id \in DOMAIN rows THEN [rows EXCEPT ![id] = row] ELSE rows

LearnedByCopy(old, edit, call) ==
    LET then == edit.tree
    IN CASE edit.op \in {"createProject", "renameProject"} ->
                [old EXCEPT !.projects = With(@, call.of, call.row)]
         [] edit.op = "deleteProject" ->
                [projects |-> Without(old.projects, {call.of}),
                 folders |-> Without(old.folders, OfProject(then.folders, call.of)),
                 notes |-> Without(old.notes, OfProject(then.notes, call.of))]
         [] edit.op \in {"createFolder", "renameFolder"} ->
                [old EXCEPT !.folders = With(@, call.of, call.row)]
         [] edit.op = "deleteFolder" ->
                LET gone == {call.of} \cup Cascade({call.of}, then.folders)
                IN [old EXCEPT !.folders = Without(@, gone),
                               !.notes = Overlay(@, Freed(then.notes, gone))]
         [] edit.op \in {"createNote", "editNote"} -> PutNote(old, call.of, NoteView(call.row))
         [] edit.op = "purge" -> old

\* deleteFolder shows the notes of the click again, whatever has come or gone since.
LearnedByScreen(old, edit, call) ==
    LET then == edit.tree
    IN CASE edit.op = "renameProject" -> [old EXCEPT !.projects = Renamed(@, call.of, call.row)]
         [] edit.op = "renameFolder" -> [old EXCEPT !.folders = Renamed(@, call.of, call.row)]
         [] edit.op = "deleteProject" ->
                [projects |-> Without(old.projects, {call.of}),
                 folders |-> Without(old.folders, OfProject(old.folders, call.of)),
                 notes |-> Without(old.notes, OfProject(old.notes, call.of))]
         [] edit.op = "deleteFolder" ->
                LET gone == {call.of} \cup Cascade({call.of}, then.folders)
                IN [old EXCEPT !.folders = Without(@, gone), !.notes = Freed(then.notes, gone)]
         [] OTHER -> LearnedByCopy(old, edit, call)

OnScreen(t, tree, isFresh) ==
    /\ shown' = [shown EXCEPT ![t] = tree]
    /\ stamp' = [stamp EXCEPT ![t] = IF isFresh THEN @ ELSE 0]
    /\ UNCHANGED <<copy, copied, fetches, kept, signals, socket, drops, past, heard>>

InCopy(t, tree, isFresh) ==
    /\ copy' = [copy EXCEPT ![t] = tree]
    /\ copied' = [copied EXCEPT ![t] = IF isFresh THEN @ ELSE 0]
    /\ UNCHANGED <<shown, stamp, fetches, kept, signals, socket, drops, past, heard>>

EditEnds(t) ==
    /\ saved' = [saved EXCEPT ![t] = NoEdit]
    /\ calls' = [calls EXCEPT ![t] = NoCall]
    /\ UNCHANGED <<tables, used, version, requests, overlapped>>

\* The answer is fresh unless a fetch that read later has come before it.
ScreenLearns(t) == OnScreen(t, LearnedByScreen(shown[t], saved[t], calls[t]), stamp[t] < calls[t].at)
CopyLearns(t) == InCopy(t, LearnedByCopy(copy[t], saved[t], calls[t]), copied[t] < calls[t].at)

\* mutateNote shows the answer and then stores it; the others store it first.
Learn(t) ==
    /\ Is(t, "answered") /\ saved[t].step = "asked"
    /\ IF saved[t].op = "purge"
       THEN /\ EditEnds(t)
            /\ UNCHANGED <<shown, copy, fetches, kept, signals, socket, drops, past, stamp, copied, heard>>
       ELSE /\ IF saved[t].op = "editNote" THEN ScreenLearns(t) ELSE CopyLearns(t)
            /\ EditGoesOn(t, "learning")

LearnTheRest(t) ==
    /\ saved[t].step = "learning"
    /\ IF saved[t].op = "editNote" THEN CopyLearns(t) ELSE ScreenLearns(t)
    /\ EditEnds(t)

\* The row of the click, put back.
Back(tree, t) == PutNote(tree, calls[t].of, saved[t].tree.notes[calls[t].of])

\* The request failed, or its answer was lost: a note's row is put back, in the copy
RollBack(t) ==
    /\ calls[t].step \in {"answered", "failed"} /\ saved[t].step = "asked"
    /\ IF saved[t].op \in {"editNote", "purge"}
       THEN InCopy(t, Back(copy[t], t), copied[t] = saved[t].stamp) /\ EditGoesOn(t, "undoing")
       ELSE /\ EditEnds(t)
            /\ UNCHANGED <<shown, copy, fetches, kept, signals, socket, drops, past, stamp, copied, heard>>

\* and then on the screen; a purged note only where it is not shown again already.
RollBackTheRest(t) ==
    /\ saved[t].step = "undoing"
    /\ OnScreen(t, IF saved[t].op = "purge" /\ calls[t].of \in DOMAIN shown[t].notes
                   THEN shown[t] ELSE Back(shown[t], t),
                   stamp[t] = saved[t].stamp)
    /\ EditEnds(t)
-----------------------------------------------------------------------------
Browse(t) ==
    \/ EditShelf(t)
    \/ \E n \in DOMAIN shown[t].notes : EditNote(t, n) \/ PurgeFromTrash(t, n)
    \/ EditStored(t) \/ Learn(t) \/ LearnTheRest(t) \/ RollBack(t) \/ RollBackTheRest(t)
    \/ HearSignal(t) \/ Drop(t) \/ Connect(t) \/ Show(t)
    \/ \E i \in DOMAIN fetches[t] : Keep(t, i) \/ FetchFails(t, i)

Serve(c) ==
    /\ Check(c) \/ Write(c)
    /\ c \in Tabs => saved[c].step # "shown"
    /\ past' = IF version' = version THEN past ELSE Append(past, Tree')
    /\ UNCHANGED <<shown, copy, saved, fetches, kept, signals, socket, drops, stamp, copied, heard>>

NextTabs ==
    \/ \E t \in Tabs : Browse(t)
    \/ \E c \in Callers : Serve(c) \/ AnnounceToTabs(c)
    \/ \E c \in Callers \ Tabs : (Request(c) \/ Hear(c)) /\ UNCHANGED tabVars

SpecTabs == Init /\ InitTabs /\ [][NextTabs]_<<vars, tabVars>>
-----------------------------------------------------------------------------
(***************************************************************************)
(* Once nothing is under way, what a connected tab shows is the database's *)
(* library, and so is what its offline copy holds, whatever was created,   *)
(* renamed, moved, deleted, rolled back or missed on the way, and in       *)
(* whatever order messages, fetches, answers and their two halves arrived. *)
(* Either stays behind, until the next change, in three cases only: the    *)
(* last answer it took was older than what it had already; a fetch failed  *)
(* that asked for a later library; or a change was made after the last     *)
(* fetch had been read and before the tab's first socket opened.           *)
(* A restored snapshot is not broadcast, and is left out.                  *)
(***************************************************************************)
UpToDate(t, at) == at >= heard[t]

Settled(t) ==
    /\ socket[t] = "open" /\ signals[t] = 0 /\ fetches[t] = << >> /\ kept[t] = << >>
    /\ Free(t) /\ \A c \in Callers : calls[c].step # "committed"

SettledTabsAgree ==
    \A t \in Tabs : Settled(t) =>
        /\ UpToDate(t, stamp[t]) => shown[t] = Tree
        /\ UpToDate(t, copied[t]) => copy[t] = Tree
=============================================================================
