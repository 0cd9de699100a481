------------------------------- MODULE Library -------------------------------
(***************************************************************************)
(* The server's library: projects, their tree of folders, notes with their *)
(* pages and snapshots, and links.  A request runs statement by statement, *)
(* the statements of several requests interleave, and only the statements  *)
(* that a transaction holds together are one step.  What each request      *)
(* checks, it checks in statements of their own before the one that writes.*)
(***************************************************************************)
EXTENDS Integers, FiniteSets, Sequences

CONSTANTS
    Projects, Folders, Notes,  \* the ids the database may give to rows
    Callers,                   \* who sends requests, each one at a time
    Names,                     \* the names and titles of rows
    Flags,                     \* of a note: favorite, archived_at, trashed_at
    None,                      \* SQL's NULL
    Shelves,                   \* the libraries there may be at the beginning
    Wanted, NewNames,          \* bounds: the kinds of requests sent, the names they give
    MaxWalk,                   \* the levels isDescendant walks up, 64
    MaxRequests                \* bound: requests sent

ASSUME NoneIsNoRow == None \notin Projects \cup Folders \cup Notes
ASSUME FlagsAreKnown == "trashed" \in Flags /\ Flags \subseteq {"trashed", "favorite", "archived"}
ASSUME NamesAreKnown == Names # {} /\ NewNames \subseteq Names
ASSUME WalkIsBounded == MaxWalk \in Nat \ {0} /\ MaxRequests \in Nat
-----------------------------------------------------------------------------
\* parent_id of a folder and folder_id of a note are both called folder here.
FolderRow == [project : Projects, folder : Folders \cup {None}, name : Names]
NoteRow == [project : Projects, folder : Folders \cup {None}, name : Names,
            flags : SUBSET Flags, paged : BOOLEAN, pages : Seq(Int)]
IsTable(rows, ids, Row) == DOMAIN rows \subseteq ids /\ \A id \in DOMAIN rows : rows[id] \in Row

\* Mutant: only the folders directly below go with a folder.
CascadeOnce(doomed, rows) == doomed \cup {f \in DOMAIN rows : rows[f].folder \in doomed}

\* ON DELETE CASCADE of parent_id: the folders below the doomed ones, at any depth.
Cascade(doomed, rows) ==
    {f \in DOMAIN rows :
        \A C \in SUBSET DOMAIN rows :
            doomed \cap DOMAIN rows \subseteq C
                /\ (\A g \in DOMAIN rows : rows[g].folder \in C => g \in C)
            => f \in C}

Without(f, S) == [x \in DOMAIN f \ S |-> f[x]]
With(f, x, row) == [y \in DOMAIN f \cup {x} |-> IF y = x THEN row ELSE f[y]]
-----------------------------------------------------------------------------
\* Of the tables t: their types, the projects of rows, and the numbers of pages.
TablesTyped(t) ==
    /\ DOMAIN t = {"projects", "folders", "notes", "links", "snapshots"}
    /\ IsTable(t.projects, Projects, Names)
    /\ IsTable(t.folders, Folders, FolderRow)
    /\ IsTable(t.notes, Notes, NoteRow)
    /\ t.links \subseteq Notes \X Notes
    /\ \A s \in t.snapshots : DOMAIN s = {"note", "row"} /\ s.note \in Notes /\ s.row \in NoteRow

IsHome(row, t) ==
    /\ row.project \in DOMAIN t.projects
    /\ row.folder # None => /\ row.folder \in DOMAIN t.folders
                            /\ t.folders[row.folder].project = row.project

AllAreHome(t) ==
    /\ \A f \in DOMAIN t.folders : IsHome(t.folders[f], t)
    /\ \A n \in DOMAIN t.notes : IsHome(t.notes[n], t)
    /\ \A l \in t.links : l[1] \in DOMAIN t.notes /\ l[2] \in DOMAIN t.notes

FromZero(pages) == {pages[i] : i \in DOMAIN pages} = 0..Len(pages) - 1

\* No folders are above one another in a circle.
IsForest(rows) ==
    \A S \in (SUBSET DOMAIN rows) \ {{}} : \E f \in S : rows[f].folder \notin S

ASSUME ShelvesAreSound ==
    \A t \in Shelves : /\ TablesTyped(t) /\ AllAreHome(t) /\ IsForest(t.folders) /\ t.snapshots = {}
                       /\ \A n \in DOMAIN t.notes : FromZero(t.notes[n].pages)
-----------------------------------------------------------------------------
VARIABLES
    tables,     \* projects, folders, notes with their pages, snapshots, note_links
    used,       \* history: the ids ever given
    calls,      \* the request each caller has under way
    version,    \* history: the changes committed so far
    requests,   \* requests sent
    overlapped  \* history: two updates of folders have been under way at once

vars == <<tables, used, calls, version, requests, overlapped>>

projects == tables.projects
folders == tables.folders
notes == tables.notes
links == tables.links
snapshots == tables.snapshots

Ops == {"createProject", "renameProject", "deleteProject",
        "createFolder", "renameFolder", "moveFolder", "deleteFolder",
        "createNote", "renameNote", "moveNote", "setMode", "addPage",
        "mark", "unmark", "deleteNote", "createLink", "deleteLink",
        "takeSnapshot", "restoreSnapshot"}
Creations == {"createFolder", "createNote"}
FolderUpdates == {"renameFolder", "moveFolder"}
NoteUpdates == {"renameNote", "moveNote", "setMode", "mark", "unmark"}

\* committed: written, not yet broadcast; answered and failed: the response is out.
Steps == {"project", "read", "target", "walk", "folder", "write", "committed", "answered", "failed"}

\* of: the row the request names; seen: its project and folder as read; row: the answer.
NoCall == [op |-> "none", step |-> "none", of |-> None, project |-> None, folder |-> None,
           value |-> None, seen |-> None, walk |-> None, depth |-> 0, row |-> None, at |-> 0]

Free(c) == calls[c] = NoCall
UnderWay(c) == calls[c].step \in Steps \ {"committed", "answered", "failed"}
Is(c, step) == calls[c].step = step

Init ==
    /\ tables \in Shelves
    /\ used = DOMAIN projects \cup DOMAIN folders \cup DOMAIN notes
    /\ calls = [c \in Callers |-> NoCall]
    /\ version = 1 /\ requests = 0 /\ overlapped = FALSE

GoTo(c, step) == calls' = [calls EXCEPT ![c].step = step]

(***************************************************************************)
(* Requests.  op decides which statements check and which one writes.      *)
(***************************************************************************)
Send(c, call) ==
    /\ Free(c) /\ requests < MaxRequests /\ call.op \in Wanted
    /\ requests' = requests + 1
    /\ calls' = [calls EXCEPT ![c] = call]
    /\ overlapped' = (overlapped \/ (call.op \in FolderUpdates
                        /\ \E d \in Callers \ {c} : calls[d].op \in FolderUpdates /\ UnderWay(d)))
    /\ UNCHANGED <<tables, used, version>>

\* A request to op the row `of`, which begins with the step `first`.
Ask(op, first, of) == [NoCall EXCEPT !.op = op, !.step = first, !.of = of]

SendCreateProject(c, name) == Send(c, [Ask("createProject", "write", None) EXCEPT !.value = name])
SendRenameProject(c, p, name) == Send(c, [Ask("renameProject", "write", p) EXCEPT !.value = name])
SendDeleteProject(c, p) == Send(c, Ask("deleteProject", "write", p))

SendCreateFolder(c, p, parent, name) ==
    Send(c, [Ask("createFolder", "project", None)
                EXCEPT !.project = p, !.folder = parent, !.value = name])
SendRenameFolder(c, f, name) == Send(c, [Ask("renameFolder", "read", f) EXCEPT !.value = name])
SendMoveFolder(c, f, parent) == Send(c, [Ask("moveFolder", "read", f) EXCEPT !.folder = parent])
SendDeleteFolder(c, f) == Send(c, Ask("deleteFolder", "write", f))

\* value is whether the note is a paged one.
SendCreateNote(c, p, folder, paged) ==
    Send(c, [Ask("createNote", "project", None)
                EXCEPT !.project = p, !.folder = folder, !.value = paged])
SendRenameNote(c, n, name) == Send(c, [Ask("renameNote", "read", n) EXCEPT !.value = name])
SendMoveNote(c, n, folder) == Send(c, [Ask("moveNote", "read", n) EXCEPT !.folder = folder])
SendSetMode(c, n, paged) == Send(c, [Ask("setMode", "read", n) EXCEPT !.value = paged])
SendMark(c, n, flag) == Send(c, [Ask("mark", "read", n) EXCEPT !.value = flag])
SendUnmark(c, n, flag) == Send(c, [Ask("unmark", "read", n) EXCEPT !.value = flag])
SendAddPage(c, n, after) == Send(c, [Ask("addPage", "write", n) EXCEPT !.value = after])
SendDeleteNote(c, n) == Send(c, Ask("deleteNote", "read", n))

\* A note may not link to itself.
SendCreateLink(c, n, target) ==
    n # target /\ Send(c, [Ask("createLink", "read", n) EXCEPT !.value = target])
SendDeleteLink(c, n, target) == Send(c, [Ask("deleteLink", "write", n) EXCEPT !.value = target])

SendTakeSnapshot(c, n) == Send(c, Ask("takeSnapshot", "read", n))
SendRestoreSnapshot(c, s) == Send(c, [Ask("restoreSnapshot", "read", s.note) EXCEPT !.value = s])
-----------------------------------------------------------------------------
(***************************************************************************)
(* Checks.                                                                 *)
(***************************************************************************)
Checked == UNCHANGED <<tables, used, version, requests, overlapped>>

\* getProject
CheckProject(c) ==
    /\ Is(c, "project")
    /\ GoTo(c, IF calls[c].project \notin DOMAIN projects THEN "failed"
               ELSE IF calls[c].folder # None THEN "folder" ELSE "write")
    /\ Checked

\* ensureFolder on the folder to update; a folder cannot be its own parent.
ReadFolder(c) ==
    LET call == calls[c]
        found == call.of \in DOMAIN folders
        next == IF ~found \/ call.folder = call.of THEN "failed"
                ELSE IF call.folder # None THEN "walk" ELSE "write"
    IN /\ Is(c, "read") /\ call.op \in FolderUpdates
       /\ calls' = [calls EXCEPT
            ![c].step = next,
            ![c].seen = IF found THEN [project |-> folders[call.of].project,
                                       folder |-> folders[call.of].folder] ELSE None,
            ![c].walk = call.folder]
       /\ Checked

\* isDescendant: one level up, unless the walk has met the folder that is to move.
WalkUp(c) ==
    LET call == calls[c]
        above == IF call.walk \in DOMAIN folders THEN folders[call.walk].folder ELSE None
    IN /\ Is(c, "walk") /\ call.walk # None /\ call.depth < MaxWalk
       /\ IF call.walk = call.of
          THEN GoTo(c, "failed")
          ELSE calls' = [calls EXCEPT ![c].walk = above, ![c].depth = @ + 1]
       /\ Checked

\* ensureNote, or ensureNote again for the target of a link.
ReadNote(c) ==
    LET call == calls[c]
        found == call.of \in DOMAIN notes
        next == CASE ~found -> "failed"
                  [] found /\ call.op = "moveNote" /\ call.folder # None -> "folder"
                  [] found /\ call.op = "createLink" -> "target"
                  [] OTHER -> "write"
        home == [project |-> notes[call.of].project, folder |-> notes[call.of].folder]
    IN /\ Is(c, "read") /\ call.op \in NoteUpdates \cup {"createLink", "takeSnapshot"}
       /\ calls' = [calls EXCEPT ![c].step = next, ![c].seen = IF found THEN home ELSE None]
       /\ Checked

ReadTarget(c) ==
    /\ Is(c, "target")
    /\ GoTo(c, IF calls[c].value \in DOMAIN notes THEN "write" ELSE "failed")
    /\ Checked

\* getSnapshot: the payload is kept, whatever becomes of the snapshot.
ReadSnapshot(c) ==
    /\ Is(c, "read") /\ calls[c].op = "restoreSnapshot"
    /\ GoTo(c, IF calls[c].value \in snapshots THEN "write" ELSE "failed")
    /\ Checked

\* deleteNote purges what it finds in the trash, and otherwise trashes.
ReadDeleted(c) ==
    LET n == calls[c].of
    IN /\ Is(c, "read") /\ calls[c].op = "deleteNote"
       /\ IF n \in DOMAIN notes /\ "trashed" \notin notes[n].flags
          THEN calls' = [calls EXCEPT ![c].op = "mark", ![c].value = "trashed"]
          ELSE GoTo(c, IF n \in DOMAIN notes THEN "write" ELSE "failed")
       /\ Checked

\* Mutant: a folder is moved without a look at what is above its new parent.
CheckFolderUnwalked(c) ==
    LET call == calls[c]
        project == IF call.op \in Creations THEN call.project ELSE call.seen.project
    IN /\ Is(c, "folder") \/ Is(c, "walk")
       /\ GoTo(c, IF call.folder \in DOMAIN folders /\ folders[call.folder].project = project
                  THEN "write" ELSE "failed")
       /\ Checked

\* The folder to be in is read: it must be of the same project.
CheckFolder(c) ==
    LET call == calls[c]
        project == IF call.op \in Creations THEN call.project ELSE call.seen.project
    IN /\ \/ Is(c, "folder")
          \/ Is(c, "walk") /\ (call.walk = None \/ call.depth >= MaxWalk)
       /\ GoTo(c, IF call.folder \in DOMAIN folders /\ folders[call.folder].project = project
                  THEN "write" ELSE "failed")
       /\ Checked
-----------------------------------------------------------------------------
(***************************************************************************)
(* The statements that write.  A foreign key that does not hold, and a row *)
(* that is gone, fail the request.                                         *)
(***************************************************************************)
Writes(c, op) == Is(c, "write") /\ calls[c].op = op

Commit(c, next, id, row) ==
    /\ tables' = next
    /\ used' = used \cup (IF id = None THEN {} ELSE {id})
    /\ version' = version + 1
    /\ calls' = [calls EXCEPT ![c].step = "committed", ![c].row = row, ![c].at = version + 1,
                              ![c].of = IF id = None THEN @ ELSE id]
    /\ UNCHANGED <<requests, overlapped>>

Refuse(c) == GoTo(c, "failed") /\ Checked

FolderHolds(f) == f = None \/ f \in DOMAIN folders

CreateProject(c) ==
    /\ Writes(c, "createProject")
    /\ \E p \in Projects \ used :
         Commit(c, [tables EXCEPT !.projects = With(projects, p, calls[c].value)], p, calls[c].value)

RenameProject(c) ==
    LET p == calls[c].of
    IN /\ Writes(c, "renameProject")
       /\ IF p \in DOMAIN projects
          THEN Commit(c, [tables EXCEPT !.projects[p] = calls[c].value], None, calls[c].value)
          ELSE Refuse(c)

NoLinksOf(gone) == {l \in links : l[1] \notin gone /\ l[2] \notin gone}
NoSnapshotsOf(gone) == {s \in snapshots : s.note \notin gone}

\* The cascades take the project's folders and notes, and what belongs to these.
DeleteProject(c) ==
    LET p == calls[c].of
        goneNotes == {n \in DOMAIN notes : notes[n].project = p}
        goneFolders == Cascade({f \in DOMAIN folders : folders[f].project = p}, folders)
        kept == Without(notes, goneNotes)
    IN /\ Writes(c, "deleteProject")
       /\ IF p \in DOMAIN projects
          THEN Commit(c, [projects |-> Without(projects, {p}),
                          folders |-> Without(folders, goneFolders),
                          notes |-> [n \in DOMAIN kept |->
                                IF kept[n].folder \in goneFolders THEN [kept[n] EXCEPT !.folder = None]
                                ELSE kept[n]],
                          links |-> NoLinksOf(goneNotes),
                          snapshots |-> NoSnapshotsOf(goneNotes)], None, None)
          ELSE Refuse(c)

CreateFolder(c) ==
    LET row == [project |-> calls[c].project, folder |-> calls[c].folder, name |-> calls[c].value]
    IN /\ Writes(c, "createFolder")
       /\ IF row.project \in DOMAIN projects /\ FolderHolds(row.folder)
          THEN \E f \in Folders \ used :
                 Commit(c, [tables EXCEPT !.folders = With(folders, f, row)], f, row)
          ELSE Refuse(c)

\* Both kinds of update write parent_id: a rename the one that was read.
UpdateFolder(c) ==
    LET call == calls[c]
        f == call.of
        parent == IF call.op = "moveFolder" THEN call.folder ELSE call.seen.folder
        row == [folders[f] EXCEPT !.folder = parent,
                                  !.name = IF call.op = "renameFolder" THEN call.value ELSE @]
    IN /\ Is(c, "write") /\ call.op \in FolderUpdates
       /\ IF f \in DOMAIN folders /\ FolderHolds(parent)
          THEN Commit(c, [tables EXCEPT !.folders[f] = row], None, row)
          ELSE Refuse(c)

\* The folders below go too; the notes in them stay, in no folder.
DeleteFolder(c) ==
    LET gone == Cascade({calls[c].of}, folders)
        freed(n) == IF notes[n].folder \in gone THEN [notes[n] EXCEPT !.folder = None] ELSE notes[n]
    IN /\ Writes(c, "deleteFolder")
       /\ IF calls[c].of \in DOMAIN folders
          THEN Commit(c, [tables EXCEPT !.folders = Without(folders, gone),
                                        !.notes = [n \in DOMAIN notes |-> freed(n)]], None, None)
          ELSE Refuse(c)

\* A paged note gets its first page in the same transaction.
CreateNote(c) ==
    LET call == calls[c]
        row == [project |-> call.project, folder |-> call.folder,
                name |-> CHOOSE name \in Names : TRUE, flags |-> {},
                paged |-> call.value, pages |-> IF call.value THEN <<0>> ELSE << >>]
    IN /\ Writes(c, "createNote")
       /\ IF row.project \in DOMAIN projects /\ FolderHolds(row.folder)
          THEN \E n \in Notes \ used :
                 Commit(c, [tables EXCEPT !.notes = With(notes, n, row)], n, row)
          ELSE Refuse(c)

\* PATCH writes folder_id whatever it changes; the state routes write their column only.
Updated(call, row) ==
    CASE call.op = "renameNote" -> [row EXCEPT !.folder = call.seen.folder, !.name = call.value]
      [] call.op = "setMode" -> [row EXCEPT !.folder = call.seen.folder, !.paged = call.value]
      [] call.op = "moveNote" -> [row EXCEPT !.folder = call.folder]
      [] call.op = "mark" -> [row EXCEPT !.flags = @ \cup {call.value}]
      [] call.op = "unmark" -> [row EXCEPT !.flags = @ \ {call.value}]

UpdateNote(c) ==
    LET n == calls[c].of
        row == Updated(calls[c], notes[n])
    IN /\ Is(c, "write") /\ calls[c].op \in NoteUpdates
       /\ IF n \in DOMAIN notes /\ FolderHolds(row.folder)
          THEN Commit(c, [tables EXCEPT !.notes[n] = row], None, row)
          ELSE Refuse(c)

\* Mutant: the pages below keep the negative indexes of the first UPDATE.
NumberedHalfway(pages, after) ==
    Append([i \in DOMAIN pages |-> IF pages[i] > after THEN -pages[i] - 1 ELSE pages[i]], after + 1)

\* Mutant: the page one adds below moves down as well.
NumberedFromHere(pages, after) ==
    Append([i \in DOMAIN pages |-> IF pages[i] >= after THEN pages[i] + 1 ELSE pages[i]], after + 1)

\* Two UPDATEs, over negative indexes, move the pages below; then the new one is inserted.
Numbered(pages, after) ==
    LET negated == [i \in DOMAIN pages |-> IF pages[i] > after THEN -pages[i] - 1 ELSE pages[i]]
    IN Append([i \in DOMAIN pages |-> IF negated[i] < 0 THEN -negated[i] ELSE negated[i]], after + 1)

\* One transaction, which holds the note's row: createPageBelow.
AddPage(c) ==
    LET n == calls[c].of
        after == calls[c].value
        row == [notes[n] EXCEPT !.pages = Numbered(notes[n].pages, after)]
    IN /\ Writes(c, "addPage")
       /\ IF n \in DOMAIN notes /\ notes[n].paged /\ after \in 0..Len(notes[n].pages) - 1
          THEN Commit(c, [tables EXCEPT !.notes[n] = row], None, row)
          ELSE Refuse(c)

\* DELETE does not look whether the note is still in the trash, or still there.
PurgeNote(c) ==
    /\ Writes(c, "deleteNote")
    /\ Commit(c, [tables EXCEPT !.notes = Without(notes, {calls[c].of}),
                                !.links = NoLinksOf({calls[c].of}),
                                !.snapshots = NoSnapshotsOf({calls[c].of})], None, None)

\* What no tree shows is not broadcast.
CommitQuietly(c, next) ==
    /\ tables' = next
    /\ GoTo(c, "answered")
    /\ UNCHANGED <<used, version, requests, overlapped>>

\* A link that exists already is a conflict.
ChangeLink(c) ==
    LET link == <<calls[c].of, calls[c].value>>
        creates == calls[c].op = "createLink"
    IN /\ Is(c, "write") /\ calls[c].op \in {"createLink", "deleteLink"}
       /\ IF (creates /\ link \notin links /\ {link[1], link[2]} \subseteq DOMAIN notes)
                \/ (~creates /\ link \in links)
          THEN CommitQuietly(c, [tables EXCEPT !.links = IF creates THEN @ \cup {link} ELSE @ \ {link}])
          ELSE Refuse(c)

TakeSnapshot(c) ==
    LET n == calls[c].of
    IN /\ Writes(c, "takeSnapshot")
       /\ IF n \in DOMAIN notes
          THEN CommitQuietly(c, [tables EXCEPT
                    !.snapshots = @ \cup {[note |-> n, row |-> notes[n]]}])
          ELSE Refuse(c)

\* The note's row and pages become what they were, unless their folder has gone
\* since.  This changes the tree, and only the canvas's objects are broadcast.
RestoreSnapshot(c) ==
    LET n == calls[c].of
        row == calls[c].value.row
    IN /\ Writes(c, "restoreSnapshot")
       /\ IF n \in DOMAIN notes /\ row.project \in DOMAIN projects /\ FolderHolds(row.folder)
          THEN /\ tables' = [tables EXCEPT !.notes[n] = row]
               /\ GoTo(c, "answered")
               /\ version' = version + 1
               /\ UNCHANGED <<used, requests, overlapped>>
          ELSE Refuse(c)

Write(c) ==
    \/ CreateProject(c) \/ RenameProject(c) \/ DeleteProject(c)
    \/ CreateFolder(c) \/ UpdateFolder(c) \/ DeleteFolder(c)
    \/ CreateNote(c) \/ UpdateNote(c) \/ AddPage(c) \/ PurgeNote(c)
    \/ ChangeLink(c) \/ TakeSnapshot(c) \/ RestoreSnapshot(c)

\* broadcastLibraryChange, then the response.
Announce(c) == Is(c, "committed") /\ GoTo(c, "answered") /\ Checked

Check(c) == CheckProject(c) \/ ReadFolder(c) \/ WalkUp(c) \/ ReadNote(c) \/ ReadTarget(c)
            \/ ReadDeleted(c) \/ ReadSnapshot(c) \/ CheckFolder(c)
-----------------------------------------------------------------------------
\* The requests of a client that keeps no tree of its own.  Ids are random, so it
\* can name only those the server has given.
Request(c) ==
    LET P == Projects \cap used
        F == Folders \cap used
        N == Notes \cap used
    IN \/ \E name \in NewNames : \/ SendCreateProject(c, name)
                                 \/ \E p \in P : SendRenameProject(c, p, name)
                                 \/ \E p \in P, f \in F \cup {None} : SendCreateFolder(c, p, f, name)
                                 \/ \E f \in F : SendRenameFolder(c, f, name)
                                 \/ \E n \in N : SendRenameNote(c, n, name)
       \/ \E p \in P : SendDeleteProject(c, p)
       \/ \E f \in F : SendDeleteFolder(c, f)
       \/ \E f \in F, g \in F \cup {None} : SendMoveFolder(c, f, g)
       \/ \E p \in P, f \in F \cup {None}, paged \in BOOLEAN : SendCreateNote(c, p, f, paged)
       \/ \E n \in N : SendDeleteNote(c, n) \/ SendTakeSnapshot(c, n)
       \/ \E s \in snapshots : SendRestoreSnapshot(c, s)
       \/ \E n \in N, f \in F \cup {None} : SendMoveNote(c, n, f)
       \/ \E n \in N, paged \in BOOLEAN : SendSetMode(c, n, paged)
       \/ \E n \in N, flag \in Flags : SendMark(c, n, flag) \/ SendUnmark(c, n, flag)
       \/ \E n \in N, after \in 0..MaxRequests : SendAddPage(c, n, after)
       \/ \E n, m \in N : SendCreateLink(c, n, m) \/ SendDeleteLink(c, n, m)

Hear(c) ==
    /\ calls[c].step \in {"answered", "failed"}
    /\ calls' = [calls EXCEPT ![c] = NoCall]
    /\ Checked

Next == \E c \in Callers : Request(c) \/ Check(c) \/ Write(c) \/ Announce(c) \/ Hear(c)

Spec == Init /\ [][Next]_vars
-----------------------------------------------------------------------------
(***************************************************************************)
(* The tables hold rows of their types, and the requests what they name.   *)
(***************************************************************************)
TypeOK ==
    /\ TablesTyped(tables)
    /\ \A n \in DOMAIN notes : \A i \in DOMAIN notes[n].pages : notes[n].pages[i] >= 0
    /\ used \subseteq Projects \cup Folders \cup Notes
    /\ DOMAIN calls = Callers
    /\ \A c \in Callers : /\ DOMAIN calls[c] = DOMAIN NoCall
                          /\ calls[c].step \in Steps \cup {"none"}
                          /\ calls[c].op \in Ops \cup {"none"}
                          /\ calls[c].depth \in 0..MaxWalk
                          /\ calls[c].at \in 0..version
    /\ version \in Nat \ {0} /\ requests \in 0..MaxRequests /\ overlapped \in BOOLEAN

(***************************************************************************)
(* Every row points home: a folder's parent and a note's folder exist and  *)
(* are of the same project, every project named exists, and a link's two   *)
(* notes exist.  The foreign keys know nothing of the projects of a folder *)
(* and its parent: that is left to checks in statements before the write,  *)
(* while other requests delete, move, rename and restore.                  *)
(***************************************************************************)
RowsPointHome == AllAreHome(tables)

(***************************************************************************)
(* "Folders use an adjacency-list parent ID with a transaction check that  *)
(* prevents cycles" (docs/ARCHITECTURE.md).  There is no transaction: two  *)
(* updates of folders that overlap can make a cycle together.  As long as  *)
(* none overlap, none does, whatever other requests create and delete      *)
(* while an update walks up the tree.                                      *)
(***************************************************************************)
FoldersAreForest == overlapped \/ IsForest(folders)

(***************************************************************************)
(* The pages of a note are numbered from 0 on, without a gap and without a *)
(* number twice, wherever pages have been inserted and whichever snapshot  *)
(* has been restored: the sheets of the canvas are drawn by number, and    *)
(* objects are shifted by it.                                              *)
(***************************************************************************)
PagesAreNumbered == \A n \in DOMAIN notes : FromZero(notes[n].pages)
=============================================================================
