----------------------------- MODULE LibraryProofs -----------------------------
(***************************************************************************)
(* Proofs about Library for any projects, folders, notes and callers, and  *)
(* any bounds.  What is needed to keep the tables sound is stated of a     *)
(* library t and the ids u ever given; the lemmas about the writes relate  *)
(* one library t with the next, n.  The last part is about LibraryTabs:    *)
(* what tabs show of the library, for any tabs.                            *)
(***************************************************************************)
EXTENDS LibraryTabs, SequenceTheorems, FiniteSetTheorems, TLAPS

Tables == {"projects", "folders", "notes", "links", "snapshots"}

\* Ids are not given again, and a folder's project never changes: a folder that was of
\* a project stays so, or is gone for good.
HomeOf(p, f, t, u) ==
    f = None \/ (f \in u /\ (f \in DOMAIN t.folders => t.folders[f].project = p))
OfFolder(f, p, t, u) == f \in u /\ (f \in DOMAIN t.folders => t.folders[f].project = p)
OfNote(n, p, t, u) == n \in u /\ (n \in DOMAIN t.notes => t.notes[n].project = p)

GoodSnapshot(s, t, u) ==
    /\ DOMAIN s = {"note", "row"} /\ s.note \in Notes /\ s.row \in NoteRow
    /\ FromZero(s.row.pages)
    /\ OfNote(s.note, s.row.project, t, u) /\ HomeOf(s.row.project, s.row.folder, t, u)

LibraryOK(t, u) ==
    /\ TablesTyped(t) /\ AllAreHome(t)
    /\ \A n \in DOMAIN t.notes : FromZero(t.notes[n].pages)
    /\ \A s \in t.snapshots : GoodSnapshot(s, t, u)
    /\ DOMAIN t.projects \cup DOMAIN t.folders \cup DOMAIN t.notes \subseteq u
    /\ u \subseteq Projects \cup Folders \cup Notes

\* The rows that n has were in t, of the same projects, or are new.
RowsStay(t, u, n, v) ==
    /\ u \subseteq v
    /\ \A f \in DOMAIN n.folders :
            f \notin u \/ (f \in DOMAIN t.folders /\ n.folders[f].project = t.folders[f].project)
    /\ \A m \in DOMAIN n.notes :
            m \notin u \/ (m \in DOMAIN t.notes /\ n.notes[m].project = t.notes[m].project)

-----------------------------------------------------------------------------
(* Rows *)

LEMMA NoteRowFields ==
    ASSUME NEW row \in NoteRow
    PROVE  /\ row.project \in Projects /\ row.folder \in Folders \cup {None} /\ row.name \in Names
           /\ row.flags \in SUBSET Flags /\ row.paged \in BOOLEAN /\ row.pages \in Seq(Int)
           /\ DOMAIN row = {"project", "folder", "name", "flags", "paged", "pages"}
BY DEF NoteRow

LEMMA NoteRowMoved ==
    ASSUME NEW row \in NoteRow, NEW f \in Folders \cup {None}
    PROVE  /\ [row EXCEPT !.folder = f] \in NoteRow
           /\ [row EXCEPT !.folder = f].project = row.project
           /\ [row EXCEPT !.folder = f].folder = f
           /\ [row EXCEPT !.folder = f].pages = row.pages
BY DEF NoteRow

LEMMA NoteRowFreed ==
    ASSUME NEW row \in NoteRow
    PROVE  /\ [row EXCEPT !.folder = None] \in NoteRow
           /\ [row EXCEPT !.folder = None].project = row.project
           /\ [row EXCEPT !.folder = None].folder = None
           /\ [row EXCEPT !.folder = None].pages = row.pages
BY DEF NoteRow

LEMMA NoteRowPaged ==
    ASSUME NEW row \in NoteRow, NEW pages \in Seq(Int)
    PROVE  /\ [row EXCEPT !.pages = pages] \in NoteRow
           /\ [row EXCEPT !.pages = pages].project = row.project
           /\ [row EXCEPT !.pages = pages].folder = row.folder
           /\ [row EXCEPT !.pages = pages].pages = pages
BY DEF NoteRow

LEMMA FolderRowFields ==
    ASSUME NEW row \in FolderRow
    PROVE  /\ row.project \in Projects /\ row.folder \in Folders \cup {None} /\ row.name \in Names
           /\ DOMAIN row = {"project", "folder", "name"}
BY DEF FolderRow

-----------------------------------------------------------------------------
(* The pages of a note, and the folders below a folder *)

\* Inserting a page keeps the numbers those from 0 on.
LEMMA NumberedFromZero ==
    ASSUME NEW pages \in Seq(Int), FromZero(pages), NEW after \in 0..Len(pages) - 1
    PROVE  Numbered(pages, after) \in Seq(Int) /\ FromZero(Numbered(pages, after))
<1> DEFINE moved == [i \in DOMAIN pages |-> IF pages[i] > after THEN pages[i] + 1 ELSE pages[i]]
           L == Len(pages)
           new == Numbered(pages, after)
<1>1. L \in Nat /\ DOMAIN pages = 1..L /\ after \in Int
  OBVIOUS
<1>2. ASSUME NEW i \in 1..L PROVE pages[i] \in 0..L - 1
  BY <1>1 DEF FromZero
<1>a. ASSUME NEW k \in 0..L - 1 PROVE \E i \in 1..L : pages[i] = k
  <2>1. k \in {pages[i] : i \in DOMAIN pages}
    BY DEF FromZero
  <2> QED
    BY <1>1, <2>1
<1>3. moved \in Seq(Int) /\ Len(moved) = L
  BY <1>1, <1>2
<1>4. new = Append(moved, after + 1)
  <2> DEFINE negated == [i \in DOMAIN pages |-> IF pages[i] > after THEN -pages[i] - 1 ELSE pages[i]]
  <2>1. ASSUME NEW i \in 1..L
        PROVE  (IF negated[i] < 0 THEN -negated[i] ELSE negated[i]) = moved[i]
    BY <1>1, <1>2
  <2>2. [i \in DOMAIN pages |-> IF negated[i] < 0 THEN -negated[i] ELSE negated[i]] = moved
    BY <1>1, <2>1
  <2> QED
    BY <2>2 DEF Numbered
<1> HIDE DEF new
<1>5. /\ new \in Seq(Int) /\ Len(new) = L + 1 /\ DOMAIN new = 1..(L + 1)
      /\ \A i \in 1..L : new[i] = moved[i]
      /\ new[L + 1] = after + 1
  BY <1>1, <1>3, <1>4
<1>6. ASSUME NEW i \in 1..(L + 1) PROVE new[i] \in 0..L
  <2>1. CASE i = L + 1
    BY <1>1, <1>5, <2>1
  <2>2. CASE i \in 1..L
    <3>1. pages[i] \in 0..L - 1 /\ new[i] = moved[i]
      BY <1>2, <1>5, <2>2
    <3>2. new[i] = pages[i] \/ (new[i] = pages[i] + 1)
      BY <1>1, <2>2, <3>1
    <3> QED
      BY <1>1, <3>1, <3>2
  <2> QED
    BY <1>1, <2>1, <2>2
<1>7. ASSUME NEW j \in 0..L PROVE \E i \in 1..(L + 1) : new[i] = j
  <2>1. CASE j = after + 1
    BY <1>1, <1>5, <2>1
  <2>2. CASE j <= after
    <3>1. PICK i \in 1..L : pages[i] = j
      BY <1>1, <1>a, <2>2
    <3> QED
      BY <1>1, <1>5, <2>2, <3>1
  <2>3. CASE j > after + 1
    <3>1. PICK i \in 1..L : pages[i] = j - 1
      <4>1. j - 1 \in 0..L - 1
        BY <1>1, <2>3
      <4> QED
        BY <1>a, <4>1
    <3> QED
      BY <1>1, <1>5, <2>3, <3>1
  <2> QED
    BY <1>1, <2>1, <2>2, <2>3
<1>8. {new[i] : i \in 1..(L + 1)} = 0..L
  BY <1>6, <1>7
<1>9. FromZero(new)
  <2>1. Len(new) - 1 = L /\ {new[i] : i \in DOMAIN new} = {new[i] : i \in 1..(L + 1)}
    BY <1>1, <1>5
  <2> QED
    BY <1>8, <2>1 DEF FromZero
<1> QED
  BY <1>5, <1>9 DEF new

\* What goes with a folder: some folders, itself, and all below what goes.
LEMMA CascadeClosed ==
    ASSUME NEW doomed, NEW rows
    PROVE  /\ Cascade(doomed, rows) \subseteq DOMAIN rows
           /\ doomed \cap DOMAIN rows \subseteq Cascade(doomed, rows)
           /\ \A g \in DOMAIN rows : rows[g].folder \in Cascade(doomed, rows) => g \in Cascade(doomed, rows)
<1>1. ASSUME NEW g \in DOMAIN rows, rows[g].folder \in Cascade(doomed, rows)
      PROVE  g \in Cascade(doomed, rows)
  BY <1>1 DEF Cascade
<1> QED
  BY <1>1 DEF Cascade
-----------------------------------------------------------------------------
(* The writes *)

LEMMA HomesStay ==
    ASSUME NEW t, NEW u, NEW n, NEW v, RowsStay(t, u, n, v)
    PROVE  /\ \A p, f : HomeOf(p, f, t, u) => HomeOf(p, f, n, v)
           /\ \A p, f : OfFolder(f, p, t, u) => OfFolder(f, p, n, v)
           /\ \A p, m : OfNote(m, p, t, u) => OfNote(m, p, n, v)
           /\ \A s : GoodSnapshot(s, t, u) => GoodSnapshot(s, n, v)
BY DEF RowsStay, HomeOf, OfFolder, OfNote, GoodSnapshot

\* A project is created or renamed.
LEMMA PutProject ==
    ASSUME NEW t, NEW u, LibraryOK(t, u), NEW n, NEW p \in Projects, NEW name \in Names,
           DOMAIN n = Tables, n.projects = With(t.projects, p, name),
           n.folders = t.folders, n.notes = t.notes, n.links = t.links, n.snapshots = t.snapshots
    PROVE  LibraryOK(n, u \cup {p}) /\ RowsStay(t, u, n, u \cup {p})
<1>1. RowsStay(t, u, n, u \cup {p})
  BY DEF RowsStay
<1>2. TablesTyped(n)
  BY DEF LibraryOK, TablesTyped, Tables, IsTable, With
<1>3. AllAreHome(n)
  BY DEF LibraryOK, AllAreHome, IsHome, With
<1> QED
  BY <1>1, <1>2, <1>3, HomesStay DEF LibraryOK, With

\* A folder is created, renamed or moved.
LEMMA PutFolder ==
    ASSUME NEW t, NEW u, LibraryOK(t, u), NEW n, NEW f \in Folders, NEW row \in FolderRow,
           f \notin u \/ (f \in DOMAIN t.folders /\ t.folders[f].project = row.project),
           IsHome(row, t),
           DOMAIN n = Tables, n.folders = With(t.folders, f, row),
           n.projects = t.projects, n.notes = t.notes, n.links = t.links, n.snapshots = t.snapshots
    PROVE  LibraryOK(n, u \cup {f}) /\ RowsStay(t, u, n, u \cup {f})
<1>1. RowsStay(t, u, n, u \cup {f})
  BY DEF RowsStay, LibraryOK, With
<1>2. TablesTyped(n)
  BY DEF LibraryOK, TablesTyped, Tables, IsTable, With
<1>3. \A g \in DOMAIN t.folders : g \in DOMAIN n.folders /\ n.folders[g].project = t.folders[g].project
  BY DEF With, LibraryOK
<1>4. \A r : IsHome(r, t) => IsHome(r, n)
  BY <1>3 DEF IsHome
<1>5. AllAreHome(n)
  BY <1>4 DEF LibraryOK, AllAreHome, With
<1> QED
  BY <1>1, <1>2, <1>5, HomesStay DEF LibraryOK, With

\* A note is created, or its row and its pages change.
LEMMA PutNoteRow ==
    ASSUME NEW t, NEW u, LibraryOK(t, u), NEW n, NEW m \in Notes, NEW row \in NoteRow,
           m \notin u \/ (m \in DOMAIN t.notes /\ t.notes[m].project = row.project),
           IsHome(row, t), FromZero(row.pages),
           DOMAIN n = Tables, n.notes = With(t.notes, m, row),
           n.projects = t.projects, n.folders = t.folders, n.links = t.links, n.snapshots = t.snapshots
    PROVE  LibraryOK(n, u \cup {m}) /\ RowsStay(t, u, n, u \cup {m})
<1>1. RowsStay(t, u, n, u \cup {m})
  BY DEF RowsStay, LibraryOK, With
<1>2. TablesTyped(n)
  BY DEF LibraryOK, TablesTyped, Tables, IsTable, With
<1>3. \A r : IsHome(r, t) => IsHome(r, n)
  BY DEF IsHome
<1>4. AllAreHome(n)
  BY <1>3 DEF LibraryOK, AllAreHome, With
<1> QED
  BY <1>1, <1>2, <1>4, HomesStay DEF LibraryOK, With

\* Rows go: the projects P, the folders F with all below, and the notes N.
LEMMA CutRows ==
    ASSUME NEW t, NEW u, LibraryOK(t, u), NEW n, NEW P, NEW F, NEW N,
           \A f \in DOMAIN t.folders \ F : t.folders[f].project \notin P /\ t.folders[f].folder \notin F,
           \A m \in DOMAIN t.notes \ N : t.notes[m].project \notin P,
           DOMAIN n = Tables,
           DOMAIN n.projects = DOMAIN t.projects \ P, DOMAIN n.folders = DOMAIN t.folders \ F,
           \A p \in DOMAIN n.projects : n.projects[p] = t.projects[p],
           \A f \in DOMAIN n.folders : n.folders[f] = t.folders[f],
           DOMAIN n.notes = DOMAIN t.notes \ N,
           \A m \in DOMAIN n.notes : n.notes[m] =
                IF t.notes[m].folder \in F THEN [t.notes[m] EXCEPT !.folder = None] ELSE t.notes[m],
           n.links \subseteq t.links, \A l \in n.links : l[1] \notin N /\ l[2] \notin N,
           n.snapshots \subseteq t.snapshots
    PROVE  LibraryOK(n, u) /\ RowsStay(t, u, n, u)
<1>1. ASSUME NEW m \in DOMAIN n.notes
      PROVE  /\ m \in DOMAIN t.notes \ N /\ n.notes[m] \in NoteRow
             /\ n.notes[m].project = t.notes[m].project /\ n.notes[m].pages = t.notes[m].pages
             /\ n.notes[m].folder = None \/ (n.notes[m].folder = t.notes[m].folder
                                              /\ t.notes[m].folder \notin F)
  <2>1. m \in DOMAIN t.notes \ N /\ t.notes[m] \in NoteRow
    BY DEF LibraryOK, TablesTyped, IsTable
  <2>2. n.notes[m] = IF t.notes[m].folder \in F THEN [t.notes[m] EXCEPT !.folder = None] ELSE t.notes[m]
    OBVIOUS
  <2>3. CASE t.notes[m].folder \in F
    <3> DEFINE r == t.notes[m]
    <3>1. r \in NoteRow /\ n.notes[m] = [r EXCEPT !.folder = None]
      BY <2>1, <2>2, <2>3
    <3> HIDE DEF r
    <3>2. /\ n.notes[m] \in NoteRow /\ n.notes[m].project = r.project
          /\ n.notes[m].pages = r.pages /\ n.notes[m].folder = None
      BY <3>1, NoteRowFreed
    <3> QED
      BY <2>1, <3>2 DEF r
  <2>4. CASE t.notes[m].folder \notin F
    BY <2>1, <2>2, <2>4
  <2> QED
    BY <2>3, <2>4
<1>2. RowsStay(t, u, n, u)
  BY <1>1 DEF RowsStay
<1>3. TablesTyped(n)
  BY <1>1 DEF LibraryOK, TablesTyped, Tables, IsTable
<1>4. AllAreHome(n)
  <2>1. ASSUME NEW f \in DOMAIN n.folders PROVE IsHome(n.folders[f], n)
    BY DEF LibraryOK, AllAreHome, IsHome
  <2>2. ASSUME NEW m \in DOMAIN n.notes PROVE IsHome(n.notes[m], n)
    BY <1>1 DEF LibraryOK, AllAreHome, IsHome
  <2>3. DOMAIN n.notes = DOMAIN t.notes \ N
    OBVIOUS
  <2> QED
    BY <2>1, <2>2, <2>3 DEF LibraryOK, AllAreHome
<1>5. \A m \in DOMAIN n.notes : FromZero(n.notes[m].pages)
  BY <1>1 DEF LibraryOK
<1>6. DOMAIN n.projects \cup DOMAIN n.folders \cup DOMAIN n.notes \subseteq u
  BY DEF LibraryOK
<1> QED
  BY <1>2, <1>3, <1>4, <1>5, <1>6, HomesStay DEF LibraryOK
-----------------------------------------------------------------------------
(* The requests under way *)

CallFields == {"op", "step", "of", "project", "folder", "value", "seen", "walk", "depth", "row", "at"}
NoteEdits == {"renameNote", "setMode", "moveNote"}

ValueOK(op, value) ==
    /\ op \in {"createProject", "renameProject", "createFolder", "renameFolder", "renameNote"}
            => value \in Names
    /\ op \in {"createNote", "setMode"} => value \in BOOLEAN
    /\ op \in {"mark", "unmark"} => value \in Flags
    /\ op = "addPage" => value \in Int

\* What a request has found out about the rows it will write.
FoundOut(call, t, u) ==
    /\ call.op \in Creations /\ call.step = "write" => HomeOf(call.project, call.folder, t, u)
    /\ call.op \in FolderUpdates /\ call.step \in {"walk", "write"}
            => /\ OfFolder(call.of, call.seen.project, t, u)
               /\ HomeOf(call.seen.project, call.seen.folder, t, u)
    /\ call.op = "moveFolder" /\ call.step = "write" => HomeOf(call.seen.project, call.folder, t, u)
    /\ call.op \in NoteEdits /\ call.step \in {"folder", "write"}
            => /\ OfNote(call.of, call.seen.project, t, u)
               /\ HomeOf(call.seen.project, call.seen.folder, t, u)
    /\ call.op = "moveNote" /\ call.step = "write" => HomeOf(call.seen.project, call.folder, t, u)
    /\ call.op = "restoreSnapshot" => GoodSnapshot(call.value, t, u) /\ call.of = call.value.note

CallTyped(call, v) ==
    /\ DOMAIN call = CallFields
    /\ call.step \in Steps \cup {"none"} /\ call.op \in Ops \cup {"none"}
    /\ call.depth \in 0..MaxWalk /\ call.at \in 0..v
    /\ ValueOK(call.op, call.value)
    /\ call.step = "project" => call.op \in Creations
    /\ call.step = "folder" => call.op \in Creations \cup {"moveNote"}
    /\ call.step = "walk" => call.op \in FolderUpdates
    /\ call.step = "target" => call.op = "createLink"

CallOK(call, t, u, v) == CallTyped(call, v) /\ FoundOut(call, t, u)

LibInv ==
    /\ LibraryOK(tables, used)
    /\ DOMAIN calls = Callers
    /\ \A c \in Callers : CallOK(calls[c], tables, used, version)
    /\ version \in Nat \ {0} /\ requests \in 0..MaxRequests /\ overlapped \in BOOLEAN

LEMMA CallStays ==
    ASSUME NEW t, NEW u, NEW n, NEW w, RowsStay(t, u, n, w), NEW call,
           NEW v \in Nat, NEW x \in Nat, v <= x, CallOK(call, t, u, v)
    PROVE  CallOK(call, n, w, x)
<1>1. FoundOut(call, n, w)
  BY HomesStay DEF CallOK, FoundOut
<1>2. CallTyped(call, x)
  BY DEF CallOK, CallTyped
<1> QED
  BY <1>1, <1>2 DEF CallOK

LEMMA NothingStays == ASSUME NEW t, NEW u, LibraryOK(t, u) PROVE RowsStay(t, u, t, u)
BY DEF RowsStay, LibraryOK

\* A step that changes one call, by what the library is at the step.
LEMMA CallChanges ==
    ASSUME LibInv, NEW c \in Callers, NEW call, CallOK(call, tables, used, version),
           calls' = [calls EXCEPT ![c] = call], UNCHANGED <<tables, used, version>>,
           requests' \in 0..MaxRequests, overlapped' \in BOOLEAN
    PROVE  LibInv'
BY DEF LibInv

\* A step that writes.
LEMMA WriteHolds ==
    ASSUME LibInv, NEW c \in Callers, NEW call, CallOK(call, tables', used', version'),
           calls' = [calls EXCEPT ![c] = call],
           LibraryOK(tables', used'), RowsStay(tables, used, tables', used'),
           version' \in {version, version + 1}, UNCHANGED <<requests, overlapped>>
    PROVE  LibInv'
<1>1. version \in Nat /\ version' \in Nat /\ version <= version' /\ version' # 0
  BY DEF LibInv
<1>2. ASSUME NEW d \in Callers, d # c PROVE CallOK(calls'[d], tables', used', version')
  <2>1. calls'[d] = calls[d] /\ CallOK(calls[d], tables, used, version)
    BY <1>2 DEF LibInv
  <2> QED
    BY <1>1, <2>1, CallStays
<1> QED
  BY <1>1, <1>2 DEF LibInv

\* A request that is done has nothing left to find out.
LEMMA DoneOK ==
    ASSUME LibInv, NEW c \in Callers, NEW call, DOMAIN call = CallFields,
           call.op = calls[c].op, call.value = calls[c].value, call.depth = calls[c].depth,
           call.step \in {"committed", "answered", "failed"},
           RowsStay(tables, used, tables', used'), version' \in {version, version + 1},
           call.at \in 0..version', call.op = "restoreSnapshot" => call.of = calls[c].of
    PROVE  CallOK(call, tables', used', version')
<1>1. CallOK(calls[c], tables, used, version)
  BY DEF LibInv
<1>2. call.op = "restoreSnapshot" => GoodSnapshot(call.value, tables', used') /\ call.of = call.value.note
  BY <1>1, HomesStay DEF CallOK, FoundOut
<1>3. FoundOut(call, tables', used')
  BY <1>2 DEF FoundOut
<1>4. CallTyped(call, version')
  BY <1>1 DEF CallOK, CallTyped, Steps
<1> QED
  BY <1>3, <1>4 DEF CallOK

LEMMA NoCallOK == ASSUME NEW t, NEW u, NEW v \in Nat PROVE CallOK(NoCall, t, u, v)
<1>1. CallTyped(NoCall, v)
  BY WalkIsBounded DEF CallTyped, NoCall, CallFields, ValueOK
<1>2. FoundOut(NoCall, t, u)
  BY DEF FoundOut, NoCall, Creations, FolderUpdates, NoteEdits
<1> QED
  BY <1>1, <1>2 DEF CallOK
-----------------------------------------------------------------------------
(* Sending *)

Asks(call, op, first, of, value) ==
    /\ DOMAIN call = CallFields
    /\ call.op = op /\ call.step = first /\ call.of = of /\ call.value = value
    /\ call.depth = 0 /\ call.at = 0

LEMMA AskFields ==
    ASSUME NEW op, NEW first, NEW of, NEW p, NEW f, NEW value
    PROVE  /\ Asks(Ask(op, first, of), op, first, of, None)
           /\ Asks([Ask(op, first, of) EXCEPT !.value = value], op, first, of, value)
           /\ Asks([Ask(op, first, of) EXCEPT !.folder = f], op, first, of, None)
           /\ Asks([Ask(op, first, of) EXCEPT !.project = p, !.folder = f, !.value = value],
                   op, first, of, value)
BY DEF Asks, Ask, NoCall, CallFields

\* The requests that write without a look at the tables are none that move a row.
LEMMA SendHolds ==
    ASSUME LibInv, NEW c \in Callers, NEW call, Send(c, call),
           NEW op \in Ops, NEW first, NEW of, NEW value, Asks(call, op, first, of, value),
           ValueOK(op, value),
           \/ first = "project" /\ op \in Creations
           \/ first = "read"
           \/ first = "write" /\ op \notin Creations \cup FolderUpdates \cup NoteEdits,
           op = "restoreSnapshot" => value \in tables.snapshots /\ of = value.note
    PROVE  LibInv'
<1>1. CallTyped(call, version)
  BY WalkIsBounded DEF LibInv, CallTyped, Asks, Steps
<1>2. FoundOut(call, tables, used)
  <2>1. op = "restoreSnapshot" => GoodSnapshot(call.value, tables, used) /\ call.of = call.value.note
    BY DEF Asks, LibInv, LibraryOK
  <2> QED
    BY <2>1 DEF FoundOut, Asks, Creations, FolderUpdates, NoteEdits
<1>3. requests' \in 0..MaxRequests /\ overlapped' \in BOOLEAN
  BY WalkIsBounded DEF Send, LibInv
<1> QED
  BY <1>1, <1>2, <1>3, CallChanges DEF CallOK, Send

LEMMA RequestHolds == ASSUME LibInv, NEW c \in Callers, Request(c) PROVE LibInv'
<1> USE DEF Ops, Creations, FolderUpdates, NoteEdits
<1>1. ASSUME NEW name \in Names, SendCreateProject(c, name) PROVE LibInv'
  <2> DEFINE call == [Ask("createProject", "write", None) EXCEPT !.value = name]
  <2>1. Asks(call, "createProject", "write", None, name) BY AskFields
  <2>2. ValueOK("createProject", name) BY DEF ValueOK
  <2>3. Send(c, call) BY <1>1 DEF SendCreateProject
  <2> HIDE DEF call
  <2> QED BY <2>1, <2>2, <2>3, SendHolds
<1>2. ASSUME NEW name \in Names, NEW p, SendRenameProject(c, p, name) PROVE LibInv'
  <2> DEFINE call == [Ask("renameProject", "write", p) EXCEPT !.value = name]
  <2>1. Asks(call, "renameProject", "write", p, name) BY AskFields
  <2>2. ValueOK("renameProject", name) BY DEF ValueOK
  <2>3. Send(c, call) BY <1>2 DEF SendRenameProject
  <2> HIDE DEF call
  <2> QED BY <2>1, <2>2, <2>3, SendHolds
<1>3. ASSUME NEW p, SendDeleteProject(c, p) PROVE LibInv'
  <2> DEFINE call == Ask("deleteProject", "write", p)
  <2>1. Asks(call, "deleteProject", "write", p, None) BY AskFields
  <2>2. ValueOK("deleteProject", None) BY DEF ValueOK
  <2>3. Send(c, call) BY <1>3 DEF SendDeleteProject
  <2> HIDE DEF call
  <2> QED BY <2>1, <2>2, <2>3, SendHolds
<1>4. ASSUME NEW name \in Names, NEW p, NEW f, SendCreateFolder(c, p, f, name) PROVE LibInv'
  <2> DEFINE call == [Ask("createFolder", "project", None) EXCEPT !.project = p, !.folder = f, !.value = name]
  <2>1. Asks(call, "createFolder", "project", None, name) BY AskFields
  <2>2. ValueOK("createFolder", name) BY DEF ValueOK
  <2>3. Send(c, call) BY <1>4 DEF SendCreateFolder
  <2> HIDE DEF call
  <2> QED BY <2>1, <2>2, <2>3, SendHolds
<1>5. ASSUME NEW name \in Names, NEW f, SendRenameFolder(c, f, name) PROVE LibInv'
  <2> DEFINE call == [Ask("renameFolder", "read", f) EXCEPT !.value = name]
  <2>1. Asks(call, "renameFolder", "read", f, name) BY AskFields
  <2>2. ValueOK("renameFolder", name) BY DEF ValueOK
  <2>3. Send(c, call) BY <1>5 DEF SendRenameFolder
  <2> HIDE DEF call
  <2> QED BY <2>1, <2>2, <2>3, SendHolds
<1>6. ASSUME NEW f, NEW g, SendMoveFolder(c, f, g) PROVE LibInv'
  <2> DEFINE call == [Ask("moveFolder", "read", f) EXCEPT !.folder = g]
  <2>1. Asks(call, "moveFolder", "read", f, None) BY AskFields
  <2>2. ValueOK("moveFolder", None) BY DEF ValueOK
  <2>3. Send(c, call) BY <1>6 DEF SendMoveFolder
  <2> HIDE DEF call
  <2> QED BY <2>1, <2>2, <2>3, SendHolds
<1>7. ASSUME NEW f, SendDeleteFolder(c, f) PROVE LibInv'
  <2> DEFINE call == Ask("deleteFolder", "write", f)
  <2>1. Asks(call, "deleteFolder", "write", f, None) BY AskFields
  <2>2. ValueOK("deleteFolder", None) BY DEF ValueOK
  <2>3. Send(c, call) BY <1>7 DEF SendDeleteFolder
  <2> HIDE DEF call
  <2> QED BY <2>1, <2>2, <2>3, SendHolds
<1>8. ASSUME NEW p, NEW f, NEW paged \in BOOLEAN, SendCreateNote(c, p, f, paged) PROVE LibInv'
  <2> DEFINE call == [Ask("createNote", "project", None) EXCEPT !.project = p, !.folder = f, !.value = paged]
  <2>1. Asks(call, "createNote", "project", None, paged) BY AskFields
  <2>2. ValueOK("createNote", paged) BY DEF ValueOK
  <2>3. Send(c, call) BY <1>8 DEF SendCreateNote
  <2> HIDE DEF call
  <2> QED BY <2>1, <2>2, <2>3, SendHolds
<1>9. ASSUME NEW name \in Names, NEW n, SendRenameNote(c, n, name) PROVE LibInv'
  <2> DEFINE call == [Ask("renameNote", "read", n) EXCEPT !.value = name]
  <2>1. Asks(call, "renameNote", "read", n, name) BY AskFields
  <2>2. ValueOK("renameNote", name) BY DEF ValueOK
  <2>3. Send(c, call) BY <1>9 DEF SendRenameNote
  <2> HIDE DEF call
  <2> QED BY <2>1, <2>2, <2>3, SendHolds
<1>10. ASSUME NEW n, NEW f, SendMoveNote(c, n, f) PROVE LibInv'
  <2> DEFINE call == [Ask("moveNote", "read", n) EXCEPT !.folder = f]
  <2>1. Asks(call, "moveNote", "read", n, None) BY AskFields
  <2>2. ValueOK("moveNote", None) BY DEF ValueOK
  <2>3. Send(c, call) BY <1>10 DEF SendMoveNote
  <2> HIDE DEF call
  <2> QED BY <2>1, <2>2, <2>3, SendHolds
<1>11. ASSUME NEW n, NEW paged \in BOOLEAN, SendSetMode(c, n, paged) PROVE LibInv'
  <2> DEFINE call == [Ask("setMode", "read", n) EXCEPT !.value = paged]
  <2>1. Asks(call, "setMode", "read", n, paged) BY AskFields
  <2>2. ValueOK("setMode", paged) BY DEF ValueOK
  <2>3. Send(c, call) BY <1>11 DEF SendSetMode
  <2> HIDE DEF call
  <2> QED BY <2>1, <2>2, <2>3, SendHolds
<1>12. ASSUME NEW n, NEW flag \in Flags, SendMark(c, n, flag) PROVE LibInv'
  <2> DEFINE call == [Ask("mark", "read", n) EXCEPT !.value = flag]
  <2>1. Asks(call, "mark", "read", n, flag) BY AskFields
  <2>2. ValueOK("mark", flag) BY DEF ValueOK
  <2>3. Send(c, call) BY <1>12 DEF SendMark
  <2> HIDE DEF call
  <2> QED BY <2>1, <2>2, <2>3, SendHolds
<1>13. ASSUME NEW n, NEW flag \in Flags, SendUnmark(c, n, flag) PROVE LibInv'
  <2> DEFINE call == [Ask("unmark", "read", n) EXCEPT !.value = flag]
  <2>1. Asks(call, "unmark", "read", n, flag) BY AskFields
  <2>2. ValueOK("unmark", flag) BY DEF ValueOK
  <2>3. Send(c, call) BY <1>13 DEF SendUnmark
  <2> HIDE DEF call
  <2> QED BY <2>1, <2>2, <2>3, SendHolds
<1>14. ASSUME NEW n, NEW after \in Int, SendAddPage(c, n, after) PROVE LibInv'
  <2> DEFINE call == [Ask("addPage", "write", n) EXCEPT !.value = after]
  <2>1. Asks(call, "addPage", "write", n, after) BY AskFields
  <2>2. ValueOK("addPage", after) BY DEF ValueOK
  <2>3. Send(c, call) BY <1>14 DEF SendAddPage
  <2> HIDE DEF call
  <2> QED BY <2>1, <2>2, <2>3, SendHolds
<1>15. ASSUME NEW n, SendDeleteNote(c, n) PROVE LibInv'
  <2> DEFINE call == Ask("deleteNote", "read", n)
  <2>1. Asks(call, "deleteNote", "read", n, None) BY AskFields
  <2>2. ValueOK("deleteNote", None) BY DEF ValueOK
  <2>3. Send(c, call) BY <1>15 DEF SendDeleteNote
  <2> HIDE DEF call
  <2> QED BY <2>1, <2>2, <2>3, SendHolds
<1>16. ASSUME NEW n, NEW m, SendCreateLink(c, n, m) PROVE LibInv'
  <2> DEFINE call == [Ask("createLink", "read", n) EXCEPT !.value = m]
  <2>1. Asks(call, "createLink", "read", n, m) BY AskFields
  <2>2. ValueOK("createLink", m) BY DEF ValueOK
  <2>3. Send(c, call) BY <1>16 DEF SendCreateLink
  <2> HIDE DEF call
  <2> QED BY <2>1, <2>2, <2>3, SendHolds
<1>17. ASSUME NEW n, NEW m, SendDeleteLink(c, n, m) PROVE LibInv'
  <2> DEFINE call == [Ask("deleteLink", "write", n) EXCEPT !.value = m]
  <2>1. Asks(call, "deleteLink", "write", n, m) BY AskFields
  <2>2. ValueOK("deleteLink", m) BY DEF ValueOK
  <2>3. Send(c, call) BY <1>17 DEF SendDeleteLink
  <2> HIDE DEF call
  <2> QED BY <2>1, <2>2, <2>3, SendHolds
<1>18. ASSUME NEW n, SendTakeSnapshot(c, n) PROVE LibInv'
  <2> DEFINE call == Ask("takeSnapshot", "read", n)
  <2>1. Asks(call, "takeSnapshot", "read", n, None) BY AskFields
  <2>2. ValueOK("takeSnapshot", None) BY DEF ValueOK
  <2>3. Send(c, call) BY <1>18 DEF SendTakeSnapshot
  <2> HIDE DEF call
  <2> QED BY <2>1, <2>2, <2>3, SendHolds
<1>19. ASSUME NEW s \in snapshots, SendRestoreSnapshot(c, s) PROVE LibInv'
  <2> DEFINE call == [Ask("restoreSnapshot", "read", s.note) EXCEPT !.value = s]
  <2>1. Asks(call, "restoreSnapshot", "read", s.note, s) BY AskFields
  <2>2. ValueOK("restoreSnapshot", s) BY DEF ValueOK
  <2>3. Send(c, call) BY <1>19 DEF SendRestoreSnapshot
  <2> HIDE DEF call
  <2> QED BY <2>1, <2>2, <2>3, SendHolds DEF snapshots
<1>20. \A after \in 0..MaxRequests : after \in Int
  OBVIOUS
<1> QED
  BY <1>1, <1>2, <1>3, <1>4, <1>5, <1>6, <1>7, <1>8, <1>9, <1>10, <1>11, <1>12, <1>13, <1>14,
     <1>15, <1>16, <1>17, <1>18, <1>19, <1>20, NamesAreKnown DEF Request
-----------------------------------------------------------------------------
(* Checking *)

\* A check: the call goes on, with what it has found out.
LEMMA CheckHolds ==
    ASSUME LibInv, NEW c \in Callers, NEW call, CallOK(call, tables, used, version),
           calls' = [calls EXCEPT ![c] = call], Checked
    PROVE  LibInv'
BY CallChanges DEF Checked, LibInv

\* A check that fails, or an answer.
LEMMA EndHolds ==
    ASSUME LibInv, NEW c \in Callers, NEW step \in {"failed", "answered"}, GoTo(c, step), Checked
    PROVE  LibInv'
<1> DEFINE call == [calls[c] EXCEPT !.step = step]
<1>1. CallOK(calls[c], tables, used, version) /\ DOMAIN calls[c] = CallFields /\ LibraryOK(tables, used)
  BY DEF LibInv, CallOK, CallTyped
<1>2. /\ DOMAIN call = CallFields /\ call.step = step /\ call.op = calls[c].op
      /\ call.value = calls[c].value /\ call.depth = calls[c].depth /\ call.at = calls[c].at
      /\ call.of = calls[c].of
  BY <1>1 DEF CallFields
<1>3. calls' = [calls EXCEPT ![c] = call]
  BY DEF GoTo
<1> HIDE DEF call
<1>4. CallTyped(call, version)
  BY <1>1, <1>2 DEF CallOK, CallTyped, Steps
<1>5. FoundOut(call, tables, used)
  BY <1>1, <1>2 DEF CallOK, FoundOut
<1> QED
  BY <1>3, <1>4, <1>5, CheckHolds DEF CallOK

\* A call that goes on to another step, and keeps what it was asked.
SameRequest(call, old) ==
    /\ DOMAIN call = CallFields
    /\ call.op = old.op /\ call.of = old.of /\ call.project = old.project
    /\ call.folder = old.folder /\ call.value = old.value /\ call.at = old.at

LEMMA GoOnTyped ==
    ASSUME LibInv, NEW c \in Callers, NEW call, SameRequest(call, calls[c]),
           call.depth \in 0..MaxWalk,
           \/ call.step = "write"
           \/ call.step = "folder" /\ call.op \in Creations \cup {"moveNote"}
           \/ call.step = "walk" /\ call.op \in FolderUpdates
           \/ call.step = "target" /\ call.op = "createLink"
    PROVE  /\ CallTyped(call, version)
           /\ call.op = "restoreSnapshot" => GoodSnapshot(call.value, tables, used) /\ call.of = call.value.note
<1>1. CallOK(calls[c], tables, used, version)
  BY DEF LibInv
<1> QED
  BY <1>1 DEF CallOK, CallTyped, FoundOut, SameRequest, Steps

LEMMA CheckProjectHolds == ASSUME LibInv, NEW c \in Callers, CheckProject(c) PROVE LibInv'
<1> DEFINE old == calls[c]
<1>1. CallTyped(old, version) /\ old.op \in Creations /\ DOMAIN old = CallFields
  BY DEF CheckProject, Is, LibInv, CallOK, CallTyped
<1>2. CASE GoTo(c, "failed")
  BY <1>2, EndHolds DEF CheckProject
<1>3. ASSUME NEW step \in {"folder", "write"}, GoTo(c, step), step = "write" => old.folder = None
      PROVE  LibInv'
  <2> DEFINE call == [old EXCEPT !.step = step]
  <2>1. SameRequest(call, old) /\ call.step = step /\ call.depth = old.depth
    BY <1>1 DEF SameRequest, CallFields
  <2>2. calls' = [calls EXCEPT ![c] = call]
    BY <1>3 DEF GoTo
  <2> HIDE DEF call
  <2>3. CallTyped(call, version)
    BY <1>1, <2>1, GoOnTyped DEF SameRequest, CallTyped
  <2>4. FoundOut(call, tables, used)
    BY <1>1, <1>3, <2>1 DEF SameRequest, FoundOut, Creations, FolderUpdates, NoteEdits, HomeOf
  <2> QED
    BY <2>2, <2>3, <2>4, CheckHolds DEF CallOK, CheckProject
<1> QED
  BY <1>2, <1>3 DEF CheckProject

\* Where a row is home, its project and its folder may be written again.
LEMMA SeenHome ==
    ASSUME NEW t, NEW u, LibraryOK(t, u)
    PROVE  /\ \A f \in DOMAIN t.folders :
                /\ OfFolder(f, t.folders[f].project, t, u)
                /\ HomeOf(t.folders[f].project, t.folders[f].folder, t, u)
           /\ \A m \in DOMAIN t.notes :
                /\ OfNote(m, t.notes[m].project, t, u)
                /\ HomeOf(t.notes[m].project, t.notes[m].folder, t, u)
BY DEF LibraryOK, AllAreHome, IsHome, OfFolder, OfNote, HomeOf

LEMMA ReadFolderHolds == ASSUME LibInv, NEW c \in Callers, ReadFolder(c) PROVE LibInv'
<1> DEFINE old == calls[c]
           f == old.of
           found == f \in DOMAIN tables.folders
           step == IF ~found \/ old.folder = f THEN "failed"
                   ELSE IF old.folder # None THEN "walk" ELSE "write"
           seen == IF found THEN [project |-> tables.folders[f].project, folder |-> tables.folders[f].folder]
                   ELSE None
           call == [old EXCEPT !.step = step, !.seen = seen, !.walk = old.folder]
<1>1. CallOK(old, tables, used, version) /\ old.op \in FolderUpdates /\ DOMAIN old = CallFields
  BY DEF ReadFolder, LibInv, CallOK, CallTyped
<1>2. calls' = [calls EXCEPT ![c] = call] /\ Checked
  BY DEF ReadFolder, folders
<1>3. SameRequest(call, old) /\ call.step = step /\ call.depth = old.depth /\ call.seen = seen
  BY <1>1 DEF SameRequest, CallFields
<1>4. step # "failed" => /\ found /\ seen.project = tables.folders[f].project
                         /\ seen.folder = tables.folders[f].folder
                         /\ step = "walk" \/ (step = "write" /\ old.folder = None)
  OBVIOUS
<1>5. found => /\ OfFolder(f, tables.folders[f].project, tables, used)
               /\ HomeOf(tables.folders[f].project, tables.folders[f].folder, tables, used)
  BY SeenHome DEF LibInv
<1> HIDE DEF call, step, seen
<1>6. CASE step = "failed"
  <2>1. CallTyped(call, version)
    BY <1>1, <1>3, <1>6 DEF CallOK, CallTyped, SameRequest, Steps
  <2>2. FoundOut(call, tables, used)
    BY <1>1, <1>3, <1>6 DEF FoundOut, SameRequest, FolderUpdates, Creations, NoteEdits
  <2> QED
    BY <1>2, <2>1, <2>2, CheckHolds DEF CallOK
<1>7. CASE step # "failed"
  <2>1. CallTyped(call, version)
    BY <1>1, <1>3, <1>4, <1>7, GoOnTyped DEF CallOK, CallTyped, SameRequest
  <2>2. FoundOut(call, tables, used)
    BY <1>1, <1>3, <1>4, <1>5, <1>7 DEF FoundOut, SameRequest, FolderUpdates, Creations, NoteEdits, HomeOf
  <2> QED
    BY <1>2, <2>1, <2>2, CheckHolds DEF CallOK
<1> QED
  BY <1>6, <1>7

LEMMA WalkUpHolds == ASSUME LibInv, NEW c \in Callers, WalkUp(c) PROVE LibInv'
<1> DEFINE old == calls[c]
<1>1. CallOK(old, tables, used, version) /\ old.op \in FolderUpdates /\ DOMAIN old = CallFields
  BY DEF WalkUp, Is, LibInv, CallOK, CallTyped
<1>2. CASE GoTo(c, "failed")
  BY <1>2, EndHolds DEF WalkUp
<1>3. ASSUME NEW above, calls' = [calls EXCEPT ![c].walk = above, ![c].depth = @ + 1]
      PROVE  LibInv'
  <2> DEFINE call == [old EXCEPT !.walk = above, !.depth = @ + 1]
  <2>1. /\ SameRequest(call, old) /\ call.step = "walk" /\ call.depth = old.depth + 1
        /\ call.seen = old.seen /\ old.step = "walk"
    BY <1>1 DEF SameRequest, CallFields, WalkUp, Is
  <2>2. calls' = [calls EXCEPT ![c] = call]
    BY <1>3
  <2>3. old.depth + 1 \in 0..MaxWalk
    BY <1>1, WalkIsBounded DEF WalkUp, CallOK, CallTyped
  <2> HIDE DEF call
  <2>4. CallTyped(call, version)
    BY <1>1, <2>1, <2>3, GoOnTyped DEF SameRequest
  <2>5. FoundOut(call, tables, used)
    BY <1>1, <2>1 DEF SameRequest, CallOK, FoundOut, Creations, FolderUpdates, NoteEdits
  <2> QED
    BY <2>2, <2>4, <2>5, CheckHolds DEF CallOK, WalkUp
<1> QED
  BY <1>2, <1>3 DEF WalkUp

LEMMA ReadNoteHolds == ASSUME LibInv, NEW c \in Callers, ReadNote(c) PROVE LibInv'
<1> DEFINE old == calls[c]
           m == old.of
           found == m \in DOMAIN tables.notes
           step == CASE ~found -> "failed"
                     [] found /\ old.op = "moveNote" /\ old.folder # None -> "folder"
                     [] found /\ old.op = "createLink" -> "target"
                     [] OTHER -> "write"
           home == [project |-> tables.notes[m].project, folder |-> tables.notes[m].folder]
           seen == IF found THEN home ELSE None
           call == [old EXCEPT !.step = step, !.seen = seen]
<1>1. /\ CallOK(old, tables, used, version) /\ DOMAIN old = CallFields
      /\ old.op \in NoteUpdates \cup {"createLink", "takeSnapshot"}
  BY DEF ReadNote, LibInv, CallOK, CallTyped
<1>2. calls' = [calls EXCEPT ![c] = call] /\ Checked
  BY DEF ReadNote, notes
<1>3. SameRequest(call, old) /\ call.step = step /\ call.depth = old.depth /\ call.seen = seen
  BY <1>1 DEF SameRequest, CallFields
<1>4. \/ step = "failed"
      \/ /\ found /\ seen.project = tables.notes[m].project /\ seen.folder = tables.notes[m].folder
         /\ \/ step = "folder" /\ old.op = "moveNote"
            \/ step = "target" /\ old.op = "createLink"
            \/ step = "write" /\ (old.op = "moveNote" => old.folder = None)
  OBVIOUS
<1>5. found => /\ OfNote(m, tables.notes[m].project, tables, used)
               /\ HomeOf(tables.notes[m].project, tables.notes[m].folder, tables, used)
  BY SeenHome DEF LibInv
<1> HIDE DEF call, step, seen
<1> USE DEF NoteUpdates
<1>6. CASE step = "failed"
  <2>1. CallTyped(call, version)
    BY <1>1, <1>3, <1>6 DEF CallOK, CallTyped, SameRequest, Steps
  <2>2. FoundOut(call, tables, used)
    BY <1>1, <1>3, <1>6 DEF FoundOut, SameRequest, FolderUpdates, Creations, NoteEdits
  <2> QED
    BY <1>2, <2>1, <2>2, CheckHolds DEF CallOK
<1>7. CASE step # "failed"
  <2>1. CallTyped(call, version)
    BY <1>1, <1>3, <1>4, <1>7, GoOnTyped DEF CallOK, CallTyped, SameRequest
  <2>2. FoundOut(call, tables, used)
    BY <1>1, <1>3, <1>4, <1>5, <1>7 DEF FoundOut, SameRequest, FolderUpdates, Creations, NoteEdits, HomeOf
  <2> QED
    BY <1>2, <2>1, <2>2, CheckHolds DEF CallOK
<1> QED
  BY <1>6, <1>7

\* A check that goes on to the write, of a request that writes where the row is.
LEMMA ToWriteHolds ==
    ASSUME LibInv, NEW c \in Callers, GoTo(c, "write"), Checked,
           calls[c].op \notin Creations \cup FolderUpdates \cup NoteEdits
    PROVE  LibInv'
<1> DEFINE old == calls[c]
           call == [old EXCEPT !.step = "write"]
<1>1. CallOK(old, tables, used, version) /\ DOMAIN old = CallFields
  BY DEF LibInv, CallOK, CallTyped
<1>2. SameRequest(call, old) /\ call.step = "write" /\ call.depth = old.depth
  BY <1>1 DEF SameRequest, CallFields
<1>3. calls' = [calls EXCEPT ![c] = call]
  BY DEF GoTo
<1> HIDE DEF call
<1>4. CallTyped(call, version)
  BY <1>1, <1>2, GoOnTyped DEF CallOK, CallTyped, SameRequest
<1>5. FoundOut(call, tables, used)
  BY <1>1, <1>2 DEF CallOK, FoundOut, SameRequest, Creations, FolderUpdates, NoteEdits
<1> QED
  BY <1>3, <1>4, <1>5, CheckHolds DEF CallOK

LEMMA ReadDeletedHolds == ASSUME LibInv, NEW c \in Callers, ReadDeleted(c) PROVE LibInv'
<1> DEFINE old == calls[c]
<1>1. CallOK(old, tables, used, version) /\ DOMAIN old = CallFields /\ old.op = "deleteNote" /\ old.step = "read"
  BY DEF ReadDeleted, Is, LibInv, CallOK, CallTyped
<1>2. CASE GoTo(c, "failed")
  BY <1>2, EndHolds DEF ReadDeleted
<1>3. CASE GoTo(c, "write")
  BY <1>1, <1>3, ToWriteHolds DEF ReadDeleted, Creations, FolderUpdates, NoteEdits
<1>4. CASE calls' = [calls EXCEPT ![c].op = "mark", ![c].value = "trashed"]
  <2> DEFINE call == [old EXCEPT !.op = "mark", !.value = "trashed"]
  <2>1. /\ DOMAIN call = CallFields /\ call.op = "mark" /\ call.value = "trashed"
        /\ call.step = "read" /\ call.depth = old.depth /\ call.at = old.at
    BY <1>1 DEF CallFields
  <2>2. calls' = [calls EXCEPT ![c] = call]
    BY <1>4
  <2> HIDE DEF call
  <2>3. CallTyped(call, version)
    BY <1>1, <2>1, FlagsAreKnown DEF CallOK, CallTyped, Ops, Steps, ValueOK
  <2>4. FoundOut(call, tables, used)
    BY <2>1 DEF FoundOut, Creations, FolderUpdates, NoteEdits
  <2> QED
    BY <2>2, <2>3, <2>4, CheckHolds DEF CallOK, ReadDeleted
<1> QED
  BY <1>2, <1>3, <1>4 DEF ReadDeleted

LEMMA CheckFolderHolds == ASSUME LibInv, NEW c \in Callers, CheckFolder(c) PROVE LibInv'
<1> DEFINE old == calls[c]
           project == IF old.op \in Creations THEN old.project ELSE old.seen.project
           call == [old EXCEPT !.step = "write"]
<1>1. CallOK(old, tables, used, version) /\ DOMAIN old = CallFields
  BY DEF LibInv, CallOK, CallTyped
<1>2. \/ old.step = "folder" /\ old.op \in Creations \cup {"moveNote"}
      \/ old.step = "walk" /\ old.op \in FolderUpdates
  BY <1>1 DEF CheckFolder, Is, CallOK, CallTyped
<1>3. CASE GoTo(c, "failed")
  BY <1>3, EndHolds DEF CheckFolder
<1>4. CASE /\ GoTo(c, "write") /\ old.folder \in DOMAIN tables.folders
           /\ tables.folders[old.folder].project = project
  <2>1. HomeOf(project, old.folder, tables, used)
    BY <1>4 DEF HomeOf, LibInv, LibraryOK
  <2>2. SameRequest(call, old) /\ call.step = "write" /\ call.depth = old.depth /\ call.seen = old.seen
    BY <1>1 DEF SameRequest, CallFields
  <2>3. calls' = [calls EXCEPT ![c] = call]
    BY <1>4 DEF GoTo
  <2> HIDE DEF call
  <2>4. CallTyped(call, version)
    BY <1>1, <2>2, GoOnTyped DEF CallOK, CallTyped, SameRequest
  <2>5. FoundOut(call, tables, used)
    BY <1>1, <1>2, <2>1, <2>2 DEF CallOK, FoundOut, SameRequest, Creations, FolderUpdates, NoteEdits
  <2> QED
    BY <2>3, <2>4, <2>5, CheckHolds DEF CallOK, CheckFolder
<1> QED
  BY <1>3, <1>4 DEF CheckFolder, folders

LEMMA ChecksHold == ASSUME LibInv, NEW c \in Callers, Check(c) PROVE LibInv'
<1>1. CASE ReadTarget(c)
  <2>1. calls[c].op = "createLink"
    BY <1>1 DEF ReadTarget, Is, LibInv, CallOK, CallTyped
  <2> QED
    BY <1>1, <2>1, EndHolds, ToWriteHolds DEF ReadTarget, Creations, FolderUpdates, NoteEdits
<1>2. CASE ReadSnapshot(c)
  BY <1>2, EndHolds, ToWriteHolds DEF ReadSnapshot, Creations, FolderUpdates, NoteEdits
<1> QED
  BY <1>1, <1>2, CheckProjectHolds, ReadFolderHolds, WalkUpHolds, ReadNoteHolds, ReadDeletedHolds,
     CheckFolderHolds DEF Check
-----------------------------------------------------------------------------
(* Writing *)

LEMMA RefuseHolds == ASSUME LibInv, NEW c \in Callers, Refuse(c) PROVE LibInv'
BY EndHolds DEF Refuse

LEMMA CommitHolds ==
    ASSUME LibInv, NEW c \in Callers, NEW next, NEW id, NEW row, Commit(c, next, id, row),
           calls[c].op # "restoreSnapshot",
           LibraryOK(next, IF id = None THEN used ELSE used \cup {id}),
           RowsStay(tables, used, next, IF id = None THEN used ELSE used \cup {id})
    PROVE  LibInv'
<1> DEFINE call == [calls[c] EXCEPT !.step = "committed", !.row = row, !.at = version + 1,
                                    !.of = IF id = None THEN @ ELSE id]
<1>1. DOMAIN calls[c] = CallFields /\ version \in Nat
  BY DEF LibInv, CallOK, CallTyped
<1>2. calls' = [calls EXCEPT ![c] = call]
  BY DEF Commit
<1>3. /\ DOMAIN call = CallFields /\ call.op = calls[c].op /\ call.value = calls[c].value
      /\ call.depth = calls[c].depth /\ call.step = "committed" /\ call.at = version + 1
  BY <1>1 DEF CallFields
<1>4. /\ tables' = next /\ version' = version + 1 /\ UNCHANGED <<requests, overlapped>>
      /\ used' = IF id = None THEN used ELSE used \cup {id}
  BY DEF Commit
<1> HIDE DEF call
<1>5. LibraryOK(tables', used') /\ RowsStay(tables, used, tables', used')
  BY <1>4
<1>6. CallOK(call, tables', used', version')
  <2>1. version' \in {version, version + 1} /\ call.at \in 0..version'
    BY <1>1, <1>3, <1>4
  <2>2. call.op = "restoreSnapshot" => call.of = calls[c].of
    BY <1>3
  <2> QED
    BY <1>3, <1>5, <2>1, <2>2, DoneOK
<1> QED
  BY <1>2, <1>4, <1>5, <1>6, WriteHolds

\* The tables after a write to one of them.
LEMMA Changed ==
    ASSUME NEW t, DOMAIN t = Tables, NEW x
    PROVE  /\ LET n == [t EXCEPT !.projects = x]
              IN /\ DOMAIN n = Tables /\ n.projects = x /\ n.folders = t.folders /\ n.notes = t.notes
                 /\ n.links = t.links /\ n.snapshots = t.snapshots
           /\ LET n == [t EXCEPT !.folders = x]
              IN /\ DOMAIN n = Tables /\ n.projects = t.projects /\ n.folders = x /\ n.notes = t.notes
                 /\ n.links = t.links /\ n.snapshots = t.snapshots
           /\ LET n == [t EXCEPT !.notes = x]
              IN /\ DOMAIN n = Tables /\ n.projects = t.projects /\ n.folders = t.folders /\ n.notes = x
                 /\ n.links = t.links /\ n.snapshots = t.snapshots
           /\ LET n == [t EXCEPT !.links = x]
              IN /\ DOMAIN n = Tables /\ n.projects = t.projects /\ n.folders = t.folders
                 /\ n.notes = t.notes /\ n.links = x /\ n.snapshots = t.snapshots
           /\ LET n == [t EXCEPT !.snapshots = x]
              IN /\ DOMAIN n = Tables /\ n.projects = t.projects /\ n.folders = t.folders
                 /\ n.notes = t.notes /\ n.links = t.links /\ n.snapshots = x
BY DEF Tables

LEMMA TablesKnown ==
    ASSUME LibInv
    PROVE  /\ LibraryOK(tables, used) /\ DOMAIN tables = Tables
           /\ DOMAIN tables.folders \subseteq Folders /\ DOMAIN tables.notes \subseteq Notes
           /\ DOMAIN tables.projects \subseteq Projects
           /\ \A f \in DOMAIN tables.folders : tables.folders[f] \in FolderRow
           /\ \A m \in DOMAIN tables.notes : tables.notes[m] \in NoteRow
           /\ \A f \in DOMAIN tables.folders : IsHome(tables.folders[f], tables)
           /\ \A m \in DOMAIN tables.notes : IsHome(tables.notes[m], tables)
           /\ None \notin Projects \cup Folders \cup Notes
BY NoneIsNoRow DEF LibInv, LibraryOK, TablesTyped, IsTable, Tables, AllAreHome

LEMMA WithSame == ASSUME NEW f, NEW x \in DOMAIN f, NEW row PROVE [f EXCEPT ![x] = row] = With(f, x, row)
BY DEF With

LEMMA CreateProjectHolds == ASSUME LibInv, NEW c \in Callers, CreateProject(c) PROVE LibInv'
<1> DEFINE name == calls[c].value
<1>1. PICK p \in Projects \ used :
        Commit(c, [tables EXCEPT !.projects = With(tables.projects, p, name)], p, name)
  BY DEF CreateProject, projects
<1>2. calls[c].op = "createProject" /\ name \in Names
  BY DEF CreateProject, Writes, LibInv, CallOK, CallTyped, ValueOK
<1> DEFINE n == [tables EXCEPT !.projects = With(tables.projects, p, name)]
<1>3. /\ DOMAIN n = Tables /\ n.projects = With(tables.projects, p, name) /\ n.folders = tables.folders
      /\ n.notes = tables.notes /\ n.links = tables.links /\ n.snapshots = tables.snapshots
  BY TablesKnown, Changed
<1> HIDE DEF n
<1>4. LibraryOK(n, used \cup {p}) /\ RowsStay(tables, used, n, used \cup {p})
  BY <1>2, <1>3, PutProject, TablesKnown
<1> QED
  BY <1>1, <1>2, <1>4, CommitHolds, TablesKnown DEF n

LEMMA RenameProjectHolds == ASSUME LibInv, NEW c \in Callers, RenameProject(c) PROVE LibInv'
<1> DEFINE p == calls[c].of
           name == calls[c].value
           n == [tables EXCEPT !.projects[p] = name]
<1>1. CASE Refuse(c)
  BY <1>1, RefuseHolds
<1>2. CASE p \in DOMAIN tables.projects /\ Commit(c, n, None, name)
  <2>1. calls[c].op = "renameProject" /\ name \in Names
    BY DEF RenameProject, Writes, LibInv, CallOK, CallTyped, ValueOK
  <2>2. n = [tables EXCEPT !.projects = With(tables.projects, p, name)]
    BY <1>2, WithSame, TablesKnown DEF Tables
  <2>3. /\ DOMAIN n = Tables /\ n.projects = With(tables.projects, p, name) /\ n.folders = tables.folders
        /\ n.notes = tables.notes /\ n.links = tables.links /\ n.snapshots = tables.snapshots
    <3> DEFINE x == With(tables.projects, p, name)
    <3> HIDE DEF x, n
    <3>1. n = [tables EXCEPT !.projects = x]
      BY <2>2 DEF x
    <3> QED
      BY <3>1, TablesKnown, Changed DEF x
  <2>4. used \cup {p} = used /\ p \in Projects
    BY <1>2, TablesKnown DEF LibraryOK
  <2> HIDE DEF n, p, name
  <2>5. LibraryOK(n, used) /\ RowsStay(tables, used, n, used)
    BY <2>1, <2>3, <2>4, PutProject, TablesKnown
  <2> QED
    BY <1>2, <2>1, <2>5, CommitHolds
<1> QED
  BY <1>1, <1>2 DEF RenameProject, projects

LEMMA DeleteProjectHolds == ASSUME LibInv, NEW c \in Callers, DeleteProject(c) PROVE LibInv'
<1> DEFINE p == calls[c].of
           goneNotes == {m \in DOMAIN tables.notes : tables.notes[m].project = p}
           goneFolders == Cascade({f \in DOMAIN tables.folders : tables.folders[f].project = p}, tables.folders)
           spared == Without(tables.notes, goneNotes)
           n == [projects |-> Without(tables.projects, {p}),
                 folders |-> Without(tables.folders, goneFolders),
                 notes |-> [m \in DOMAIN spared |->
                        IF spared[m].folder \in goneFolders THEN [spared[m] EXCEPT !.folder = None] ELSE spared[m]],
                 links |-> NoLinksOf(goneNotes), snapshots |-> NoSnapshotsOf(goneNotes)]
<1>1. CASE Refuse(c)
  BY <1>1, RefuseHolds
<1>2. CASE Commit(c, n, None, None)
  <2>1. calls[c].op = "deleteProject"
    BY DEF DeleteProject, Writes
  <2>2. /\ \A f \in DOMAIN tables.folders \ goneFolders :
                tables.folders[f].project \notin {p} /\ tables.folders[f].folder \notin goneFolders
        /\ \A m \in DOMAIN tables.notes \ goneNotes : tables.notes[m].project \notin {p}
    BY CascadeClosed
  <2> HIDE DEF goneFolders
  <2>3. /\ DOMAIN n = Tables /\ n.projects = Without(tables.projects, {p})
        /\ n.folders = Without(tables.folders, goneFolders)
        /\ n.links = NoLinksOf(goneNotes) /\ n.snapshots = NoSnapshotsOf(goneNotes)
        /\ n.notes = [m \in DOMAIN spared |->
                IF spared[m].folder \in goneFolders THEN [spared[m] EXCEPT !.folder = None] ELSE spared[m]]
    BY DEF Tables
  <2>6. /\ DOMAIN n.projects = DOMAIN tables.projects \ {p}
        /\ DOMAIN n.folders = DOMAIN tables.folders \ goneFolders
        /\ \A q \in DOMAIN n.projects : n.projects[q] = tables.projects[q]
        /\ \A f \in DOMAIN n.folders : n.folders[f] = tables.folders[f]
    BY <2>3 DEF Without
  <2>4. /\ DOMAIN n.notes = DOMAIN tables.notes \ goneNotes
        /\ \A m \in DOMAIN n.notes : n.notes[m] =
                IF tables.notes[m].folder \in goneFolders THEN [tables.notes[m] EXCEPT !.folder = None]
                ELSE tables.notes[m]
    <3>1. DOMAIN spared = DOMAIN tables.notes \ goneNotes
      BY DEF Without
    <3>2. ASSUME NEW m \in DOMAIN tables.notes \ goneNotes PROVE spared[m] = tables.notes[m]
      BY DEF Without
    <3> HIDE DEF spared, n, goneNotes
    <3> QED
      BY <2>3, <3>1, <3>2
  <2>7. n.links \subseteq tables.links /\ (\A l \in n.links : l[1] \notin goneNotes /\ l[2] \notin goneNotes)
        /\ n.snapshots \subseteq tables.snapshots
    BY <2>3 DEF NoLinksOf, NoSnapshotsOf, links, snapshots
  <2> HIDE DEF n, goneNotes, p
  <2>5. LibraryOK(n, used) /\ RowsStay(tables, used, n, used)
    BY <2>2, <2>3, <2>4, <2>6, <2>7, CutRows, TablesKnown
  <2> QED
    BY <1>2, <2>1, <2>5, CommitHolds
<1> QED
  BY <1>1, <1>2 DEF DeleteProject, projects, folders, notes

LEMMA CreateFolderHolds == ASSUME LibInv, NEW c \in Callers, CreateFolder(c) PROVE LibInv'
<1> DEFINE call == calls[c]
           row == [project |-> call.project, folder |-> call.folder, name |-> call.value]
<1>1. CASE Refuse(c)
  BY <1>1, RefuseHolds
<1>2. ASSUME NEW f \in Folders \ used,
             Commit(c, [tables EXCEPT !.folders = With(tables.folders, f, row)], f, row),
             row.project \in DOMAIN tables.projects, FolderHolds(row.folder)
      PROVE  LibInv'
  <2> DEFINE n == [tables EXCEPT !.folders = With(tables.folders, f, row)]
  <2>1. /\ call.op = "createFolder" /\ call.value \in Names
        /\ HomeOf(call.project, call.folder, tables, used)
    BY DEF CreateFolder, Writes, Is, LibInv, CallOK, CallTyped, FoundOut, ValueOK, Creations
  <2>2. row.folder = None \/ row.folder \in DOMAIN tables.folders
    BY <1>2 DEF FolderHolds, folders
  <2>3. IsHome(row, tables)
    BY <1>2, <2>1, <2>2 DEF IsHome, HomeOf
  <2>4. row \in FolderRow
    BY <1>2, <2>1, <2>2, TablesKnown DEF FolderRow
  <2>5. /\ DOMAIN n = Tables /\ n.projects = tables.projects /\ n.folders = With(tables.folders, f, row)
        /\ n.notes = tables.notes /\ n.links = tables.links /\ n.snapshots = tables.snapshots
    BY TablesKnown, Changed
  <2> HIDE DEF n, row
  <2>6. LibraryOK(n, used \cup {f}) /\ RowsStay(tables, used, n, used \cup {f})
    BY <2>3, <2>4, <2>5, PutFolder, TablesKnown
  <2> QED
    BY <1>2, <2>1, <2>6, CommitHolds, TablesKnown DEF n
<1> QED
  BY <1>1, <1>2 DEF CreateFolder, projects, folders

LEMMA UpdateFolderHolds == ASSUME LibInv, NEW c \in Callers, UpdateFolder(c) PROVE LibInv'
<1> DEFINE call == calls[c]
           f == call.of
           parent == IF call.op = "moveFolder" THEN call.folder ELSE call.seen.folder
           row == [tables.folders[f] EXCEPT !.folder = parent,
                        !.name = IF call.op = "renameFolder" THEN call.value ELSE @]
           n == [tables EXCEPT !.folders[f] = row]
<1>1. CASE Refuse(c)
  BY <1>1, RefuseHolds
<1>2. CASE f \in DOMAIN tables.folders /\ FolderHolds(parent) /\ Commit(c, n, None, row)
  <2>1. /\ call.op \in FolderUpdates /\ (call.op = "renameFolder" => call.value \in Names)
        /\ OfFolder(f, call.seen.project, tables, used) /\ HomeOf(call.seen.project, parent, tables, used)
    BY DEF UpdateFolder, Is, LibInv, CallOK, CallTyped, FoundOut, ValueOK, FolderUpdates
  <2>2. parent = None \/ parent \in DOMAIN tables.folders
    BY <1>2 DEF FolderHolds, folders
  <2>3. tables.folders[f] \in FolderRow /\ IsHome(tables.folders[f], tables) /\ f \in Folders
    BY <1>2, TablesKnown
  <2>4. /\ row \in FolderRow /\ row.project = tables.folders[f].project /\ row.folder = parent
    <3>1. parent \in Folders \cup {None}
      BY <2>2, TablesKnown
    <3> HIDE DEF parent
    <3> QED
      BY <2>1, <2>3, <3>1 DEF FolderRow
  <2> HIDE DEF parent
  <2>5. IsHome(row, tables)
    BY <1>2, <2>1, <2>2, <2>3, <2>4 DEF IsHome, HomeOf, OfFolder
  <2>6. n = [tables EXCEPT !.folders = With(tables.folders, f, row)]
    BY <1>2, WithSame, TablesKnown DEF Tables
  <2>7. /\ DOMAIN n = Tables /\ n.projects = tables.projects /\ n.folders = With(tables.folders, f, row)
        /\ n.notes = tables.notes /\ n.links = tables.links /\ n.snapshots = tables.snapshots
    <3> DEFINE x == With(tables.folders, f, row)
    <3> HIDE DEF x, n
    <3>1. n = [tables EXCEPT !.folders = x]
      BY <2>6 DEF x
    <3> QED
      BY <3>1, TablesKnown, Changed DEF x
  <2>8. used \cup {f} = used
    BY <1>2, TablesKnown DEF LibraryOK
  <2> HIDE DEF n, row, f
  <2>9. LibraryOK(n, used) /\ RowsStay(tables, used, n, used)
    BY <1>2, <2>3, <2>4, <2>5, <2>7, <2>8, PutFolder, TablesKnown
  <2> QED
    BY <1>2, <2>1, <2>9, CommitHolds DEF FolderUpdates
<1> QED
  BY <1>1, <1>2 DEF UpdateFolder, folders

LEMMA DeleteFolderHolds == ASSUME LibInv, NEW c \in Callers, DeleteFolder(c) PROVE LibInv'
<1> DEFINE gone == Cascade({calls[c].of}, tables.folders)
           freed(m) == IF tables.notes[m].folder \in gone THEN [tables.notes[m] EXCEPT !.folder = None]
                       ELSE tables.notes[m]
           n == [tables EXCEPT !.folders = Without(tables.folders, gone),
                               !.notes = [m \in DOMAIN tables.notes |-> freed(m)]]
<1>1. CASE Refuse(c)
  BY <1>1, RefuseHolds
<1>2. CASE Commit(c, n, None, None)
  <2>1. calls[c].op = "deleteFolder"
    BY DEF DeleteFolder, Writes
  <2>2. \A f \in DOMAIN tables.folders \ gone : tables.folders[f].folder \notin gone
    BY CascadeClosed
  <2> HIDE DEF gone
  <2>3. /\ DOMAIN n = Tables /\ n.projects = tables.projects
        /\ n.folders = Without(tables.folders, gone)
        /\ n.links = tables.links /\ n.snapshots = tables.snapshots
        /\ n.notes = [m \in DOMAIN tables.notes |-> freed(m)]
    BY TablesKnown DEF Tables
  <2>4. /\ DOMAIN n.folders = DOMAIN tables.folders \ gone
        /\ \A f \in DOMAIN n.folders : n.folders[f] = tables.folders[f]
    BY <2>3 DEF Without
  <2> DEFINE nothing == {}
  <2>5. /\ \A f \in DOMAIN tables.folders \ gone :
                tables.folders[f].project \notin nothing /\ tables.folders[f].folder \notin gone
        /\ \A m \in DOMAIN tables.notes \ nothing : tables.notes[m].project \notin nothing
        /\ DOMAIN n.projects = DOMAIN tables.projects \ nothing
        /\ \A p \in DOMAIN n.projects : n.projects[p] = tables.projects[p]
    BY <2>2, <2>3
  <2>6. /\ n.links \subseteq tables.links
        /\ \A l \in n.links : l[1] \notin nothing /\ l[2] \notin nothing
        /\ DOMAIN n.notes = DOMAIN tables.notes \ nothing
        /\ \A m \in DOMAIN n.notes : n.notes[m] =
                IF tables.notes[m].folder \in gone THEN [tables.notes[m] EXCEPT !.folder = None]
                ELSE tables.notes[m]
        /\ n.snapshots \subseteq tables.snapshots
    BY <2>3
  <2> HIDE DEF n, nothing
  <2>7. LibraryOK(n, used) /\ RowsStay(tables, used, n, used)
    BY <2>3, <2>4, <2>5, <2>6, CutRows, TablesKnown
  <2> QED
    BY <1>2, <2>1, <2>7, CommitHolds
<1> QED
  BY <1>1, <1>2 DEF DeleteFolder, folders, notes

LEMMA CreateNoteHolds == ASSUME LibInv, NEW c \in Callers, CreateNote(c) PROVE LibInv'
<1> DEFINE call == calls[c]
           row == [project |-> call.project, folder |-> call.folder,
                   name |-> CHOOSE name \in Names : TRUE, flags |-> {},
                   paged |-> call.value, pages |-> IF call.value THEN <<0>> ELSE << >>]
<1>1. CASE Refuse(c)
  BY <1>1, RefuseHolds
<1>2. ASSUME NEW m \in Notes \ used,
             Commit(c, [tables EXCEPT !.notes = With(tables.notes, m, row)], m, row),
             row.project \in DOMAIN tables.projects, FolderHolds(row.folder)
      PROVE  LibInv'
  <2> DEFINE n == [tables EXCEPT !.notes = With(tables.notes, m, row)]
             pages == IF call.value THEN <<0>> ELSE << >>
             name == CHOOSE name \in Names : TRUE
  <2>1. /\ call.op = "createNote" /\ call.value \in BOOLEAN
        /\ HomeOf(call.project, call.folder, tables, used)
    BY DEF CreateNote, Writes, Is, LibInv, CallOK, CallTyped, FoundOut, ValueOK, Creations
  <2>2. row.folder = None \/ row.folder \in DOMAIN tables.folders
    BY <1>2 DEF FolderHolds, folders
  <2>3. IsHome(row, tables)
    BY <1>2, <2>1, <2>2 DEF IsHome, HomeOf
  <2>4. pages \in Seq(Int) /\ FromZero(pages)
    <3>1. <<0>> \in Seq(Int) /\ FromZero(<<0>>)
      BY DEF FromZero
    <3>2. << >> \in Seq(Int) /\ FromZero(<< >>)
      BY DEF FromZero
    <3> QED
      BY <3>1, <3>2
  <2>5. name \in Names
    BY NamesAreKnown
  <2>6. row.project \in Projects /\ row.folder \in Folders \cup {None}
    BY <1>2, <2>2, TablesKnown
  <2>7. row \in NoteRow /\ row.pages = pages
    <3> HIDE DEF pages, name
    <3>1. row = [project |-> call.project, folder |-> call.folder, name |-> name, flags |-> {},
                 paged |-> call.value, pages |-> pages]
      BY DEF pages, name
    <3> QED
      BY <2>1, <2>4, <2>5, <2>6, <3>1 DEF NoteRow
  <2>8. /\ DOMAIN n = Tables /\ n.projects = tables.projects /\ n.folders = tables.folders
        /\ n.notes = With(tables.notes, m, row) /\ n.links = tables.links /\ n.snapshots = tables.snapshots
    BY TablesKnown, Changed
  <2>9. FromZero(row.pages)
    BY <2>4, <2>7
  <2> HIDE DEF n, row, pages
  <2>10. LibraryOK(n, used \cup {m}) /\ RowsStay(tables, used, n, used \cup {m})
    BY <2>3, <2>7, <2>8, <2>9, PutNoteRow, TablesKnown
  <2> QED
    BY <1>2, <2>1, <2>10, CommitHolds, TablesKnown DEF n
<1>3. \/ /\ row.project \in DOMAIN tables.projects /\ FolderHolds(row.folder)
         /\ \E m \in Notes \ used :
                Commit(c, [tables EXCEPT !.notes = With(tables.notes, m, row)], m, row)
      \/ Refuse(c)
  BY Zenon DEF CreateNote, projects, notes
<1> HIDE DEF row
<1> QED
  BY <1>1, <1>2, <1>3

\* A row written over a note's own.
LEMMA NoteWritten ==
    ASSUME LibInv, NEW m \in DOMAIN tables.notes, NEW row \in NoteRow, FromZero(row.pages),
           row.project = tables.notes[m].project, IsHome(row, tables)
    PROVE  LET n == [tables EXCEPT !.notes[m] = row]
           IN LibraryOK(n, used) /\ RowsStay(tables, used, n, used)
<1> DEFINE n == [tables EXCEPT !.notes[m] = row]
           x == With(tables.notes, m, row)
<1> HIDE DEF x
<1>1. n = [tables EXCEPT !.notes = x]
  BY WithSame, TablesKnown DEF Tables, x
<1> HIDE DEF n
<1>2. /\ DOMAIN n = Tables /\ n.projects = tables.projects /\ n.folders = tables.folders
      /\ n.notes = x /\ n.links = tables.links /\ n.snapshots = tables.snapshots
  BY <1>1, TablesKnown, Changed
<1>3. used \cup {m} = used /\ m \in Notes
  BY TablesKnown DEF LibraryOK
<1>4. LibraryOK(n, used) /\ RowsStay(tables, used, n, used)
  BY <1>2, <1>3, PutNoteRow, TablesKnown DEF x
<1> QED
  BY <1>4 DEF n

LEMMA UpdateNoteHolds == ASSUME LibInv, NEW c \in Callers, UpdateNote(c) PROVE LibInv'
<1> DEFINE call == calls[c]
           m == call.of
           old == tables.notes[m]
           row == Updated(call, old)
<1>1. CASE Refuse(c)
  BY <1>1, RefuseHolds
<1>2. CASE /\ m \in DOMAIN tables.notes /\ FolderHolds(row.folder)
           /\ Commit(c, [tables EXCEPT !.notes[m] = row], None, row)
  <2>1. call.op \in NoteUpdates /\ ValueOK(call.op, call.value) /\ FoundOut(call, tables, used)
        /\ call.step = "write"
    BY DEF UpdateNote, Is, LibInv, CallOK, CallTyped
  <2>2. row.folder = None \/ row.folder \in DOMAIN tables.folders
    BY <1>2 DEF FolderHolds, folders
  <2>3. old \in NoteRow /\ IsHome(old, tables) /\ FromZero(old.pages)
    BY <1>2, TablesKnown DEF LibraryOK
  <2>4. row.folder \in Folders \cup {None}
    BY <2>2, TablesKnown
  <2> HIDE DEF m, old
  <2>5. row \in NoteRow /\ row.project = old.project /\ row.pages = old.pages
    <3>1. CASE call.op = "renameNote"
      <4>1. row = [old EXCEPT !.folder = call.seen.folder, !.name = call.value]
        BY <3>1 DEF Updated
      <4>2. call.value \in Names /\ row.folder = call.seen.folder
        BY <2>1, <2>3, <3>1, <4>1 DEF ValueOK, NoteRow
      <4> QED
        BY <2>3, <2>4, <4>1, <4>2 DEF NoteRow
    <3>2. CASE call.op = "setMode"
      <4>1. row = [old EXCEPT !.folder = call.seen.folder, !.paged = call.value]
        BY <3>2 DEF Updated
      <4>2. call.value \in BOOLEAN /\ row.folder = call.seen.folder
        BY <2>1, <2>3, <3>2, <4>1 DEF ValueOK, NoteRow
      <4> QED
        BY <2>3, <2>4, <4>1, <4>2 DEF NoteRow
    <3>3. CASE call.op = "moveNote"
      <4>1. row = [old EXCEPT !.folder = call.folder]
        BY <3>3 DEF Updated
      <4>2. row.folder = call.folder
        BY <2>3, <4>1 DEF NoteRow
      <4> QED
        BY <2>3, <2>4, <4>1, <4>2 DEF NoteRow
    <3>4. CASE call.op \in {"mark", "unmark"}
      <4>1. row = [old EXCEPT !.flags = @ \cup {call.value}] \/ row = [old EXCEPT !.flags = @ \ {call.value}]
        BY <3>4 DEF Updated
      <4>2. call.value \in Flags
        BY <2>1, <3>4 DEF ValueOK
      <4>3. old.flags \cup {call.value} \in SUBSET Flags /\ old.flags \ {call.value} \in SUBSET Flags
        BY <2>3, <4>2 DEF NoteRow
      <4> QED
        BY <2>3, <4>1, <4>3 DEF NoteRow
    <3> QED
      BY <2>1, <3>1, <3>2, <3>3, <3>4 DEF NoteUpdates
  <2>6. row.folder = old.folder \/ HomeOf(old.project, row.folder, tables, used)
    <3>1. call.op \in NoteEdits => old.project = call.seen.project
      BY <1>2, <2>1 DEF FoundOut, OfNote, m, old
    <3>2. CASE call.op \in {"renameNote", "setMode"}
      <4>1. row.folder = call.seen.folder
        BY <2>3, <3>2 DEF Updated, NoteRow
      <4> QED
        BY <2>1, <3>1, <3>2, <4>1 DEF FoundOut, NoteEdits
    <3>3. CASE call.op = "moveNote"
      <4>1. row.folder = call.folder
        BY <2>3, <3>3 DEF Updated, NoteRow
      <4> QED
        BY <2>1, <3>1, <3>3, <4>1 DEF FoundOut, NoteEdits
    <3>4. CASE call.op \in {"mark", "unmark"}
      BY <2>3, <3>4 DEF Updated, NoteRow
    <3> QED
      BY <2>1, <3>2, <3>3, <3>4 DEF NoteUpdates
  <2>7. IsHome(row, tables)
    BY <2>2, <2>3, <2>5, <2>6 DEF IsHome, HomeOf
  <2> HIDE DEF row
  <2>8. LET n == [tables EXCEPT !.notes[m] = row]
        IN LibraryOK(n, used) /\ RowsStay(tables, used, n, used)
    BY <1>2, <2>3, <2>5, <2>7, NoteWritten DEF old
  <2> QED
    BY <1>2, <2>1, <2>8, CommitHolds DEF NoteUpdates
<1> QED
  BY <1>1, <1>2 DEF UpdateNote, notes

LEMMA AddPageHolds == ASSUME LibInv, NEW c \in Callers, AddPage(c) PROVE LibInv'
<1> DEFINE m == calls[c].of
           after == calls[c].value
           old == tables.notes[m]
           row == [old EXCEPT !.pages = Numbered(old.pages, after)]
<1>1. CASE Refuse(c)
  BY <1>1, RefuseHolds
<1>2. CASE /\ m \in DOMAIN tables.notes /\ after \in 0..Len(old.pages) - 1
           /\ Commit(c, [tables EXCEPT !.notes[m] = row], None, row)
  <2>1. calls[c].op = "addPage"
    BY DEF AddPage, Writes
  <2>2. old \in NoteRow /\ IsHome(old, tables) /\ FromZero(old.pages)
    BY <1>2, TablesKnown DEF LibraryOK
  <2> HIDE DEF m, old
  <2>3. old.pages \in Seq(Int)
    BY <2>2, NoteRowFields
  <2>4. Numbered(old.pages, after) \in Seq(Int) /\ FromZero(Numbered(old.pages, after))
    BY <1>2, <2>2, <2>3, NumberedFromZero
  <2>5. /\ row \in NoteRow /\ row.project = old.project /\ row.folder = old.folder
        /\ row.pages = Numbered(old.pages, after)
    BY <2>2, <2>4, NoteRowPaged
  <2> HIDE DEF row
  <2>6. IsHome(row, tables)
    BY <2>2, <2>5 DEF IsHome
  <2>7. LET n == [tables EXCEPT !.notes[m] = row]
        IN LibraryOK(n, used) /\ RowsStay(tables, used, n, used)
    BY <1>2, <2>4, <2>5, <2>6, NoteWritten DEF old
  <2> QED
    BY <1>2, <2>1, <2>7, CommitHolds
<1> QED
  BY <1>1, <1>2 DEF AddPage, notes

LEMMA PurgeNoteHolds == ASSUME LibInv, NEW c \in Callers, PurgeNote(c) PROVE LibInv'
<1> DEFINE N == {calls[c].of}
           n == [tables EXCEPT !.notes = Without(tables.notes, N), !.links = NoLinksOf(N),
                               !.snapshots = NoSnapshotsOf(N)]
           nothing == {}
<1>1. calls[c].op = "deleteNote" /\ Commit(c, n, None, None)
  BY DEF PurgeNote, Writes, notes
<1> HIDE DEF N
<1>2. /\ DOMAIN n = Tables /\ n.projects = tables.projects /\ n.folders = tables.folders
      /\ n.notes = Without(tables.notes, N) /\ n.links = NoLinksOf(N) /\ n.snapshots = NoSnapshotsOf(N)
  BY TablesKnown DEF Tables
<1>3. /\ \A f \in DOMAIN tables.folders \ nothing :
            tables.folders[f].project \notin nothing /\ tables.folders[f].folder \notin nothing
      /\ \A m \in DOMAIN tables.notes \ N : tables.notes[m].project \notin nothing
      /\ DOMAIN n.projects = DOMAIN tables.projects \ nothing
      /\ DOMAIN n.folders = DOMAIN tables.folders \ nothing
      /\ \A p \in DOMAIN n.projects : n.projects[p] = tables.projects[p]
      /\ \A f \in DOMAIN n.folders : n.folders[f] = tables.folders[f]
  BY <1>2
<1>4. /\ DOMAIN n.notes = DOMAIN tables.notes \ N
      /\ \A m \in DOMAIN n.notes : n.notes[m] =
            IF tables.notes[m].folder \in nothing THEN [tables.notes[m] EXCEPT !.folder = None]
            ELSE tables.notes[m]
  BY <1>2 DEF Without
<1>5. /\ n.links \subseteq tables.links /\ \A l \in n.links : l[1] \notin N /\ l[2] \notin N
      /\ n.snapshots \subseteq tables.snapshots
  BY <1>2 DEF NoLinksOf, NoSnapshotsOf, links, snapshots
<1> HIDE DEF n, nothing
<1>6. LibraryOK(n, used) /\ RowsStay(tables, used, n, used)
  BY <1>2, <1>3, <1>4, <1>5, CutRows, TablesKnown
<1> QED
  BY <1>1, <1>6, CommitHolds

\* A write that is answered at once: the request is done.
LEMMA QuietHolds ==
    ASSUME LibInv, NEW c \in Callers, GoTo(c, "answered"), UNCHANGED <<used, requests, overlapped>>,
           version' \in {version, version + 1},
           LibraryOK(tables', used), RowsStay(tables, used, tables', used)
    PROVE  LibInv'
<1> DEFINE call == [calls[c] EXCEPT !.step = "answered"]
<1>1. CallTyped(calls[c], version) /\ version \in Nat
  BY DEF LibInv, CallOK
<1>2. calls' = [calls EXCEPT ![c] = call]
  BY DEF GoTo
<1>3. /\ DOMAIN call = CallFields /\ call.op = calls[c].op /\ call.value = calls[c].value
      /\ call.depth = calls[c].depth /\ call.step = "answered" /\ call.at = calls[c].at
      /\ call.of = calls[c].of
  BY <1>1 DEF CallTyped, CallFields
<1> HIDE DEF call
<1>4. used' = used /\ call.at \in 0..version'
  BY <1>1, <1>3 DEF CallTyped
<1>5. LibraryOK(tables', used') /\ RowsStay(tables, used, tables', used')
  BY <1>4
<1>6. CallOK(call, tables', used', version')
  BY <1>3, <1>4, <1>5, DoneOK
<1> QED
  BY <1>2, <1>5, <1>6, WriteHolds

LEMMA ChangeLinkHolds == ASSUME LibInv, NEW c \in Callers, ChangeLink(c) PROVE LibInv'
<1> DEFINE link == <<calls[c].of, calls[c].value>>
           next == IF calls[c].op = "createLink" THEN tables.links \cup {link} ELSE tables.links \ {link}
           n == [tables EXCEPT !.links = next]
<1>1. CASE Refuse(c)
  BY <1>1, RefuseHolds
<1>2. CASE /\ calls[c].op = "createLink" => {link[1], link[2]} \subseteq DOMAIN tables.notes
           /\ CommitQuietly(c, n)
  <2>1. \A l \in next : l \in tables.links \/ (l = link /\ {link[1], link[2]} \subseteq DOMAIN tables.notes)
    BY <1>2
  <2>2. /\ DOMAIN n = Tables /\ n.projects = tables.projects /\ n.folders = tables.folders
        /\ n.notes = tables.notes /\ n.links = next /\ n.snapshots = tables.snapshots
    BY TablesKnown, Changed
  <2>3. next \subseteq Notes \X Notes /\ \A l \in next : l[1] \in DOMAIN tables.notes /\ l[2] \in DOMAIN tables.notes
    <3>1. LibraryOK(tables, used) /\ DOMAIN tables.notes \subseteq Notes
      BY TablesKnown
    <3> QED
      BY <2>1, <3>1 DEF LibraryOK, TablesTyped, AllAreHome
  <2> HIDE DEF n, next
  <2>4. RowsStay(tables, used, n, used)
    BY <2>2, TablesKnown DEF RowsStay, LibraryOK
  <2>5. TablesTyped(n) /\ AllAreHome(n)
    BY <2>2, <2>3, TablesKnown DEF LibraryOK, TablesTyped, Tables, AllAreHome, IsHome
  <2>6. LibraryOK(n, used)
    BY <2>2, <2>4, <2>5, HomesStay, TablesKnown DEF LibraryOK
  <2> QED
    BY <1>2, <2>4, <2>6, QuietHolds DEF CommitQuietly
<1> QED
  BY <1>1, <1>2 DEF ChangeLink, links, notes

LEMMA TakeSnapshotHolds == ASSUME LibInv, NEW c \in Callers, TakeSnapshot(c) PROVE LibInv'
<1> DEFINE m == calls[c].of
           s == [note |-> m, row |-> tables.notes[m]]
           n == [tables EXCEPT !.snapshots = @ \cup {s}]
<1>1. CASE Refuse(c)
  BY <1>1, RefuseHolds
<1>2. CASE m \in DOMAIN tables.notes /\ CommitQuietly(c, n)
  <2>1. GoodSnapshot(s, tables, used)
    <3>1. /\ tables.notes[m] \in NoteRow /\ m \in Notes /\ FromZero(tables.notes[m].pages)
          /\ OfNote(m, tables.notes[m].project, tables, used)
          /\ HomeOf(tables.notes[m].project, tables.notes[m].folder, tables, used)
      BY <1>2, TablesKnown, SeenHome DEF LibraryOK
    <3> HIDE DEF m
    <3> QED
      BY <3>1 DEF GoodSnapshot
  <2>2. /\ DOMAIN n = Tables /\ n.projects = tables.projects /\ n.folders = tables.folders
        /\ n.notes = tables.notes /\ n.links = tables.links /\ n.snapshots = tables.snapshots \cup {s}
    BY TablesKnown, Changed
  <2> HIDE DEF n, s
  <2>3. RowsStay(tables, used, n, used)
    BY <2>2, TablesKnown DEF RowsStay, LibraryOK
  <2>4. \A x \in n.snapshots : GoodSnapshot(x, n, used)
    BY <2>1, <2>2, <2>3, HomesStay, TablesKnown DEF LibraryOK
  <2>5. TablesTyped(n) /\ AllAreHome(n)
    BY <2>2, <2>4, TablesKnown DEF LibraryOK, TablesTyped, Tables, AllAreHome, IsHome, GoodSnapshot
  <2>6. LibraryOK(n, used)
    BY <2>2, <2>4, <2>5, TablesKnown DEF LibraryOK
  <2> QED
    BY <1>2, <2>3, <2>6, QuietHolds DEF CommitQuietly
<1> QED
  BY <1>1, <1>2 DEF TakeSnapshot, notes

LEMMA RestoreSnapshotHolds == ASSUME LibInv, NEW c \in Callers, RestoreSnapshot(c) PROVE LibInv'
<1> DEFINE m == calls[c].of
           row == calls[c].value.row
           n == [tables EXCEPT !.notes[m] = row]
<1>1. CASE Refuse(c)
  BY <1>1, RefuseHolds
<1>2. CASE /\ m \in DOMAIN tables.notes /\ row.project \in DOMAIN tables.projects
           /\ FolderHolds(row.folder) /\ tables' = n /\ GoTo(c, "answered")
           /\ version' = version + 1 /\ UNCHANGED <<used, requests, overlapped>>
  <2>1. GoodSnapshot(calls[c].value, tables, used) /\ m = calls[c].value.note
    BY DEF RestoreSnapshot, Writes, LibInv, CallOK, FoundOut
  <2>2. /\ row \in NoteRow /\ FromZero(row.pages)
        /\ row.project = tables.notes[m].project /\ HomeOf(row.project, row.folder, tables, used)
    BY <1>2, <2>1 DEF GoodSnapshot, OfNote
  <2>3. IsHome(row, tables)
    BY <1>2, <2>2 DEF IsHome, HomeOf, FolderHolds, folders
  <2>4. LibraryOK(n, used) /\ RowsStay(tables, used, n, used)
    <3> HIDE DEF m, row
    <3> QED
      BY <1>2, <2>2, <2>3, NoteWritten
  <2> HIDE DEF n
  <2> QED
    BY <1>2, <2>4, QuietHolds
<1> QED
  BY <1>1, <1>2 DEF RestoreSnapshot, notes, projects

LEMMA WritesHold == ASSUME LibInv, NEW c \in Callers, Write(c) PROVE LibInv'
BY CreateProjectHolds, RenameProjectHolds, DeleteProjectHolds, CreateFolderHolds, UpdateFolderHolds,
   DeleteFolderHolds, CreateNoteHolds, UpdateNoteHolds, AddPageHolds, PurgeNoteHolds, ChangeLinkHolds,
   TakeSnapshotHolds, RestoreSnapshotHolds DEF Write
-----------------------------------------------------------------------------
(* The invariant, and what follows *)

LEMMA InitHolds == Init => LibInv
<1> SUFFICES ASSUME Init PROVE LibInv
  OBVIOUS
<1>1. /\ TablesTyped(tables) /\ AllAreHome(tables) /\ tables.snapshots = {}
      /\ \A n \in DOMAIN tables.notes : FromZero(tables.notes[n].pages)
  BY ShelvesAreSound DEF Init
<1>2. used = DOMAIN tables.projects \cup DOMAIN tables.folders \cup DOMAIN tables.notes
  BY DEF Init, projects, folders, notes
<1>3. LibraryOK(tables, used)
  BY <1>1, <1>2 DEF LibraryOK, TablesTyped, IsTable
<1>4. \A c \in Callers : CallOK(calls[c], tables, used, version)
  BY NoCallOK DEF Init
<1>5. DOMAIN calls = Callers
  BY DEF Init
<1>6. version = 1 /\ requests = 0 /\ overlapped = FALSE
  BY DEF Init
<1>7. version \in Nat \ {0} /\ requests \in 0..MaxRequests
  BY <1>6, WalkIsBounded
<1>8. overlapped \in BOOLEAN
  BY <1>6
<1> QED
  BY <1>3, <1>4, <1>5, <1>7, <1>8 DEF LibInv

LEMMA NextHolds == LibInv /\ [Next]_vars => LibInv'
<1> SUFFICES ASSUME LibInv, [Next]_vars PROVE LibInv'
  OBVIOUS
<1>1. ASSUME NEW c \in Callers, Announce(c) PROVE LibInv'
  BY <1>1, EndHolds DEF Announce
<1>2. ASSUME NEW c \in Callers, Hear(c) PROVE LibInv'
  <2>1. CallOK(NoCall, tables, used, version)
    BY NoCallOK DEF LibInv
  <2> QED
    BY <1>2, <2>1, CheckHolds DEF Hear
<1>3. CASE UNCHANGED vars
  BY <1>3 DEF LibInv, vars
<1> QED
  BY <1>1, <1>2, <1>3, RequestHolds, ChecksHold, WritesHold DEF Next

LEMMA LibraryHolds == Spec => []LibInv
BY InitHolds, NextHolds, PTL DEF Spec

\* Rows, requests and ids keep their types, and no page has a negative index,
\* whichever requests overlap.
THEOREM LibraryTypes == Spec => []TypeOK
<1>1. LibInv => TypeOK
  <2> SUFFICES ASSUME LibInv PROVE TypeOK
    OBVIOUS
  <2>1. ASSUME NEW m \in DOMAIN notes, NEW i \in DOMAIN notes[m].pages PROVE notes[m].pages[i] >= 0
    <3>1. FromZero(notes[m].pages) /\ notes[m].pages \in Seq(Int)
      BY TablesKnown, NoteRowFields DEF LibraryOK, notes
    <3>2. notes[m].pages[i] \in 0..Len(notes[m].pages) - 1
      BY <3>1 DEF FromZero
    <3>3. Len(notes[m].pages) - 1 \in Int
      BY <3>1
    <3> QED
      BY <3>2, <3>3
  <2>2. ASSUME NEW c \in Callers PROVE CallTyped(calls[c], version)
    BY DEF LibInv, CallOK
  <2>3. DOMAIN NoCall = CallFields
    BY DEF NoCall, CallFields
  <2> QED
    BY <2>1, <2>2, <2>3 DEF LibInv, LibraryOK, CallTyped, TypeOK
<1> QED
  BY <1>1, LibraryHolds, PTL

\* A folder's parent and a note's folder exist and are of the same project, and links
\* have both their notes, for any number of requests that interleave by statements.
THEOREM RowsStayHome == Spec => []RowsPointHome
<1>1. LibInv => RowsPointHome
  BY DEF LibInv, LibraryOK, RowsPointHome
<1> QED
  BY <1>1, LibraryHolds, PTL

\* The pages of every note are numbered from 0 on, without a gap or a repetition,
\* wherever pages are inserted and whichever snapshot is restored.
THEOREM PagesStayNumbered == Spec => []PagesAreNumbered
<1>1. LibInv => PagesAreNumbered
  BY DEF LibInv, LibraryOK, PagesAreNumbered, notes
<1> QED
  BY <1>1, LibraryHolds, PTL
-----------------------------------------------------------------------------
(* The folders are a forest *)

\* Nothing of A has a folder above it that is not in A too.
ClosedUp(A, rows) ==
    A \subseteq DOMAIN rows /\ \A h \in A : rows[h].folder \in DOMAIN rows => rows[h].folder \in A

\* A folder and all above it.
Up(f, rows) == {g \in DOMAIN rows : \A C \in SUBSET DOMAIN rows : f \in C /\ ClosedUp(C, rows) => g \in C}

\* No folder lies deeper than the levels that isDescendant walks up.
Shallow ==
    \A f \in DOMAIN folders :
        IsFiniteSet(Up(f, folders)) /\ Cardinality(Up(f, folders)) <= MaxWalk

Updating(call) ==
    call.op \in FolderUpdates /\ call.step \in Steps \ {"committed", "answered", "failed"}

\* The walk has come from the new parent to w, and has not met the folder to move.
Passed(w, call, t, u) ==
    \E W \in SUBSET u :
        /\ call.of \notin W /\ (call.folder \in W \/ call.folder = w)
        /\ \A f \in W \cap DOMAIN t.folders : t.folders[f].folder \in W \cup {w, None}

\* There are no more levels ahead of the walk than it may still go.
Ahead(call, t) ==
    \E A \in SUBSET DOMAIN t.folders :
        /\ call.walk \in A /\ ClosedUp(A, t.folders) /\ IsFiniteSet(A)
        /\ call.depth + Cardinality(A) <= MaxWalk

\* What an update of a folder has found out about those above its new parent.
WalkOK(call, t, u) ==
    Updating(call) =>
        /\ call.step \in {"read", "walk", "write"}
        /\ call.of \in u /\ call.folder \in u \cup {None}
        /\ call.op = "renameFolder" => call.folder = None
        /\ call.step = "read" => call.depth = 0
        /\ call.step = "walk" =>
              /\ call.folder # None /\ call.walk \in u \cup {None}
              /\ Passed(call.walk, call, t, u)
              /\ call.depth > 0 /\ call.walk \in DOMAIN t.folders => Ahead(call, t)
        /\ call.step = "write" =>
              IF call.op = "moveFolder" THEN call.folder # None => Passed(None, call, t, u)
              ELSE call.of \in DOMAIN t.folders => call.seen.folder = t.folders[call.of].folder

\* Updates of folders that do not overlap are under way one at a time.
OneUpdate == \A c, d \in Callers : Updating(calls[c]) /\ Updating(calls[d]) => c = d

TreeInv ==
    overlapped \/ (/\ IsForest(folders) /\ OneUpdate
                   /\ \A c \in Callers : WalkOK(calls[c], tables, used))

\* What a request does to the folders, unless it updates one: those that were stay under
\* what they were under, or go, and new ones lie under those that were.
FoldersKept(t, u, n) ==
    \A f \in DOMAIN n.folders :
        IF f \in u THEN f \in DOMAIN t.folders /\ n.folders[f].folder = t.folders[f].folder
        ELSE n.folders[f].folder \in u \cup {None}

LEMMA UpHasAll ==
    ASSUME NEW rows, NEW f \in DOMAIN rows
    PROVE  f \in Up(f, rows) /\ ClosedUp(Up(f, rows), rows)
<1> DEFINE A == Up(f, rows)
<1>1. f \in A
  BY DEF Up
<1>2. ASSUME NEW h \in A, rows[h].folder \in DOMAIN rows PROVE rows[h].folder \in A
  <2> SUFFICES ASSUME NEW C \in SUBSET DOMAIN rows, f \in C, ClosedUp(C, rows)
               PROVE  rows[h].folder \in C
    BY <1>2 DEF Up
  <2>1. h \in C
    BY DEF Up
  <2> QED
    BY <1>2, <2>1 DEF ClosedUp
<1>3. A \subseteq DOMAIN rows
  BY DEF Up
<1> HIDE DEF A
<1> QED
  BY <1>1, <1>2, <1>3 DEF ClosedUp, A

LEMMA UpIsLeast ==
    ASSUME NEW rows, NEW f, NEW A, f \in A, ClosedUp(A, rows)
    PROVE  Up(f, rows) \subseteq A
BY DEF Up, ClosedUp

\* Where a folder is in nothing's circle, it is not above the folder above it.
LEMMA UpLeaves ==
    ASSUME NEW rows, IsForest(rows), NEW f \in DOMAIN rows, rows[f].folder \in DOMAIN rows
    PROVE  f \notin Up(rows[f].folder, rows)
<1> DEFINE C == {g \in DOMAIN rows : f \in Up(g, rows)}
           p == rows[f].folder
<1> SUFFICES ASSUME f \in Up(p, rows) PROVE FALSE
  OBVIOUS
<1>1. p \in C
  OBVIOUS
<1>2. ASSUME NEW g \in C PROVE rows[g].folder \in C
  <2>1. CASE g = f
    BY <1>1, <2>1
  <2>2. CASE g # f
    <3> DEFINE A == {g} \cup Up(rows[g].folder, rows)
    <3>1. CASE rows[g].folder \in DOMAIN rows
      <4>1. rows[g].folder \in Up(rows[g].folder, rows) /\ ClosedUp(Up(rows[g].folder, rows), rows)
        BY <3>1, UpHasAll
      <4>2. ClosedUp(A, rows)
        BY <4>1 DEF ClosedUp
      <4>3. f \in A
        BY <4>2, UpIsLeast
      <4> QED
        BY <2>2, <3>1, <4>3
    <3>2. CASE rows[g].folder \notin DOMAIN rows
      <4>1. ClosedUp({g}, rows)
        BY <3>2 DEF ClosedUp
      <4>2. f \in {g}
        BY <4>1, UpIsLeast
      <4> QED
        BY <2>2, <4>2
    <3> QED
      BY <3>1, <3>2
  <2> QED
    BY <2>1, <2>2
<1>3. C \subseteq DOMAIN rows
  OBVIOUS
<1> HIDE DEF C
<1>4. C \in (SUBSET DOMAIN rows) \ {{}}
  BY <1>1, <1>3
<1> QED
  BY <1>2, <1>4 DEF IsForest

\* One level up, there is one level less.
LEMMA OneLevelLess ==
    ASSUME NEW rows, IsForest(rows), NEW f \in DOMAIN rows, rows[f].folder \in DOMAIN rows,
           NEW A, f \in A, ClosedUp(A, rows), IsFiniteSet(A)
    PROVE  LET B == Up(rows[f].folder, rows)
           IN /\ rows[f].folder \in B /\ ClosedUp(B, rows) /\ IsFiniteSet(B)
              /\ Cardinality(B) < Cardinality(A)
<1> DEFINE B == Up(rows[f].folder, rows)
<1>1. rows[f].folder \in B /\ ClosedUp(B, rows)
  BY UpHasAll
<1>2. B \subseteq A
  BY UpIsLeast DEF ClosedUp
<1>3. f \notin B
  BY UpLeaves
<1> HIDE DEF B
<1>4. IsFiniteSet(B) /\ Cardinality(B) < Cardinality(A)
  <2>1. IsFiniteSet(B) /\ Cardinality(B) <= Cardinality(A) /\ Cardinality(B) # Cardinality(A)
    BY <1>2, <1>3, FS_Subset
  <2>2. Cardinality(A) \in Nat /\ Cardinality(B) \in Nat
    BY <2>1, FS_CardinalityType
  <2> QED
    BY <2>1, <2>2
<1> QED
  BY <1>1, <1>4 DEF B

\* Where new folders lie under those that were, and the others stay, no circle is closed.
LEMMA ForestStays ==
    ASSUME NEW t, NEW u, NEW n, NEW v, LibraryOK(t, u), LibraryOK(n, v), FoldersKept(t, u, n),
           IsForest(t.folders)
    PROVE  IsForest(n.folders)
<1> SUFFICES ASSUME NEW S \in SUBSET DOMAIN n.folders, S # {}, \A f \in S : n.folders[f].folder \in S
             PROVE  FALSE
  BY DEF IsForest
<1> DEFINE R == S \cap u
<1>1. /\ \A f \in DOMAIN t.folders : IsHome(t.folders[f], t) /\ f \in u
      /\ None \notin u
  BY NoneIsNoRow DEF LibraryOK, AllAreHome
<1>a. None \notin S
  BY NoneIsNoRow DEF LibraryOK, TablesTyped, IsTable
<1>2. ASSUME NEW f \in S PROVE n.folders[f].folder \in u
  <2>1. CASE f \in u
    BY <1>1, <1>a, <2>1 DEF FoldersKept, IsHome
  <2>2. CASE f \notin u
    BY <1>a, <2>2 DEF FoldersKept
  <2> QED
    BY <2>1, <2>2
<1>3. R # {}
  BY <1>2
<1>4. ASSUME NEW f \in R PROVE f \in DOMAIN t.folders /\ t.folders[f].folder \in R
  BY <1>2 DEF FoldersKept
<1>5. R \subseteq DOMAIN t.folders
  BY <1>4
<1> HIDE DEF R
<1>6. R \in (SUBSET DOMAIN t.folders) \ {{}}
  BY <1>3, <1>5
<1> QED
  BY <1>4, <1>6 DEF IsForest

\* What an update has found out stays so while others create and delete.
LEMMA WalkStays ==
    ASSUME NEW t, NEW u, NEW n, NEW v, NEW call, LibraryOK(t, u), LibraryOK(n, v), u \subseteq v,
           FoldersKept(t, u, n), WalkOK(call, t, u), call.depth \in Nat
    PROVE  WalkOK(call, n, v)
<1> SUFFICES ASSUME Updating(call) PROVE WalkOK(call, n, v)
  BY DEF WalkOK
<1>0. /\ None \notin DOMAIN n.folders /\ DOMAIN t.folders \subseteq u
      /\ \A f \in DOMAIN t.folders : IsHome(t.folders[f], t)
  BY NoneIsNoRow DEF LibraryOK, AllAreHome, TablesTyped, IsTable
<1>1. ASSUME NEW w, Passed(w, call, t, u) PROVE Passed(w, call, n, v)
  <2> PICK W \in SUBSET u :
        /\ call.of \notin W /\ (call.folder \in W \/ call.folder = w)
        /\ \A f \in W \cap DOMAIN t.folders : t.folders[f].folder \in W \cup {w, None}
    BY <1>1 DEF Passed
  <2>1. \A f \in W \cap DOMAIN n.folders : n.folders[f].folder \in W \cup {w, None}
    BY DEF FoldersKept
  <2>2. W \in SUBSET v
    OBVIOUS
  <2> QED
    BY <2>1, <2>2 DEF Passed
<1>2. ASSUME Ahead(call, t), call.walk \in DOMAIN n.folders PROVE Ahead(call, n)
  <2> PICK A \in SUBSET DOMAIN t.folders :
        /\ call.walk \in A /\ ClosedUp(A, t.folders) /\ IsFiniteSet(A)
        /\ call.depth + Cardinality(A) <= MaxWalk
    BY <1>2 DEF Ahead
  <2> DEFINE B == A \cap DOMAIN n.folders
  <2>1. ASSUME NEW h \in B, n.folders[h].folder \in DOMAIN n.folders PROVE n.folders[h].folder \in B
    <3>1. h \in DOMAIN t.folders /\ n.folders[h].folder = t.folders[h].folder
      BY <1>0 DEF FoldersKept
    <3>2. t.folders[h].folder \in DOMAIN t.folders
      BY <1>0, <2>1, <3>1 DEF IsHome
    <3> QED
      BY <2>1, <3>1, <3>2 DEF ClosedUp
  <2>2. B \subseteq A /\ B \subseteq DOMAIN n.folders /\ call.walk \in B
    BY <1>2
  <2> HIDE DEF B
  <2>3. IsFiniteSet(B) /\ Cardinality(B) <= Cardinality(A)
    BY <2>2, FS_Subset
  <2>4. Cardinality(A) \in Nat /\ Cardinality(B) \in Nat
    BY <2>3, FS_CardinalityType
  <2>5. call.depth + Cardinality(B) <= MaxWalk
    BY <2>3, <2>4, WalkIsBounded
  <2>6. ClosedUp(B, n.folders)
    BY <2>1, <2>2 DEF ClosedUp
  <2> QED
    BY <2>2, <2>3, <2>5, <2>6 DEF Ahead
<1>3. ASSUME call.walk \in u \cup {None}, call.walk \in DOMAIN n.folders
      PROVE  call.walk \in DOMAIN t.folders
  BY <1>0, <1>3 DEF FoldersKept
<1>4. ASSUME call.of \in u, call.of \in DOMAIN n.folders
      PROVE  call.of \in DOMAIN t.folders /\ n.folders[call.of].folder = t.folders[call.of].folder
  BY <1>4 DEF FoldersKept
<1>5. call.step \in {"read", "walk", "write"} /\ call.of \in u /\ call.folder \in u \cup {None}
  BY DEF WalkOK
<1>6. CASE call.step = "read"
  BY <1>6 DEF WalkOK
<1>7. CASE call.step = "walk"
  <2>1. /\ call.folder # None /\ call.walk \in u \cup {None}
        /\ Passed(call.walk, call, t, u)
        /\ call.depth > 0 /\ call.walk \in DOMAIN t.folders => Ahead(call, t)
        /\ call.op = "renameFolder" => call.folder = None
    BY <1>7 DEF WalkOK
  <2>2. Passed(call.walk, call, n, v)
    BY <1>1, <2>1
  <2>3. call.depth > 0 /\ call.walk \in DOMAIN n.folders => Ahead(call, n)
    BY <1>2, <1>3, <2>1
  <2> QED
    BY <1>5, <1>7, <2>1, <2>2, <2>3 DEF WalkOK
<1>8. CASE call.step = "write"
  BY <1>1, <1>4, <1>5, <1>8 DEF WalkOK
<1> QED
  BY <1>5, <1>6, <1>7, <1>8

\* A step of a request, other than the write of an update.
LEMMA TreeStep ==
    ASSUME LibInv, LibInv', TreeInv, NEW c \in Callers, NEW call,
           calls' = [calls EXCEPT ![c] = call], FoldersKept(tables, used, tables'),
           used \subseteq used', overlapped => overlapped',
           ~overlapped => /\ WalkOK(call, tables', used')
                          /\ Updating(call) => \/ Updating(calls[c])
                                               \/ overlapped'
                                               \/ \A d \in Callers \ {c} : ~Updating(calls[d])
    PROVE  TreeInv'
<1> SUFFICES ASSUME ~overlapped' PROVE TreeInv'
  BY DEF TreeInv
<1>1. IsForest(tables.folders) /\ OneUpdate /\ \A d \in Callers : WalkOK(calls[d], tables, used)
  BY DEF TreeInv, folders
<1>2. /\ LibraryOK(tables, used) /\ LibraryOK(tables', used') /\ DOMAIN calls = Callers
      /\ \A d \in Callers : calls[d].depth \in Nat
  BY WalkIsBounded DEF LibInv, CallOK, CallTyped
<1>3. IsForest(folders')
  BY <1>1, <1>2, ForestStays DEF folders
<1>4. calls'[c] = call /\ \A d \in Callers \ {c} : calls'[d] = calls[d]
  BY <1>2
<1>5. \A d \in Callers : WalkOK(calls'[d], tables', used')
  BY <1>1, <1>2, <1>4, WalkStays
<1>6. OneUpdate'
  BY <1>1, <1>4 DEF OneUpdate
<1> QED
  BY <1>3, <1>5, <1>6 DEF TreeInv
-----------------------------------------------------------------------------
(* The forest and the requests *)

LEMMA SendTree ==
    ASSUME LibInv, LibInv', TreeInv, NEW c \in Callers, NEW call, Send(c, call),
           \/ call.op \notin FolderUpdates
           \/ /\ call.step = "read" /\ call.of \in used /\ call.folder \in used \cup {None}
              /\ call.op = "renameFolder" => call.folder = None
              /\ call.depth = 0
    PROVE  TreeInv'
<1>1. /\ calls' = [calls EXCEPT ![c] = call] /\ UNCHANGED <<tables, used, version>>
      /\ overlapped' = (overlapped \/ (call.op \in FolderUpdates
                          /\ \E d \in Callers \ {c} : Updating(calls[d])))
  BY DEF Send, UnderWay, Updating
<1>2. FoldersKept(tables, used, tables')
  BY <1>1 DEF FoldersKept, LibInv, LibraryOK
<1>3. WalkOK(call, tables', used')
  BY <1>1 DEF WalkOK, Updating
<1> QED
  BY <1>1, <1>2, <1>3, TreeStep DEF Updating, LibInv

LEMMA RequestTree ==
    ASSUME LibInv, LibInv', TreeInv, NEW c \in Callers, Request(c) PROVE TreeInv'
<1>1. ASSUME NEW op \in Ops \ FolderUpdates, NEW first, NEW of, NEW p, NEW f, NEW value,
             \/ Send(c, Ask(op, first, of))
             \/ Send(c, [Ask(op, first, of) EXCEPT !.value = value])
             \/ Send(c, [Ask(op, first, of) EXCEPT !.folder = f])
             \/ Send(c, [Ask(op, first, of) EXCEPT !.project = p, !.folder = f, !.value = value])
      PROVE  TreeInv'
  <2>1. PICK call : call.op = op /\ Send(c, call)
    <3>1. /\ Ask(op, first, of).op = op
          /\ [Ask(op, first, of) EXCEPT !.value = value].op = op
          /\ [Ask(op, first, of) EXCEPT !.folder = f].op = op
          /\ [Ask(op, first, of) EXCEPT !.project = p, !.folder = f, !.value = value].op = op
      BY AskFields DEF Asks
    <3> QED
      BY <1>1, <3>1
  <2> QED
    BY <2>1, SendTree
<1>2. ASSUME NEW f \in used, NEW name, SendRenameFolder(c, f, name) PROVE TreeInv'
  <2> DEFINE call == [Ask("renameFolder", "read", f) EXCEPT !.value = name]
  <2>1. /\ call.op = "renameFolder" /\ call.step = "read" /\ call.of = f /\ call.folder = None
        /\ call.depth = 0
    BY DEF Ask, NoCall
  <2>2. Send(c, call)
    BY <1>2 DEF SendRenameFolder
  <2> HIDE DEF call
  <2> QED
    BY <2>1, <2>2, SendTree
<1>3. ASSUME NEW f \in used, NEW g \in used \cup {None}, SendMoveFolder(c, f, g) PROVE TreeInv'
  <2> DEFINE call == [Ask("moveFolder", "read", f) EXCEPT !.folder = g]
  <2>1. /\ call.op = "moveFolder" /\ call.step = "read" /\ call.of = f /\ call.folder = g
        /\ call.depth = 0
    BY DEF Ask, NoCall
  <2>2. Send(c, call)
    BY <1>3 DEF SendMoveFolder
  <2> HIDE DEF call
  <2> QED
    BY <2>1, <2>2, SendTree
<1>4. /\ {"createProject", "renameProject", "deleteProject", "createFolder", "deleteFolder",
          "createNote", "renameNote", "moveNote", "setMode", "addPage", "mark", "unmark", "deleteNote",
          "createLink", "deleteLink", "takeSnapshot", "restoreSnapshot"} \subseteq Ops \ FolderUpdates
  BY DEF Ops, FolderUpdates
<1>5. ASSUME NEW name, NEW p, NEW f, NEW q,
             \/ SendCreateProject(c, name) \/ SendRenameProject(c, p, name) \/ SendDeleteProject(c, p)
             \/ SendCreateFolder(c, p, f, name) \/ SendDeleteFolder(c, f) \/ SendCreateNote(c, p, f, q)
      PROVE  TreeInv'
  BY <1>1, <1>4, <1>5 DEF SendCreateProject, SendRenameProject, SendDeleteProject, SendCreateFolder,
                     SendDeleteFolder, SendCreateNote
<1>6. ASSUME NEW m, NEW x,
             \/ SendRenameNote(c, m, x) \/ SendMoveNote(c, m, x) \/ SendSetMode(c, m, x)
             \/ SendMark(c, m, x) \/ SendUnmark(c, m, x) \/ SendAddPage(c, m, x) \/ SendDeleteNote(c, m)
             \/ SendCreateLink(c, m, x) \/ SendDeleteLink(c, m, x) \/ SendTakeSnapshot(c, m)
             \/ SendRestoreSnapshot(c, x)
      PROVE  TreeInv'
  BY <1>1, <1>4, <1>6 DEF SendRenameNote, SendMoveNote, SendSetMode, SendMark, SendUnmark, SendAddPage,
                     SendDeleteNote, SendCreateLink, SendDeleteLink, SendTakeSnapshot, SendRestoreSnapshot
<1> QED
  BY <1>2, <1>3, <1>5, <1>6 DEF Request

\* A request that is over, or goes on with something else than an update of a folder.
LEMMA OtherTree ==
    ASSUME LibInv, LibInv', TreeInv, NEW c \in Callers, NEW call,
           calls' = [calls EXCEPT ![c] = call], UNCHANGED overlapped,
           FoldersKept(tables, used, tables'), used \subseteq used', ~Updating(call)
    PROVE  TreeInv'
BY TreeStep DEF WalkOK

LEMMA SameFolders ==
    ASSUME LibInv, tables'.folders = tables.folders
    PROVE  FoldersKept(tables, used, tables')
BY DEF FoldersKept, LibInv, LibraryOK

\* A check of a request that updates no folder, or that ends.
LEMMA StepTree ==
    ASSUME LibInv, LibInv', TreeInv, NEW c \in Callers, Checked, NEW step, GoTo(c, step),
           calls[c].op \notin FolderUpdates \/ step \in {"committed", "answered", "failed"}
    PROVE  TreeInv'
<1> DEFINE call == [calls[c] EXCEPT !.step = step]
<1>1. DOMAIN calls[c] = CallFields
  BY DEF LibInv, CallOK, CallTyped
<1>2. call.op = calls[c].op /\ call.step = step
  BY <1>1 DEF CallFields
<1>3. calls' = [calls EXCEPT ![c] = call]
  BY DEF GoTo
<1> HIDE DEF call
<1> QED
  BY <1>2, <1>3, OtherTree, SameFolders DEF Checked, Updating

LEMMA ReadFolderTree ==
    ASSUME LibInv, LibInv', TreeInv, NEW c \in Callers, ReadFolder(c) PROVE TreeInv'
<1> DEFINE old == calls[c]
           f == old.of
           found == f \in DOMAIN tables.folders
           step == IF ~found \/ old.folder = f THEN "failed"
                   ELSE IF old.folder # None THEN "walk" ELSE "write"
           seen == IF found THEN [project |-> tables.folders[f].project, folder |-> tables.folders[f].folder]
                   ELSE None
           call == [old EXCEPT !.step = step, !.seen = seen, !.walk = old.folder]
<1>1. /\ old.op \in FolderUpdates /\ old.step = "read" /\ DOMAIN old = CallFields
  BY DEF ReadFolder, Is, LibInv, CallOK, CallTyped
<1>2. calls' = [calls EXCEPT ![c] = call] /\ Checked
  BY DEF ReadFolder, folders
<1>3. /\ call.op = old.op /\ call.step = step /\ call.of = f /\ call.folder = old.folder
      /\ call.seen = seen /\ call.walk = old.folder /\ call.depth = old.depth
  BY <1>1 DEF CallFields
<1>4. seen.folder = tables.folders[f].folder \/ ~found
  OBVIOUS
<1> HIDE DEF call, seen
<1>5. Updating(old)
  BY <1>1 DEF Updating, Steps
<1>6. ASSUME ~overlapped PROVE WalkOK(call, tables, used)
  <2>1. /\ f \in used /\ old.folder \in used \cup {None} /\ old.depth = 0
        /\ old.op = "renameFolder" => old.folder = None
    BY <1>1, <1>5, <1>6 DEF TreeInv, WalkOK
  <2>2. CASE step = "failed"
    BY <1>3, <2>2 DEF WalkOK, Updating
  <2>3. CASE step = "walk"
    <3>1. f \notin {} /\ {} \in SUBSET used
      OBVIOUS
    <3>2. Passed(call.walk, call, tables, used)
      BY <1>3, <3>1 DEF Passed
    <3> QED
      BY <1>3, <2>1, <2>3, <3>2 DEF WalkOK
  <2>4. CASE step = "write"
    BY <1>1, <1>3, <1>4, <2>1, <2>4 DEF WalkOK
  <2> QED
    BY <2>2, <2>3, <2>4
<1> QED
  BY <1>2, <1>5, <1>6, TreeStep, SameFolders DEF Checked

LEMMA WalkUpTree ==
    ASSUME LibInv, LibInv', TreeInv, Shallow, NEW c \in Callers, WalkUp(c) PROVE TreeInv'
<1> DEFINE old == calls[c]
           f == old.walk
           above == IF f \in DOMAIN tables.folders THEN tables.folders[f].folder ELSE None
           call == [old EXCEPT !.walk = above, !.depth = @ + 1]
<1>1. /\ old.op \in FolderUpdates /\ old.step = "walk" /\ DOMAIN old = CallFields
      /\ f # None /\ old.depth < MaxWalk /\ old.depth \in Nat
  BY WalkIsBounded DEF WalkUp, Is, LibInv, CallOK, CallTyped
<1>2. CASE GoTo(c, "failed")
  BY <1>2, StepTree DEF WalkUp
<1>3. CASE f # old.of /\ calls' = [calls EXCEPT ![c].walk = above, ![c].depth = @ + 1]
  <2>1. /\ call.op = old.op /\ call.step = "walk" /\ call.of = old.of /\ call.folder = old.folder
        /\ call.walk = above /\ call.depth = old.depth + 1
    BY <1>1 DEF CallFields
  <2>2. calls' = [calls EXCEPT ![c] = call] /\ Checked
    BY <1>3 DEF WalkUp
  <2> HIDE DEF call
  <2>3. Updating(old)
    BY <1>1 DEF Updating, Steps
  <2>4. /\ \A g \in DOMAIN tables.folders : IsHome(tables.folders[g], tables) /\ g \in used
        /\ None \notin DOMAIN tables.folders
    BY TablesKnown DEF LibraryOK
  <2>5. ASSUME ~overlapped PROVE WalkOK(call, tables, used)
    <3>1. /\ old.of \in used /\ old.folder \in used \cup {None} /\ old.folder # None /\ f \in used
          /\ old.op = "renameFolder" => old.folder = None
          /\ Passed(f, old, tables, used)
          /\ old.depth > 0 /\ f \in DOMAIN tables.folders => Ahead(old, tables)
          /\ IsForest(tables.folders)
      BY <1>1, <2>3, <2>5 DEF TreeInv, WalkOK, folders
    <3>2. above \in used \cup {None}
      BY <2>4 DEF IsHome
    <3>3. Passed(above, call, tables, used)
      <4> PICK W \in SUBSET used :
            /\ old.of \notin W /\ (old.folder \in W \/ old.folder = f)
            /\ \A g \in W \cap DOMAIN tables.folders : tables.folders[g].folder \in W \cup {f, None}
        BY <3>1 DEF Passed
      <4> DEFINE V == W \cup {f}
      <4>1. V \in SUBSET used /\ call.of \notin V /\ call.folder \in V
        BY <1>3, <2>1, <3>1
      <4>2. \A g \in V \cap DOMAIN tables.folders : tables.folders[g].folder \in V \cup {above, None}
        OBVIOUS
      <4> HIDE DEF V
      <4> QED
        BY <4>1, <4>2 DEF Passed
    <3>4. ASSUME above \in DOMAIN tables.folders PROVE Ahead(call, tables)
      <4>1. f \in DOMAIN tables.folders /\ above = tables.folders[f].folder
        BY <2>4, <3>4
      <4>2. PICK A \in SUBSET DOMAIN tables.folders :
              /\ f \in A /\ ClosedUp(A, tables.folders) /\ IsFiniteSet(A)
              /\ old.depth + Cardinality(A) <= MaxWalk
        <5>1. CASE old.depth > 0
          BY <3>1, <4>1, <5>1 DEF Ahead
        <5>2. CASE old.depth = 0
          <6> DEFINE A == Up(f, tables.folders)
          <6>1. f \in A /\ ClosedUp(A, tables.folders)
            BY <4>1, UpHasAll
          <6>2. IsFiniteSet(A) /\ Cardinality(A) <= MaxWalk
            BY <4>1 DEF Shallow, folders
          <6>3. A \in SUBSET DOMAIN tables.folders
            BY DEF Up
          <6> HIDE DEF A
          <6>4. Cardinality(A) \in Nat
            BY <6>2, FS_CardinalityType
          <6> QED
            BY <5>2, <6>1, <6>2, <6>3, <6>4
        <5> QED
          BY <1>1, <5>1, <5>2
      <4> DEFINE B == Up(above, tables.folders)
      <4>3. /\ above \in B /\ ClosedUp(B, tables.folders) /\ IsFiniteSet(B)
            /\ Cardinality(B) < Cardinality(A)
        BY <3>1, <3>4, <4>1, <4>2, OneLevelLess
      <4>4. B \in SUBSET DOMAIN tables.folders
        BY DEF Up
      <4> HIDE DEF B
      <4>5. Cardinality(A) \in Nat /\ Cardinality(B) \in Nat
        BY <4>2, <4>3, FS_CardinalityType
      <4>6. call.depth + Cardinality(B) <= MaxWalk
        BY <1>1, <2>1, <4>2, <4>3, <4>5, WalkIsBounded
      <4> QED
        BY <2>1, <4>3, <4>4, <4>6 DEF Ahead
    <3> HIDE DEF above
    <3> QED
      BY <2>1, <3>1, <3>2, <3>3, <3>4 DEF WalkOK
  <2> QED
    BY <2>2, <2>3, <2>5, TreeStep, SameFolders DEF Checked
<1> QED
  BY <1>2, <1>3 DEF WalkUp, folders

LEMMA CheckFolderTree ==
    ASSUME LibInv, LibInv', TreeInv, NEW c \in Callers, CheckFolder(c) PROVE TreeInv'
<1> DEFINE old == calls[c]
<1>1. DOMAIN old = CallFields /\ Checked /\ old.depth \in Nat
  BY WalkIsBounded DEF CheckFolder, LibInv, CallOK, CallTyped
<1>2. CASE GoTo(c, "failed")
  BY <1>1, <1>2, StepTree
<1>3. CASE old.op \notin FolderUpdates
  BY <1>1, <1>3, StepTree DEF CheckFolder
<1>4. CASE old.op \in FolderUpdates /\ GoTo(c, "write") /\ old.folder \in DOMAIN tables.folders
  <2> DEFINE call == [old EXCEPT !.step = "write"]
  <2>1. /\ call.op = old.op /\ call.step = "write" /\ call.of = old.of /\ call.folder = old.folder
    BY <1>1 DEF CallFields
  <2>2. calls' = [calls EXCEPT ![c] = call]
    BY <1>4 DEF GoTo
  <2> HIDE DEF call
  <2>3. old.step = "walk" /\ (old.walk = None \/ old.depth >= MaxWalk)
    BY <1>4 DEF CheckFolder, Is, LibInv, CallOK, CallTyped, FolderUpdates, Creations
  <2>4. Updating(old)
    BY <1>4, <2>3 DEF Updating, Steps
  <2>5. /\ \A g \in DOMAIN tables.folders : IsHome(tables.folders[g], tables)
        /\ None \notin DOMAIN tables.folders
    BY TablesKnown
  <2>6. ASSUME ~overlapped PROVE WalkOK(call, tables, used)
    <3>1. /\ old.of \in used /\ old.folder \in used \cup {None} /\ old.folder # None
          /\ old.op = "renameFolder" => old.folder = None
          /\ Passed(old.walk, old, tables, used)
          /\ old.depth > 0 /\ old.walk \in DOMAIN tables.folders => Ahead(old, tables)
      BY <2>3, <2>4, <2>6 DEF TreeInv, WalkOK
    <3>2. ASSUME old.walk # None PROVE old.walk \notin DOMAIN tables.folders
      <4> SUFFICES ASSUME old.walk \in DOMAIN tables.folders PROVE FALSE
        OBVIOUS
      <4>1. old.depth >= MaxWalk /\ old.depth > 0
        BY <1>1, <2>3, <3>2, WalkIsBounded
      <4>2. PICK A \in SUBSET DOMAIN tables.folders :
              old.walk \in A /\ IsFiniteSet(A) /\ old.depth + Cardinality(A) <= MaxWalk
        BY <3>1, <4>1 DEF Ahead
      <4>3. Cardinality(A) \in Nat /\ Cardinality(A) # 0
        BY <4>2, FS_CardinalityType, FS_EmptySet
      <4> QED
        BY <1>1, <4>1, <4>2, <4>3, WalkIsBounded
    <3>3. Passed(None, call, tables, used)
      <4> PICK W \in SUBSET used :
            /\ old.of \notin W /\ (old.folder \in W \/ old.folder = old.walk)
            /\ \A g \in W \cap DOMAIN tables.folders :
                    tables.folders[g].folder \in W \cup {old.walk, None}
        BY <3>1 DEF Passed
      <4>1. old.folder \in W
        BY <1>4, <3>1, <3>2
      <4>2. \A g \in W \cap DOMAIN tables.folders : tables.folders[g].folder \in W \cup {None}
        BY <2>5, <3>2 DEF IsHome
      <4> QED
        BY <2>1, <4>1, <4>2 DEF Passed
    <3> QED
      BY <1>4, <2>1, <3>1, <3>3 DEF WalkOK, FolderUpdates
  <2> QED
    BY <1>1, <2>2, <2>4, <2>6, TreeStep, SameFolders DEF Checked
<1> QED
  BY <1>2, <1>3, <1>4 DEF CheckFolder, folders

LEMMA OtherChecksTree ==
    ASSUME LibInv, LibInv', TreeInv, NEW c \in Callers,
           CheckProject(c) \/ ReadNote(c) \/ ReadTarget(c) \/ ReadDeleted(c) \/ ReadSnapshot(c)
    PROVE  TreeInv'
<1> DEFINE old == calls[c]
<1>1. DOMAIN old = CallFields /\ Checked
  BY DEF CheckProject, ReadNote, ReadTarget, ReadDeleted, ReadSnapshot, LibInv, CallOK, CallTyped
<1>2. CASE CheckProject(c)
  <2>1. old.op \notin FolderUpdates
    BY <1>2 DEF CheckProject, Is, LibInv, CallOK, CallTyped, Creations, FolderUpdates
  <2> QED
    BY <1>1, <1>2, <2>1, StepTree DEF CheckProject
<1>3. CASE ReadTarget(c)
  <2>1. old.op \notin FolderUpdates
    BY <1>3 DEF ReadTarget, Is, LibInv, CallOK, CallTyped, FolderUpdates
  <2> QED
    BY <1>1, <1>3, <2>1, StepTree DEF ReadTarget
<1>4. CASE ReadSnapshot(c)
  <2>1. old.op \notin FolderUpdates
    BY <1>4 DEF ReadSnapshot, FolderUpdates
  <2> QED
    BY <1>1, <1>4, <2>1, StepTree DEF ReadSnapshot
<1>5. CASE ReadNote(c)
  <2>1. PICK step, seen : calls' = [calls EXCEPT ![c].step = step, ![c].seen = seen]
    BY <1>5 DEF ReadNote
  <2> DEFINE call == [old EXCEPT !.step = step, !.seen = seen]
  <2>2. calls' = [calls EXCEPT ![c] = call] /\ call.op = old.op
    BY <1>1, <2>1 DEF CallFields
  <2> HIDE DEF call
  <2>3. old.op \notin FolderUpdates
    BY <1>5 DEF ReadNote, FolderUpdates, NoteUpdates
  <2> QED
    BY <1>1, <2>2, <2>3, OtherTree, SameFolders DEF Checked, Updating
<1>6. CASE ReadDeleted(c)
  <2>1. old.op = "deleteNote"
    BY <1>6 DEF ReadDeleted
  <2>2. CASE \E step : GoTo(c, step)
    BY <1>1, <2>1, <2>2, StepTree DEF FolderUpdates
  <2>3. CASE calls' = [calls EXCEPT ![c].op = "mark", ![c].value = "trashed"]
    <3> DEFINE call == [old EXCEPT !.op = "mark", !.value = "trashed"]
    <3>1. calls' = [calls EXCEPT ![c] = call] /\ call.op = "mark"
      BY <1>1, <2>3 DEF CallFields
    <3> HIDE DEF call
    <3> QED
      BY <1>1, <3>1, OtherTree, SameFolders DEF Checked, Updating, FolderUpdates
  <2> QED
    BY <1>6, <2>2, <2>3 DEF ReadDeleted
<1> QED
  BY <1>2, <1>3, <1>4, <1>5, <1>6

\* A write that leaves an update over.
LEMMA CommitTree ==
    ASSUME LibInv, LibInv', TreeInv, NEW c \in Callers, NEW next, NEW id, NEW row,
           Commit(c, next, id, row), FoldersKept(tables, used, next)
    PROVE  TreeInv'
<1> DEFINE call == [calls[c] EXCEPT !.step = "committed", !.row = row, !.at = version + 1,
                                    !.of = IF id = None THEN @ ELSE id]
<1>1. DOMAIN calls[c] = CallFields
  BY DEF LibInv, CallOK, CallTyped
<1>2. calls' = [calls EXCEPT ![c] = call]
  BY DEF Commit
<1>3. call.step = "committed"
  BY <1>1 DEF CallFields
<1>4. tables' = next /\ used \subseteq used' /\ UNCHANGED overlapped
  BY DEF Commit
<1> HIDE DEF call
<1> QED
  BY <1>2, <1>3, <1>4, OtherTree DEF Updating

LEMMA RefuseTree ==
    ASSUME LibInv, LibInv', TreeInv, NEW c \in Callers, Refuse(c) PROVE TreeInv'
BY StepTree DEF Refuse

LEMMA QuietTree ==
    ASSUME LibInv, LibInv', TreeInv, NEW c \in Callers, GoTo(c, "answered"), UNCHANGED <<used, overlapped>>,
           tables'.folders = tables.folders
    PROVE  TreeInv'
<1> DEFINE call == [calls[c] EXCEPT !.step = "answered"]
<1>1. DOMAIN calls[c] = CallFields
  BY DEF LibInv, CallOK, CallTyped
<1>2. calls' = [calls EXCEPT ![c] = call] /\ call.step = "answered"
  BY <1>1 DEF GoTo, CallFields
<1> HIDE DEF call
<1> QED
  BY <1>2, OtherTree, SameFolders DEF Updating

\* A folder with everything below it goes, and what remains stays where it was.
LEMMA CutFolders ==
    ASSUME LibInv, NEW n, NEW gone, n.folders = Without(tables.folders, gone)
    PROVE  FoldersKept(tables, used, n)
BY DEF FoldersKept, Without, LibInv, LibraryOK

\* An update puts its folder under one that the walk has not met it above.
LEMMA MovedForest ==
    ASSUME NEW t, NEW u, NEW n, LibraryOK(t, u), IsForest(t.folders), NEW f \in DOMAIN t.folders,
           DOMAIN n.folders = DOMAIN t.folders,
           \A g \in DOMAIN t.folders \ {f} : n.folders[g].folder = t.folders[g].folder,
           \/ n.folders[f].folder = None
           \/ n.folders[f].folder = t.folders[f].folder
           \/ \E W \in SUBSET u :
                 /\ f \notin W /\ n.folders[f].folder \in W
                 /\ \A g \in W \cap DOMAIN t.folders : t.folders[g].folder \in W \cup {None}
    PROVE  IsForest(n.folders)
<1> SUFFICES ASSUME NEW S \in SUBSET DOMAIN t.folders, S # {}, \A g \in S : n.folders[g].folder \in S
             PROVE  FALSE
  BY DEF IsForest
<1>1. None \notin S
  BY NoneIsNoRow DEF LibraryOK, TablesTyped, IsTable
<1>2. ASSUME NEW R \in SUBSET DOMAIN t.folders, R # {}, \A g \in R : t.folders[g].folder \in R
      PROVE  FALSE
  <2>1. R \in (SUBSET DOMAIN t.folders) \ {{}}
    BY <1>2
  <2> QED
    BY <1>2, <2>1 DEF IsForest
<1>3. CASE f \notin S
  BY <1>2, <1>3
<1>4. CASE f \in S /\ n.folders[f].folder = t.folders[f].folder
  BY <1>2, <1>4
<1>5. ASSUME f \in S, NEW W, f \notin W, n.folders[f].folder \in W,
             \A g \in W \cap DOMAIN t.folders : t.folders[g].folder \in W \cup {None}
      PROVE  FALSE
  <2> DEFINE R == S \cap W
  <2>1. R # {} /\ R \in SUBSET DOMAIN t.folders
    BY <1>5
  <2>2. ASSUME NEW g \in R PROVE t.folders[g].folder \in R
    <3>1. g # f /\ n.folders[g].folder = t.folders[g].folder /\ n.folders[g].folder \in S
      BY <1>5
    <3> QED
      BY <1>1, <1>5, <3>1
  <2> HIDE DEF R
  <2> QED
    BY <1>2, <2>1, <2>2
<1> QED
  BY <1>1, <1>3, <1>4, <1>5

LEMMA UpdateFolderTree ==
    ASSUME LibInv, LibInv', TreeInv, NEW c \in Callers, UpdateFolder(c) PROVE TreeInv'
<1> DEFINE old == calls[c]
           f == old.of
           parent == IF old.op = "moveFolder" THEN old.folder ELSE old.seen.folder
           row == [tables.folders[f] EXCEPT !.folder = parent,
                        !.name = IF old.op = "renameFolder" THEN old.value ELSE @]
           n == [tables EXCEPT !.folders[f] = row]
           call == [old EXCEPT !.step = "committed", !.row = row, !.at = version + 1]
<1>1. CASE Refuse(c)
  BY <1>1, RefuseTree
<1>2. CASE f \in DOMAIN tables.folders /\ Commit(c, n, None, row)
  <2>1. /\ old.op \in FolderUpdates /\ old.step = "write" /\ DOMAIN old = CallFields
        /\ LibraryOK(tables, used) /\ tables.folders[f] \in FolderRow /\ DOMAIN tables = Tables
    BY <1>2, TablesKnown DEF UpdateFolder, Is, LibInv, CallOK, CallTyped
  <2>2. Updating(old)
    BY <2>1 DEF Updating, Steps
  <2>3. row.folder = parent
    BY <2>1 DEF FolderRow
  <2>4. /\ calls' = [calls EXCEPT ![c] = call] /\ tables' = n /\ used' = used
        /\ UNCHANGED overlapped
    BY <1>2 DEF Commit
  <2>5. call.step = "committed"
    BY <2>1 DEF CallFields
  <2> HIDE DEF call
  <2>6. /\ tables'.folders = [tables.folders EXCEPT ![f] = row]
    <3> HIDE DEF row
    <3> QED
      BY <2>1, <2>4 DEF Tables
  <2> HIDE DEF n, row
  <2>7. /\ DOMAIN tables'.folders = DOMAIN tables.folders
        /\ tables'.folders[f] = row
        /\ \A g \in DOMAIN tables.folders \ {f} : tables'.folders[g] = tables.folders[g]
    BY <1>2, <2>6
  <2> SUFFICES ASSUME ~overlapped PROVE TreeInv'
    BY <2>4 DEF TreeInv
  <2>8. IsForest(tables.folders) /\ OneUpdate /\ \A d \in Callers : WalkOK(calls[d], tables, used)
    BY DEF TreeInv, folders
  <2>9. /\ old.op = "moveFolder" /\ old.folder # None => Passed(None, old, tables, used)
        /\ old.op # "moveFolder" => old.seen.folder = tables.folders[f].folder
    BY <1>2, <2>1, <2>2, <2>8 DEF WalkOK
  <2>10. \/ row.folder = None
         \/ row.folder = tables.folders[f].folder
         \/ \E W \in SUBSET used :
               /\ f \notin W /\ row.folder \in W
               /\ \A g \in W \cap DOMAIN tables.folders : tables.folders[g].folder \in W \cup {None}
    BY <2>3, <2>9 DEF Passed
  <2>11. IsForest(folders')
    BY SMTT(30), <1>2, <2>1, <2>7, <2>8, <2>10, MovedForest DEF folders
  <2>12. \A d \in Callers \ {c} : calls'[d] = calls[d] /\ ~Updating(calls[d])
    BY <2>2, <2>4, <2>8 DEF OneUpdate, LibInv
  <2>13. calls'[c] = call /\ ~Updating(call)
    BY <2>4, <2>5 DEF Updating, LibInv
  <2>14. OneUpdate' /\ \A d \in Callers : WalkOK(calls'[d], tables', used')
    BY <2>12, <2>13 DEF OneUpdate, WalkOK
  <2> QED
    BY <2>11, <2>14 DEF TreeInv
<1> QED
  BY <1>1, <1>2 DEF UpdateFolder, folders

LEMMA WriteTree ==
    ASSUME LibInv, LibInv', TreeInv, NEW c \in Callers, Write(c) PROVE TreeInv'
<1>0. DOMAIN tables = Tables
  BY TablesKnown
<1>1. ASSUME NEW n, NEW id, NEW row, Commit(c, n, id, row), n.folders = tables.folders
      PROVE  TreeInv'
  <2>1. FoldersKept(tables, used, n)
    BY <1>1 DEF FoldersKept, LibInv, LibraryOK
  <2> QED
    BY <1>1, <2>1, CommitTree
<1>2. ASSUME NEW n, NEW id, NEW row, NEW gone, Commit(c, n, id, row),
             n.folders = Without(tables.folders, gone)
      PROVE  TreeInv'
  BY <1>2, CutFolders, CommitTree
<1>a. ASSUME NEW x, NEW y
      PROVE  /\ [tables EXCEPT !.projects = x].folders = tables.folders
             /\ [tables EXCEPT !.projects[y] = x].folders = tables.folders
             /\ [tables EXCEPT !.notes = x].folders = tables.folders
             /\ [tables EXCEPT !.notes[y] = x].folders = tables.folders
  BY <1>0 DEF Tables
<1>3. CASE CreateProject(c) \/ RenameProject(c)
  BY <1>1, <1>a, <1>3, RefuseTree DEF CreateProject, RenameProject
<1>4. CASE DeleteProject(c)
  BY <1>2, <1>4, RefuseTree DEF DeleteProject, folders
<1>5. CASE DeleteFolder(c)
  BY <1>0, <1>2, <1>5, RefuseTree DEF DeleteFolder, folders, Tables
<1>6. CASE CreateNote(c) \/ UpdateNote(c) \/ AddPage(c)
  <2>1. CASE CreateNote(c)
    BY <1>1, <1>a, <2>1, RefuseTree DEF CreateNote
  <2>2. CASE UpdateNote(c)
    <3> DEFINE row == Updated(calls[c], notes[calls[c].of])
    <3>1. \/ Refuse(c)
          \/ Commit(c, [tables EXCEPT !.notes[calls[c].of] = row], None, row)
      BY <2>2 DEF UpdateNote
    <3> HIDE DEF row
    <3> QED
      BY <1>1, <1>a, <3>1, RefuseTree
  <2>3. CASE AddPage(c)
    BY <1>1, <1>a, <2>3, RefuseTree DEF AddPage
  <2> QED
    BY <1>6, <2>1, <2>2, <2>3
<1>7. CASE PurgeNote(c)
  BY <1>0, <1>1, <1>7 DEF PurgeNote, Tables
<1>8. CASE ChangeLink(c) \/ TakeSnapshot(c)
  BY <1>0, <1>8, RefuseTree, QuietTree DEF ChangeLink, TakeSnapshot, CommitQuietly, Tables
<1>9. CASE RestoreSnapshot(c)
  BY <1>0, <1>9, RefuseTree, QuietTree DEF RestoreSnapshot, Tables
<1>10. CASE CreateFolder(c)
  <2> DEFINE row == [project |-> calls[c].project, folder |-> calls[c].folder, name |-> calls[c].value]
  <2>1. ASSUME NEW f \in Folders \ used, NEW n, n.folders = With(tables.folders, f, row),
               Commit(c, n, f, row), FolderHolds(row.folder)
        PROVE  TreeInv'
    <3>1. row.folder \in used \cup {None}
      BY <2>1 DEF FolderHolds, folders, LibInv, LibraryOK
    <3>2. FoldersKept(tables, used, n)
      BY <2>1, <3>1 DEF FoldersKept, With, LibInv, LibraryOK
    <3> HIDE DEF row
    <3> QED
      BY <2>1, <3>2, CommitTree
  <2>2. CASE Refuse(c)
    BY <2>2, RefuseTree
  <2>3. CASE FolderHolds(row.folder) /\ \E f \in Folders \ used :
               Commit(c, [tables EXCEPT !.folders = With(folders, f, row)], f, row)
    <3>1. PICK f \in Folders \ used :
             Commit(c, [tables EXCEPT !.folders = With(tables.folders, f, row)], f, row)
      BY <2>3 DEF folders
    <3> DEFINE n == [tables EXCEPT !.folders = With(tables.folders, f, row)]
    <3>2. n.folders = With(tables.folders, f, row)
      BY <1>0 DEF Tables
    <3> QED
      BY <2>1, <2>3, <3>1, <3>2
  <2> QED
    BY <1>10, <2>2, <2>3 DEF CreateFolder
<1>11. CASE UpdateFolder(c)
  BY <1>11, UpdateFolderTree
<1> QED
  BY <1>3, <1>4, <1>5, <1>6, <1>7, <1>8, <1>9, <1>10, <1>11 DEF Write

LEMMA InitTree == Init => TreeInv
<1> SUFFICES ASSUME Init PROVE TreeInv
  OBVIOUS
<1>1. IsForest(folders)
  BY ShelvesAreSound DEF Init, folders
<1>2. \A c \in Callers : ~Updating(calls[c])
  BY DEF Init, Updating, NoCall, FolderUpdates
<1> QED
  BY <1>1, <1>2 DEF TreeInv, OneUpdate, WalkOK

LEMMA NextTree == LibInv /\ LibInv' /\ TreeInv /\ Shallow /\ [Next]_vars => TreeInv'
<1> SUFFICES ASSUME LibInv, LibInv', TreeInv, Shallow, [Next]_vars PROVE TreeInv'
  OBVIOUS
<1>1. ASSUME NEW c \in Callers, Check(c) PROVE TreeInv'
  BY <1>1, ReadFolderTree, WalkUpTree, CheckFolderTree, OtherChecksTree DEF Check
<1>2. ASSUME NEW c \in Callers, Announce(c) PROVE TreeInv'
  BY <1>2, StepTree DEF Announce
<1>3. ASSUME NEW c \in Callers, Hear(c) PROVE TreeInv'
  <2>1. ~Updating(NoCall)
    BY DEF Updating, NoCall, FolderUpdates
  <2> QED
    BY <1>3, <2>1, OtherTree, SameFolders DEF Hear, Checked
<1>4. CASE UNCHANGED vars
  BY <1>4 DEF vars, TreeInv, OneUpdate, folders
<1> QED
  BY <1>1, <1>2, <1>3, <1>4, RequestTree, WriteTree DEF Next

\* Updates of folders that do not overlap never put a folder below itself, whatever others
\* create and delete while they walk up the tree, as long as no folder lies deeper than
\* isDescendant looks: for any library and any requests.
THEOREM FoldersStayAForest == Spec /\ []Shallow => []FoldersAreForest
<1>1. TreeInv => FoldersAreForest
  BY DEF TreeInv, FoldersAreForest
<1>2. Spec /\ []Shallow => []TreeInv
  BY InitTree, NextTree, LibraryHolds, PTL DEF Spec
<1> QED
  BY <1>1, <1>2, PTL
-----------------------------------------------------------------------------
(* The trees of tabs *)

\* A request is sent to op the row `of`.
Sends(c, of) ==
    \E call : /\ Send(c, call) /\ DOMAIN call = CallFields
              /\ call.of = of /\ call.at = 0 /\ call.step \in {"project", "read", "write"}

RowEdits == {"editNote", "purge"}
EditFields == {"op", "step", "row", "tree", "stamp"}

\* The screen, or the copy, will have the row of the click put back if the request fails.
PutsBack(t) == saved[t].op \in RowEdits /\ saved[t].step \in {"shown", "asked", "undoing"}
CopyPutsBack(t) == saved[t].op \in RowEdits /\ saved[t].step \in {"shown", "asked"}
\* The copy of an edit whose answer is only shown yet is neither.
CopyLags(t) == saved[t].op = "editNote" /\ saved[t].step = "learning"

TabTyped(t) ==
    /\ fetches[t] \in Seq(1..version) /\ signals[t] \in Nat /\ socket[t] \in {"never", "open", "closed"}
    /\ stamp[t] \in 0..version /\ copied[t] \in 0..version /\ heard[t] \in 0..version

\* An edit and the request it waits for.
EditTyped(t) ==
    /\ saved[t] = NoEdit \/ (DOMAIN saved[t] = EditFields /\ calls[t].step # "none")
    /\ saved[t].op \in RowEdits => saved[t].stamp \in 0..version
    /\ saved[t].step \in {"shown", "undoing"} => saved[t].op \in RowEdits
    /\ saved[t].step = "shown" => UnderWay(t)
    /\ saved[t].step \in {"learning", "undoing"} => calls[t].step \in {"answered", "failed"}
    /\ saved[t].op = "purge" => calls[t].op \in {"deleteNote", "mark"}

\* What a tab has stored and is yet to show.
KeptTyped(t) ==
    /\ \E S : kept[t] \in Seq(S)
    /\ \A i \in DOMAIN kept[t] :
          /\ kept[t][i].at \in 1..version
          /\ kept[t][i].at = version => kept[t][i].tree = Tree

\* Unless its socket is closed, a tab knows of the last change, or something under way
\* will tell it.
Told == \E c \in Callers : Is(c, "committed") /\ calls[c].at = version
Informed(t) ==
    \/ socket[t] = "closed" \/ heard[t] = version \/ signals[t] > 0
    \/ \E i \in DOMAIN fetches[t] : fetches[t][i] = version
    \/ \E i \in DOMAIN kept[t] : kept[t][i].at = version
    \/ Told

Fresh(t) == (stamp[t] = version => shown[t] = Tree) /\ (copied[t] = version => copy[t] = Tree)

\* A tab that has fetched the present library shows it, or will with the row put back.
ShowsFetched(t) ==
    /\ ~PutsBack(t) /\ stamp[t] = version => shown[t] = Tree
    /\ PutsBack(t) /\ saved[t].stamp = version =>
          /\ saved[t].tree = Tree /\ calls[t].of \in DOMAIN Tree.notes
          /\ stamp[t] = version =>
                /\ Back(shown[t], t) = Tree
                /\ saved[t].op = "purge" /\ calls[t].of \in DOMAIN shown[t].notes => shown[t] = Tree

\* And so does its copy.
CopyFetched(t) ==
    /\ ~CopyPutsBack(t) /\ ~CopyLags(t) /\ copied[t] = version => copy[t] = Tree
    /\ CopyPutsBack(t) /\ saved[t].stamp = version /\ copied[t] = version => Back(copy[t], t) = Tree

\* A purge that was done has nothing to learn.
Purged(t) ==
    /\ saved[t].op = "purge" /\ saved[t].step = "asked" /\ calls[t].step \in {"committed", "answered"}
    => Fresh(t)

Shows(t) == ShowsFetched(t) /\ CopyFetched(t) /\ Purged(t)
TabOK(t) == TabTyped(t) /\ EditTyped(t) /\ KeptTyped(t) /\ Informed(t) /\ Shows(t)

ServerOK ==
    /\ DOMAIN tables = Tables /\ version \in Nat \ {0} /\ DOMAIN calls = Callers
    /\ \A c \in Callers : /\ DOMAIN calls[c] = CallFields /\ calls[c].at \in 0..version
                          /\ calls[c].op # "restoreSnapshot"
    /\ \E S : past \in Seq(S)
    /\ Len(past) = version /\ past[version] = Tree

TabsInv ==
    /\ ServerOK
    /\ DOMAIN shown = Tabs /\ DOMAIN copy = Tabs /\ DOMAIN saved = Tabs /\ DOMAIN fetches = Tabs
    /\ DOMAIN signals = Tabs /\ DOMAIN socket = Tabs /\ DOMAIN stamp = Tabs /\ DOMAIN heard = Tabs
    /\ DOMAIN kept = Tabs /\ DOMAIN copied = Tabs
    /\ \A t \in Tabs : TabOK(t)

Unrestored == "restoreSnapshot" \notin Wanted

LEMMA SendsAsk ==
    ASSUME NEW c, NEW op, NEW first \in {"project", "read", "write"}, NEW of, NEW p, NEW f, NEW value,
           \/ Send(c, Ask(op, first, of))
           \/ Send(c, [Ask(op, first, of) EXCEPT !.value = value])
           \/ Send(c, [Ask(op, first, of) EXCEPT !.folder = f])
           \/ Send(c, [Ask(op, first, of) EXCEPT !.project = p, !.folder = f, !.value = value])
    PROVE  Sends(c, of)
<1>1. ASSUME NEW call, Send(c, call), NEW v, Asks(call, op, first, of, v) PROVE Sends(c, of)
  BY <1>1 DEF Sends, Asks
<1> DEFINE plain == Ask(op, first, of)
           valued == [Ask(op, first, of) EXCEPT !.value = value]
           placed == [Ask(op, first, of) EXCEPT !.folder = f]
           whole == [Ask(op, first, of) EXCEPT !.project = p, !.folder = f, !.value = value]
<1>2. /\ Asks(plain, op, first, of, None) /\ Asks(valued, op, first, of, value)
      /\ Asks(placed, op, first, of, None) /\ Asks(whole, op, first, of, value)
  BY AskFields
<1>3. Send(c, plain) \/ Send(c, valued) \/ Send(c, placed) \/ Send(c, whole)
  OBVIOUS
<1> HIDE DEF plain, valued, placed, whole
<1> QED
  BY <1>1, <1>2, <1>3

LEMMA SendsShelf ==
    ASSUME NEW c, NEW name, NEW p, NEW f, NEW paged
    PROVE  /\ SendCreateProject(c, name) => Sends(c, None)
           /\ SendRenameProject(c, p, name) => Sends(c, p)
           /\ SendDeleteProject(c, p) => Sends(c, p)
           /\ SendCreateFolder(c, p, f, name) => Sends(c, None)
           /\ SendRenameFolder(c, f, name) => Sends(c, f)
           /\ SendMoveFolder(c, f, p) => Sends(c, f)
           /\ SendDeleteFolder(c, f) => Sends(c, f)
           /\ SendCreateNote(c, p, f, paged) => Sends(c, None)
BY SendsAsk
   DEF SendCreateProject, SendRenameProject, SendDeleteProject, SendCreateFolder,
       SendRenameFolder, SendMoveFolder, SendDeleteFolder, SendCreateNote

LEMMA SendsNote ==
    ASSUME NEW c, NEW n, NEW value
    PROVE  /\ SendRenameNote(c, n, value) => Sends(c, n)
           /\ SendMoveNote(c, n, value) => Sends(c, n)
           /\ SendSetMode(c, n, value) => Sends(c, n)
           /\ SendMark(c, n, value) => Sends(c, n)
           /\ SendUnmark(c, n, value) => Sends(c, n)
           /\ SendAddPage(c, n, value) => Sends(c, n)
           /\ SendDeleteNote(c, n) => Sends(c, n)
           /\ SendCreateLink(c, n, value) => Sends(c, n)
           /\ SendDeleteLink(c, n, value) => Sends(c, n)
           /\ SendTakeSnapshot(c, n) => Sends(c, n)
           /\ SendRestoreSnapshot(c, value) => Sends(c, value.note)
BY SendsAsk
   DEF SendRenameNote, SendMoveNote, SendSetMode, SendMark, SendUnmark, SendAddPage,
       SendDeleteNote, SendCreateLink, SendDeleteLink, SendTakeSnapshot, SendRestoreSnapshot

LEMMA RequestSends == ASSUME NEW c, Request(c) PROVE \E of : Sends(c, of)
BY SendsShelf, SendsNote DEF Request

LEMMA TreeShape ==
    /\ DOMAIN Tree = Kept /\ Tree = [k \in Kept |-> Tree[k]]
    /\ Tree.notes = [m \in DOMAIN Tree.notes |-> Tree.notes[m]]
BY DEF Tree, TableView, Kept

\* The row of the click, put back into the tree it was of, makes that what it was.
LEMMA PutBack ==
    ASSUME NEW n \in DOMAIN Tree.notes, NEW row
    PROVE  /\ PutNote(Tree, n, Tree.notes[n]) = Tree
           /\ PutNote(PutNote(Tree, n, row), n, Tree.notes[n]) = Tree
           /\ PutNote([Tree EXCEPT !.notes = Without(@, {n})], n, Tree.notes[n]) = Tree
           /\ n \notin DOMAIN [Tree EXCEPT !.notes = Without(@, {n})].notes
<1> DEFINE T == Tree
<1>1. /\ DOMAIN T = Kept /\ T = [k \in Kept |-> T[k]] /\ n \in DOMAIN T.notes
      /\ T.notes = [m \in DOMAIN T.notes |-> T.notes[m]]
  BY TreeShape
<1> SUFFICES /\ PutNote(T, n, T.notes[n]) = T
             /\ PutNote(PutNote(T, n, row), n, T.notes[n]) = T
             /\ PutNote([T EXCEPT !.notes = Without(@, {n})], n, T.notes[n]) = T
             /\ n \notin DOMAIN [T EXCEPT !.notes = Without(@, {n})].notes
  OBVIOUS
<1> HIDE DEF T
<1>2. /\ With(T.notes, n, T.notes[n]) = T.notes
      /\ With(With(T.notes, n, row), n, T.notes[n]) = T.notes
      /\ With(Without(T.notes, {n}), n, T.notes[n]) = T.notes
      /\ n \notin DOMAIN Without(T.notes, {n})
  BY <1>1 DEF With, Without
<1>3. ASSUME NEW A PROVE /\ [T EXCEPT !.notes = A].notes = A
                         /\ [[T EXCEPT !.notes = A] EXCEPT !.notes = T.notes] = T
  BY <1>1 DEF Kept
<1>4. [T EXCEPT !.notes = T.notes] = T
  BY <1>1 DEF Kept
<1> QED
  BY <1>2, <1>3, <1>4 DEF PutNote

\* The tree is of three of the tables.
LEMMA SameTree ==
    ASSUME tables'.projects = tables.projects, tables'.folders = tables.folders,
           tables'.notes = tables.notes
    PROVE  Tree' = Tree
BY DEF Tree, TableView, projects, folders, notes

\* Nor does it matter what the row was before.
LEMMA PutBackAgain ==
    ASSUME NEW tree, NEW n, NEW row, NEW then, PutNote(tree, n, then) = Tree
    PROVE  /\ PutNote(PutNote(tree, n, row), n, then) = Tree
           /\ PutNote(TakeNote(tree, n), n, then) = Tree
<1>1. DOMAIN tree = Kept /\ "notes" \in DOMAIN tree
  BY TreeShape DEF PutNote, Kept
<1>2. ASSUME NEW A PROVE /\ [tree EXCEPT !.notes = A].notes = A
                         /\ \A B : [[tree EXCEPT !.notes = A] EXCEPT !.notes = B] = [tree EXCEPT !.notes = B]
  BY <1>1
<1>3. /\ With(With(tree.notes, n, row), n, then) = With(tree.notes, n, then)
      /\ With(Without(tree.notes, {n}), n, then) = With(tree.notes, n, then)
  BY DEF With, Without
<1> QED
  BY <1>2, <1>3 DEF PutNote, TakeNote

-----------------------------------------------------------------------------
(* What a step of the server does to the trees *)

\* The requests that change nothing a tab shows, and are not broadcast.
Unseen == {"createLink", "deleteLink", "takeSnapshot"}

\* A step that writes nothing a tree shows.
StaysSame(c) ==
    /\ version' = version /\ Tree' = Tree /\ DOMAIN tables' = Tables
    /\ calls'[c].at = calls[c].at /\ calls'[c].of = calls[c].of
    /\ calls'[c].step \in {"committed", "answered"} => calls[c].op \in Unseen
\* A step that commits a change, and has yet to broadcast it.
Changes(c) ==
    /\ version' = version + 1 /\ DOMAIN tables' = Tables
    /\ calls'[c].at = version + 1 /\ calls'[c].step = "committed"

Moves(c) ==
    /\ calls' = [calls EXCEPT ![c] = calls'[c]]
    /\ UnderWay(c) /\ calls'[c].step # "none"
    /\ DOMAIN calls'[c] = CallFields
    /\ calls'[c].op \in {calls[c].op, "mark"}

Served(c) == Moves(c) /\ (StaysSame(c) \/ Changes(c))

LEMMA GoesTo ==
    ASSUME ServerOK, NEW c \in Callers, NEW step \in Steps, GoTo(c, step), UnderWay(c)
    PROVE  /\ Moves(c) /\ calls'[c].at = calls[c].at /\ calls'[c].of = calls[c].of
           /\ calls'[c].step = step
BY DEF ServerOK, GoTo, Moves, CallFields, Steps

LEMMA CheckedSame == ASSUME ServerOK, Checked PROVE version' = version /\ Tree' = Tree /\ DOMAIN tables' = Tables
BY SameTree DEF ServerOK, Checked

LEMMA RefuseSame ==
    ASSUME ServerOK, NEW c \in Callers, Refuse(c), Is(c, "write") PROVE Moves(c) /\ StaysSame(c)
BY GoesTo, CheckedSame DEF Refuse, StaysSame, Is, Steps, UnderWay

LEMMA CheckServes ==
    ASSUME ServerOK, NEW c \in Callers, Check(c) PROVE Served(c)
<1> SUFFICES Moves(c) /\ StaysSame(c)
  BY DEF Served
<1>0. DOMAIN calls = Callers /\ DOMAIN calls[c] = CallFields
  BY DEF ServerOK
<1>1. ASSUME NEW step \in Steps \ {"committed", "answered"},
             NEW from \in {"project", "read", "target", "walk", "folder"},
             Is(c, from), GoTo(c, step), Checked
      PROVE  Moves(c) /\ StaysSame(c)
  BY <1>1, GoesTo, CheckedSame DEF StaysSame, Is, UnderWay, Steps
<1>2. CASE CheckProject(c) \/ ReadTarget(c) \/ ReadSnapshot(c) \/ CheckFolder(c)
  BY <1>1, <1>2 DEF CheckProject, ReadTarget, ReadSnapshot, CheckFolder, Steps
<1>3. CASE ReadFolder(c)
  BY <1>0, <1>3, CheckedSame
     DEF ReadFolder, Is, Moves, StaysSame, CallFields, UnderWay, Steps
<1>4. CASE WalkUp(c)
  <2>1. CASE calls[c].walk = calls[c].of
    BY <1>1, <1>4, <2>1 DEF WalkUp, Steps
  <2>2. CASE calls[c].walk # calls[c].of
    BY <1>0, <1>4, <2>2, CheckedSame DEF WalkUp, Is, Moves, StaysSame, CallFields, UnderWay, Steps
  <2> QED
    BY <2>1, <2>2
<1>5. CASE ReadNote(c)
  BY <1>0, <1>5, CheckedSame DEF ReadNote, Is, Moves, StaysSame, CallFields, UnderWay, Steps
<1>6. CASE ReadDeleted(c)
  <2>1. CASE calls[c].of \in DOMAIN notes /\ "trashed" \notin notes[calls[c].of].flags
    BY <1>0, <1>6, <2>1, CheckedSame DEF ReadDeleted, Is, Moves, StaysSame, CallFields, UnderWay, Steps
  <2>2. CASE ~(calls[c].of \in DOMAIN notes /\ "trashed" \notin notes[calls[c].of].flags)
    BY <1>1, <1>6, <2>2 DEF ReadDeleted, Steps
  <2> QED
    BY <2>1, <2>2
<1> QED
  BY <1>2, <1>3, <1>4, <1>5, <1>6 DEF Check

LEMMA CommitChanges ==
    ASSUME ServerOK, NEW c \in Callers, NEW n, NEW id, NEW row, Commit(c, n, id, row),
           Is(c, "write"), DOMAIN n = Tables
    PROVE  Moves(c) /\ Changes(c)
<1>0. DOMAIN calls = Callers /\ DOMAIN calls[c] = CallFields
  BY DEF ServerOK
<1> QED
  BY <1>0 DEF Commit, Is, Moves, Changes, CallFields, UnderWay, Steps

LEMMA WriteServes ==
    ASSUME ServerOK, NEW c \in Callers, Write(c) PROVE Served(c)
<1>0. DOMAIN tables = Tables /\ calls[c].op # "restoreSnapshot"
  BY DEF ServerOK
<1>w. Is(c, "write")
  BY DEF Write, CreateProject, RenameProject, DeleteProject, CreateFolder, UpdateFolder,
         DeleteFolder, CreateNote, UpdateNote, AddPage, PurgeNote, ChangeLink, TakeSnapshot,
         RestoreSnapshot, Writes
<1>1. ASSUME NEW n, NEW id, NEW row, Commit(c, n, id, row), DOMAIN n = Tables PROVE Served(c)
  BY <1>w, <1>1, CommitChanges DEF Served
<1>2. Refuse(c) => Served(c)
  BY <1>w, RefuseSame DEF Served
<1>3. ASSUME NEW x, NEW y
      PROVE  /\ DOMAIN [tables EXCEPT !.projects = x] = Tables
             /\ DOMAIN [tables EXCEPT !.projects[y] = x] = Tables
             /\ DOMAIN [tables EXCEPT !.folders = x] = Tables
             /\ DOMAIN [tables EXCEPT !.folders[y] = x] = Tables
             /\ DOMAIN [tables EXCEPT !.notes = x] = Tables
             /\ DOMAIN [tables EXCEPT !.notes[y] = x] = Tables
  BY <1>0
<1>4. CASE CreateProject(c)
  BY <1>1, <1>2, <1>3, <1>4 DEF CreateProject
<1>5. CASE RenameProject(c)
  BY <1>1, <1>2, <1>3, <1>5 DEF RenameProject
<1>6. CASE DeleteProject(c)
  <2>1. PICK f, n, l, s : Refuse(c) \/ Commit(c, [projects |-> Without(projects, {calls[c].of}),
                              folders |-> f, notes |-> n, links |-> l, snapshots |-> s], None, None)
    BY <1>6 DEF DeleteProject
  <2>2. DOMAIN [projects |-> Without(projects, {calls[c].of}),
                folders |-> f, notes |-> n, links |-> l, snapshots |-> s] = Tables
    BY DEF Tables
  <2> QED
    BY <1>1, <1>2, <2>1, <2>2
<1>7. CASE CreateFolder(c)
  BY <1>1, <1>2, <1>3, <1>7 DEF CreateFolder
<1>8. CASE UpdateFolder(c)
  <2>1. PICK row : Refuse(c) \/ Commit(c, [tables EXCEPT !.folders[calls[c].of] = row], None, row)
    BY <1>8 DEF UpdateFolder
  <2> QED
    BY <1>1, <1>2, <1>3, <2>1
<1>9. CASE DeleteFolder(c)
  <2>1. PICK f, n : Refuse(c) \/ Commit(c, [tables EXCEPT !.folders = f, !.notes = n], None, None)
    BY <1>9 DEF DeleteFolder
  <2>2. DOMAIN [tables EXCEPT !.folders = f, !.notes = n] = Tables
    BY <1>0
  <2> QED
    BY <1>1, <1>2, <2>1, <2>2
<1>10. CASE CreateNote(c)
  BY <1>1, <1>2, <1>3, <1>10 DEF CreateNote
<1>11. CASE UpdateNote(c) \/ AddPage(c)
  <2>1. PICK row, answer :
           Refuse(c) \/ Commit(c, [tables EXCEPT !.notes[calls[c].of] = row], None, answer)
    BY <1>11 DEF UpdateNote, AddPage
  <2> QED
    BY <1>1, <1>2, <1>3, <2>1
<1>12. CASE PurgeNote(c)
  <2>1. PICK n, l, s : Commit(c, [tables EXCEPT !.notes = n, !.links = l, !.snapshots = s], None, None)
    BY <1>12 DEF PurgeNote
  <2>2. DOMAIN [tables EXCEPT !.notes = n, !.links = l, !.snapshots = s] = Tables
    BY <1>0
  <2> QED
    BY <1>1, <2>1, <2>2
<1>13. ASSUME NEW n, CommitQuietly(c, n), DOMAIN n = Tables, calls[c].op \in Unseen,
              n.projects = tables.projects, n.folders = tables.folders, n.notes = tables.notes
       PROVE  Served(c)
  <2>1. Moves(c) /\ calls'[c].at = calls[c].at /\ calls'[c].of = calls[c].of
    BY <1>w, <1>13, GoesTo DEF CommitQuietly, Is, Steps, UnderWay
  <2>2. Tree' = Tree
    BY <1>13, SameTree DEF CommitQuietly
  <2> QED
    BY <1>13, <2>1, <2>2 DEF CommitQuietly, StaysSame, Served
<1>14. CASE ChangeLink(c) \/ TakeSnapshot(c)
  <2>1. PICK l, s : \/ Refuse(c) \/ CommitQuietly(c, [tables EXCEPT !.links = l])
                    \/ CommitQuietly(c, [tables EXCEPT !.snapshots = s])
    <3>1. CASE ChangeLink(c)
      BY <3>1 DEF ChangeLink
    <3>2. CASE TakeSnapshot(c)
      BY <3>2 DEF TakeSnapshot
    <3> QED
      BY <1>14, <3>1, <3>2
  <2>2. ASSUME NEW x
        PROVE  /\ DOMAIN [tables EXCEPT !.links = x] = Tables
               /\ DOMAIN [tables EXCEPT !.snapshots = x] = Tables
               /\ [tables EXCEPT !.links = x].projects = tables.projects
               /\ [tables EXCEPT !.links = x].folders = tables.folders
               /\ [tables EXCEPT !.links = x].notes = tables.notes
               /\ [tables EXCEPT !.snapshots = x].projects = tables.projects
               /\ [tables EXCEPT !.snapshots = x].folders = tables.folders
               /\ [tables EXCEPT !.snapshots = x].notes = tables.notes
    BY <1>0, Changed
  <2>3. calls[c].op \in Unseen
    BY <1>14 DEF ChangeLink, TakeSnapshot, Writes, Unseen
  <2> QED
    BY <1>2, <1>13, <2>1, <2>2, <2>3
<1>15. ~RestoreSnapshot(c)
  BY <1>0 DEF RestoreSnapshot, Writes
<1> QED
  BY <1>4, <1>5, <1>6, <1>7, <1>8, <1>9, <1>10, <1>11, <1>12, <1>14, <1>15 DEF Write

-----------------------------------------------------------------------------
(* The steps of tabs *)

Same(t) ==
    /\ shown'[t] = shown[t] /\ copy'[t] = copy[t] /\ saved'[t] = saved[t]
    /\ fetches'[t] = fetches[t] /\ signals'[t] = signals[t] /\ socket'[t] = socket[t]
    /\ stamp'[t] = stamp[t] /\ heard'[t] = heard[t] /\ kept'[t] = kept[t] /\ copied'[t] = copied[t]

KeepTabs ==
    /\ DOMAIN shown' = Tabs /\ DOMAIN copy' = Tabs /\ DOMAIN saved' = Tabs
    /\ DOMAIN fetches' = Tabs /\ DOMAIN signals' = Tabs /\ DOMAIN socket' = Tabs
    /\ DOMAIN stamp' = Tabs /\ DOMAIN heard' = Tabs
    /\ DOMAIN kept' = Tabs /\ DOMAIN copied' = Tabs

\* A step of tab t alone.
OnlyTab(t) ==
    /\ KeepTabs /\ \A u \in Tabs \ {t} : Same(u)
    /\ DOMAIN calls' = Callers /\ \A c \in Callers \ {t} : calls'[c] = calls[c]
    /\ UNCHANGED <<tables, version, past>>

LEMMA Numbers ==
    ASSUME NEW v \in Nat, NEW w \in Nat, v <= w
    PROVE  0..v \subseteq 0..w /\ Seq(1..v) \subseteq Seq(1..w)
<1>1. ASSUME NEW s \in Seq(1..v) PROVE s \in Seq(1..w)
  <2>1. Len(s) \in Nat /\ DOMAIN s = 1..Len(s) /\ \A i \in 1..Len(s) : s[i] \in 1..w
    OBVIOUS
  <2>2. s = [i \in 1..Len(s) |-> s[i]]
    OBVIOUS
  <2> QED
    BY <2>1, <2>2
<1> QED
  BY <1>1

\* A fetch that ends leaves the others.
LEMMA FetchEnds ==
    ASSUME NEW S, NEW s \in Seq(S), NEW i \in DOMAIN s
    PROVE  /\ Without1(s, i) \in Seq(S)
           /\ \A j \in DOMAIN s \ {i} : \E k \in DOMAIN Without1(s, i) : Without1(s, i)[k] = s[j]
<1> DEFINE a == SubSeq(s, 1, i - 1)
           b == SubSeq(s, i + 1, Len(s))
           w == a \o b
<1>1. Len(s) \in Nat /\ DOMAIN s = 1..Len(s) /\ i \in 1..Len(s)
  OBVIOUS
<1>2. a \in Seq(S) /\ Len(a) = i - 1 /\ \A j \in 1..(i - 1) : a[j] = s[j]
  BY <1>1
<1>3. b \in Seq(S) /\ Len(b) = Len(s) - i /\ \A j \in 1..(Len(s) - i) : b[j] = s[i + j]
  BY <1>1
<1> HIDE DEF a, b
<1>4. /\ w \in Seq(S) /\ Len(w) = Len(a) + Len(b) /\ DOMAIN w = 1..(Len(a) + Len(b))
      /\ \A k \in 1..(Len(a) + Len(b)) : w[k] = IF k <= Len(a) THEN a[k] ELSE b[k - Len(a)]
  <2>1. /\ w \in Seq(S) /\ Len(w) = Len(a) + Len(b)
        /\ \A k \in 1..Len(a) + Len(b) : w[k] = IF k <= Len(a) THEN a[k] ELSE b[k - Len(a)]
    BY <1>2, <1>3, ConcatProperties
  <2> QED
    BY <2>1
<1> HIDE DEF w
<1>5. ASSUME NEW j \in DOMAIN s \ {i} PROVE \E k \in DOMAIN w : w[k] = s[j]
  <2>0. i \in Int /\ j \in Int /\ Len(a) = i - 1 /\ Len(b) = Len(s) - i /\ Len(s) \in Nat
        /\ 1 <= j /\ j <= Len(s) /\ 1 <= i /\ i <= Len(s)
    BY <1>1, <1>2, <1>3
  <2>1. CASE j < i
    <3>1. j \in 1..(i - 1) /\ j \in 1..(Len(a) + Len(b)) /\ j <= Len(a)
      BY <2>0, <2>1
    <3> QED
      BY <1>2, <1>4, <3>1
  <2>2. CASE j > i
    <3>1. j - i \in 1..(Len(s) - i) /\ i + (j - i) = j
      BY <2>0, <2>2
    <3>2. b[j - i] = s[j]
      BY <1>3, <3>1
    <3>3. j - 1 \in 1..(Len(a) + Len(b)) /\ ~(j - 1 <= Len(a)) /\ (j - 1) - Len(a) = j - i
      BY <2>0, <2>2
    <3>4. w[j - 1] = b[(j - 1) - Len(a)]
      BY <1>4, <3>3
    <3> QED
      BY <1>4, <3>2, <3>3, <3>4
  <2> QED
    BY <2>0, <2>1, <2>2
<1>6. Without1(s, i) = w
  BY DEF Without1, w, a, b
<1> QED
  BY <1>4, <1>5, <1>6

\* A tab that takes no part in a step, when nothing is committed.
LEMMA TabRests ==
    ASSUME NEW t \in Tabs, TabOK(t), Same(t), UNCHANGED <<tables, version>>,
           calls'[t] = calls[t], Told => Told'
    PROVE  TabOK(t)'
<1>1. Tree' = Tree
  BY SameTree
<1>2. TabTyped(t)' /\ EditTyped(t)'
  BY DEF TabOK, TabTyped, EditTyped, Same, UnderWay
<1>3. KeptTyped(t)'
  BY <1>1 DEF TabOK, KeptTyped, Same
<1>4. Informed(t)'
  BY DEF TabOK, Informed, Same
<1>5. Shows(t)'
  BY <1>1 DEF TabOK, Shows, ShowsFetched, CopyFetched, Purged, Fresh, Same, PutsBack, CopyPutsBack,
              CopyLags, Back
<1> QED
  BY <1>2, <1>3, <1>4, <1>5 DEF TabOK

LEMMA ToldStays ==
    ASSUME NEW c \in Callers, version' = version, \A d \in Callers \ {c} : calls'[d] = calls[d],
           calls'[c] = calls[c] \/ calls[c].step # "committed"
    PROVE  Told => Told'
BY DEF Told, Is

\* It is enough to look at the tab that takes the step.
LEMMA OnlyTabHolds ==
    ASSUME TabsInv, NEW t \in Tabs, OnlyTab(t), TabOK(t)',
           \/ calls'[t] = calls[t]
           \/ /\ calls[t].step # "committed" /\ DOMAIN calls'[t] = CallFields
              /\ calls'[t].at \in 0..version /\ calls'[t].op # "restoreSnapshot"
    PROVE  TabsInv'
<1>0. t \in Callers
  BY TabsCall
<1>1. Told => Told'
  BY <1>0, ToldStays DEF OnlyTab
<1>2. \A u \in Tabs \ {t} : TabOK(u)'
  BY <1>1, TabRests, TabsCall DEF TabsInv, OnlyTab
<1>3. Tree' = Tree
  BY SameTree DEF OnlyTab
<1>4. ServerOK'
  BY <1>0, <1>3 DEF TabsInv, ServerOK, OnlyTab
<1> QED
  BY <1>2, <1>4 DEF TabsInv, OnlyTab, KeepTabs

\* A step of the server that is served.
LEMMA ServeHolds == ASSUME TabsInv, NEW c \in Callers, Serve(c) PROVE TabsInv'
<1>1. Served(c) /\ ServerOK
  BY CheckServes, WriteServes DEF Serve, TabsInv
<1>2. /\ version \in Nat \ {0} /\ DOMAIN calls = Callers
      /\ version' \in {version, version + 1} /\ version <= version'
  BY <1>1 DEF ServerOK, Served, StaysSame, Changes
<1>3. /\ DOMAIN calls' = Callers /\ \A d \in Callers \ {c} : calls'[d] = calls[d]
      /\ DOMAIN calls'[c] = CallFields /\ calls'[c].op # "restoreSnapshot"
      /\ calls'[c].step # "none" /\ calls[c].step \notin {"none", "committed"}
  BY <1>1, <1>2 DEF Served, Moves, ServerOK, UnderWay, Steps
<1>4. ServerOK'
  <2>1. /\ DOMAIN tables' = Tables /\ version' \in Nat \ {0}
        /\ calls'[c].at \in 0..version' /\ \A d \in Callers : calls[d].at \in 0..version'
    BY <1>1, <1>2 DEF ServerOK, Served, StaysSame, Changes
  <2>2. /\ \E S : past' \in Seq(S)
        /\ Len(past') = version' /\ past'[version'] = Tree'
    <3>1. PICK S : past \in Seq(S)
      BY <1>1 DEF ServerOK
    <3>2. CASE version' = version
      BY <1>1, <1>2, <3>1, <3>2 DEF Serve, ServerOK, Served, StaysSame, Changes
    <3>3. CASE version' # version
      <4>1. past' = Append(past, Tree') /\ version' = version + 1 /\ Len(past) = version
        BY <1>1, <1>2, <3>3 DEF Serve, ServerOK
      <4>2. past \in Seq(S \cup {Tree'}) /\ Tree' \in S \cup {Tree'}
        BY <3>1
      <4> HIDE DEF Tree
      <4> QED
        BY <1>2, <4>1, <4>2
    <3> QED
      BY <3>2, <3>3
  <2> QED
    BY <1>1, <1>3, <2>1, <2>2 DEF ServerOK
<1>5. ASSUME NEW t \in Tabs PROVE TabOK(t)'
  <2>0. t \in Callers /\ Same(t) /\ TabOK(t)
    BY TabsCall DEF Serve, Same, TabsInv
  <2>1. /\ calls'[t] = calls[t] \/ (t = c /\ UnderWay(t) /\ calls'[t].step # "none")
        /\ calls'[t].op \in {calls[t].op, "mark"}
    BY <1>1, <1>3, <2>0 DEF Served, Moves
  <2>2. TabTyped(t)'
    <3>1. 0..version \subseteq 0..version' /\ Seq(1..version) \subseteq Seq(1..version')
      BY <1>2, Numbers
    <3> QED
      BY <2>0, <3>1 DEF TabOK, TabTyped, Same
  <2>3. EditTyped(t)'
    <3>1. 0..version \subseteq 0..version' /\ saved'[t] = saved[t] /\ EditTyped(t)
      BY <1>2, <2>0, Numbers DEF TabOK, Same
    <3>2. CASE calls'[t] = calls[t]
      BY <3>1, <3>2 DEF EditTyped, UnderWay
    <3>3. CASE t = c /\ UnderWay(t) /\ calls'[t].step # "none"
      <4>1. saved[t].step \notin {"shown", "learning", "undoing"}
        BY <3>1, <3>3 DEF Serve, EditTyped, UnderWay
      <4> QED
        BY <2>1, <3>1, <3>3, <4>1 DEF EditTyped
    <3> QED
      BY <2>1, <3>2, <3>3
  <2>4. KeptTyped(t)'
    <3>1. kept'[t] = kept[t] /\ KeptTyped(t)
      BY <2>0 DEF TabOK, Same
    <3>2. CASE StaysSame(c)
      BY <3>1, <3>2 DEF KeptTyped, StaysSame
    <3>3. CASE Changes(c)
      <4>1. \A m \in 1..version : m \in 1..version' /\ m # version'
        BY <1>2, <3>3 DEF Changes
      <4> QED
        BY <3>1, <4>1 DEF KeptTyped
    <3> QED
      BY <1>1, <3>2, <3>3 DEF Served
  <2>5. Informed(t)'
    <3>1. CASE StaysSame(c)
      <4>1. Told => Told'
        BY <1>3, <3>1, ToldStays DEF StaysSame
      <4> QED
        BY <2>0, <3>1, <4>1 DEF TabOK, Informed, Same, StaysSame
    <3>2. CASE Changes(c)
      <4>1. Told'
        BY <1>3, <3>2 DEF Told, Changes, Is
      <4> QED
        BY <4>1 DEF Informed
    <3> QED
      BY <1>1, <3>1, <3>2 DEF Served
  <2>6. Shows(t)'
    <3>1. CASE StaysSame(c)
      <4>1. version' = version /\ Tree' = Tree /\ calls'[t].of = calls[t].of
        BY <1>3, <2>0, <3>1 DEF StaysSame
      <4>2. /\ ShowsFetched(t)' /\ CopyFetched(t)' /\ (Fresh(t) => Fresh(t)')
            /\ saved'[t] = saved[t] /\ Purged(t)
        BY <2>0, <4>1 DEF TabOK, Shows, ShowsFetched, CopyFetched, Fresh, Same, PutsBack,
                          CopyPutsBack, CopyLags, Back
      <4>3. ASSUME saved[t].op = "purge", calls'[t].step \in {"committed", "answered"}
            PROVE  calls[t].step = calls'[t].step
        <5>1. calls[t].op \notin Unseen
          BY <2>0, <4>3 DEF TabOK, EditTyped, Unseen
        <5> QED
          BY <1>3, <2>0, <3>1, <4>3, <5>1 DEF StaysSame
      <4> QED
        BY <4>2, <4>3 DEF Shows, Purged
    <3>2. CASE Changes(c)
      <4>1. /\ stamp'[t] # version' /\ copied'[t] # version'
            /\ PutsBack(t)' \/ CopyPutsBack(t)' => saved'[t].stamp # version'
        BY <1>2, <2>0, <3>2
           DEF TabOK, TabTyped, EditTyped, Same, PutsBack, CopyPutsBack, Changes
      <4> QED
        BY <4>1 DEF Shows, ShowsFetched, CopyFetched, Purged, Fresh
    <3> QED
      BY <1>1, <3>1, <3>2 DEF Served
  <2> QED
    BY <2>2, <2>3, <2>4, <2>5, <2>6 DEF TabOK
<1> QED
  BY <1>4, <1>5 DEF TabsInv, Serve

LEMMA AnnounceHolds == ASSUME TabsInv, NEW c \in Callers, AnnounceToTabs(c) PROVE TabsInv'
<1>1. ServerOK /\ version \in Nat \ {0} /\ DOMAIN calls = Callers /\ DOMAIN calls[c] = CallFields
  BY DEF TabsInv, ServerOK
<1>2. /\ DOMAIN calls' = Callers /\ \A d \in Callers \ {c} : calls'[d] = calls[d]
      /\ DOMAIN calls'[c] = CallFields /\ calls'[c].step = "answered"
      /\ calls'[c].at = calls[c].at /\ calls'[c].of = calls[c].of /\ calls'[c].op = calls[c].op
      /\ calls[c].step = "committed" /\ calls[c].at \in 0..version
      /\ UNCHANGED <<tables, version, past>>
  BY <1>1 DEF AnnounceToTabs, Announce, GoTo, Checked, Is, CallFields, ServerOK
<1>3. Tree' = Tree
  BY <1>2, SameTree
<1>4. ServerOK'
  BY <1>1, <1>2, <1>3 DEF ServerOK
<1>5. ASSUME NEW t \in Tabs PROVE TabOK(t)'
  <2>0. /\ t \in Callers /\ TabOK(t)
        /\ shown'[t] = shown[t] /\ copy'[t] = copy[t] /\ saved'[t] = saved[t]
        /\ fetches'[t] = fetches[t] /\ socket'[t] = socket[t] /\ stamp'[t] = stamp[t]
        /\ kept'[t] = kept[t] /\ copied'[t] = copied[t]
        /\ signals'[t] = IF socket[t] = "open" THEN signals[t] + 1 ELSE signals[t]
        /\ heard'[t] = IF socket[t] = "never" THEN Later(heard[t], calls[c].at) ELSE heard[t]
        /\ calls'[t].of = calls[t].of /\ calls'[t].op = calls[t].op
        /\ \/ calls'[t].step = calls[t].step
           \/ calls[t].step = "committed" /\ calls'[t].step = "answered"
    BY <1>2, TabsCall DEF AnnounceToTabs, TabsInv
  <2>1. TabTyped(t)
    BY <2>0 DEF TabOK
  <2>2. /\ signals'[t] \in Nat /\ (signals[t] > 0 => signals'[t] > 0)
        /\ (socket[t] = "open" => signals'[t] > 0)
    BY <2>0, <2>1 DEF TabTyped
  <2>3. /\ heard'[t] \in 0..version /\ (heard[t] = version => heard'[t] = version)
        /\ (socket[t] = "never" /\ calls[c].at = version => heard'[t] = version)
    BY <1>1, <1>2, <2>0, <2>1 DEF TabTyped, Later
  <2>4. TabTyped(t)' /\ EditTyped(t)' /\ KeptTyped(t)'
    <3>1. TabTyped(t)'
      BY <1>2, <2>0, <2>1, <2>2, <2>3 DEF TabTyped
    <3>2. EditTyped(t)'
      BY <1>2, <2>0 DEF TabOK, EditTyped, UnderWay
    <3>3. KeptTyped(t)'
      BY <1>2, <1>3, <2>0 DEF TabOK, KeptTyped
    <3> QED
      BY <3>1, <3>2, <3>3
  <2>5. Informed(t)'
    <3>1. CASE socket[t] = "never" /\ calls[c].at # version /\ Told
      <4>1. Told'
        BY <1>2, <3>1 DEF Told, Is
      <4> QED
        BY <4>1 DEF Informed
    <3>2. CASE ~(socket[t] = "never" /\ calls[c].at # version /\ Told)
      BY <1>2, <2>0, <2>1, <2>2, <2>3, <3>2 DEF TabOK, Informed, TabTyped
    <3> QED
      BY <3>1, <3>2
  <2>6. Shows(t)'
    BY <1>2, <1>3, <2>0 DEF TabOK, Shows, ShowsFetched, CopyFetched, Purged, Fresh, PutsBack,
                            CopyPutsBack, CopyLags, Back
  <2> QED
    BY <2>4, <2>5, <2>6 DEF TabOK
<1>6. KeepTabs
  BY DEF AnnounceToTabs, KeepTabs, TabsInv
<1> QED
  BY <1>4, <1>5, <1>6 DEF TabsInv, KeepTabs

LEMMA SendFields ==
    ASSUME ServerOK, Unrestored, NEW c \in Callers, NEW of, Sends(c, of)
    PROVE  /\ Free(c) /\ calls[c].step = "none"
           /\ DOMAIN calls' = Callers /\ \A d \in Callers \ {c} : calls'[d] = calls[d]
           /\ DOMAIN calls'[c] = CallFields /\ calls'[c].at \in 0..version
           /\ calls'[c].op # "restoreSnapshot" /\ calls'[c].of = of
           /\ calls'[c].step \in {"project", "read", "write"}
           /\ UNCHANGED <<tables, version>>
<1>1. PICK call : /\ Send(c, call) /\ DOMAIN call = CallFields
                  /\ call.of = of /\ call.at = 0 /\ call.step \in {"project", "read", "write"}
  BY DEF Sends
<1>2. calls[c] = NoCall /\ calls[c].step = "none"
  BY <1>1 DEF Send, Free, NoCall
<1> QED
  BY <1>1, <1>2 DEF Send, Free, ServerOK, Unrestored

\* The requests of others.
LEMMA ClientHolds ==
    ASSUME TabsInv, Unrestored, NEW c \in Callers \ Tabs, Request(c) \/ Hear(c), UNCHANGED tabVars
    PROVE  TabsInv'
<1>1. ServerOK /\ version \in Nat \ {0} /\ DOMAIN calls = Callers
  BY DEF TabsInv, ServerOK
<1>2. /\ DOMAIN calls' = Callers /\ \A d \in Callers \ {c} : calls'[d] = calls[d]
      /\ DOMAIN calls'[c] = CallFields /\ calls'[c].at \in 0..version
      /\ calls'[c].op # "restoreSnapshot" /\ calls[c].step # "committed"
      /\ UNCHANGED <<tables, version>>
  <2>1. CASE Request(c)
    BY <1>1, <2>1, RequestSends, SendFields
  <2>2. CASE Hear(c)
    <3>1. /\ DOMAIN NoCall = CallFields /\ NoCall.at = 0 /\ NoCall.op = "none"
      BY DEF NoCall, CallFields
    <3>2. calls'[c] = NoCall /\ calls[c].step \in {"answered", "failed"}
      BY <1>1, <2>2 DEF Hear
    <3> QED
      BY <1>1, <2>2, <3>1, <3>2 DEF Hear, Checked
  <2> QED
    BY <2>1, <2>2
<1>3. Told => Told'
  BY <1>2, ToldStays
<1>4. ASSUME NEW t \in Tabs PROVE TabOK(t)'
  <2>1. Same(t) /\ calls'[t] = calls[t] /\ TabOK(t)
    BY <1>2, TabsCall DEF tabVars, Same, TabsInv
  <2> QED
    BY <1>2, <1>3, <2>1, TabRests
<1>5. ServerOK'
  <2>1. Tree' = Tree
    BY <1>2, SameTree
  <2> QED
    BY <1>1, <1>2, <2>1 DEF ServerOK, tabVars
<1> QED
  BY <1>4, <1>5 DEF TabsInv, tabVars

\* The steps that leave the requests of the tab alone.
NoEdits(t) == UNCHANGED <<vars, saved, past>> /\ KeepTabs /\ \A u \in Tabs \ {t} : Same(u)

LEMMA NoEditsHold ==
    ASSUME TabsInv, NEW t \in Tabs, NoEdits(t), TabOK(t)' PROVE TabsInv'
<1>1. OnlyTab(t) /\ calls'[t] = calls[t]
  BY DEF NoEdits, OnlyTab, vars, TabsInv, ServerOK
<1> QED
  BY <1>1, OnlyTabHolds

LEMMA NothingWritten ==
    ASSUME UNCHANGED vars
    PROVE  /\ Tree' = Tree /\ version' = version /\ calls' = calls /\ (Told => Told')
           /\ \A t : UnderWay(t)' <=> UnderWay(t)
BY SameTree DEF vars, Told, Is, UnderWay

\* The steps that leave the edit of the tab alone.
LEMMA EditStays ==
    ASSUME TabsInv, NEW t \in Tabs, UNCHANGED vars, saved'[t] = saved[t] PROVE EditTyped(t)'
BY NothingWritten DEF TabsInv, TabOK, EditTyped

\* An answer that read the present library is that library.
LEMMA AnswersNow ==
    ASSUME TabsInv, NEW tree \in Answers(version) PROVE tree = Tree
<1>1. version \in Nat /\ past[version] = Tree
  BY DEF TabsInv, ServerOK
<1>2. PICK read \in [Kept -> version..version] :
          tree = [table \in Kept |-> past[read[table]][table]]
  BY DEF Answers
<1>3. ASSUME NEW k \in Kept PROVE past[read[k]][k] = Tree[k]
  <2>1. read[k] = version
    BY <1>1
  <2> QED
    BY <1>1, <2>1
<1>4. [k \in Kept |-> past[read[k]][k]] = [k \in Kept |-> Tree[k]]
  BY <1>3
<1> QED
  BY <1>2, <1>4, TreeShape

\* What is put on the screen, or into the copy, and is of the present library, is as it should
\* be whether a row will be put back or not.
LEMMA FetchedShows ==
    ASSUME NEW t \in Tabs, Shows(t), UNCHANGED vars, saved'[t] = saved[t],
           \/ shown'[t] = shown[t] /\ stamp'[t] = stamp[t]
           \/ stamp'[t] = version => shown'[t] = Tree,
           \/ copy'[t] = copy[t] /\ copied'[t] = copied[t]
           \/ copied'[t] = version => copy'[t] = Tree
    PROVE  Shows(t)'
<1>1. Tree' = Tree /\ version' = version /\ calls' = calls
  BY NothingWritten
<1>2. /\ Back(shown[t], t)' = Back(shown'[t], t) /\ Back(copy[t], t)' = Back(copy'[t], t)
      /\ PutsBack(t)' = PutsBack(t) /\ CopyPutsBack(t)' = CopyPutsBack(t) /\ CopyLags(t)' = CopyLags(t)
  BY <1>1 DEF Back, PutsBack, CopyPutsBack, CopyLags
<1>3. ASSUME PutsBack(t) \/ CopyPutsBack(t), saved[t].stamp = version
      PROVE  saved[t].tree = Tree /\ calls[t].of \in DOMAIN Tree.notes /\ Back(Tree, t) = Tree
  <2>1. saved[t].tree = Tree /\ calls[t].of \in DOMAIN Tree.notes
    BY <1>3 DEF Shows, ShowsFetched, PutsBack, CopyPutsBack
  <2> QED
    BY <2>1, PutBack DEF Back
<1>4. ShowsFetched(t)'
  BY <1>1, <1>2, <1>3 DEF Shows, ShowsFetched
<1>5. CopyFetched(t)'
  BY <1>1, <1>2, <1>3 DEF Shows, CopyFetched
<1>6. Purged(t)'
  BY <1>1 DEF Shows, Purged, Fresh
<1> QED
  BY <1>4, <1>5, <1>6 DEF Shows

LEMMA KeepHolds ==
    ASSUME TabsInv, NEW t \in Tabs, NEW i \in DOMAIN fetches[t], Keep(t, i) PROVE TabsInv'
<1>1. /\ TabOK(t) /\ TabTyped(t) /\ version \in Nat \ {0}
      /\ fetches[t] \in Seq(1..version) /\ DOMAIN fetches = Tabs
  BY DEF TabsInv, TabOK, TabTyped, ServerOK
<1> DEFINE at == fetches[t][i]
<1>2. PICK tree \in Answers(at) :
        /\ copy' = [copy EXCEPT ![t] = tree]
        /\ copied' = [copied EXCEPT ![t] = at]
        /\ kept' = [kept EXCEPT ![t] = Append(@, [at |-> at, tree |-> tree])]
        /\ fetches' = [fetches EXCEPT ![t] = Without1(@, i)]
        /\ UNCHANGED <<vars, shown, saved, signals, socket, drops, past, stamp, heard>>
  BY DEF Keep
<1>3. at \in 1..version
  BY <1>1
<1> DEFINE answer == [at |-> at, tree |-> tree]
<1>4. /\ copy'[t] = tree /\ copied'[t] = at /\ kept'[t] = Append(kept[t], answer)
      /\ fetches'[t] = Without1(fetches[t], i)
  BY <1>2 DEF TabsInv
<1>5. NoEdits(t)
  BY <1>2 DEF NoEdits, KeepTabs, Same, TabsInv
<1>6. Tree' = Tree /\ version' = version /\ (Told => Told')
  BY <1>2, NothingWritten
<1>7. at = version => tree = Tree
  BY <1>2, AnswersNow
<1>8. answer.at = at /\ answer.tree = tree
  OBVIOUS
<1> HIDE DEF answer, at
<1>9. /\ fetches'[t] \in Seq(1..version)
      /\ \A j \in DOMAIN fetches[t] \ {i} : \E k \in DOMAIN fetches'[t] : fetches'[t][k] = fetches[t][j]
  BY <1>1, <1>4, FetchEnds
<1>10. /\ \E S : kept'[t] \in Seq(S)
       /\ \E n \in DOMAIN kept'[t] : kept'[t][n] = answer
       /\ \A n \in DOMAIN kept[t] : n \in DOMAIN kept'[t] /\ kept'[t][n] = kept[t][n]
       /\ \A n \in DOMAIN kept'[t] : kept'[t][n] = answer \/ (n \in DOMAIN kept[t] /\ kept'[t][n] = kept[t][n])
  <2>1. PICK S : kept[t] \in Seq(S)
    BY <1>1 DEF TabOK, KeptTyped
  <2>2. kept[t] \in Seq(S \cup {answer}) /\ answer \in S \cup {answer}
    BY <2>1
  <2>3. Append(kept[t], answer) \in Seq(S \cup {answer})
    BY <2>2
  <2>4. /\ \A n \in 1..Len(kept[t]) : Append(kept[t], answer)[n] = kept[t][n]
        /\ Append(kept[t], answer)[Len(kept[t]) + 1] = answer
        /\ DOMAIN Append(kept[t], answer) = 1..(Len(kept[t]) + 1)
        /\ DOMAIN kept[t] = 1..Len(kept[t]) /\ Len(kept[t]) \in Nat
    BY <2>1
  <2> QED
    BY <1>4, <2>3, <2>4
<1>11. TabTyped(t)'
  BY <1>1, <1>2, <1>3, <1>4, <1>6, <1>9 DEF TabTyped
<1>12. KeptTyped(t)'
  BY <1>1, <1>3, <1>6, <1>7, <1>8, <1>10 DEF TabOK, KeptTyped
<1>13. Informed(t)'
  <2>1. CASE at = version
    BY <1>6, <1>8, <1>10, <2>1 DEF Informed
  <2>2. CASE at # version
    <3>1. (\E j \in DOMAIN fetches[t] : fetches[t][j] = version)
            => \E k \in DOMAIN fetches'[t] : fetches'[t][k] = version
      BY <1>9, <2>2 DEF at
    <3>2. (\E j \in DOMAIN kept[t] : kept[t][j].at = version)
            => \E k \in DOMAIN kept'[t] : kept'[t][k].at = version
      BY <1>10
    <3> QED
      BY <1>1, <1>2, <1>6, <3>1, <3>2 DEF TabOK, Informed
  <2> QED
    BY <2>1, <2>2
<1>14. Shows(t)'
  BY <1>1, <1>2, <1>4, <1>7, FetchedShows DEF TabOK
<1>15. EditTyped(t)'
  BY <1>2, EditStays
<1> QED
  BY <1>5, <1>11, <1>12, <1>13, <1>14, <1>15, NoEditsHold DEF TabOK

LEMMA ShowHolds == ASSUME TabsInv, NEW t \in Tabs, Show(t) PROVE TabsInv'
<1>1. TabOK(t) /\ TabTyped(t) /\ KeptTyped(t) /\ version \in Nat \ {0}
  BY DEF TabsInv, TabOK, ServerOK
<1> DEFINE first == kept[t][1]
<1>2. /\ kept[t] # << >>
      /\ shown'[t] = first.tree /\ stamp'[t] = first.at /\ heard'[t] = Later(heard[t], first.at)
      /\ kept'[t] = Tail(kept[t])
      /\ UNCHANGED <<vars, copy, saved, fetches, signals, socket, past, copied>>
  BY DEF Show, TabsInv
<1>3. NoEdits(t)
  BY DEF Show, NoEdits, KeepTabs, Same, TabsInv
<1>4. Tree' = Tree /\ version' = version /\ (Told => Told')
  BY <1>2, NothingWritten
<1>5. /\ 1 \in DOMAIN kept[t]
      /\ \E S : kept'[t] \in Seq(S)
      /\ \A n \in DOMAIN kept'[t] : n + 1 \in DOMAIN kept[t] /\ kept'[t][n] = kept[t][n + 1]
      /\ \A n \in DOMAIN kept[t] \ {1} : \E k \in DOMAIN kept'[t] : kept'[t][k] = kept[t][n]
  <2>1. PICK S : kept[t] \in Seq(S)
    BY <1>1 DEF KeptTyped
  <2>2. /\ DOMAIN kept[t] = 1..Len(kept[t]) /\ Len(kept[t]) \in Nat \ {0} /\ 1 \in DOMAIN kept[t]
        /\ Tail(kept[t]) \in Seq(S) /\ DOMAIN Tail(kept[t]) = 1..(Len(kept[t]) - 1)
        /\ \A n \in 1..(Len(kept[t]) - 1) : Tail(kept[t])[n] = kept[t][n + 1]
    BY <1>2, <2>1
  <2>3. ASSUME NEW n \in DOMAIN kept[t] \ {1}
        PROVE  n - 1 \in DOMAIN Tail(kept[t]) /\ Tail(kept[t])[n - 1] = kept[t][n]
    <3>1. n - 1 \in 1..(Len(kept[t]) - 1) /\ (n - 1) + 1 = n
      BY <2>2, <2>3
    <3> QED
      BY <2>2, <3>1
  <2>4. \A n \in 1..(Len(kept[t]) - 1) : n + 1 \in DOMAIN kept[t]
    BY <2>2
  <2> QED
    BY <1>2, <2>2, <2>3, <2>4
<1>6. first.at \in 1..version /\ (first.at = version => first.tree = Tree)
  BY <1>1, <1>5 DEF KeptTyped
<1> HIDE DEF first
<1>7. /\ heard'[t] \in 0..version /\ (first.at = version => heard'[t] = version)
      /\ (heard[t] = version => heard'[t] = version)
  BY <1>1, <1>2, <1>6 DEF TabTyped, Later
<1>8. TabTyped(t)'
  BY <1>1, <1>2, <1>4, <1>6, <1>7 DEF TabTyped
<1>9. KeptTyped(t)'
  BY <1>1, <1>4, <1>5 DEF KeptTyped
<1>10. Informed(t)'
  <2>1. CASE first.at = version
    BY <1>4, <1>7, <2>1 DEF Informed
  <2>2. CASE first.at # version
    <3>1. (\E j \in DOMAIN kept[t] : kept[t][j].at = version)
            => \E k \in DOMAIN kept'[t] : kept'[t][k].at = version
      BY <1>5, <2>2 DEF first
    <3> QED
      BY <1>1, <1>2, <1>4, <1>7, <3>1 DEF TabOK, Informed
  <2> QED
    BY <2>1, <2>2
<1>11. Shows(t)'
  BY <1>1, <1>2, <1>6, FetchedShows DEF TabOK
<1>12. EditTyped(t)'
  BY <1>2, EditStays
<1> QED
  BY <1>3, <1>8, <1>9, <1>10, <1>11, <1>12, NoEditsHold DEF TabOK

LEMMA FetchFailsHolds ==
    ASSUME TabsInv, NEW t \in Tabs, NEW i \in DOMAIN fetches[t], FetchFails(t, i) PROVE TabsInv'
<1>1. TabOK(t) /\ TabTyped(t) /\ fetches[t] \in Seq(1..version) /\ version \in Nat \ {0}
  BY DEF TabsInv, TabOK, TabTyped, ServerOK
<1>2. /\ heard'[t] = Later(heard[t], fetches[t][i])
      /\ fetches'[t] = Without1(fetches[t], i)
      /\ UNCHANGED <<vars, shown, copy, saved, kept, signals, socket, past, stamp, copied>>
  BY DEF FetchFails, TabsInv
<1>3. NoEdits(t)
  BY DEF FetchFails, NoEdits, KeepTabs, Same, TabsInv
<1>4. /\ fetches'[t] \in Seq(1..version)
      /\ \A j \in DOMAIN fetches[t] \ {i} : \E k \in DOMAIN fetches'[t] : fetches'[t][k] = fetches[t][j]
  BY <1>1, <1>2, FetchEnds
<1>5. Tree' = Tree /\ version' = version /\ (Told => Told')
  BY <1>2, NothingWritten
<1>6. /\ heard'[t] \in 0..version /\ (fetches[t][i] = version => heard'[t] = version)
      /\ (heard[t] = version => heard'[t] = version)
  <2>1. fetches[t][i] \in 1..version
    BY <1>1
  <2> QED
    BY <1>1, <1>2, <2>1 DEF TabTyped, Later
<1>7. TabTyped(t)'
  BY <1>1, <1>2, <1>4, <1>5, <1>6 DEF TabTyped
<1>8. KeptTyped(t)'
  BY <1>1, <1>2, <1>5 DEF TabOK, KeptTyped
<1>9. Informed(t)'
  BY <1>1, <1>2, <1>4, <1>5, <1>6 DEF TabOK, Informed
<1>10. Shows(t)' /\ EditTyped(t)'
  BY <1>1, <1>2, FetchedShows, EditStays DEF TabOK
<1> QED
  BY <1>3, <1>7, <1>8, <1>9, <1>10, NoEditsHold DEF TabOK

\* A fetch that begins is of the present library.
LEMMA FetchAsks ==
    ASSUME TabsInv, NEW t \in Tabs, Fetch(t)
    PROVE  /\ fetches'[t] \in Seq(1..version)
           /\ \E i \in DOMAIN fetches'[t] : fetches'[t][i] = version
           /\ DOMAIN fetches' = Tabs /\ \A u \in Tabs \ {t} : fetches'[u] = fetches[u]
<1>1. fetches[t] \in Seq(1..version) /\ version \in 1..version /\ DOMAIN fetches = Tabs
  BY DEF TabsInv, TabOK, TabTyped, ServerOK
<1>2. fetches'[t] = Append(fetches[t], version)
  BY <1>1 DEF Fetch
<1>3. /\ Append(fetches[t], version) \in Seq(1..version)
      /\ Len(fetches[t]) + 1 \in DOMAIN Append(fetches[t], version)
      /\ Append(fetches[t], version)[Len(fetches[t]) + 1] = version
  BY <1>1
<1> QED
  BY <1>1, <1>2, <1>3 DEF Fetch

LEMMA NewsHolds ==
    ASSUME TabsInv, NEW t \in Tabs, HearSignal(t) \/ Drop(t) \/ Connect(t) PROVE TabsInv'
<1>1. TabOK(t) /\ TabTyped(t)
  BY DEF TabsInv, TabOK
<1>2. UNCHANGED <<vars, shown, copy, saved, kept, past, stamp, copied, heard>>
  BY DEF HearSignal, Drop, Connect
<1>3. Tree' = Tree /\ version' = version /\ calls' = calls /\ (Told => Told')
  BY <1>2, NothingWritten
<1>4. /\ DOMAIN fetches' = Tabs /\ \A u \in Tabs \ {t} : fetches'[u] = fetches[u]
      /\ fetches'[t] \in Seq(1..version)
      /\ \/ fetches'[t] = fetches[t]
         \/ \E i \in DOMAIN fetches'[t] : fetches'[t][i] = version
  <2>1. UNCHANGED fetches \/ Fetch(t)
    BY DEF HearSignal, Drop, Connect
  <2> QED
    BY <1>1, <2>1, FetchAsks DEF TabsInv, TabTyped
<1>5. NoEdits(t)
  BY <1>2, <1>4 DEF HearSignal, Drop, Connect, NoEdits, KeepTabs, Same, TabsInv
<1>6. TabTyped(t)'
  <2>1. signals'[t] \in Nat /\ socket'[t] \in {"never", "open", "closed"}
    BY <1>1 DEF HearSignal, Drop, Connect, TabTyped, TabsInv
  <2> QED
    BY <1>1, <1>2, <1>3, <1>4, <2>1 DEF TabTyped
<1>7. Informed(t)'
  <2>1. CASE socket'[t] = "closed" \/ \E i \in DOMAIN fetches'[t] : fetches'[t][i] = version
    BY <1>3, <2>1 DEF Informed
  <2>2. CASE ~(socket'[t] = "closed" \/ \E i \in DOMAIN fetches'[t] : fetches'[t][i] = version)
    <3>1. ~Fetch(t)
      BY <2>2, FetchAsks
    <3>2. Connect(t) /\ socket[t] = "never" /\ UNCHANGED <<fetches, signals>>
      BY <2>2, <3>1 DEF HearSignal, Drop, Connect, TabsInv
    <3> QED
      BY <1>1, <1>2, <1>3, <3>2 DEF TabOK, Informed
  <2> QED
    BY <2>1, <2>2
<1>8. KeptTyped(t)'
  BY <1>1, <1>2, <1>3 DEF TabOK, KeptTyped
<1>9. Shows(t)' /\ EditTyped(t)'
  BY <1>1, <1>2, FetchedShows, EditStays DEF TabOK
<1> QED
  BY <1>5, <1>6, <1>7, <1>8, <1>9, NoEditsHold DEF TabOK

-----------------------------------------------------------------------------
(* The edits of tabs *)

ShelfEdits == {"createProject", "renameProject", "deleteProject",
               "createFolder", "renameFolder", "deleteFolder", "createNote"}

\* What a click leaves alone, and what it needs of the tab.
LEMMA ClickHolds ==
    ASSUME TabsInv, Unrestored, NEW t \in Tabs, NEW of, Sends(t, of), NEW op, NEW step, NEW row,
           Click(t, op, step, row),
           DOMAIN shown' = Tabs, \A u \in Tabs \ {t} : shown'[u] = shown[u],
           \/ op \in ShelfEdits /\ step = "asked"
           \/ op \in RowEdits /\ step = "shown",
           op = "purge" => calls'[t].op = "deleteNote",
           ShowsFetched(t)', CopyFetched(t)'
    PROVE  TabsInv'
<1>1. t \in Callers /\ ServerOK /\ TabOK(t) /\ TabTyped(t)
  BY TabsCall DEF TabsInv, TabOK
<1>2. /\ calls[t].step = "none"
      /\ DOMAIN calls' = Callers /\ \A d \in Callers \ {t} : calls'[d] = calls[d]
      /\ DOMAIN calls'[t] = CallFields /\ calls'[t].at \in 0..version
      /\ calls'[t].op # "restoreSnapshot" /\ calls'[t].step \in {"project", "read", "write"}
      /\ UNCHANGED <<tables, version>>
  BY <1>1, SendFields
<1>3. /\ UNCHANGED <<copy, fetches, kept, signals, socket, past, stamp, copied, heard>>
      /\ saved' = [saved EXCEPT ![t] = [op |-> op, step |-> step, row |-> row,
                                        tree |-> shown[t], stamp |-> stamp[t]]]
  BY DEF Click
<1>4. OnlyTab(t)
  BY <1>2, <1>3 DEF OnlyTab, KeepTabs, Same, TabsInv
<1>5. /\ saved'[t].op = op /\ saved'[t].step = step /\ saved'[t].stamp = stamp[t]
      /\ DOMAIN saved'[t] = EditFields
  BY <1>3 DEF TabsInv, EditFields
<1>6. TabTyped(t)'
  BY <1>1, <1>2, <1>3 DEF TabTyped
<1>7. EditTyped(t)'
  BY <1>1, <1>2, <1>5 DEF EditTyped, TabTyped, UnderWay, Steps, ShelfEdits, RowEdits
<1>8. KeptTyped(t)'
  BY <1>1, <1>2, <1>3, SameTree DEF TabOK, KeptTyped
<1>9. Informed(t)'
  <2>1. Told => Told'
    BY <1>1, <1>2, ToldStays
  <2> QED
    BY <1>1, <1>2, <1>3, <2>1 DEF TabOK, Informed
<1>10. Purged(t)'
  BY <1>2 DEF Purged
<1> QED
  BY <1>2, <1>4, <1>6, <1>7, <1>8, <1>9, <1>10, OnlyTabHolds DEF TabOK, Shows

\* A tab that is free to edit shows what it fetched.
LEMMA FreeShows ==
    ASSUME TabsInv, Unrestored, NEW t \in Tabs, NEW of, Sends(t, of)
    PROVE  /\ Fresh(t)
           /\ calls'[t].of = of /\ UNCHANGED <<tables, version>> /\ Tree' = Tree
<1>1. t \in Callers /\ ServerOK /\ TabOK(t)
  BY TabsCall DEF TabsInv
<1>2. calls[t].step = "none" /\ calls'[t].of = of /\ UNCHANGED <<tables, version>>
  BY <1>1, SendFields
<1>3. ~PutsBack(t) /\ ~CopyPutsBack(t) /\ ~CopyLags(t)
  BY <1>1, <1>2 DEF TabOK, EditTyped, PutsBack, CopyPutsBack, CopyLags, NoEdit, RowEdits
<1> QED
  BY <1>1, <1>2, <1>3, SameTree DEF TabOK, Shows, ShowsFetched, CopyFetched, Fresh

LEMMA EditShelfHolds ==
    ASSUME TabsInv, Unrestored, NEW t \in Tabs, EditShelf(t) PROVE TabsInv'
<1>1. /\ \E of : Sends(t, of)
      /\ \E op \in ShelfEdits : SentAtOnce(t, op)
      /\ UNCHANGED shown
  BY SendsShelf DEF EditShelf, ShelfEdits
<1>2. PICK of, op : Sends(t, of) /\ op \in ShelfEdits /\ Click(t, op, "asked", None)
  BY <1>1 DEF SentAtOnce
<1>3. saved'[t].op = op /\ UNCHANGED <<stamp, copied, copy>>
  BY <1>2 DEF Click, TabsInv
<1>4. Fresh(t) /\ UNCHANGED version /\ Tree' = Tree
  BY <1>2, FreeShows
<1>5. ~PutsBack(t)' /\ ~CopyPutsBack(t)'
  BY <1>2, <1>3 DEF PutsBack, CopyPutsBack, ShelfEdits, RowEdits
<1>6. ShowsFetched(t)' /\ CopyFetched(t)'
  BY <1>1, <1>3, <1>4, <1>5 DEF ShowsFetched, CopyFetched, Fresh
<1> QED
  BY <1>1, <1>2, <1>6, ClickHolds DEF TabsInv, ShelfEdits

\* A note as the tab shows it edited, and would have it back.
LEMMA NoteClicked ==
    ASSUME TabsInv, Unrestored, NEW t \in Tabs, NEW n \in DOMAIN shown[t].notes, Sends(t, n),
           NEW op \in RowEdits, NEW row, Click(t, op, "shown", row), NEW edited,
           shown' = [shown EXCEPT ![t] = edited], op = "purge" => calls'[t].op = "deleteNote",
           \A then : PutNote(shown[t], n, then) = Tree => PutNote(edited, n, then) = Tree,
           op = "purge" /\ shown[t] = Tree => n \notin DOMAIN edited.notes
    PROVE  TabsInv'
<1>1. /\ shown'[t] = edited /\ UNCHANGED <<stamp, copied, copy>>
      /\ saved'[t] = [op |-> op, step |-> "shown", row |-> row, tree |-> shown[t], stamp |-> stamp[t]]
      /\ DOMAIN shown' = Tabs /\ \A u \in Tabs \ {t} : shown'[u] = shown[u]
  BY DEF Click, TabsInv
<1>2. saved'[t].op = op /\ saved'[t].step = "shown" /\ saved'[t].tree = shown[t] /\ saved'[t].stamp = stamp[t]
  BY <1>1
<1>3. Fresh(t) /\ calls'[t].of = n /\ version' = version /\ Tree' = Tree
  BY FreeShows
<1>4. PutsBack(t)' /\ CopyPutsBack(t)'
  BY <1>2 DEF PutsBack, CopyPutsBack
<1>5. Back(shown[t], t)' = PutNote(edited, n, shown[t].notes[n])
      /\ Back(copy[t], t)' = PutNote(copy[t], n, shown[t].notes[n])
  BY <1>1, <1>2, <1>3 DEF Back
<1>6. ASSUME stamp[t] = version
      PROVE  shown[t] = Tree /\ n \in DOMAIN Tree.notes /\ PutNote(Tree, n, shown[t].notes[n]) = Tree
  <2>1. shown[t] = Tree
    BY <1>3, <1>6 DEF Fresh
  <2> QED
    BY <2>1, PutBack
<1>7. ShowsFetched(t)'
  BY <1>1, <1>2, <1>3, <1>4, <1>5, <1>6 DEF ShowsFetched
<1>8. CopyFetched(t)'
  BY <1>1, <1>2, <1>3, <1>4, <1>5, <1>6 DEF CopyFetched, Fresh
<1> QED
  BY <1>1, <1>7, <1>8, ClickHolds

LEMMA EditNoteHolds ==
    ASSUME TabsInv, Unrestored, NEW t \in Tabs, NEW n \in DOMAIN shown[t].notes, EditNote(t, n)
    PROVE  TabsInv'
<1>1. PICK row : /\ Sends(t, n)
                 /\ shown' = [shown EXCEPT ![t] = PutNote(@, n, row)]
                 /\ Click(t, "editNote", "shown", row)
  BY SendsNote DEF EditNote
<1>2. shown' = [shown EXCEPT ![t] = PutNote(shown[t], n, row)]
  BY <1>1 DEF TabsInv
<1>3. \A then : PutNote(shown[t], n, then) = Tree => PutNote(PutNote(shown[t], n, row), n, then) = Tree
  <2> DEFINE old == shown[t]
  <2> HIDE DEF old
  <2>1. ASSUME NEW then, PutNote(old, n, then) = Tree PROVE PutNote(PutNote(old, n, row), n, then) = Tree
    <3>1. /\ PutNote(PutNote(old, n, row), n, then) = Tree
          /\ PutNote(TakeNote(old, n), n, then) = Tree
      BY <2>1, PutBackAgain
    <3> QED
      BY <3>1
  <2> QED
    BY <2>1 DEF old
<1> DEFINE edited == PutNote(shown[t], n, row)
<1> HIDE DEF edited
<1> DEFINE op == "editNote"
<1>4. op \in RowEdits /\ op # "purge" /\ Click(t, op, "shown", row)
  BY <1>1 DEF RowEdits
<1>5. /\ shown' = [shown EXCEPT ![t] = edited]
      /\ \A then : PutNote(shown[t], n, then) = Tree => PutNote(edited, n, then) = Tree
  BY <1>2, <1>3 DEF edited
<1> HIDE DEF op
<1>6. /\ op = "purge" => calls'[t].op = "deleteNote"
      /\ op = "purge" /\ shown[t] = Tree => n \notin DOMAIN edited.notes
  BY <1>4
<1>7. Sends(t, n)
  BY <1>1
<1> QED
  BY <1>4, <1>5, <1>6, <1>7, NoteClicked

LEMMA PurgeHolds ==
    ASSUME TabsInv, Unrestored, NEW t \in Tabs, NEW n \in DOMAIN shown[t].notes,
           PurgeFromTrash(t, n)
    PROVE  TabsInv'
<1> DEFINE edited == TakeNote(shown[t], n)
<1>1. Sends(t, n) /\ Click(t, "purge", "shown", None) /\ SendDeleteNote(t, n)
  BY SendsNote DEF PurgeFromTrash
<1>2. shown' = [shown EXCEPT ![t] = edited]
  BY DEF PurgeFromTrash, TabsInv
<1>3. \A then : PutNote(shown[t], n, then) = Tree => PutNote(edited, n, then) = Tree
  BY PutBackAgain
<1>4. calls'[t].op = "deleteNote"
  <2>1. Ask("deleteNote", "read", n).op = "deleteNote"
    BY AskFields DEF Asks
  <2> QED
    BY <1>1, <2>1, TabsCall DEF SendDeleteNote, Send, TabsInv, ServerOK
<1>5. shown[t] = Tree => n \notin DOMAIN edited.notes
  BY PutBack DEF TakeNote
<1> HIDE DEF edited
<1> QED
  BY <1>1, <1>2, <1>3, <1>4, <1>5, NoteClicked DEF RowEdits

\* A step of an edit under way.
EditStep(t) ==
    /\ UNCHANGED <<tables, version, past, fetches, kept, signals, socket, heard>>
    /\ KeepTabs /\ \A u \in Tabs \ {t} : Same(u)
    /\ stamp'[t] \in {stamp[t], 0} /\ copied'[t] \in {copied[t], 0}

LEMMA EditStepHolds ==
    ASSUME TabsInv, NEW t \in Tabs, EditStep(t), Shows(t)',
           \/ /\ UNCHANGED calls /\ saved'[t].op = saved[t].op /\ saved'[t].stamp = saved[t].stamp
              /\ saved[t] # NoEdit /\ DOMAIN saved'[t] = DOMAIN saved[t]
              /\ \/ saved'[t].step = "asked"
                 \/ saved'[t].step = "learning" /\ calls[t].step = "answered"
                 \/ /\ saved'[t].step = "undoing" /\ saved[t].op \in RowEdits
                    /\ calls[t].step \in {"answered", "failed"}
           \/ /\ saved'[t] = NoEdit /\ calls' = [calls EXCEPT ![t] = NoCall]
              /\ calls[t].step \in {"answered", "failed"}
    PROVE  TabsInv'
<1>1. /\ t \in Callers /\ ServerOK /\ TabOK(t) /\ TabTyped(t)
      /\ version \in Nat \ {0} /\ DOMAIN calls = Callers
  BY TabsCall DEF TabsInv, TabOK, ServerOK
<1>2. DOMAIN NoCall = CallFields /\ NoCall.at = 0 /\ NoCall.op = "none"
  BY DEF NoCall, CallFields
<1>3. /\ DOMAIN calls' = Callers /\ \A c \in Callers \ {t} : calls'[c] = calls[c]
      /\ \/ calls'[t] = calls[t]
         \/ calls[t].step \in {"answered", "failed"} /\ calls'[t] = NoCall
  BY <1>1
<1>4. OnlyTab(t)
  BY <1>3 DEF OnlyTab, EditStep
<1>5. TabTyped(t)'
  BY <1>1 DEF TabTyped, EditStep
<1>6. EditTyped(t)'
  <2>1. CASE saved'[t] = NoEdit
    BY <2>1 DEF EditTyped, NoEdit, RowEdits
  <2>2. CASE saved'[t] # NoEdit
    BY <1>1, <2>2 DEF TabOK, EditTyped, EditStep
  <2> QED
    BY <2>1, <2>2
<1>7. KeptTyped(t)'
  <2>1. Tree' = Tree
    BY SameTree DEF EditStep
  <2> QED
    BY <1>1, <2>1 DEF TabOK, KeptTyped, EditStep
<1>8. Informed(t)'
  <2>1. Told => Told'
    BY <1>1, <1>3, ToldStays DEF EditStep
  <2> QED
    BY <1>1, <2>1 DEF TabOK, Informed, EditStep
<1> QED
  BY <1>1, <1>2, <1>3, <1>4, <1>5, <1>6, <1>7, <1>8, OnlyTabHolds DEF TabOK

\* An edit's next step.
LEMMA GoesOn ==
    ASSUME TabsInv, NEW t \in Tabs, NEW step, EditGoesOn(t, step), saved[t] # NoEdit
    PROVE  /\ saved'[t] = [saved[t] EXCEPT !.step = step] /\ DOMAIN saved' = Tabs
           /\ DOMAIN saved'[t] = DOMAIN saved[t] /\ saved'[t].step = step
           /\ saved'[t].op = saved[t].op /\ saved'[t].stamp = saved[t].stamp
           /\ saved'[t].tree = saved[t].tree
           /\ \A u \in Tabs \ {t} : saved'[u] = saved[u]
           /\ UNCHANGED <<tables, version, calls>> /\ Tree' = Tree /\ (UnderWay(t)' <=> UnderWay(t))
<1>1. DOMAIN saved = Tabs /\ DOMAIN saved[t] = EditFields
  BY DEF TabsInv, TabOK, EditTyped
<1>2. /\ saved'[t] = [saved[t] EXCEPT !.step = step] /\ DOMAIN saved' = Tabs
      /\ \A u \in Tabs \ {t} : saved'[u] = saved[u]
  BY <1>1 DEF EditGoesOn
<1>3. /\ DOMAIN saved'[t] = DOMAIN saved[t] /\ saved'[t].step = step
      /\ saved'[t].op = saved[t].op /\ saved'[t].stamp = saved[t].stamp /\ saved'[t].tree = saved[t].tree
  BY <1>1, <1>2 DEF EditFields
<1>4. UNCHANGED <<tables, version, calls>> /\ Tree' = Tree /\ (UnderWay(t)' <=> UnderWay(t))
  BY NothingWritten DEF EditGoesOn, vars
<1> QED
  BY <1>2, <1>3, <1>4

LEMMA EditStoredHolds == ASSUME TabsInv, NEW t \in Tabs, EditStored(t) PROVE TabsInv'
<1>1. /\ EditTyped(t) /\ Shows(t) /\ saved[t].step = "shown" /\ EditGoesOn(t, "asked")
      /\ saved[t].op \in RowEdits /\ UnderWay(t) /\ saved[t] # NoEdit
  BY DEF TabsInv, TabOK, EditTyped, EditStored, NoEdit
<1> DEFINE n == calls[t].of
           then == saved[t].tree.notes[n]
           stored == IF saved[t].op = "purge" THEN TakeNote(copy[t], n)
                                              ELSE PutNote(copy[t], n, saved[t].row)
<1>2. /\ copy'[t] = stored /\ DOMAIN copy' = Tabs /\ \A u \in Tabs \ {t} : copy'[u] = copy[u]
      /\ UNCHANGED <<shown, fetches, kept, signals, socket, past, stamp, copied, heard>>
  BY DEF EditStored, TabsInv
<1>3. ASSUME PutNote(copy[t], n, then) = Tree PROVE PutNote(stored, n, then) = Tree
  <2> DEFINE old == copy[t] row == saved[t].row
  <2> HIDE DEF old, n, then, row
  <2>1. PutNote(old, n, then) = Tree
    BY <1>3 DEF old
  <2>2. /\ PutNote(PutNote(old, n, row), n, then) = Tree
        /\ PutNote(TakeNote(old, n), n, then) = Tree
    BY <2>1, PutBackAgain
  <2> QED
    BY <2>2 DEF old, row
<1>4. Back(copy[t], t) = PutNote(copy[t], n, then) /\ Back(copy'[t], t) = PutNote(stored, n, then)
  BY <1>2 DEF Back
<1> HIDE DEF n, then, stored
<1>5. /\ saved'[t].op = saved[t].op /\ saved'[t].stamp = saved[t].stamp /\ saved'[t].tree = saved[t].tree
      /\ saved'[t].step = "asked" /\ DOMAIN saved'[t] = DOMAIN saved[t] /\ DOMAIN saved' = Tabs
      /\ \A u \in Tabs \ {t} : saved'[u] = saved[u]
      /\ UNCHANGED <<tables, version, calls>> /\ Tree' = Tree
  BY <1>1, GoesOn
<1>6. Back(shown[t], t)' = Back(shown[t], t) /\ Back(copy[t], t)' = Back(copy'[t], t)
  BY <1>2, <1>5 DEF Back
<1>7. PutsBack(t) /\ PutsBack(t)' /\ CopyPutsBack(t) /\ CopyPutsBack(t)'
  BY <1>1, <1>5 DEF PutsBack, CopyPutsBack
<1>8. ShowsFetched(t)'
  BY <1>1, <1>2, <1>5, <1>6, <1>7 DEF Shows, ShowsFetched
<1>9. CopyFetched(t)'
  BY <1>1, <1>2, <1>3, <1>4, <1>5, <1>6, <1>7 DEF Shows, CopyFetched
<1>10. Purged(t)'
  BY <1>1, <1>5 DEF Purged, UnderWay
<1>11. EditStep(t)
  BY <1>2, <1>5 DEF EditStep, KeepTabs, Same, TabsInv
<1> QED
  BY <1>1, <1>5, <1>8, <1>9, <1>10, <1>11, EditStepHolds DEF Shows

LEMMA TabHas ==
    ASSUME TabsInv, NEW t \in Tabs
    PROVE  /\ t \in Callers /\ version \in Nat \ {0} /\ stamp[t] \in 0..version
           /\ copied[t] \in 0..version /\ calls[t].at \in 0..version
           /\ EditTyped(t) /\ Shows(t)
<1>1. t \in Callers /\ ServerOK /\ TabOK(t)
  BY TabsCall DEF TabsInv
<1> QED
  BY <1>1 DEF ServerOK, TabOK, TabTyped

\* An answer that is shown is of no fetched library any more, nor is the copy that stores one.
LEMMA ScreenLearned ==
    ASSUME TabsInv, NEW t \in Tabs, ScreenLearns(t), version' = version
    PROVE  /\ stamp'[t] # version' /\ stamp'[t] \in {stamp[t], 0}
           /\ UNCHANGED <<copy, copied, fetches, kept, signals, socket, past, heard>>
           /\ DOMAIN shown' = Tabs /\ DOMAIN stamp' = Tabs
           /\ \A u \in Tabs \ {t} : shown'[u] = shown[u] /\ stamp'[u] = stamp[u]
<1>1. stamp'[t] = IF stamp[t] < calls[t].at THEN stamp[t] ELSE 0
  BY DEF ScreenLearns, OnScreen, TabsInv
<1>2. version \in Nat \ {0} /\ stamp[t] \in 0..version /\ calls[t].at \in 0..version
  BY TabHas
<1>3. stamp'[t] # version' /\ stamp'[t] \in {stamp[t], 0}
  BY <1>1, <1>2
<1> QED
  BY <1>3 DEF ScreenLearns, OnScreen, TabsInv

LEMMA CopyLearned ==
    ASSUME TabsInv, NEW t \in Tabs, CopyLearns(t), version' = version
    PROVE  /\ copied'[t] # version' /\ copied'[t] \in {copied[t], 0}
           /\ UNCHANGED <<shown, stamp, fetches, kept, signals, socket, past, heard>>
           /\ DOMAIN copy' = Tabs /\ DOMAIN copied' = Tabs
           /\ \A u \in Tabs \ {t} : copy'[u] = copy[u] /\ copied'[u] = copied[u]
<1>1. copied'[t] = IF copied[t] < calls[t].at THEN copied[t] ELSE 0
  BY DEF CopyLearns, InCopy, TabsInv
<1>2. version \in Nat \ {0} /\ copied[t] \in 0..version /\ calls[t].at \in 0..version
  BY TabHas
<1>3. copied'[t] # version' /\ copied'[t] \in {copied[t], 0}
  BY <1>1, <1>2
<1> QED
  BY <1>3 DEF CopyLearns, InCopy, TabsInv

\* An edit that ends.
LEMMA TabEditEnds ==
    ASSUME TabsInv, NEW t \in Tabs, EditEnds(t), calls[t].step \in {"answered", "failed"},
           UNCHANGED <<past, fetches, kept, signals, socket, heard>>,
           DOMAIN shown' = Tabs, DOMAIN copy' = Tabs, DOMAIN stamp' = Tabs, DOMAIN copied' = Tabs,
           \A u \in Tabs \ {t} : /\ shown'[u] = shown[u] /\ stamp'[u] = stamp[u]
                                 /\ copy'[u] = copy[u] /\ copied'[u] = copied[u],
           stamp'[t] \in {stamp[t], 0}, copied'[t] \in {copied[t], 0},
           stamp'[t] = version => shown'[t] = Tree, copied'[t] = version => copy'[t] = Tree
    PROVE  TabsInv'
<1>1. /\ saved'[t] = NoEdit /\ calls' = [calls EXCEPT ![t] = NoCall] /\ DOMAIN saved' = Tabs
      /\ \A u \in Tabs \ {t} : saved'[u] = saved[u]
      /\ UNCHANGED <<tables, version>>
  BY DEF EditEnds, TabsInv
<1>2. Tree' = Tree
  BY <1>1, SameTree
<1>3. Shows(t)'
  BY <1>1, <1>2
     DEF Shows, ShowsFetched, CopyFetched, Purged, PutsBack, CopyPutsBack, CopyLags, NoEdit, RowEdits
<1>4. EditStep(t)
  BY <1>1 DEF EditStep, KeepTabs, Same, TabsInv
<1> QED
  BY <1>1, <1>3, <1>4, EditStepHolds

LEMMA LearnHolds == ASSUME TabsInv, NEW t \in Tabs, Learn(t) PROVE TabsInv'
<1>1. /\ EditTyped(t) /\ Shows(t) /\ calls[t].step = "answered" /\ saved[t].step = "asked"
      /\ saved[t] # NoEdit
  BY TabHas DEF Learn, Is, NoEdit
<1>2. CASE saved[t].op = "purge"
  <2>1. Fresh(t)
    BY <1>1, <1>2 DEF Shows, Purged
  <2> QED
    BY <1>1, <1>2, <2>1, TabEditEnds DEF Learn, Fresh, TabsInv
<1>3. CASE saved[t].op # "purge"
  <2>0. EditGoesOn(t, "learning")
    BY <1>3 DEF Learn
  <2>1. /\ saved'[t].op = saved[t].op /\ saved'[t].stamp = saved[t].stamp
        /\ saved'[t].step = "learning" /\ DOMAIN saved'[t] = DOMAIN saved[t] /\ DOMAIN saved' = Tabs
        /\ \A u \in Tabs \ {t} : saved'[u] = saved[u]
        /\ UNCHANGED <<tables, version, calls>> /\ Tree' = Tree
    BY <1>1, <2>0, GoesOn
  <2>2. ~PutsBack(t)' /\ ~CopyPutsBack(t)' /\ Purged(t)'
    BY <1>3, <2>1 DEF PutsBack, CopyPutsBack, Purged
  <2>3. CASE saved[t].op = "editNote"
    <3>1. ScreenLearns(t)
      BY <1>3, <2>3 DEF Learn
    <3>2. CopyLags(t)'
      BY <2>1, <2>3 DEF CopyLags
    <3>3. Shows(t)'
      BY <2>1, <2>2, <3>1, <3>2, ScreenLearned DEF Shows, ShowsFetched, CopyFetched
    <3>4. EditStep(t)
      BY <2>1, <3>1, ScreenLearned DEF EditStep, KeepTabs, Same, TabsInv
    <3> QED
      BY <1>1, <2>1, <3>3, <3>4, EditStepHolds
  <2>4. CASE saved[t].op # "editNote"
    <3>1. CopyLearns(t)
      BY <1>3, <2>4 DEF Learn
    <3>2. ~PutsBack(t)
      BY <1>3, <2>4 DEF PutsBack, RowEdits
    <3>3. Shows(t)'
      BY <1>1, <2>1, <2>2, <3>1, <3>2, CopyLearned DEF Shows, ShowsFetched, CopyFetched
    <3>4. EditStep(t)
      BY <2>1, <3>1, CopyLearned DEF EditStep, KeepTabs, Same, TabsInv
    <3> QED
      BY <1>1, <2>1, <3>3, <3>4, EditStepHolds
  <2> QED
    BY <2>3, <2>4
<1> QED
  BY <1>2, <1>3

LEMMA LearnTheRestHolds == ASSUME TabsInv, NEW t \in Tabs, LearnTheRest(t) PROVE TabsInv'
<1>1. /\ EditTyped(t) /\ Shows(t) /\ saved[t].step = "learning" /\ EditEnds(t)
      /\ calls[t].step \in {"answered", "failed"} /\ UNCHANGED version
  BY TabHas DEF LearnTheRest, EditTyped, EditEnds
<1>2. ~PutsBack(t) /\ ~CopyPutsBack(t)
  BY <1>1 DEF PutsBack, CopyPutsBack
<1>3. CASE saved[t].op = "editNote"
  <2>1. CopyLearns(t)
    BY <1>3 DEF LearnTheRest
  <2>2. stamp[t] = version => shown[t] = Tree
    BY <1>1, <1>2 DEF Shows, ShowsFetched
  <2> QED
    BY <1>1, <2>1, <2>2, CopyLearned, TabEditEnds DEF TabsInv
<1>4. CASE saved[t].op # "editNote"
  <2>1. ScreenLearns(t)
    BY <1>4 DEF LearnTheRest
  <2>2. copied[t] = version => copy[t] = Tree
    BY <1>1, <1>2, <1>4 DEF Shows, CopyFetched, CopyLags
  <2> QED
    BY <1>1, <2>1, <2>2, ScreenLearned, TabEditEnds DEF TabsInv
<1> QED
  BY <1>3, <1>4

LEMMA RollBackHolds == ASSUME TabsInv, NEW t \in Tabs, RollBack(t) PROVE TabsInv'
<1>1. /\ EditTyped(t) /\ Shows(t) /\ calls[t].step \in {"answered", "failed"}
      /\ saved[t].step = "asked" /\ saved[t] # NoEdit
  BY TabHas DEF RollBack, NoEdit
<1>2. CASE saved[t].op \in RowEdits
  <2>0. EditGoesOn(t, "undoing") /\ InCopy(t, Back(copy[t], t), copied[t] = saved[t].stamp)
    BY <1>2 DEF RollBack, RowEdits
  <2>1. /\ saved'[t].op = saved[t].op /\ saved'[t].stamp = saved[t].stamp /\ saved'[t].tree = saved[t].tree
        /\ saved'[t].step = "undoing" /\ DOMAIN saved'[t] = DOMAIN saved[t] /\ DOMAIN saved' = Tabs
        /\ \A u \in Tabs \ {t} : saved'[u] = saved[u]
        /\ UNCHANGED <<tables, version, calls>> /\ Tree' = Tree
    BY <1>1, <2>0, GoesOn
  <2>2. /\ copy'[t] = Back(copy[t], t)
        /\ copied'[t] = IF copied[t] = saved[t].stamp THEN copied[t] ELSE 0
        /\ UNCHANGED <<shown, stamp, fetches, kept, signals, socket, past, heard>>
        /\ DOMAIN copy' = Tabs /\ DOMAIN copied' = Tabs
        /\ \A u \in Tabs \ {t} : copy'[u] = copy[u] /\ copied'[u] = copied[u]
    BY <2>0 DEF InCopy, TabsInv
  <2>3. PutsBack(t) /\ PutsBack(t)' /\ CopyPutsBack(t) /\ Purged(t)'
    BY <1>1, <1>2, <2>1 DEF PutsBack, CopyPutsBack, Purged
  <2>4. ShowsFetched(t)'
    <3>1. Back(shown[t], t)' = Back(shown[t], t)
      BY <2>1, <2>2 DEF Back
    <3> QED
      BY <1>1, <2>1, <2>2, <2>3, <3>1 DEF Shows, ShowsFetched
  <2>5. CopyFetched(t)'
    <3>1. ~CopyPutsBack(t)'
      BY <2>1 DEF CopyPutsBack
    <3> QED
      BY <1>1, <2>1, <2>2, <2>3, <3>1, TabHas DEF Shows, CopyFetched
  <2>6. EditStep(t)
    BY <2>1, <2>2 DEF EditStep, KeepTabs, Same, TabsInv
  <2> QED
    BY <1>1, <1>2, <2>1, <2>3, <2>4, <2>5, <2>6, EditStepHolds DEF Shows
<1>3. CASE saved[t].op \notin RowEdits
  <2>1. /\ EditEnds(t)
        /\ UNCHANGED <<shown, copy, fetches, kept, signals, socket, past, stamp, copied, heard>>
    BY <1>3 DEF RollBack, RowEdits
  <2>2. Fresh(t)
    BY <1>1, <1>3 DEF Shows, ShowsFetched, CopyFetched, Fresh, PutsBack, CopyPutsBack, CopyLags
  <2> QED
    BY <1>1, <2>1, <2>2, TabEditEnds DEF Fresh, TabsInv
<1> QED
  BY <1>2, <1>3

LEMMA RollBackTheRestHolds ==
    ASSUME TabsInv, NEW t \in Tabs, RollBackTheRest(t) PROVE TabsInv'
<1>1. /\ EditTyped(t) /\ Shows(t) /\ saved[t].step = "undoing" /\ EditEnds(t)
      /\ calls[t].step \in {"answered", "failed"} /\ PutsBack(t) /\ ~CopyPutsBack(t) /\ ~CopyLags(t)
  BY TabHas DEF RollBackTheRest, EditTyped, PutsBack, CopyPutsBack, CopyLags
<1> DEFINE again == saved[t].op = "purge" /\ calls[t].of \in DOMAIN shown[t].notes
           screen == IF again THEN shown[t] ELSE Back(shown[t], t)
<1>2. /\ shown'[t] = screen
      /\ stamp'[t] = IF stamp[t] = saved[t].stamp THEN stamp[t] ELSE 0
      /\ UNCHANGED <<copy, copied, fetches, kept, signals, socket, past, heard>>
      /\ DOMAIN shown' = Tabs /\ DOMAIN stamp' = Tabs
      /\ \A u \in Tabs \ {t} : shown'[u] = shown[u] /\ stamp'[u] = stamp[u]
  BY DEF RollBackTheRest, OnScreen, TabsInv
<1>3. stamp[t] = version /\ saved[t].stamp = version => screen = Tree
  BY <1>1 DEF Shows, ShowsFetched
<1> HIDE DEF screen
<1>4. stamp'[t] = version => shown'[t] = Tree
  BY <1>2, <1>3, TabHas
<1>5. copied[t] = version => copy[t] = Tree
  BY <1>1 DEF Shows, CopyFetched
<1> QED
  BY <1>1, <1>2, <1>4, <1>5, TabEditEnds DEF TabsInv

-----------------------------------------------------------------------------
(* What a settled tab shows *)

LEMMA InitTabsInv == Init /\ InitTabs => TabsInv
<1> SUFFICES ASSUME Init, InitTabs PROVE TabsInv
  OBVIOUS
<1>1. DOMAIN tables = Tables
  BY ShelvesAreSound DEF Init, TablesTyped, Tables
<1>2. /\ DOMAIN NoCall = CallFields /\ NoCall.at = 0 /\ NoCall.op = "none"
  BY DEF NoCall, CallFields
<1>3. /\ \E S : past \in Seq(S)
      /\ Len(past) = 1 /\ past[1] = Tree
  <2>1. past \in Seq({Tree}) /\ Len(past) = 1 /\ past[1] = Tree
    BY DEF InitTabs
  <2> QED
    BY <2>1
<1>4. ServerOK
  BY <1>1, <1>2, <1>3 DEF Init, ServerOK
<1>5. ASSUME NEW t \in Tabs PROVE TabOK(t)
  <2>1. /\ fetches[t] = <<version>> /\ signals[t] = 0 /\ socket[t] = "never" /\ stamp[t] = 0
        /\ heard[t] = 0 /\ saved[t] = NoEdit /\ version = 1 /\ saved[t].op = "none"
        /\ saved[t].step = "none" /\ copied[t] = 0 /\ kept[t] = << >>
    BY DEF Init, InitTabs, NoEdit
  <2>2. fetches[t] \in Seq(1..version) /\ 1 \in DOMAIN fetches[t] /\ fetches[t][1] = version
    BY <2>1
  <2> QED
    BY <2>1, <2>2 DEF TabOK, TabTyped, EditTyped, KeptTyped, Informed, Shows, ShowsFetched,
                      CopyFetched, Purged, PutsBack, CopyPutsBack, CopyLags, RowEdits
<1> QED
  BY <1>4, <1>5 DEF InitTabs, TabsInv

LEMMA NextTabsInv == TabsInv /\ Unrestored /\ [NextTabs]_<<vars, tabVars>> => TabsInv'
<1> SUFFICES ASSUME TabsInv, Unrestored, [NextTabs]_<<vars, tabVars>> PROVE TabsInv'
  OBVIOUS
<1>1. ASSUME NEW t \in Tabs, Browse(t) PROVE TabsInv'
  BY <1>1, EditShelfHolds, EditNoteHolds, PurgeHolds, EditStoredHolds, LearnHolds,
     LearnTheRestHolds, RollBackHolds, RollBackTheRestHolds, NewsHolds, KeepHolds, ShowHolds,
     FetchFailsHolds DEF Browse
<1>2. CASE UNCHANGED <<vars, tabVars>>
  <2>1. Tree' = Tree /\ (Told => Told')
    BY <1>2, NothingWritten
  <2>2. ServerOK'
    BY <1>2, <2>1 DEF vars, tabVars, TabsInv, ServerOK
  <2>3. ASSUME NEW t \in Tabs PROVE TabOK(t)'
    BY <1>2, <2>1, TabRests DEF vars, tabVars, TabsInv, Same
  <2> QED
    BY <1>2, <2>2, <2>3 DEF tabVars, TabsInv
<1> QED
  BY <1>1, <1>2, ServeHolds, AnnounceHolds, ClientHolds DEF NextTabs

\* Once nothing is under way, what a connected tab shows is the database's library, and so is
\* what its offline copy holds, unless what it took last was older than what it had already, a
\* fetch of something later failed, or a change came between the last fetch and the first opening
\* of its socket: for any tabs and callers, however edits and their two halves, roll-backs,
\* fetches, messages and broken sockets interleave, as long as nobody restores a snapshot, which
\* is not broadcast.
THEOREM SettledTabsShowTheLibrary == Unrestored => (SpecTabs => []SettledTabsAgree)
<1> SUFFICES ASSUME Unrestored PROVE SpecTabs => []SettledTabsAgree
  OBVIOUS
<1>1. TabsInv => SettledTabsAgree
  <2> SUFFICES ASSUME TabsInv, NEW t \in Tabs, Settled(t)
               PROVE  /\ UpToDate(t, stamp[t]) => shown[t] = Tree
                      /\ UpToDate(t, copied[t]) => copy[t] = Tree
    BY DEF SettledTabsAgree
  <2>1. /\ t \in Callers /\ TabTyped(t) /\ EditTyped(t) /\ Informed(t) /\ Shows(t)
        /\ version \in Nat \ {0}
    BY TabsCall DEF TabsInv, TabOK, ServerOK
  <2>2. heard[t] = version
    <3>1. /\ signals[t] = 0 /\ DOMAIN fetches[t] = {} /\ DOMAIN kept[t] = {} /\ ~Told
          /\ socket[t] = "open"
      BY DEF Settled, Told, Is
    <3> QED
      BY <2>1, <3>1 DEF Informed
  <2>3. /\ UpToDate(t, stamp[t]) => stamp[t] = version
        /\ UpToDate(t, copied[t]) => copied[t] = version
    BY <2>1, <2>2 DEF UpToDate, TabTyped
  <2>4. saved[t] = NoEdit /\ ~PutsBack(t) /\ ~CopyPutsBack(t) /\ ~CopyLags(t)
    BY <2>1 DEF Settled, Free, NoCall, EditTyped, PutsBack, CopyPutsBack, CopyLags, NoEdit, RowEdits
  <2> QED
    BY <2>1, <2>3, <2>4 DEF Shows, ShowsFetched, CopyFetched
<1>2. Init /\ InitTabs => TabsInv
  BY InitTabsInv
<1>3. TabsInv /\ [NextTabs]_<<vars, tabVars>> => TabsInv'
  BY NextTabsInv
<1> QED
  BY <1>1, <1>2, <1>3, PTL DEF SpecTabs
================================================================================
