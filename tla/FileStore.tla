----------------------------- MODULE FileStore -----------------------------
(***************************************************************************)
(* Uploaded files: the bytes under content-derived paths, the rows of the  *)
(* table files, and what refers to them.  Three kinds of process meet at   *)
(* the advisory lock of a digest:                                          *)
(*   - an upload publishes its bytes without the lock and their row under  *)
(*     it;                                                                 *)
(*   - a writer (an ingestion, a resolution, a snapshot's restoration)     *)
(*     checks under the lock every file its objects refer to, and keeps    *)
(*     the locks until it commits;                                         *)
(*   - a cleaner, a process of its own, deletes the rows nothing refers to *)
(*     and then the bytes no row names; its locks outlive its commit.      *)
(*                                                                         *)
(* Each awaited query or file operation is an action, except that a        *)
(* statement whose effect nobody sees before the COMMIT is one with it.    *)
(* Each owner has one note.  pdf_file_id is left out: no code path sets it.*)
(***************************************************************************)
EXTENDS Naturals, FiniteSets

CONSTANTS
    Owners, Objects, Uploads, Writers, Cleaners,
    Digests,        \* numbers, for their order as strings
    OwnerOf,        \* [Objects -> Owners]
    None,           \* no file, no upload
    Nobody,         \* the holder of a free lock
    MaxUploads,     \* bound: uploads begun
    MaxSnapshots,   \* bound: snapshots kept at once
    MaxParked,      \* bound: files referred to by unresolved conflicts
    ProcessesDie    \* whether a process may die or its connection break

Processes == Uploads \cup Writers \cup Cleaners
\* What an upload carries, and a row of files: its serial number stands for
\* its random id.
File == [owner : Owners, digest : Digests, serial : Nat]
Content == [owner : Owners, digest : Digests]
Payload == File \cup {None}
OwnObjects(o) == {x \in Objects : OwnerOf[x] = o}
\* What a snapshot says its note's objects refer to.
IsSnapshot(s) == \E o \in Owners : s \in [OwnObjects(o) -> Payload]
\* One object a writer is about to write, with its payload.
Write == [object : Objects, file : Payload]

ASSUME DigestsAreNumbers == Digests \subseteq Nat
ASSUME OwnerOfType == OwnerOf \in [Objects -> Owners]
ASSUME NoneIsNoFile == None \notin File
ASSUME NobodyIsNoProcess == Nobody \notin Processes
ASSUME NoneIsNoContent == None \notin Content
ASSUME BoundsType == {MaxUploads, MaxSnapshots, MaxParked} \subseteq Nat /\ ProcessesDie \in BOOLEAN
ASSUME ProcessesDiffer ==
    Uploads \cap Writers = {} /\ Uploads \cap Cleaners = {} /\ Writers \cap Cleaners = {}

VARIABLES
    bytes,      \* the digests there is a file for under the upload directory
    partial,    \* the uploads with a temporary file
    strayed,    \* history: digests whose bytes a cleaner removed without its lock, and
                \* that nobody published since
    files,      \* files: the committed rows
    issued,     \* history: every row there ever was
    refs,       \* canvas_objects: the file each object's payload refers to
    snapshots,  \* snapshots
    parked,     \* conflicts: the files unresolved conflicts refer to
    holder,     \* the process that holds each digest's advisory lock
    pc,         \* where each process is
    upload,     \* the [owner, digest] of each upload
    job,        \* what each writer's transaction writes
    left,       \* the files it has yet to check
    cur,        \* the file it is checking
    cand,       \* the rows a cleaner selected
    wanted,     \* the digests it has yet to lock
    sweep,      \* the digests it has yet to see to after its commit
    dead,       \* the digest it found unnamed and is about to unlink, if any
    started,    \* uploads begun so far
    failed      \* history: some process died, or failed to delete bytes

disk == <<bytes, partial, strayed>>
tables == <<files, issued, refs, snapshots, parked>>
uploading == <<upload, started>>
writing == <<job, left, cur>>
cleaning == <<cand, wanted, sweep, dead>>
vars == <<disk, tables, holder, pc, uploading, writing, cleaning, failed>>

UploadSteps == {"idle", "write", "lock", "access", "insert"}
WriterSteps == {"idle", "look", "lock", "check"}
CleanerSteps == {"idle", "lock", "sweep", "lost"}

StoreType ==
    /\ bytes \subseteq Digests /\ partial \subseteq Uploads /\ strayed \subseteq Digests
    /\ files \subseteq issued /\ issued \subseteq File /\ IsFiniteSet(issued)
    /\ refs \in [Objects -> Payload]
    /\ \A s \in snapshots : IsSnapshot(s)
    /\ parked \subseteq File
    /\ started \in Nat /\ failed \in BOOLEAN

ProcessType ==
    /\ holder \in [Digests -> Processes \cup {Nobody}]
    /\ pc \in [Processes -> UploadSteps \cup WriterSteps \cup CleanerSteps]
    /\ \A u \in Uploads : pc[u] \in UploadSteps
    /\ \A w \in Writers : pc[w] \in WriterSteps
    /\ \A c \in Cleaners : pc[c] \in CleanerSteps

WorkType ==
    /\ upload \in [Uploads -> Content \cup {None}]
    /\ \A u \in Uploads : pc[u] # "idle" => upload[u] \in Content
    /\ job \in [Writers -> SUBSET Write] /\ left \in [Writers -> SUBSET File]
    /\ cur \in [Writers -> File \cup {None}]
    /\ \A w \in Writers : pc[w] \in {"lock", "check"} => cur[w] \in left[w]
    /\ cand \in [Cleaners -> SUBSET File]
    /\ wanted \in [Cleaners -> SUBSET Digests]
    /\ sweep \in [Cleaners -> SUBSET Digests]
    /\ dead \in [Cleaners -> SUBSET Digests]

TypeOK == StoreType /\ ProcessType /\ WorkType

Init ==
    /\ bytes = {} /\ partial = {} /\ strayed = {}
    /\ files = {} /\ issued = {}
    /\ refs = [x \in Objects |-> None]
    /\ snapshots = {} /\ parked = {}
    /\ holder = [d \in Digests |-> Nobody]
    /\ pc = [p \in Processes |-> "idle"]
    /\ upload = [u \in Uploads |-> None]
    /\ job = [w \in Writers |-> {}] /\ left = [w \in Writers |-> {}]
    /\ cur = [w \in Writers |-> None]
    /\ cand = [c \in Cleaners |-> {}]
    /\ wanted = [c \in Cleaners |-> {}] /\ sweep = [c \in Cleaners |-> {}]
    /\ dead = [c \in Cleaners |-> {}]
    /\ started = 0 /\ failed = FALSE
-----------------------------------------------------------------------------
(* Processes and locks *)

GoTo(p, step) == pc' = [pc EXCEPT ![p] = step]

Release(p) == holder' = [d \in Digests |-> IF holder[d] = p THEN Nobody ELSE holder[d]]
\* An advisory lock is granted to the session that holds it already.
MayLock(p, d) == holder[d] \in {Nobody, p}
Acquire(p, d) == MayLock(p, d) /\ holder' = [holder EXCEPT ![d] = p]

\* Files are addressed by their content alone: owners share the bytes.
Named(d) == \E f \in files : f.digest = d
-----------------------------------------------------------------------------
(* Uploads *)

\* The multipart request arrives; its bytes go to a temporary file.
BeginUpload(u) ==
    /\ pc[u] = "idle" /\ started < MaxUploads
    /\ \E o \in Owners, d \in Digests : upload' = [upload EXCEPT ![u] = [owner |-> o, digest |-> d]]
    /\ started' = started + 1
    /\ partial' = partial \cup {u}
    /\ GoTo(u, "write")
    /\ UNCHANGED <<bytes, strayed, tables, holder, writing, cleaning, failed>>

EndUpload(u) ==
    /\ GoTo(u, "idle")
    /\ upload' = [upload EXCEPT ![u] = None]
    /\ Release(u)
    /\ UNCHANGED <<refs, snapshots, parked, started, writing, cleaning>>

\* A catch block that only destroys the stream.
LeftBehind(u) == partial

\* What the catch block leaves of the temporary files.
Cleared(u) == partial \ {u}

\* Too many bytes, or the stream breaks off.
RejectUpload(u) ==
    /\ pc[u] = "write"
    /\ partial' = Cleared(u)
    /\ EndUpload(u)
    /\ UNCHANGED <<bytes, strayed, files, issued, failed>>

\* The rename needs no lock: identical bytes replace identical bytes.
Publish(u) ==
    /\ pc[u] = "write"
    /\ partial' = partial \ {u}
    /\ bytes' = bytes \cup {upload[u].digest}
    /\ strayed' = strayed \ {upload[u].digest}
    /\ GoTo(u, "lock")
    /\ UNCHANGED <<tables, holder, uploading, writing, cleaning, failed>>

LockUpload(u) ==
    /\ pc[u] = "lock"
    /\ Acquire(u, upload[u].digest)
    /\ GoTo(u, "access")
    /\ UNCHANGED <<disk, tables, uploading, writing, cleaning, failed>>

\* An upload that trusts its own rename.
MayAlwaysInsert(d) == TRUE

\* The bytes must still be there.
MayInsert(d) == d \in bytes

AccessBytes(u) ==
    /\ pc[u] = "access"
    /\ IF MayInsert(upload[u].digest)
       THEN /\ GoTo(u, "insert")
            /\ UNCHANGED <<tables, holder, uploading, writing, cleaning>>
       ELSE EndUpload(u) /\ UNCHANGED <<files, issued>>
    /\ UNCHANGED <<disk, failed>>

\* INSERT ... ON CONFLICT (owner_id, sha256): the row an owner has of a digest stays.
Inserted(content) ==
    IF \E f \in files : f.owner = content.owner /\ f.digest = content.digest THEN {}
    ELSE {[owner |-> content.owner, digest |-> content.digest, serial |-> Cardinality(issued)]}

InsertRow(u) ==
    /\ pc[u] = "insert"
    /\ files' = files \cup Inserted(upload[u])
    /\ issued' = issued \cup Inserted(upload[u])
    /\ EndUpload(u)
    /\ UNCHANGED <<disk, failed>>
-----------------------------------------------------------------------------
(* Writers *)

\* A payload without an upload taken for one.
PayloadsIn(writes) == {p.file : p \in writes}

\* The uploads the payloads refer to.
FilesIn(writes) == {p.file : p \in writes} \ {None}

Begin(w, writes) ==
    /\ pc[w] = "idle"
    /\ job' = [job EXCEPT ![w] = writes]
    /\ left' = [left EXCEPT ![w] = FilesIn(writes)]
    /\ GoTo(w, "look")
    /\ UNCHANGED <<disk, tables, holder, uploading, cur, cleaning, failed>>

\* An operation, or a resolution, that makes an object refer to a file the client
\* was told of at some time.
BeginIngest(w) == \E x \in Objects, f \in issued : Begin(w, {[object |-> x, file |-> f]})
\* A restoration replaces every object of the note.
BeginRestore(w) == \E s \in snapshots : Begin(w, {[object |-> x, file |-> s[x]] : x \in DOMAIN s})

EndWrite(w) ==
    /\ GoTo(w, "idle")
    /\ job' = [job EXCEPT ![w] = {}]
    /\ left' = [left EXCEPT ![w] = {}]
    /\ cur' = [cur EXCEPT ![w] = None]
    /\ Release(w)
    /\ UNCHANGED <<disk, files, issued, snapshots, parked, uploading, cleaning, failed>>

\* SELECT ... WHERE owner_id = $1 AND id = $2
Present(w, f) == f \in files /\ \A p \in job[w] : p.file = f => OwnerOf[p.object] = f.owner

\* The row is looked up for its digest; a missing one aborts the transaction.
LookUp(w) ==
    /\ pc[w] = "look"
    /\ \E f \in left[w] :
        IF Present(w, f)
        THEN /\ cur' = [cur EXCEPT ![w] = f]
             /\ GoTo(w, "lock")
             /\ UNCHANGED <<disk, tables, holder, uploading, job, left, cleaning, failed>>
        ELSE EndWrite(w) /\ UNCHANGED refs

LockFile(w) ==
    /\ pc[w] = "lock"
    /\ Acquire(w, cur[w].digest)
    /\ GoTo(w, "check")
    /\ UNCHANGED <<disk, tables, uploading, writing, cleaning, failed>>

\* A writer content with its first look.
SeenBefore(w) == TRUE

\* The second look, under the lock.
StillPresent(w) == Present(w, cur[w])

CheckFile(w) ==
    /\ pc[w] = "check"
    /\ IF StillPresent(w)
       THEN /\ left' = [left EXCEPT ![w] = @ \ {cur[w]}]
            /\ cur' = [cur EXCEPT ![w] = None]
            /\ GoTo(w, "look")
            /\ UNCHANGED <<disk, tables, holder, uploading, job, cleaning, failed>>
       ELSE EndWrite(w) /\ UNCHANGED refs

\* The payload a transaction leaves an object with.
Written(w, x) ==
    IF \E p \in job[w] : p.object = x THEN (CHOOSE p \in job[w] : p.object = x).file ELSE refs[x]

CommitWrite(w) ==
    /\ pc[w] = "look" /\ left[w] = {}
    /\ refs' = [x \in Objects |-> Written(w, x)]
    /\ EndWrite(w)
-----------------------------------------------------------------------------
(* Statements that take no digest lock; a note's purge is several of them *)

\* A deletion, or an edit that gives an object another payload.
DropReference(x) ==
    /\ refs[x] # None
    /\ refs' = [refs EXCEPT ![x] = None]
    /\ UNCHANGED <<snapshots, parked>>

\* The note's row lock keeps the objects as they are until the snapshot is stored.
TakeSnapshot(o) ==
    /\ Cardinality(snapshots) < MaxSnapshots
    /\ snapshots' = snapshots \cup {[x \in OwnObjects(o) |-> refs[x]]}
    /\ UNCHANGED <<refs, parked>>

ExpireSnapshot ==
    /\ \E s \in snapshots : snapshots' = snapshots \ {s}
    /\ UNCHANGED <<refs, parked>>

\* A conflicting operation is stored as it came: its file is not checked.
Park ==
    /\ Cardinality(parked) < MaxParked
    /\ \E f \in issued : parked' = parked \cup {f}
    /\ UNCHANGED <<refs, snapshots>>

Unpark ==
    /\ \E f \in parked : parked' = parked \ {f}
    /\ UNCHANGED <<refs, snapshots>>

OtherStatements ==
    /\ \/ \E x \in Objects : DropReference(x)
       \/ \E o \in Owners : TakeSnapshot(o)
       \/ ExpireSnapshot \/ Park \/ Unpark
    /\ UNCHANGED <<disk, files, issued, holder, pc, uploading, writing, cleaning, failed>>
-----------------------------------------------------------------------------
(* Cleaners *)

\* Nothing of the file's owner refers to it.
UnreferencedByObjects(f) == \A x \in Objects : OwnerOf[x] = f.owner => refs[x] # f
UnreferencedBySnapshots(f) ==
    \A s \in snapshots : \A x \in DOMAIN s : OwnerOf[x] = f.owner => s[x] # f

Unreferenced(f) == UnreferencedByObjects(f) /\ UnreferencedBySnapshots(f) /\ f \notin parked

Candidates == {f \in files : Unreferenced(f)}

SelectCandidates(c) ==
    /\ pc[c] = "idle"
    /\ cand' = [cand EXCEPT ![c] = Candidates]
    /\ wanted' = [wanted EXCEPT ![c] = {f.digest : f \in Candidates}]
    /\ GoTo(c, "lock")
    /\ UNCHANGED <<disk, tables, holder, uploading, writing, sweep, dead, failed>>

\* Candidates in the order the database happens to return them.
AnyDigest(c) == wanted[c]

\* Candidates are ordered by digest.
NextDigest(c) == {d \in wanted[c] : \A e \in wanted[c] : d <= e}

LockDigest(c) ==
    /\ pc[c] = "lock"
    /\ \E d \in NextDigest(c) :
        /\ Acquire(c, d)
        /\ wanted' = [wanted EXCEPT ![c] = @ \ {d}]
    /\ UNCHANGED <<disk, tables, pc, uploading, writing, cand, sweep, dead, failed>>

\* The rows of a DELETE that asks the question again.
Removable(c) == cand[c] \cap Candidates

DeleteRows(c) ==
    /\ pc[c] = "lock" /\ wanted[c] = {}
    /\ files' = files \ Removable(c)
    /\ sweep' = [sweep EXCEPT ![c] = {f.digest : f \in Removable(c)}]
    /\ cand' = [cand EXCEPT ![c] = {}]
    /\ GoTo(c, "sweep")
    /\ UNCHANGED <<disk, issued, refs, snapshots, parked, holder, uploading, writing, wanted, dead, failed>>

Swept(c, d) == sweep' = [sweep EXCEPT ![c] = @ \ {d}]

\* Bytes another owner's row names stay.
CheckDigest(c) ==
    /\ pc[c] = "sweep" /\ dead[c] = {}
    /\ \E d \in sweep[c] :
        /\ Swept(c, d)
        /\ dead' = [dead EXCEPT ![c] = IF Named(d) THEN {} ELSE {d}]
    /\ UNCHANGED <<disk, tables, holder, pc, uploading, writing, cand, wanted, failed>>

\* The unlink may fail; that is not reported.
Unlink(c) ==
    /\ pc[c] = "sweep" /\ dead[c] # {}
    /\ dead' = [dead EXCEPT ![c] = {}]
    /\ \/ bytes' = bytes \ dead[c] /\ failed' = failed
       \/ bytes' = bytes /\ failed' = TRUE
    /\ UNCHANGED <<partial, strayed, tables, holder, pc, uploading, writing, cand, wanted, sweep>>

EndCleanup(c) ==
    /\ GoTo(c, "idle")
    /\ Release(c)
    /\ cand' = [cand EXCEPT ![c] = {}]
    /\ wanted' = [wanted EXCEPT ![c] = {}]
    /\ sweep' = [sweep EXCEPT ![c] = {}]
    /\ dead' = [dead EXCEPT ![c] = {}]
    /\ UNCHANGED <<tables, uploading, writing>>

Unlock(c) ==
    /\ pc[c] = "sweep" /\ sweep[c] = {} /\ dead[c] = {}
    /\ EndCleanup(c)
    /\ UNCHANGED <<disk, failed>>

\* Without its session a cleaner still unlinks what it found unnamed before; it notices
\* at its next query, which fails.
UnlinkLate(c) ==
    /\ pc[c] = "lost"
    /\ \/ bytes' = bytes \ dead[c] /\ strayed' = strayed \cup dead[c]
       \/ UNCHANGED <<bytes, strayed>>
    /\ EndCleanup(c)
    /\ failed' = TRUE
    /\ UNCHANGED partial
-----------------------------------------------------------------------------
(* A process dies, loses its connection or is the victim of a lock cycle:  *)
(* PostgreSQL rolls its transaction back and releases its locks.           *)

FailUpload(u) ==
    /\ pc[u] # "idle"
    /\ EndUpload(u)
    /\ failed' = TRUE
    /\ UNCHANGED <<disk, files, issued>>

FailWrite(w) == pc[w] # "idle" /\ EndWrite(w) /\ UNCHANGED refs

\* Before its commit a cleaner has done nothing.
FailCleanup(c) ==
    /\ pc[c] # "idle"
    /\ EndCleanup(c)
    /\ failed' = (failed \/ pc[c] # "lock")
    /\ UNCHANGED disk

\* The session ends, its locks with it, between the last look for rows of a digest and
\* the removal of its bytes.
LoseSession(c) ==
    /\ pc[c] = "sweep" /\ dead[c] # {}
    /\ GoTo(c, "lost")
    /\ Release(c)
    /\ sweep' = [sweep EXCEPT ![c] = {}]
    /\ failed' = TRUE
    /\ UNCHANGED <<disk, tables, uploading, writing, cand, wanted, dead>>

Fail ==
    /\ ProcessesDie
    /\ \/ \E u \in Uploads : FailUpload(u)
       \/ \E w \in Writers : FailWrite(w)
       \/ \E c \in Cleaners : FailCleanup(c) \/ LoseSession(c)
-----------------------------------------------------------------------------
Upload(u) ==
    \/ BeginUpload(u) \/ RejectUpload(u) \/ Publish(u)
    \/ LockUpload(u) \/ AccessBytes(u) \/ InsertRow(u)

WriteObjects(w) ==
    \/ BeginIngest(w) \/ BeginRestore(w)
    \/ LookUp(w) \/ LockFile(w) \/ CheckFile(w) \/ CommitWrite(w)

Cleanup(c) ==
    \/ SelectCandidates(c) \/ LockDigest(c) \/ DeleteRows(c)
    \/ CheckDigest(c) \/ Unlink(c) \/ Unlock(c) \/ UnlinkLate(c)

Next ==
    \/ \E u \in Uploads : Upload(u)
    \/ \E w \in Writers : WriteObjects(w)
    \/ \E c \in Cleaners : Cleanup(c)
    \/ OtherStatements
    \/ Fail

Spec == Init /\ [][Next]_vars

\* Cleanup is run again and again, and what was begun goes on.
FairSpec ==
    /\ Spec
    /\ \A c \in Cleaners : WF_vars(Cleanup(c))
    /\ \A u \in Uploads : WF_vars(RejectUpload(u) \/ Publish(u) \/ LockUpload(u) \/ AccessBytes(u) \/ InsertRow(u))
-----------------------------------------------------------------------------
(* Properties *)

\* "They prevent a new metadata row for identical bytes from appearing between the final
\* DB check and unlinking" (cleanup.ts): a committed row's bytes are on disk, whatever
\* becomes of the cleaner's session.
RowsAlwaysHaveBytes == \A f \in files : f.digest \in bytes

\* A committed row's bytes are on disk: no interleaving of an upload with a
\* cleanup of identical bytes, the owner's or another's, leaves a row without them,
\* except an unlink that a cleaner did after its session and its locks were lost
\* (cleanup.ts:181-187), and then only until somebody publishes the bytes again.
RowsHaveBytes == \A f \in files : f.digest \in bytes \cup strayed

\* A live object refers to a file its owner has: cleanup never removes a file
\* that a transaction is about to refer to, and no transaction commits a
\* reference to a file that cleanup removed.
ObjectsHaveFiles ==
    \A x \in Objects : refs[x] # None => refs[x] \in files /\ OwnerOf[x] = refs[x].owner

\* What a stored snapshot refers to can be restored, whatever became of the objects.
SnapshotsHaveFiles ==
    \A s \in snapshots : \A x \in DOMAIN s :
        s[x] # None => s[x] \in files /\ OwnerOf[x] = s[x].owner

\* As long as nothing failed, uploads and cleanups leave no bytes without a
\* row and no temporary file behind.
QuietMeansNoOrphans ==
    ~failed /\ (\A p \in Uploads \cup Cleaners : pc[p] = "idle")
        => partial = {} /\ \A d \in bytes : Named(d)

\* Two cleaners never wait for each other: they lock digests in one order.
CleanersDoNotDeadlock ==
    ~ \E c1, c2 \in Cleaners :
        /\ pc[c1] = "lock" /\ \E d \in NextDigest(c1) : holder[d] = c2
        /\ pc[c2] = "lock" /\ \E d \in NextDigest(c2) : holder[d] = c1
        /\ c1 # c2

\* Bytes whose unlink failed are removed by a later cleanup, or used again.
FailedUnlinkIsRetried ==
    \A d \in Digests :
        (d \in bytes /\ ~Named(d) /\ \A u \in Uploads : pc[u] = "idle")
            ~> (d \notin bytes \/ Named(d))
=============================================================================
