-------------------------- MODULE FileStoreProofs --------------------------
(***************************************************************************)
(* Proofs about FileStore for any owners, objects and digests, and any     *)
(* number of uploads, writers and cleaners.                                *)
(***************************************************************************)
EXTENDS FileStore, FiniteSetTheorems, TLAPS

-----------------------------------------------------------------------------
(* Type correctness *)

\* Uploads, writers and cleaners are different processes.
LEMMA ProcessesApart ==
    /\ \A u \in Uploads : u \in Processes /\ u \notin Writers /\ u \notin Cleaners
    /\ \A w \in Writers : w \in Processes /\ w \notin Uploads /\ w \notin Cleaners
    /\ \A c \in Cleaners : c \in Processes /\ c \notin Uploads /\ c \notin Writers
BY ProcessesDiffer DEF Processes

\* What a process that goes to a step of its kind leaves of the types.
LEMMA GoToType ==
    ASSUME ProcessType, NEW p \in Processes, NEW step, GoTo(p, step),
           p \in Uploads => step \in UploadSteps,
           p \in Writers => step \in WriterSteps,
           p \in Cleaners => step \in CleanerSteps,
           holder' \in [Digests -> Processes \cup {Nobody}]
    PROVE  ProcessType' /\ pc' = [pc EXCEPT ![p] = step] /\ pc'[p] = step
           /\ \A q \in Processes : q # p => pc'[q] = pc[q]
<1>1. step \in UploadSteps \cup WriterSteps \cup CleanerSteps
  BY DEF Processes
<1>2. pc' \in [Processes -> UploadSteps \cup WriterSteps \cup CleanerSteps]
  BY <1>1 DEF GoTo, ProcessType
<1>3. pc' = [pc EXCEPT ![p] = step] /\ pc'[p] = step /\ \A q \in Processes : q # p => pc'[q] = pc[q]
  BY DEF GoTo, ProcessType
<1> QED
  BY <1>2, <1>3 DEF ProcessType, Processes

LEMMA LocksType ==
    ASSUME ProcessType, NEW p \in Processes
    PROVE  /\ Release(p) => holder' \in [Digests -> Processes \cup {Nobody}]
           /\ \A d \in Digests : Acquire(p, d) => holder' \in [Digests -> Processes \cup {Nobody}]
BY DEF ProcessType, Release, Acquire

\* A row the database inserts is a row of the table.
LEMMA InsertedType ==
    ASSUME StoreType, NEW content \in Content
    PROVE  /\ Inserted(content) \subseteq File
           /\ IsFiniteSet(issued \cup Inserted(content))
<1>1. Cardinality(issued) \in Nat
  BY FS_CardinalityType DEF StoreType
<1>2. CASE Inserted(content) = {}
  BY <1>2 DEF StoreType
<1>3. CASE Inserted(content) = {[owner |-> content.owner, digest |-> content.digest,
serial |-> Cardinality(issued)]}
  <2>1. [owner |-> content.owner, digest |-> content.digest, serial |-> Cardinality(issued)] \in File
    BY <1>1 DEF Content, File
  <2>2. IsFiniteSet(issued \cup Inserted(content))
    BY <1>3, FS_AddElement DEF StoreType
  <2> QED
    BY <1>3, <2>1, <2>2
<1> QED
  BY <1>2, <1>3 DEF Inserted

LEMMA EndUploadType ==
    ASSUME TypeOK, NEW u \in Uploads, EndUpload(u)
    PROVE  ProcessType' /\ WorkType' /\ UNCHANGED <<refs, snapshots, parked, started>>
<1>1. holder' \in [Digests -> Processes \cup {Nobody}]
  BY LocksType, ProcessesApart DEF TypeOK, EndUpload
<1>2. ProcessType' /\ pc'[u] = "idle" /\ \A q \in Processes : q # u => pc'[q] = pc[q]
  BY <1>1, GoToType, ProcessesApart DEF TypeOK, EndUpload, UploadSteps
<1>3. /\ upload' \in [Uploads -> Content \cup {None}]
      /\ \A v \in Uploads : pc'[v] # "idle" => upload'[v] \in Content
  BY <1>2, ProcessesApart DEF TypeOK, WorkType, EndUpload
<1>4. \A w \in Writers : pc'[w] = pc[w]
  BY <1>2, ProcessesApart
<1> QED
  BY <1>2, <1>3, <1>4 DEF TypeOK, WorkType, EndUpload, writing, cleaning

LEMMA UploadType ==
    ASSUME TypeOK, NEW u \in Uploads, Upload(u)
    PROVE  TypeOK'
<1>1. CASE BeginUpload(u)
  <2>1. ProcessType' /\ pc'[u] = "write" /\ \A q \in Processes : q # u => pc'[q] = pc[q]
    BY <1>1, GoToType, ProcessesApart DEF TypeOK, BeginUpload, UploadSteps, ProcessType
  <2>2. /\ upload' \in [Uploads -> Content \cup {None}]
        /\ \A v \in Uploads : pc'[v] # "idle" => upload'[v] \in Content
    BY <1>1, <2>1, ProcessesApart DEF TypeOK, WorkType, BeginUpload, Content
  <2>3. \A w \in Writers : pc'[w] = pc[w]
    BY <2>1, ProcessesApart
  <2>4. StoreType'
    BY <1>1 DEF TypeOK, StoreType, BeginUpload, tables
  <2> QED
    BY <1>1, <2>1, <2>2, <2>3, <2>4 DEF TypeOK, WorkType, BeginUpload, writing, cleaning
<1>2. CASE RejectUpload(u)
  <2>1. StoreType'
    BY <1>2, EndUploadType DEF TypeOK, StoreType, RejectUpload, Cleared
  <2> QED
    BY <1>2, <2>1, EndUploadType DEF TypeOK, RejectUpload
<1>3. CASE InsertRow(u)
  <2>1. upload[u] \in Content
    BY <1>3 DEF TypeOK, WorkType, InsertRow
  <2>2. StoreType'
    BY <1>3, <2>1, EndUploadType, InsertedType DEF TypeOK, StoreType, InsertRow, disk
  <2> QED
    BY <1>3, <2>2, EndUploadType DEF TypeOK, InsertRow
<1>4. ASSUME NEW step \in UploadSteps, GoTo(u, step), pc[u] # "idle",
             holder' \in [Digests -> Processes \cup {Nobody}], UNCHANGED <<uploading, writing, cleaning>>
      PROVE  ProcessType' /\ WorkType'
  <2>1. ProcessType' /\ pc'[u] = step /\ \A q \in Processes : q # u => pc'[q] = pc[q]
    BY <1>4, GoToType, ProcessesApart DEF TypeOK
  <2>2. /\ \A v \in Uploads : pc'[v] # "idle" => upload[v] \in Content
        /\ \A w \in Writers : pc'[w] = pc[w]
    BY <1>4, <2>1, ProcessesApart DEF TypeOK, WorkType
  <2> QED
    BY <1>4, <2>1, <2>2 DEF TypeOK, WorkType, uploading, writing, cleaning
<1>5. CASE Publish(u)
  <2>1. upload[u].digest \in Digests
    BY <1>5 DEF TypeOK, WorkType, Publish, Content
  <2>2. StoreType'
    BY <1>5, <2>1 DEF TypeOK, StoreType, Publish, tables, uploading
  <2>3. holder' \in [Digests -> Processes \cup {Nobody}]
    BY <1>5 DEF TypeOK, ProcessType, Publish
  <2> QED
    BY <1>5, <1>4, <2>2, <2>3 DEF TypeOK, Publish, UploadSteps
<1>6. CASE LockUpload(u)
  <2>1. upload[u].digest \in Digests
    BY <1>6 DEF TypeOK, WorkType, LockUpload, Content
  <2>2. holder' \in [Digests -> Processes \cup {Nobody}]
    BY <1>6, <2>1, LocksType, ProcessesApart DEF TypeOK, LockUpload
  <2>3. StoreType'
    BY <1>6 DEF TypeOK, StoreType, LockUpload, disk, tables, uploading
  <2> QED
    BY <1>6, <1>4, <2>2, <2>3 DEF TypeOK, LockUpload, UploadSteps
<1>7. CASE AccessBytes(u)
  <2>1. StoreType'
    BY <1>7 DEF TypeOK, StoreType, AccessBytes, EndUpload, disk, tables, uploading
  <2>2. CASE EndUpload(u)
    BY <2>1, <2>2, EndUploadType DEF TypeOK
  <2>3. CASE GoTo(u, "insert") /\ UNCHANGED <<tables, holder, uploading, writing, cleaning>>
    <3>1. holder' \in [Digests -> Processes \cup {Nobody}]
      BY <2>3 DEF TypeOK, ProcessType
    <3> QED
      BY <1>4, <1>7, <2>1, <2>3, <3>1 DEF TypeOK, AccessBytes, UploadSteps
  <2> QED
    BY <1>7, <2>2, <2>3 DEF AccessBytes
<1> QED
  BY <1>1, <1>2, <1>3, <1>5, <1>6, <1>7 DEF Upload

\* A writer's step leaves the uploads and the cleaners alone.
LEMMA StepOfWriter ==
    ASSUME TypeOK, NEW w \in Writers, NEW step \in WriterSteps, GoTo(w, step),
           holder' \in [Digests -> Processes \cup {Nobody}],
           UNCHANGED <<uploading, cleaning>>,
           job' \in [Writers -> SUBSET Write], left' \in [Writers -> SUBSET File],
           cur' \in [Writers -> File \cup {None}],
           \A v \in Writers : v # w => left'[v] = left[v] /\ cur'[v] = cur[v],
           step \in {"lock", "check"} => cur'[w] \in left'[w]
    PROVE  ProcessType' /\ WorkType'
<1>1. ProcessType' /\ pc'[w] = step /\ \A q \in Processes : q # w => pc'[q] = pc[q]
  BY GoToType, ProcessesApart DEF TypeOK
<1>2. \A v \in Writers : pc'[v] \in {"lock", "check"} => cur'[v] \in left'[v]
  BY <1>1, ProcessesApart DEF TypeOK, WorkType
<1>3. \A u \in Uploads : pc'[u] = pc[u]
  BY <1>1, ProcessesApart
<1> QED
  BY <1>1, <1>2, <1>3 DEF TypeOK, WorkType, uploading, cleaning

LEMMA EndWriteType ==
    ASSUME TypeOK, NEW w \in Writers, EndWrite(w)
    PROVE  ProcessType' /\ WorkType'
<1>1. holder' \in [Digests -> Processes \cup {Nobody}]
  BY LocksType, ProcessesApart DEF TypeOK, EndWrite
<1>2. /\ job' \in [Writers -> SUBSET Write] /\ left' \in [Writers -> SUBSET File]
      /\ cur' \in [Writers -> File \cup {None}]
      /\ \A v \in Writers : v # w => left'[v] = left[v] /\ cur'[v] = cur[v]
  BY DEF TypeOK, WorkType, EndWrite
<1> QED
  BY <1>1, <1>2, StepOfWriter DEF EndWrite, WriterSteps

LEMMA BeginType ==
    ASSUME TypeOK, NEW w \in Writers, NEW writes \in SUBSET Write, Begin(w, writes)
    PROVE  TypeOK'
<1>1. FilesIn(writes) \subseteq File
  BY DEF FilesIn, Write, Payload
<1>2. /\ job' \in [Writers -> SUBSET Write] /\ left' \in [Writers -> SUBSET File]
      /\ cur' \in [Writers -> File \cup {None}]
      /\ \A v \in Writers : v # w => left'[v] = left[v] /\ cur'[v] = cur[v]
  BY <1>1 DEF TypeOK, WorkType, Begin
<1>3. holder' \in [Digests -> Processes \cup {Nobody}]
  BY DEF TypeOK, ProcessType, Begin
<1>4. ProcessType' /\ WorkType'
  BY <1>2, <1>3, StepOfWriter DEF Begin, WriterSteps
<1>5. StoreType'
  BY DEF TypeOK, StoreType, Begin, disk, tables, uploading
<1> QED
  BY <1>4, <1>5 DEF TypeOK

\* What is written to an object is a payload.
LEMMA WrittenType ==
    ASSUME TypeOK, NEW w \in Writers, NEW x \in Objects
    PROVE  Written(w, x) \in Payload
<1>1. job[w] \subseteq Write /\ refs[x] \in Payload
  BY DEF TypeOK, StoreType, WorkType
<1>2. CASE \E p \in job[w] : p.object = x
  <2>1. (CHOOSE p \in job[w] : p.object = x) \in job[w]
    BY <1>2
  <2> QED
    BY <1>1, <1>2, <2>1 DEF Written, Write
<1> QED
  BY <1>1, <1>2 DEF Written

LEMMA WriterType ==
    ASSUME TypeOK, NEW w \in Writers, WriteObjects(w)
    PROVE  TypeOK'
<1>1. CASE BeginIngest(w)
  <2>1. PICK x \in Objects, f \in issued : Begin(w, {[object |-> x, file |-> f]})
    BY <1>1 DEF BeginIngest
  <2>2. {[object |-> x, file |-> f]} \in SUBSET Write
    BY DEF TypeOK, StoreType, Write, Payload
  <2> QED
    BY <2>1, <2>2, BeginType
<1>2. CASE BeginRestore(w)
  <2>1. PICK s \in snapshots : Begin(w, {[object |-> x, file |-> s[x]] : x \in DOMAIN s})
    BY <1>2 DEF BeginRestore
  <2>2. DOMAIN s \subseteq Objects /\ \A x \in DOMAIN s : s[x] \in Payload
    BY DEF TypeOK, StoreType, IsSnapshot, OwnObjects
  <2>3. {[object |-> x, file |-> s[x]] : x \in DOMAIN s} \in SUBSET Write
    BY <2>2 DEF Write
  <2> QED
    BY <2>1, <2>3, BeginType
<1>3. ASSUME EndWrite(w), UNCHANGED refs
      PROVE  TypeOK'
  BY <1>3, EndWriteType DEF TypeOK, StoreType, EndWrite, disk, uploading
<1>4. CASE LookUp(w)
  <2>1. PICK f \in left[w] :
          \/ /\ cur' = [cur EXCEPT ![w] = f]
             /\ GoTo(w, "lock")
             /\ UNCHANGED <<disk, tables, holder, uploading, job, left, cleaning, failed>>
          \/ EndWrite(w) /\ UNCHANGED refs
    BY <1>4 DEF LookUp
  <2>2. CASE GoTo(w, "lock") /\ cur' = [cur EXCEPT ![w] = f]
             /\ UNCHANGED <<disk, tables, holder, uploading, job, left, cleaning, failed>>
    <3>1. StoreType'
      BY <2>2 DEF TypeOK, StoreType, disk, tables, uploading
    <3>2. /\ job' \in [Writers -> SUBSET Write] /\ left' \in [Writers -> SUBSET File]
          /\ cur' \in [Writers -> File \cup {None}] /\ cur'[w] \in left'[w]
          /\ \A v \in Writers : v # w => left'[v] = left[v] /\ cur'[v] = cur[v]
          /\ holder' \in [Digests -> Processes \cup {Nobody}]
      BY <2>2 DEF TypeOK, WorkType, ProcessType
    <3> QED
      BY <2>2, <3>1, <3>2, StepOfWriter DEF TypeOK, WriterSteps
  <2> QED
    BY <1>3, <2>1, <2>2
<1>5. CASE LockFile(w)
  <2>1. cur[w] \in left[w] /\ cur[w] \in File
    BY <1>5 DEF TypeOK, WorkType, LockFile
  <2>2. holder' \in [Digests -> Processes \cup {Nobody}]
    BY <1>5, <2>1, LocksType, ProcessesApart DEF TypeOK, LockFile, File
  <2>3. StoreType'
    BY <1>5 DEF TypeOK, StoreType, LockFile, disk, tables, uploading
  <2>4. /\ job' \in [Writers -> SUBSET Write] /\ left' \in [Writers -> SUBSET File]
        /\ cur' \in [Writers -> File \cup {None}] /\ cur'[w] \in left'[w]
        /\ \A v \in Writers : v # w => left'[v] = left[v] /\ cur'[v] = cur[v]
    BY <1>5, <2>1 DEF TypeOK, WorkType, LockFile, writing
  <2> QED
    BY <1>5, <2>2, <2>3, <2>4, StepOfWriter DEF TypeOK, LockFile, WriterSteps
<1>6. CASE CheckFile(w)
  <2>1. CASE EndWrite(w) /\ UNCHANGED refs
    BY <1>3, <2>1
  <2>2. CASE /\ left' = [left EXCEPT ![w] = @ \ {cur[w]}]
             /\ cur' = [cur EXCEPT ![w] = None]
             /\ GoTo(w, "look")
             /\ UNCHANGED <<disk, tables, holder, uploading, job, cleaning, failed>>
    <3>1. StoreType'
      BY <2>2 DEF TypeOK, StoreType, disk, tables, uploading
    <3>2. /\ job' \in [Writers -> SUBSET Write] /\ left' \in [Writers -> SUBSET File]
          /\ cur' \in [Writers -> File \cup {None}]
          /\ \A v \in Writers : v # w => left'[v] = left[v] /\ cur'[v] = cur[v]
          /\ holder' \in [Digests -> Processes \cup {Nobody}]
      BY <2>2 DEF TypeOK, WorkType, ProcessType
    <3> QED
      BY <2>2, <3>1, <3>2, StepOfWriter DEF TypeOK, WriterSteps
  <2> QED
    BY <1>6, <2>1, <2>2 DEF CheckFile
<1>7. CASE CommitWrite(w)
  <2>1. refs' \in [Objects -> Payload]
    BY <1>7, WrittenType DEF CommitWrite
  <2>2. StoreType'
    BY <1>7, <2>1 DEF TypeOK, StoreType, CommitWrite, EndWrite, disk, uploading
  <2> QED
    BY <1>7, <2>2, EndWriteType DEF TypeOK, CommitWrite
<1> QED
  BY <1>1, <1>2, <1>4, <1>5, <1>6, <1>7 DEF WriteObjects

\* A step that leaves the uploads and the writers alone.
LEMMA StepOfCleaner ==
    ASSUME TypeOK, NEW c \in Cleaners, NEW step \in CleanerSteps,
           GoTo(c, step) \/ UNCHANGED pc,
           holder' \in [Digests -> Processes \cup {Nobody}],
           UNCHANGED <<uploading, writing>>,
           cand' \in [Cleaners -> SUBSET File],
           wanted' \in [Cleaners -> SUBSET Digests],
           sweep' \in [Cleaners -> SUBSET Digests], dead' \in [Cleaners -> SUBSET Digests]
    PROVE  ProcessType' /\ WorkType'
<1>1. ProcessType' /\ \A q \in Processes : q # c => pc'[q] = pc[q]
  BY GoToType, ProcessesApart DEF TypeOK, ProcessType
<1>2. (\A u \in Uploads : pc'[u] = pc[u]) /\ (\A w \in Writers : pc'[w] = pc[w])
  BY <1>1, ProcessesApart
<1> QED
  BY <1>1, <1>2 DEF TypeOK, WorkType, uploading, writing

LEMMA EndCleanupType ==
    ASSUME TypeOK, NEW c \in Cleaners, EndCleanup(c)
    PROVE  ProcessType' /\ WorkType'
<1>1. holder' \in [Digests -> Processes \cup {Nobody}]
  BY LocksType, ProcessesApart DEF TypeOK, EndCleanup
<1>2. /\ cand' \in [Cleaners -> SUBSET File]
      /\ wanted' \in [Cleaners -> SUBSET Digests]
      /\ sweep' \in [Cleaners -> SUBSET Digests] /\ dead' \in [Cleaners -> SUBSET Digests]
  BY DEF TypeOK, WorkType, EndCleanup
<1> QED
  BY <1>1, <1>2, StepOfCleaner DEF EndCleanup, CleanerSteps

LEMMA CandidatesType ==
    ASSUME StoreType
    PROVE  Candidates \subseteq files /\ Candidates \subseteq File
           /\ {f.digest : f \in Candidates} \subseteq Digests
<1>1. Candidates \subseteq files /\ Candidates \subseteq File
  BY DEF Candidates, StoreType
<1> QED
  BY <1>1 DEF File

LEMMA CleanerType ==
    ASSUME TypeOK, NEW c \in Cleaners, Cleanup(c)
    PROVE  TypeOK'
<1> DEFINE CleaningType ==
      /\ cand \in [Cleaners -> SUBSET File]
      /\ wanted \in [Cleaners -> SUBSET Digests]
      /\ sweep \in [Cleaners -> SUBSET Digests] /\ dead \in [Cleaners -> SUBSET Digests]
<1>1. CleaningType /\ holder \in [Digests -> Processes \cup {Nobody}]
  BY DEF TypeOK, WorkType, ProcessType
<1>2. CASE SelectCandidates(c)
  <2>1. CleaningType'
    BY <1>1, <1>2, CandidatesType DEF SelectCandidates, TypeOK
  <2>2. StoreType'
    BY <1>2 DEF TypeOK, StoreType, SelectCandidates, disk, tables, uploading
  <2> QED
    BY <1>1, <1>2, <2>1, <2>2, StepOfCleaner DEF TypeOK, SelectCandidates, CleanerSteps
<1>3. CASE LockDigest(c)
  <2>1. PICK d \in NextDigest(c) : Acquire(c, d) /\ wanted' = [wanted EXCEPT ![c] = @ \ {d}]
    BY <1>3 DEF LockDigest
  <2>2. d \in Digests
    BY <1>1 DEF NextDigest
  <2>3. holder' \in [Digests -> Processes \cup {Nobody}]
    BY <2>1, <2>2, LocksType, ProcessesApart DEF TypeOK
  <2>4. CleaningType'
    BY <1>1, <1>3, <2>1 DEF LockDigest
  <2>5. StoreType'
    BY <1>3 DEF TypeOK, StoreType, LockDigest, disk, tables, uploading
  <2> QED
    BY <1>3, <2>3, <2>4, <2>5, StepOfCleaner DEF TypeOK, LockDigest, CleanerSteps
<1>4. CASE DeleteRows(c)
  <2>1. {f.digest : f \in Removable(c)} \subseteq Digests
    BY CandidatesType DEF TypeOK, Removable
  <2>2. CleaningType'
    BY <1>1, <1>4, <2>1 DEF DeleteRows
  <2>3. StoreType'
    BY <1>4 DEF TypeOK, StoreType, DeleteRows, disk, uploading
  <2> QED
    BY <1>1, <1>4, <2>2, <2>3, StepOfCleaner DEF TypeOK, DeleteRows, CleanerSteps
<1>5. CASE CheckDigest(c)
  <2>1. PICK d \in sweep[c] : Swept(c, d) /\ dead' = [dead EXCEPT ![c] = IF Named(d) THEN {} ELSE {d}]
    BY <1>5 DEF CheckDigest
  <2>2. CleaningType'
    BY <1>1, <1>5, <2>1 DEF CheckDigest, Swept
  <2>3. StoreType'
    BY <1>5 DEF TypeOK, StoreType, CheckDigest, disk, tables, uploading
  <2> QED
    BY <1>1, <1>5, <2>2, <2>3, StepOfCleaner DEF TypeOK, CheckDigest, CleanerSteps
<1>6. CASE Unlink(c)
  <2>1. CleaningType'
    BY <1>1, <1>6 DEF Unlink
  <2>2. StoreType'
    BY <1>6 DEF TypeOK, StoreType, Unlink, tables, uploading
  <2> QED
    BY <1>1, <1>6, <2>1, <2>2, StepOfCleaner DEF TypeOK, Unlink, CleanerSteps
<1>7. CASE Unlock(c)
  <2>1. StoreType'
    BY <1>7 DEF TypeOK, StoreType, Unlock, EndCleanup, disk, tables, uploading
  <2> QED
    BY <1>7, <2>1, EndCleanupType DEF TypeOK, Unlock
<1>8. CASE UnlinkLate(c)
  <2>1. StoreType'
    BY <1>1, <1>8 DEF TypeOK, StoreType, UnlinkLate, EndCleanup, tables, uploading
  <2> QED
    BY <1>8, <2>1, EndCleanupType DEF TypeOK, UnlinkLate
<1> QED
  BY <1>2, <1>3, <1>4, <1>5, <1>6, <1>7, <1>8 DEF Cleanup

LEMMA OtherType ==
    ASSUME TypeOK, OtherStatements
    PROVE  TypeOK'
<1>1. ProcessType' /\ WorkType'
  BY DEF TypeOK, ProcessType, WorkType, OtherStatements, uploading, writing, cleaning
<1>2. refs' \in [Objects -> Payload] /\ parked' \subseteq File
  <2>1. CASE \E x \in Objects : DropReference(x)
    BY <2>1 DEF TypeOK, StoreType, DropReference, Payload
  <2>2. CASE Park \/ Unpark
    BY <2>2 DEF TypeOK, StoreType, Park, Unpark
  <2>3. CASE ExpireSnapshot \/ \E o \in Owners : TakeSnapshot(o)
    BY <2>3 DEF TypeOK, StoreType, ExpireSnapshot, TakeSnapshot
  <2> QED
    BY <2>1, <2>2, <2>3 DEF OtherStatements
<1>3. \A s \in snapshots' : IsSnapshot(s)
  <2>1. ASSUME NEW o \in Owners
        PROVE  IsSnapshot([x \in OwnObjects(o) |-> refs[x]])
    BY DEF TypeOK, StoreType, IsSnapshot, OwnObjects
  <2>2. snapshots' \subseteq snapshots \cup {[x \in OwnObjects(o) |-> refs[x]] : o \in Owners}
    BY DEF OtherStatements, DropReference, Park, Unpark, ExpireSnapshot, TakeSnapshot
  <2> QED
    BY <2>1, <2>2 DEF TypeOK, StoreType
<1>4. StoreType'
  BY <1>2, <1>3 DEF TypeOK, StoreType, OtherStatements, disk, uploading
<1> QED
  BY <1>1, <1>4 DEF TypeOK

LEMMA FailType ==
    ASSUME TypeOK, Fail
    PROVE  TypeOK'
<1>1. ASSUME NEW u \in Uploads, FailUpload(u)
      PROVE  TypeOK'
  BY <1>1, EndUploadType DEF TypeOK, StoreType, FailUpload, disk
<1>2. ASSUME NEW w \in Writers, FailWrite(w)
      PROVE  TypeOK'
  BY <1>2, EndWriteType DEF TypeOK, StoreType, FailWrite, EndWrite, disk, uploading
<1>3. ASSUME NEW c \in Cleaners, FailCleanup(c)
      PROVE  TypeOK'
  <2>1. StoreType'
    BY <1>3 DEF TypeOK, StoreType, FailCleanup, EndCleanup, disk, tables, uploading
  <2> QED
    BY <1>3, <2>1, EndCleanupType DEF TypeOK, FailCleanup
<1>4. ASSUME NEW c \in Cleaners, LoseSession(c)
      PROVE  TypeOK'
  <2>1. holder' \in [Digests -> Processes \cup {Nobody}]
    BY <1>4, LocksType, ProcessesApart DEF TypeOK, LoseSession
  <2>2. StoreType' /\ sweep' \in [Cleaners -> SUBSET Digests]
    BY <1>4 DEF TypeOK, StoreType, WorkType, LoseSession, disk, tables, uploading
  <2> QED
    BY <1>4, <2>1, <2>2, StepOfCleaner DEF TypeOK, WorkType, LoseSession, CleanerSteps
<1> QED
  BY <1>1, <1>2, <1>3, <1>4 DEF Fail

LEMMA TypesInit == Init => TypeOK
<1> SUFFICES ASSUME Init PROVE TypeOK
  OBVIOUS
<1>1. StoreType
  BY FS_EmptySet DEF Init, StoreType, Payload
<1>2. ProcessType
  BY DEF Init, ProcessType, Processes, UploadSteps, WriterSteps, CleanerSteps
<1>3. WorkType
  BY ProcessesApart DEF Init, WorkType
<1> QED
  BY <1>1, <1>2, <1>3 DEF TypeOK

LEMMA TypesStep == TypeOK /\ [Next]_vars => TypeOK'
<1> SUFFICES ASSUME TypeOK, [Next]_vars PROVE TypeOK'
  OBVIOUS
<1>1. CASE UNCHANGED vars
  BY <1>1 DEF TypeOK, StoreType, ProcessType, WorkType, vars, disk, tables, uploading, writing,
     cleaning
<1> QED
  BY <1>1, UploadType, WriterType, CleanerType, OtherType, FailType DEF Next

\* Disk, tables, locks and every process's work keep their types.
THEOREM FileTypes == Spec => []TypeOK
BY TypesInit, TypesStep, PTL DEF Spec
-----------------------------------------------------------------------------
(* The locks keep rows, bytes and references together *)

\* From its second look on, an upload holds the lock of its digest; once it has
\* seen the bytes they stay, unless they stray.
UploadHolds(u) ==
    /\ pc[u] \in {"access", "insert"} => holder[upload[u].digest] = u
    /\ pc[u] = "insert" => upload[u].digest \in bytes \cup strayed

\* A writer holds the lock of every file it has checked, its own owner's and present.
WriterHolds(w) ==
    /\ pc[w] = "idle" => job[w] = {}
    /\ pc[w] = "check" => holder[cur[w].digest] = w
    /\ \A p \in job[w] : p.file # None /\ p.file \notin left[w] =>
          p.file \in files /\ OwnerOf[p.object] = p.file.owner /\ holder[p.file.digest] = w

\* A cleaner holds the lock of every candidate's digest before it deletes rows and
\* of every digest it still has to see to afterwards; a digest it is about to
\* unlink has no row, as long as it has its session.
CleanerHolds(c) ==
    /\ \A f \in cand[c] : f.digest \in wanted[c] \/ holder[f.digest] = c
    /\ \A d \in sweep[c] : holder[d] = c
    /\ pc[c] = "sweep" => \A d \in dead[c] : holder[d] = c /\ ~Named(d)
    /\ pc[c] # "lock" => cand[c] = {} /\ wanted[c] = {}
    /\ pc[c] # "sweep" => sweep[c] = {}
    /\ pc[c] \notin {"sweep", "lost"} => dead[c] = {}

LocksAreHeld ==
    /\ \A u \in Uploads : UploadHolds(u)
    /\ \A w \in Writers : WriterHolds(w)
    /\ \A c \in Cleaners : CleanerHolds(c)

\* A cleaner's step, whether it goes on or fails.
CleanerMoves(c) == Cleanup(c) \/ FailCleanup(c) \/ LoseSession(c)

FilesAreKept == RowsHaveBytes /\ ObjectsHaveFiles /\ SnapshotsHaveFiles

LockInv == TypeOK /\ LocksAreHeld /\ FilesAreKept

\* A process that takes or gives back locks takes none away from the others.
LEMMA OthersKeepLocks ==
    ASSUME TypeOK, NEW p \in Processes,
           \/ Release(p) \/ UNCHANGED holder
           \/ \E d \in Digests : Acquire(p, d)
    PROVE  \A q \in Processes, d \in Digests : q # p /\ holder[d] = q => holder'[d] = q
<1>1. \A d \in Digests : holder[d] \in Processes \cup {Nobody}
  BY DEF TypeOK, ProcessType
<1>2. CASE Release(p)
  BY <1>2 DEF Release
<1>3. CASE \E d \in Digests : Acquire(p, d)
  <2>1. PICK d \in Digests : holder[d] \in {Nobody, p} /\ holder' = [holder EXCEPT ![d] = p]
    BY <1>3 DEF Acquire, MayLock
  <2> QED
    BY <2>1, NobodyIsNoProcess DEF TypeOK, ProcessType
<1> QED
  BY <1>2, <1>3

\* The process that takes a lock has it, and keeps those it had.
LEMMA AcquireHolds ==
    ASSUME TypeOK, NEW p \in Processes, NEW d \in Digests, Acquire(p, d)
    PROVE  holder'[d] = p /\ \A e \in Digests : holder[e] = p => holder'[e] = p
BY DEF TypeOK, ProcessType, Acquire

\* What the invariant says of a process that does not move depends on.
LEMMA UploadsFrame ==
    ASSUME TypeOK, LocksAreHeld, NEW u \in Uploads,
           pc'[u] = pc[u] /\ upload'[u] = upload[u],
           \A d \in Digests : holder[d] = u => holder'[d] = u /\ (d \in bytes \cup strayed => d \in (bytes \cup strayed)')
    PROVE  UploadHolds(u)'
<1>1. pc[u] # "idle" => upload[u].digest \in Digests
  BY DEF TypeOK, WorkType, Content
<1> QED
  BY <1>1 DEF LocksAreHeld, UploadHolds

LEMMA WritersFrame ==
    ASSUME TypeOK, LocksAreHeld, NEW w \in Writers,
           pc'[w] = pc[w] /\ job'[w] = job[w] /\ left'[w] = left[w] /\ cur'[w] = cur[w],
           \A d \in Digests : holder[d] = w => holder'[d] = w,
           \A f \in files : holder[f.digest] = w => f \in files'
    PROVE  WriterHolds(w)'
<1>1. pc[w] = "check" => cur[w].digest \in Digests
  BY DEF TypeOK, WorkType, File
<1>2. \A p \in job[w] : p.file # None => p.file.digest \in Digests
  BY DEF TypeOK, WorkType, Write, Payload, File
<1> QED
  BY <1>1, <1>2 DEF LocksAreHeld, WriterHolds

LEMMA CleanersFrame ==
    ASSUME TypeOK, LocksAreHeld, NEW c \in Cleaners,
           pc'[c] = pc[c] /\ cand'[c] = cand[c] /\ wanted'[c] = wanted[c],
           sweep'[c] = sweep[c] /\ dead'[c] = dead[c],
           \A d \in Digests : holder[d] = c => holder'[d] = c /\ (Named(d)' => Named(d))
    PROVE  CleanerHolds(c)'
<1>1. (\A f \in cand[c] : f.digest \in Digests) /\ sweep[c] \cup dead[c] \subseteq Digests
  BY DEF TypeOK, WorkType, File
<1> QED
  BY <1>1 DEF LocksAreHeld, CleanerHolds

LEMMA UploadKeeps ==
    ASSUME LockInv, NEW u \in Uploads, Upload(u) \/ FailUpload(u)
    PROVE  LocksAreHeld' /\ FilesAreKept'
<1>1. /\ TypeOK /\ LocksAreHeld /\ FilesAreKept
      /\ UNCHANGED <<refs, snapshots, writing, cleaning>>
      /\ \A q \in Processes : q # u => pc'[q] = pc[q]
      /\ \A v \in Uploads : v # u => upload'[v] = upload[v]
      /\ bytes \cup strayed \subseteq (bytes \cup strayed)' /\ files \subseteq files'
  BY DEF LockInv, TypeOK, ProcessType, WorkType, Upload, BeginUpload, RejectUpload, Publish,
     LockUpload,
         AccessBytes, InsertRow, FailUpload, EndUpload, GoTo, disk, tables, uploading
<1>2. pc[u] # "idle" => upload[u] \in Content /\ upload[u].digest \in Digests /\ upload[u].owner \in Owners
  BY <1>1 DEF TypeOK, WorkType, Content
<1>3. Release(u) \/ UNCHANGED holder \/ \E d \in Digests : Acquire(u, d)
  BY <1>2 DEF Upload, BeginUpload, RejectUpload, Publish, LockUpload, AccessBytes, InsertRow,
     FailUpload,
              EndUpload
<1>4. \A q \in Processes, d \in Digests : q # u /\ holder[d] = q => holder'[d] = q
  BY <1>1, <1>3, OthersKeepLocks, ProcessesApart
<1>5. \A f \in files' : f \in files \/ (pc[u] = "insert" /\ f.digest = upload[u].digest)
  <2>1. CASE InsertRow(u)
    BY <2>1 DEF InsertRow, Inserted
  <2>2. CASE ~InsertRow(u)
    BY <2>2 DEF Upload, BeginUpload, RejectUpload, Publish, LockUpload, AccessBytes, FailUpload,
       tables
  <2> QED
    BY <2>1, <2>2
<1>6. RowsHaveBytes'
  BY <1>1, <1>5 DEF FilesAreKept, RowsHaveBytes, LocksAreHeld, UploadHolds
<1>7. ObjectsHaveFiles' /\ SnapshotsHaveFiles'
  BY <1>1 DEF FilesAreKept, ObjectsHaveFiles, SnapshotsHaveFiles
<1>8. UploadHolds(u)'
  <2>1. CASE LockUpload(u)
    <3>1. holder'[upload[u].digest] = u /\ upload' = upload /\ pc'[u] = "access"
      BY <1>1, <1>2, <2>1, AcquireHolds, ProcessesApart DEF LockUpload, GoTo, TypeOK, ProcessType,
         uploading
    <3> QED
      BY <3>1 DEF UploadHolds
  <2>2. CASE AccessBytes(u)
    <3>1. pc'[u] = "idle" \/ (pc'[u] = "insert" /\ upload[u].digest \in bytes /\ UNCHANGED <<upload, holder, bytes, strayed>>)
      BY <1>1, <2>2, ProcessesApart DEF AccessBytes, EndUpload, MayInsert, GoTo, TypeOK,
         ProcessType, uploading, disk
    <3>2. pc[u] = "access"
      BY <2>2 DEF AccessBytes
    <3> QED
      BY <1>1, <3>1, <3>2 DEF UploadHolds, LocksAreHeld
  <2>3. CASE BeginUpload(u) \/ RejectUpload(u) \/ Publish(u) \/ InsertRow(u) \/ FailUpload(u)
    <3>1. pc'[u] \in {"idle", "write", "lock"}
      BY <1>1, <2>3, ProcessesApart DEF BeginUpload, RejectUpload, Publish, InsertRow, FailUpload,
         EndUpload,
         GoTo, TypeOK, ProcessType
    <3> QED
      BY <3>1 DEF UploadHolds
  <2> QED
    BY <2>1, <2>2, <2>3 DEF Upload
<1>9. \A v \in Uploads : UploadHolds(v)'
  BY <1>1, <1>4, <1>8, UploadsFrame, ProcessesApart
<1>10. \A w \in Writers : WriterHolds(w)'
  BY <1>1, <1>4, WritersFrame, ProcessesApart DEF writing
<1>11. \A c \in Cleaners : CleanerHolds(c)'
  <2> SUFFICES ASSUME NEW c \in Cleaners
               PROVE  CleanerHolds(c)'
    OBVIOUS
  <2>1. ASSUME NEW d \in Digests, holder[d] = c, Named(d)'
        PROVE  Named(d)
    BY <1>1, <1>5, <2>1, ProcessesApart DEF Named, LocksAreHeld, UploadHolds
  <2> QED
    BY <1>1, <1>4, <2>1, CleanersFrame, ProcessesApart DEF cleaning
<1> QED
  BY <1>6, <1>7, <1>9, <1>10, <1>11 DEF LocksAreHeld, FilesAreKept

\* A writer that goes back to idle has nothing left to hold.
LEMMA EndWriteHolds ==
    ASSUME TypeOK, NEW w \in Writers, EndWrite(w)
    PROVE  WriterHolds(w)'
BY ProcessesApart DEF EndWrite, WriterHolds, GoTo, TypeOK, ProcessType, WorkType

LEMMA WriterHoldsOn ==
    ASSUME LockInv, NEW w \in Writers, WriteObjects(w) \/ FailWrite(w)
    PROVE  WriterHolds(w)'
<1>1. TypeOK /\ WriterHolds(w) /\ job[w] \subseteq Write /\ left[w] \subseteq File
  BY DEF LockInv, LocksAreHeld, TypeOK, WorkType
<1>2. CASE \E writes \in SUBSET Write : Begin(w, writes)
  <2>1. PICK writes \in SUBSET Write : Begin(w, writes)
    BY <1>2
  <2>2. pc'[w] = "look" /\ job'[w] = writes /\ left'[w] = FilesIn(writes)
    BY <1>1, <2>1, ProcessesApart DEF Begin, GoTo, TypeOK, ProcessType, WorkType
  <2>3. \A p \in writes : p.file # None => p.file \in FilesIn(writes)
    BY DEF FilesIn
  <2> QED
    BY <2>2, <2>3 DEF WriterHolds
<1>3. CASE BeginIngest(w)
  <2>1. PICK x \in Objects, f \in issued : Begin(w, {[object |-> x, file |-> f]})
    BY <1>3 DEF BeginIngest
  <2>2. {[object |-> x, file |-> f]} \in SUBSET Write
    BY <1>1 DEF TypeOK, StoreType, Write, Payload
  <2> QED
    BY <1>2, <2>1, <2>2
<1>4. CASE BeginRestore(w)
  <2>1. PICK s \in snapshots : Begin(w, {[object |-> x, file |-> s[x]] : x \in DOMAIN s})
    BY <1>4 DEF BeginRestore
  <2>2. DOMAIN s \subseteq Objects /\ \A x \in DOMAIN s : s[x] \in Payload
    BY <1>1 DEF TypeOK, StoreType, IsSnapshot, OwnObjects
  <2>3. {[object |-> x, file |-> s[x]] : x \in DOMAIN s} \in SUBSET Write
    BY <2>2 DEF Write
  <2> QED
    BY <1>2, <2>1, <2>3
<1>5. CASE EndWrite(w)
  BY <1>1, <1>5, EndWriteHolds
<1>6. CASE LookUp(w) /\ ~EndWrite(w)
  <2>1. pc'[w] = "lock" /\ UNCHANGED <<job, left, files, holder>> /\ pc[w] = "look"
    BY <1>1, <1>6, ProcessesApart DEF LookUp, GoTo, TypeOK, ProcessType, tables
  <2> QED
    BY <1>1, <2>1 DEF WriterHolds
<1>7. CASE LockFile(w)
  <2>1. cur[w].digest \in Digests /\ \A p \in job[w] : p.file # None => p.file.digest \in Digests
    BY <1>1, <1>7 DEF LockFile, TypeOK, WorkType, Write, Payload, File
  <2>2. /\ holder'[cur[w].digest] = w
        /\ \A e \in Digests : holder[e] = w => holder'[e] = w
    BY <1>1, <1>7, <2>1, AcquireHolds, ProcessesApart DEF LockFile
  <2>3. pc'[w] = "check" /\ UNCHANGED <<job, left, cur, files>>
    BY <1>1, <1>7, ProcessesApart DEF LockFile, GoTo, TypeOK, ProcessType, tables, writing
  <2> QED
    BY <1>1, <2>1, <2>2, <2>3 DEF WriterHolds
<1>8. CASE CheckFile(w) /\ ~EndWrite(w)
  <2>1. /\ pc'[w] = "look" /\ UNCHANGED <<job, files, holder>> /\ pc[w] = "check"
        /\ left'[w] = left[w] \ {cur[w]} /\ Present(w, cur[w])
    BY <1>1, <1>8, ProcessesApart DEF CheckFile, StillPresent, GoTo, TypeOK, ProcessType, WorkType,
       tables
  <2>2. \A p \in job[w] : p.file = cur[w] =>
           p.file \in files /\ OwnerOf[p.object] = p.file.owner /\ holder[p.file.digest] = w
    BY <1>1, <2>1 DEF Present, WriterHolds
  <2> QED
    BY <1>1, <2>1, <2>2 DEF WriterHolds
<1> QED
  BY <1>3, <1>4, <1>5, <1>6, <1>7, <1>8 DEF WriteObjects, CommitWrite, FailWrite

\* A commit leaves references only to files whose presence it has checked.
LEMMA CommitKeeps ==
    ASSUME LockInv, NEW w \in Writers, CommitWrite(w)
    PROVE  ObjectsHaveFiles'
<1>1. /\ TypeOK /\ WriterHolds(w) /\ left[w] = {} /\ ObjectsHaveFiles
      /\ refs' = [x \in Objects |-> Written(w, x)] /\ files' = files
  BY DEF LockInv, LocksAreHeld, FilesAreKept, CommitWrite, EndWrite
<1> SUFFICES ASSUME NEW x \in Objects, Written(w, x) # None
             PROVE  Written(w, x) \in files /\ OwnerOf[x] = Written(w, x).owner
  BY <1>1 DEF ObjectsHaveFiles
<1>2. CASE \E p \in job[w] : p.object = x
  <2> DEFINE p == CHOOSE q \in job[w] : q.object = x
  <2>1. p \in job[w] /\ p.object = x /\ Written(w, x) = p.file
    BY <1>2 DEF Written
  <2> HIDE DEF p
  <2> QED
    BY <1>1, <2>1 DEF WriterHolds
<1>3. CASE ~ \E p \in job[w] : p.object = x
  BY <1>1, <1>3 DEF Written, ObjectsHaveFiles
<1> QED
  BY <1>2, <1>3

LEMMA WriterKeeps ==
    ASSUME LockInv, NEW w \in Writers, WriteObjects(w) \/ FailWrite(w)
    PROVE  LocksAreHeld' /\ FilesAreKept'
<1>1. /\ TypeOK /\ LocksAreHeld /\ FilesAreKept
      /\ UNCHANGED <<disk, files, snapshots, uploading, cleaning>>
      /\ \A q \in Processes : q # w => pc'[q] = pc[q]
      /\ \A v \in Writers : v # w => job'[v] = job[v] /\ left'[v] = left[v] /\ cur'[v] = cur[v]
  BY DEF LockInv, TypeOK, ProcessType, WorkType, WriteObjects, BeginIngest, BeginRestore, Begin,
     LookUp, LockFile,
         CheckFile, CommitWrite, FailWrite, EndWrite, GoTo, tables, writing
<1>2. Release(w) \/ UNCHANGED holder \/ \E d \in Digests : Acquire(w, d)
  <2>1. LockFile(w) => cur[w].digest \in Digests
    BY <1>1 DEF LockFile, TypeOK, WorkType, File
  <2> QED
    BY <2>1 DEF WriteObjects, BeginIngest, BeginRestore, Begin, LookUp, LockFile, CheckFile,
       CommitWrite,
                FailWrite, EndWrite
<1>3. \A q \in Processes, d \in Digests : q # w /\ holder[d] = q => holder'[d] = q
  BY <1>1, <1>2, OthersKeepLocks, ProcessesApart
<1>4. RowsHaveBytes' /\ SnapshotsHaveFiles'
  BY <1>1 DEF FilesAreKept, RowsHaveBytes, SnapshotsHaveFiles, disk
<1>5. ObjectsHaveFiles'
  <2>1. CASE CommitWrite(w)
    BY <2>1, CommitKeeps
  <2>2. CASE ~CommitWrite(w)
    <3>1. refs' = refs
      BY <2>2 DEF WriteObjects, BeginIngest, BeginRestore, Begin, LookUp, LockFile, CheckFile,
         FailWrite, tables
    <3> QED
      BY <1>1, <3>1 DEF FilesAreKept, ObjectsHaveFiles
  <2> QED
    BY <2>1, <2>2
<1>6. \A u \in Uploads : UploadHolds(u)'
  BY <1>1, <1>3, UploadsFrame, ProcessesApart DEF disk, uploading
<1>7. \A v \in Writers : WriterHolds(v)'
  BY <1>1, <1>3, WriterHoldsOn, WritersFrame, ProcessesApart
<1>8. \A c \in Cleaners : CleanerHolds(c)'
  BY <1>1, <1>3, CleanersFrame, ProcessesApart DEF cleaning, Named
<1> QED
  BY <1>4, <1>5, <1>6, <1>7, <1>8 DEF LocksAreHeld, FilesAreKept

\* What a cleaner's step leaves of its own part.
LEMMA CleanerHoldsOn ==
    ASSUME LockInv, NEW c \in Cleaners, CleanerMoves(c)
    PROVE  CleanerHolds(c)'
<1>1. TypeOK /\ CleanerHolds(c) /\ pc[c] \in CleanerSteps
  BY DEF LockInv, LocksAreHeld, TypeOK, ProcessType
<1>2. CASE EndCleanup(c)
  BY <1>1, <1>2, ProcessesApart DEF EndCleanup, CleanerHolds, GoTo, TypeOK, ProcessType, WorkType
<1>3. CASE SelectCandidates(c)
  <2>1. pc'[c] = "lock" /\ cand'[c] = Candidates /\ wanted'[c] = {f.digest : f \in Candidates}
        /\ sweep'[c] = sweep[c] /\ dead'[c] = dead[c] /\ pc[c] = "idle"
    BY <1>1, <1>3, ProcessesApart DEF SelectCandidates, GoTo, TypeOK, ProcessType, WorkType
  <2> QED
    BY <1>1, <2>1 DEF CleanerHolds
<1>4. CASE LockDigest(c)
  <2>1. PICK d \in NextDigest(c) : Acquire(c, d) /\ wanted' = [wanted EXCEPT ![c] = @ \ {d}]
    BY <1>4 DEF LockDigest
  <2>2. d \in Digests /\ \A f \in cand[c] : f.digest \in Digests
    BY <1>1 DEF NextDigest, TypeOK, WorkType, File
  <2>3. holder'[d] = c /\ \A e \in Digests : holder[e] = c => holder'[e] = c
    BY <1>1, <2>1, <2>2, AcquireHolds, ProcessesApart
  <2>4. /\ pc' = pc /\ pc[c] = "lock" /\ cand' = cand /\ sweep' = sweep /\ dead' = dead
        /\ wanted'[c] = wanted[c] \ {d}
    BY <1>1, <1>4, <2>1 DEF LockDigest, TypeOK, WorkType
  <2> QED
    BY <1>1, <2>2, <2>3, <2>4 DEF CleanerHolds
<1>5. CASE DeleteRows(c)
  <2>1. /\ pc'[c] = "sweep" /\ cand'[c] = {} /\ wanted'[c] = {} /\ dead'[c] = {} /\ holder' = holder
        /\ sweep'[c] = {f.digest : f \in Removable(c)}
    BY <1>1, <1>5, ProcessesApart DEF DeleteRows, CleanerHolds, GoTo, TypeOK, ProcessType, WorkType
  <2>2. \A f \in Removable(c) : holder[f.digest] = c
    BY <1>1, <1>5 DEF Removable, DeleteRows, CleanerHolds
  <2> QED
    BY <2>1, <2>2 DEF CleanerHolds
<1>6. CASE CheckDigest(c)
  <2>1. PICK d \in sweep[c] :
          sweep' = [sweep EXCEPT ![c] = @ \ {d}] /\ dead' = [dead EXCEPT ![c] = IF Named(d) THEN {} ELSE {d}]
    BY <1>6 DEF CheckDigest, Swept
  <2>2. /\ sweep'[c] = sweep[c] \ {d} /\ (dead'[c] = {} \/ (dead'[c] = {d} /\ ~Named(d)))
        /\ pc' = pc /\ pc[c] = "sweep" /\ cand' = cand /\ wanted' = wanted /\ holder' = holder
        /\ files' = files
    BY <1>1, <1>6, <2>1 DEF CheckDigest, TypeOK, WorkType, tables
  <2> QED
    BY <1>1, <2>1, <2>2 DEF CleanerHolds, Named
<1>7. CASE Unlink(c)
  <2>1. /\ dead'[c] = {} /\ pc' = pc /\ pc[c] = "sweep" /\ cand' = cand /\ wanted' = wanted
        /\ sweep' = sweep /\ holder' = holder
    BY <1>1, <1>7 DEF Unlink, TypeOK, WorkType
  <2> QED
    BY <1>1, <2>1 DEF CleanerHolds
<1>8. CASE LoseSession(c)
  <2>1. /\ pc[c] = "sweep" /\ pc'[c] = "lost" /\ sweep'[c] = {}
        /\ cand' = cand /\ wanted' = wanted
    BY <1>1, <1>8, ProcessesApart DEF LoseSession, GoTo, TypeOK, ProcessType, WorkType
  <2> QED
    BY <1>1, <2>1 DEF CleanerHolds
<1> QED
  BY <1>2, <1>3, <1>4, <1>5, <1>6, <1>7, <1>8 DEF CleanerMoves, Cleanup, Unlock, UnlinkLate,
     FailCleanup

\* A row that is deleted is one nobody refers to, and its lock is the cleaner's.
LEMMA OnlyUnreferencedGo ==
    ASSUME LockInv, NEW c \in Cleaners, CleanerMoves(c), NEW f \in files, f \notin files'
    PROVE  Unreferenced(f) /\ holder[f.digest] = c
<1>1. CASE DeleteRows(c)
  BY <1>1 DEF DeleteRows, Removable, Candidates, LockInv, LocksAreHeld, CleanerHolds
<1>2. CASE ~DeleteRows(c)
  BY <1>2 DEF CleanerMoves, Cleanup, SelectCandidates, LockDigest, CheckDigest, Unlink, Unlock,
     UnlinkLate, FailCleanup, LoseSession, EndCleanup, tables
<1> QED
  BY <1>1, <1>2

\* Bytes that are unlinked without straying have no row, and their lock is the cleaner's.
LEMMA OnlyUnnamedGo ==
    ASSUME LockInv, NEW c \in Cleaners, CleanerMoves(c), 
           NEW d \in bytes \cup strayed, d \notin (bytes \cup strayed)'
    PROVE  ~Named(d) /\ holder[d] = c
<1>1. CASE Unlink(c)
  BY <1>1 DEF Unlink, LockInv, LocksAreHeld, CleanerHolds
<1>2. CASE ~Unlink(c)
  BY <1>2 DEF CleanerMoves, Cleanup, SelectCandidates, LockDigest, CheckDigest, DeleteRows, Unlock,
     UnlinkLate, FailCleanup, LoseSession, EndCleanup, disk
<1> QED
  BY <1>1, <1>2

LEMMA CleanerKeeps ==
    ASSUME LockInv, NEW c \in Cleaners, CleanerMoves(c)
    PROVE  LocksAreHeld' /\ FilesAreKept'
<1>1. /\ TypeOK /\ LocksAreHeld /\ FilesAreKept
      /\ UNCHANGED <<refs, snapshots, uploading, writing>> /\ files' \subseteq files
      /\ \A q \in Processes : q # c => pc'[q] = pc[q]
      /\ \A b \in Cleaners : b # c => /\ cand'[b] = cand[b] /\ wanted'[b] = wanted[b]
                                     /\ sweep'[b] = sweep[b] /\ dead'[b] = dead[b]
  BY DEF LockInv, TypeOK, ProcessType, WorkType, CleanerMoves, Cleanup, SelectCandidates,
     LockDigest, CheckDigest, Swept,
         DeleteRows, Unlink, Unlock, UnlinkLate, FailCleanup, LoseSession, EndCleanup, GoTo, tables
<1>2. Release(c) \/ UNCHANGED holder \/ \E d \in Digests : Acquire(c, d)
  <2>1. NextDigest(c) \subseteq Digests
    BY <1>1 DEF NextDigest, TypeOK, WorkType
  <2> QED
    BY <2>1 DEF CleanerMoves, Cleanup, SelectCandidates, LockDigest, CheckDigest, DeleteRows,
       Unlink, Unlock, UnlinkLate, FailCleanup, LoseSession,
                EndCleanup
<1>3. \A q \in Processes, d \in Digests : q # c /\ holder[d] = q => holder'[d] = q
  BY <1>1, <1>2, OthersKeepLocks, ProcessesApart
<1>4. \A f \in files : f \notin files' => Unreferenced(f) /\ holder[f.digest] = c
  BY OnlyUnreferencedGo
<1>5. \A d \in bytes \cup strayed : d \notin (bytes \cup strayed)' => ~Named(d) /\ holder[d] = c
  BY OnlyUnnamedGo
<1>6. RowsHaveBytes'
  BY <1>1, <1>5 DEF FilesAreKept, RowsHaveBytes, Named
<1>7. ObjectsHaveFiles'
  BY <1>1, <1>4 DEF FilesAreKept, ObjectsHaveFiles, Unreferenced, UnreferencedByObjects
<1>8. SnapshotsHaveFiles'
  BY <1>1, <1>4 DEF FilesAreKept, SnapshotsHaveFiles, Unreferenced, UnreferencedBySnapshots
<1>9. \A u \in Uploads : UploadHolds(u)'
  BY <1>1, <1>3, <1>5, UploadsFrame, ProcessesApart DEF uploading
<1>10. \A w \in Writers : WriterHolds(w)'
  BY <1>1, <1>3, <1>4, WritersFrame, ProcessesApart DEF writing
<1>11. \A b \in Cleaners : CleanerHolds(b)'
  <2>1. \A d : Named(d)' => Named(d)
    BY <1>1 DEF Named
  <2> QED
    BY <1>1, <1>3, <2>1, CleanerHoldsOn, CleanersFrame, ProcessesApart
<1> QED
  BY <1>6, <1>7, <1>8, <1>9, <1>10, <1>11 DEF LocksAreHeld, FilesAreKept

LEMMA OtherKeeps ==
    ASSUME LockInv, OtherStatements
    PROVE  LocksAreHeld' /\ FilesAreKept'
<1>1. /\ TypeOK /\ LocksAreHeld /\ FilesAreKept
      /\ UNCHANGED <<disk, files, holder, pc, uploading, writing, cleaning>>
  BY DEF LockInv, OtherStatements
<1>2. LocksAreHeld'
  BY <1>1 DEF LocksAreHeld, UploadHolds, WriterHolds, CleanerHolds, Named, disk, uploading,
     writing, cleaning
<1>3. RowsHaveBytes'
  BY <1>1 DEF FilesAreKept, RowsHaveBytes, disk
<1>4. ObjectsHaveFiles'
  BY <1>1 DEF FilesAreKept, ObjectsHaveFiles, OtherStatements, DropReference, TakeSnapshot,
     ExpireSnapshot, Park,
              Unpark, TypeOK, StoreType
<1>5. SnapshotsHaveFiles'
  <2>1. snapshots' \subseteq snapshots \cup {[x \in OwnObjects(o) |-> refs[x]] : o \in Owners}
    BY DEF OtherStatements, DropReference, Park, Unpark, ExpireSnapshot, TakeSnapshot
  <2> QED
    BY <1>1, <2>1 DEF FilesAreKept, SnapshotsHaveFiles, ObjectsHaveFiles, OwnObjects
<1> QED
  BY <1>2, <1>3, <1>4, <1>5 DEF FilesAreKept

LEMMA LockInvStep == LockInv /\ [Next]_vars => LockInv'
<1> SUFFICES ASSUME LockInv, [Next]_vars
             PROVE  LocksAreHeld' /\ FilesAreKept'
  BY TypesStep DEF LockInv
<1>1. CASE UNCHANGED vars
  BY <1>1 DEF LockInv, LocksAreHeld, UploadHolds, WriterHolds, CleanerHolds, FilesAreKept,
     RowsHaveBytes,
              ObjectsHaveFiles, SnapshotsHaveFiles, Named, vars, disk, tables, uploading, writing, cleaning
<1> QED
  BY <1>1, UploadKeeps, WriterKeeps, CleanerKeeps, OtherKeeps DEF Next, Fail, CleanerMoves

LEMMA LockInvInit == Init => LockInv
<1> SUFFICES ASSUME Init PROVE LocksAreHeld /\ FilesAreKept
  BY TypesInit DEF LockInv
<1>1. LocksAreHeld
  BY ProcessesApart DEF Init, LocksAreHeld, UploadHolds, WriterHolds, CleanerHolds
<1>2. FilesAreKept
  BY DEF Init, FilesAreKept, RowsHaveBytes, ObjectsHaveFiles, SnapshotsHaveFiles
<1> QED
  BY <1>1, <1>2

LEMMA LocksHold == Spec => []LockInv
BY LockInvInit, LockInvStep, PTL DEF Spec

\* No row is ever without its bytes, however uploads and cleanups of identical
\* bytes interleave and wherever a process dies, unless a cleaner unlinked them after
\* its session, and with it the digest's lock, was lost.
THEOREM RowsKeepBytes == Spec => []RowsHaveBytes
<1>1. LockInv => RowsHaveBytes
  BY DEF LockInv, FilesAreKept
<1> QED
  BY <1>1, LocksHold, PTL

\* No live object refers to a file its owner does not have.
THEOREM ObjectsKeepFiles == Spec => []ObjectsHaveFiles
<1>1. LockInv => ObjectsHaveFiles
  BY DEF LockInv, FilesAreKept
<1> QED
  BY <1>1, LocksHold, PTL

\* No stored snapshot refers to a file its owner does not have.
THEOREM SnapshotsKeepFiles == Spec => []SnapshotsHaveFiles
<1>1. LockInv => SnapshotsHaveFiles
  BY DEF LockInv, FilesAreKept
<1> QED
  BY <1>1, LocksHold, PTL
-----------------------------------------------------------------------------
(* Cleaners lock in one order *)

\* While a cleaner locks, the digests it holds come before those it still wants.
InOrder(c) ==
    \A d \in Digests : holder[d] = c =>
        pc[c] # "idle" /\ (pc[c] = "lock" => \A e \in wanted[c] : d < e)

OrderInv == TypeOK /\ \A c \in Cleaners : InOrder(c)

\* Steps of others take no lock in a cleaner's name.
LEMMA LocksTakenByTheirHolder ==
    ASSUME TypeOK, NEW p \in Processes, NEW q \in Processes, q # p,
           \/ Release(p) \/ UNCHANGED holder
           \/ \E d \in Digests : Acquire(p, d),
           NEW d \in Digests, holder'[d] = q
    PROVE  holder[d] = q
BY NobodyIsNoProcess DEF TypeOK, ProcessType, Release, Acquire

LEMMA OtherOrder ==
    ASSUME OrderInv, NEW p \in Processes, NEW c \in Cleaners, c # p,
           \/ Release(p) \/ UNCHANGED holder
           \/ \E d \in Digests : Acquire(p, d),
           pc'[c] = pc[c] /\ wanted'[c] = wanted[c]
    PROVE  InOrder(c)'
BY LocksTakenByTheirHolder, ProcessesApart DEF OrderInv, InOrder

LEMMA CleanerOrder ==
    ASSUME OrderInv, NEW c \in Cleaners, CleanerMoves(c)
    PROVE  InOrder(c)'
<1>1. TypeOK /\ InOrder(c)
  BY DEF OrderInv
<1>2. CASE EndCleanup(c)
  <2>1. \A d \in Digests : holder'[d] # c
    BY <1>2, NobodyIsNoProcess, ProcessesApart DEF EndCleanup, Release
  <2> QED
    BY <2>1 DEF InOrder
<1>3. CASE SelectCandidates(c)
  <2>1. pc[c] = "idle" /\ holder' = holder
    BY <1>3 DEF SelectCandidates
  <2> QED
    BY <1>1, <2>1 DEF InOrder
<1>4. CASE LockDigest(c)
  <2>1. PICK d \in NextDigest(c) : Acquire(c, d) /\ wanted' = [wanted EXCEPT ![c] = @ \ {d}]
    BY <1>4 DEF LockDigest
  <2>2. /\ pc' = pc /\ pc[c] = "lock" /\ wanted[c] \subseteq Digests
        /\ wanted'[c] = wanted[c] \ {d} /\ holder' = [holder EXCEPT ![d] = c]
    BY <1>1, <1>4, <2>1 DEF LockDigest, Acquire, TypeOK, WorkType
  <2>3. d \in wanted[c] /\ \A e \in wanted[c] : d <= e
    BY DEF NextDigest
  <2>4. ASSUME NEW e \in wanted'[c]
        PROVE  d < e
    <3>1. e \in Nat /\ d \in Nat
      BY <2>2, <2>3, DigestsAreNumbers
    <3>2. d <= e /\ e # d
      BY <2>2, <2>3
    <3> QED
      BY <3>1, <3>2
  <2>5. \A b \in Digests : holder'[b] = c => b = d \/ holder[b] = c
    BY <1>1, <2>2 DEF TypeOK, ProcessType
  <2> QED
    BY <1>1, <2>2, <2>4, <2>5 DEF InOrder
<1>5. CASE DeleteRows(c)
  <2>1. pc'[c] = "sweep"
    BY <1>1, <1>5, ProcessesApart DEF DeleteRows, GoTo, TypeOK, ProcessType
  <2> QED
    BY <2>1 DEF InOrder
<1>6. CASE CheckDigest(c) \/ Unlink(c)
  <2>1. pc' = pc /\ pc[c] = "sweep"
    BY <1>6 DEF CheckDigest, Unlink
  <2> QED
    BY <2>1 DEF InOrder
<1>7. CASE LoseSession(c)
  <2>1. \A d \in Digests : holder'[d] # c
    BY <1>7, NobodyIsNoProcess, ProcessesApart DEF LoseSession, Release
  <2> QED
    BY <2>1 DEF InOrder
<1> QED
  BY <1>2, <1>3, <1>4, <1>5, <1>6, <1>7 DEF CleanerMoves, Cleanup, Unlock, UnlinkLate, FailCleanup

LEMMA OrderStep == OrderInv /\ [Next]_vars => OrderInv'
<1> SUFFICES ASSUME OrderInv, [Next]_vars
             PROVE  \A c \in Cleaners : InOrder(c)'
  BY TypesStep DEF OrderInv
<1>1. ASSUME NEW u \in Uploads, Upload(u) \/ FailUpload(u)
      PROVE  \A c \in Cleaners : InOrder(c)'
  <2>1. pc[u] # "idle" => upload[u].digest \in Digests
    BY DEF OrderInv, TypeOK, WorkType, Content
  <2>2. Release(u) \/ UNCHANGED holder \/ \E d \in Digests : Acquire(u, d)
    BY <1>1, <2>1 DEF Upload, BeginUpload, RejectUpload, Publish, LockUpload, AccessBytes,
       InsertRow, FailUpload,
                EndUpload
  <2>3. wanted' = wanted /\ \A q \in Processes : q # u => pc'[q] = pc[q]
    BY <1>1 DEF OrderInv, TypeOK, ProcessType, Upload, BeginUpload, RejectUpload, Publish,
       LockUpload, AccessBytes,
                InsertRow, FailUpload, EndUpload, GoTo, cleaning
  <2> QED
    BY <2>2, <2>3, OtherOrder, ProcessesApart
<1>2. ASSUME NEW w \in Writers, WriteObjects(w) \/ FailWrite(w)
      PROVE  \A c \in Cleaners : InOrder(c)'
  <2>1. LockFile(w) => cur[w].digest \in Digests
    BY DEF OrderInv, LockFile, TypeOK, WorkType, File
  <2>2. Release(w) \/ UNCHANGED holder \/ \E d \in Digests : Acquire(w, d)
    BY <1>2, <2>1 DEF WriteObjects, BeginIngest, BeginRestore, Begin, LookUp, LockFile, CheckFile,
       CommitWrite,
                FailWrite, EndWrite
  <2>3. wanted' = wanted /\ \A q \in Processes : q # w => pc'[q] = pc[q]
    BY <1>2 DEF OrderInv, TypeOK, ProcessType, WriteObjects, BeginIngest, BeginRestore, Begin,
       LookUp, LockFile,
                CheckFile, CommitWrite, FailWrite, EndWrite, GoTo, cleaning
  <2> QED
    BY <2>2, <2>3, OtherOrder, ProcessesApart
<1>3. ASSUME NEW b \in Cleaners, CleanerMoves(b)
      PROVE  \A c \in Cleaners : InOrder(c)'
  <2>1. NextDigest(b) \subseteq Digests
    BY DEF OrderInv, NextDigest, TypeOK, WorkType
  <2>2. Release(b) \/ UNCHANGED holder \/ \E d \in Digests : Acquire(b, d)
    BY <1>3, <2>1 DEF CleanerMoves, Cleanup, SelectCandidates, LockDigest, CheckDigest, DeleteRows,
       Unlink, Unlock, UnlinkLate, FailCleanup, LoseSession,
                EndCleanup
  <2>3. \A c \in Cleaners : c # b => wanted'[c] = wanted[c] /\ pc'[c] = pc[c]
    BY <1>3, ProcessesApart DEF OrderInv, TypeOK, ProcessType, WorkType, CleanerMoves, Cleanup,
       SelectCandidates, LockDigest,
       CheckDigest, DeleteRows, Unlink, Unlock, UnlinkLate, FailCleanup, LoseSession, EndCleanup, GoTo
  <2> QED
    BY <1>3, <2>2, <2>3, OtherOrder, CleanerOrder, ProcessesApart
<1>4. CASE OtherStatements \/ UNCHANGED vars
  <2>1. UNCHANGED <<holder, pc, wanted>>
    BY <1>4 DEF OtherStatements, vars, cleaning
  <2> QED
    BY <2>1 DEF OrderInv, InOrder
<1> QED
  BY <1>1, <1>2, <1>3, <1>4 DEF Next, Fail, CleanerMoves

\* Cleaners, however many run at once, never wait for each other in a circle of two.
THEOREM CleanersPass == Spec => []CleanersDoNotDeadlock
<1>1. Init => OrderInv
  BY TypesInit, NobodyIsNoProcess, ProcessesApart DEF Init, OrderInv, InOrder
<1>2. OrderInv => CleanersDoNotDeadlock
  <2> SUFFICES ASSUME OrderInv, NEW c1 \in Cleaners, NEW c2 \in Cleaners,
                      pc[c1] = "lock", pc[c2] = "lock",
                      NEW d1 \in NextDigest(c1), holder[d1] = c2,
                      NEW d2 \in NextDigest(c2), holder[d2] = c1
               PROVE  FALSE
    BY DEF CleanersDoNotDeadlock
  <2>1. d1 \in wanted[c1] /\ d2 \in wanted[c2] /\ d1 \in Digests /\ d2 \in Digests
    BY DEF OrderInv, TypeOK, WorkType, NextDigest
  <2>2. d1 < d2 /\ d2 < d1
    BY <2>1 DEF OrderInv, InOrder
  <2> QED
    BY <2>1, <2>2, DigestsAreNumbers
<1> QED
  BY <1>1, <1>2, OrderStep, PTL DEF Spec
-----------------------------------------------------------------------------
(* Without failures nothing is left on disk *)

InFlight(d) == \E u \in Uploads : pc[u] \in {"lock", "access", "insert"} /\ upload[u].digest = d
Doomed(d) == \E c \in Cleaners : d \in sweep[c] \cup dead[c]
AccountedFor == \A d \in bytes : Named(d) \/ InFlight(d) \/ Doomed(d)
PartialsWritten == \A u \in partial : pc[u] = "write"

\* As long as nothing failed: bytes have a row, are an upload's on its way to one,
\* or a cleaner has yet to see to them; a temporary file is being written.
DiskInv == LockInv /\ (failed = FALSE => AccountedFor /\ PartialsWritten)

LEMMA UploadLeavesNothing ==
    ASSUME DiskInv, NEW u \in Uploads, Upload(u), failed' = FALSE
    PROVE  AccountedFor' /\ PartialsWritten'
<1>1. /\ TypeOK /\ AccountedFor /\ PartialsWritten /\ partial \subseteq Uploads
      /\ \A q \in Processes : q # u => pc'[q] = pc[q]
      /\ \A v \in Uploads : v # u => upload'[v] = upload[v]
      /\ UNCHANGED <<sweep, dead>> /\ files \subseteq files'
  BY DEF DiskInv, LockInv, TypeOK, StoreType, ProcessType, WorkType, Upload, BeginUpload,
     RejectUpload, Publish,
         LockUpload, AccessBytes, InsertRow, EndUpload, GoTo, disk, tables, uploading, cleaning
<1>2. PartialsWritten'
  <2>1. CASE BeginUpload(u)
    BY <1>1, <2>1, ProcessesApart DEF BeginUpload, GoTo, PartialsWritten, TypeOK, ProcessType
  <2>2. CASE RejectUpload(u) \/ Publish(u)
    BY <1>1, <2>2, ProcessesApart DEF RejectUpload, Publish, Cleared, PartialsWritten
  <2>3. CASE LockUpload(u) \/ AccessBytes(u) \/ InsertRow(u)
    <3>1. partial' = partial /\ pc[u] # "write"
      BY <2>3 DEF LockUpload, AccessBytes, InsertRow, disk
    <3> QED
      BY <1>1, <3>1, ProcessesApart DEF PartialsWritten
  <2> QED
    BY <2>1, <2>2, <2>3 DEF Upload
<1>3. ASSUME NEW d, Named(d) \/ (InFlight(d) /\ ~(pc[u] \in {"lock", "access",
"insert"} /\ upload[u].digest = d)) \/ Doomed(d)
      PROVE  (Named(d) \/ InFlight(d) \/ Doomed(d))'
  <2>1. CASE Named(d)
    BY <1>1, <2>1 DEF Named
  <2>2. CASE InFlight(d) /\ ~(pc[u] \in {"lock", "access", "insert"} /\ upload[u].digest = d)
    BY <1>1, <2>2, ProcessesApart DEF InFlight
  <2>3. CASE Doomed(d)
    BY <1>1, <2>3 DEF Doomed
  <2> QED
    BY <1>3, <2>1, <2>2, <2>3
<1>4. AccountedFor'
  <2>1. CASE BeginUpload(u) \/ RejectUpload(u)
    <3>1. bytes' = bytes /\ pc[u] \in {"idle", "write"}
      BY <2>1 DEF BeginUpload, RejectUpload
    <3> QED
      BY <1>1, <1>3, <3>1 DEF AccountedFor
  <2>2. CASE Publish(u)
    <3>1. /\ pc[u] = "write" /\ pc'[u] = "lock" /\ upload' = upload
          /\ bytes' = bytes \cup {upload[u].digest}
      BY <1>1, <2>2, ProcessesApart DEF Publish, GoTo, TypeOK, ProcessType, uploading
    <3>2. InFlight(upload[u].digest)'
      BY <3>1 DEF InFlight
    <3> QED
      BY <1>1, <1>3, <3>1, <3>2 DEF AccountedFor
  <2>3. CASE LockUpload(u) \/ (AccessBytes(u) /\ ~EndUpload(u))
    <3>1. pc'[u] \in {"access", "insert"} /\ upload' = upload /\ bytes' = bytes
      BY <1>1, <2>3, ProcessesApart DEF LockUpload, AccessBytes, GoTo, TypeOK, ProcessType,
         uploading, disk
    <3>2. InFlight(upload[u].digest)'
      BY <3>1 DEF InFlight
    <3> QED
      BY <1>1, <1>3, <3>1, <3>2 DEF AccountedFor
  <2>4. CASE AccessBytes(u) /\ EndUpload(u)
    <3>1. bytes' = bytes /\ upload[u].digest \notin bytes
      <4>1. pc'[u] = "idle"
        BY <1>1, <2>4, ProcessesApart DEF EndUpload, GoTo, TypeOK, ProcessType
      <4>2. upload[u].digest \in bytes => pc'[u] = "insert"
        BY <1>1, <2>4, ProcessesApart DEF AccessBytes, MayInsert, GoTo, TypeOK, ProcessType
      <4> QED
        BY <2>4, <4>1, <4>2 DEF AccessBytes, disk
    <3> QED
      BY <1>1, <1>3, <3>1 DEF AccountedFor
  <2>5. CASE InsertRow(u)
    <3>1. bytes' = bytes /\ files' = files \cup Inserted(upload[u])
      BY <2>5 DEF InsertRow, disk
    <3>2. ASSUME NEW d, d = upload[u].digest
          PROVE  Named(d)'
      <4>1. CASE Inserted(upload[u]) = {}
        BY <3>1, <3>2, <4>1 DEF Named, Inserted
      <4>2. CASE \E f \in Inserted(upload[u]) : f.digest = d
        BY <3>1, <4>2 DEF Named
      <4> QED
        BY <3>2, <4>1, <4>2 DEF Inserted
    <3> QED
      BY <1>1, <1>3, <3>1, <3>2 DEF AccountedFor
  <2> QED
    BY <2>1, <2>2, <2>3, <2>4, <2>5 DEF Upload
<1> QED
  BY <1>2, <1>4

LEMMA CleanerLeavesNothing ==
    ASSUME DiskInv, NEW c \in Cleaners, CleanerMoves(c), failed' = FALSE
    PROVE  AccountedFor' /\ PartialsWritten'
<1>1. /\ TypeOK /\ CleanerHolds(c) /\ failed = FALSE
  BY DEF DiskInv, LockInv, LocksAreHeld, CleanerMoves, Cleanup, SelectCandidates, LockDigest,
     DeleteRows, CheckDigest, Unlink,
         Unlock, UnlinkLate, FailCleanup, LoseSession, TypeOK, StoreType
<1>2. /\ AccountedFor /\ PartialsWritten /\ partial \subseteq Uploads
      /\ UNCHANGED <<upload, partial>> /\ bytes' \subseteq bytes
      /\ \A q \in Processes : q # c => pc'[q] = pc[q]
      /\ \A b \in Cleaners : b # c => sweep'[b] = sweep[b] /\ dead'[b] = dead[b]
  BY <1>1 DEF DiskInv, TypeOK, StoreType, ProcessType, WorkType, CleanerMoves, Cleanup,
     SelectCandidates, LockDigest, DeleteRows, CheckDigest,
     Swept, Unlink, Unlock, UnlinkLate, FailCleanup, LoseSession, EndCleanup, GoTo, disk, uploading
<1>3. PartialsWritten'
  BY <1>2, ProcessesApart DEF PartialsWritten
<1>4. \A d : InFlight(d) => InFlight(d)'
  BY <1>2, ProcessesApart DEF InFlight
<1>5. ASSUME NEW d \in bytes', Named(d)
      PROVE  Named(d)' \/ Doomed(d)'
  <2>1. CASE DeleteRows(c)
    <3>1. files' = files \ Removable(c) /\ sweep'[c] = {f.digest : f \in Removable(c)}
      BY <1>1, <2>1 DEF DeleteRows, TypeOK, WorkType
    <3> QED
      BY <1>5, <3>1 DEF Named, Doomed
  <2>2. CASE ~DeleteRows(c)
    <3>1. files' = files
      BY <2>2 DEF CleanerMoves, Cleanup, SelectCandidates, LockDigest, CheckDigest, Unlink, Unlock,
         UnlinkLate, FailCleanup, LoseSession, EndCleanup, tables
    <3> QED
      BY <1>5, <3>1 DEF Named
  <2> QED
    BY <2>1, <2>2
<1>6. ASSUME NEW d \in bytes', d \in sweep[c] \cup dead[c]
      PROVE  Named(d)' \/ Doomed(d)'
  <2>1. pc[c] \in {"sweep", "lost"}
    BY <1>1, <1>6 DEF CleanerHolds
  <2>2. CASE CheckDigest(c)
    <3>1. PICK e \in sweep[c] :
            sweep' = [sweep EXCEPT ![c] = @ \ {e}] /\ dead' = [dead EXCEPT ![c] = IF Named(e) THEN {} ELSE {e}]
      BY <2>2 DEF CheckDigest, Swept
    <3>2. /\ dead[c] = {} /\ files' = files /\ sweep'[c] = sweep[c] \ {e}
          /\ Named(e) \/ dead'[c] = {e}
      BY <1>1, <2>2, <3>1 DEF CheckDigest, TypeOK, WorkType, tables
    <3> QED
      BY <1>6, <3>2 DEF Doomed, Named
  <2>3. CASE Unlink(c)
    <3>1. bytes' = bytes \ dead[c] /\ sweep' = sweep
      BY <1>1, <2>3 DEF Unlink
    <3> QED
      BY <1>6, <3>1 DEF Doomed
  <2>4. CASE SelectCandidates(c) \/ LockDigest(c) \/ DeleteRows(c)
    BY <2>1, <2>4 DEF SelectCandidates, LockDigest, DeleteRows
  <2>5. CASE Unlock(c)
    BY <1>6, <2>5 DEF Unlock
  <2>6. CASE FailCleanup(c) \/ LoseSession(c) \/ UnlinkLate(c)
    BY <2>1, <2>6 DEF FailCleanup, LoseSession, UnlinkLate
  <2> QED
    BY <2>2, <2>3, <2>4, <2>5, <2>6 DEF CleanerMoves, Cleanup
<1>7. \A d, b \in Cleaners : b # c /\ d \in sweep[b] \cup dead[b] => Doomed(d)'
  BY <1>2 DEF Doomed
<1>8. AccountedFor'
  BY <1>2, <1>4, <1>5, <1>6, <1>7 DEF AccountedFor, Doomed
<1> QED
  BY <1>3, <1>8

LEMMA DiskStep == DiskInv /\ [Next]_vars => DiskInv'
<1> SUFFICES ASSUME DiskInv, [Next]_vars, failed' = FALSE
             PROVE  AccountedFor' /\ PartialsWritten'
  BY LockInvStep DEF DiskInv
<1>1. ASSUME NEW w \in Writers, WriteObjects(w) \/ FailWrite(w)
      PROVE  AccountedFor' /\ PartialsWritten'
  <2>1. UNCHANGED <<bytes, partial, files, upload, sweep, dead, failed>> /\ \A u \in Uploads : pc'[u] = pc[u]
    BY <1>1, ProcessesApart DEF DiskInv, LockInv, TypeOK, ProcessType, WriteObjects, BeginIngest,
       BeginRestore,
       Begin, LookUp, LockFile, CheckFile, CommitWrite, FailWrite, EndWrite, GoTo, disk, tables,
       uploading, cleaning
  <2>2. partial \subseteq Uploads
    BY DEF DiskInv, LockInv, TypeOK, StoreType
  <2> QED
    BY <2>1, <2>2 DEF DiskInv, AccountedFor, PartialsWritten, Named, InFlight, Doomed
<1>2. CASE OtherStatements \/ UNCHANGED vars
  <2>1. UNCHANGED <<bytes, partial, files, upload, sweep, dead, failed, pc>>
    BY <1>2 DEF OtherStatements, vars, disk, tables, uploading, cleaning
  <2> QED
    BY <2>1 DEF DiskInv, AccountedFor, PartialsWritten, Named, InFlight, Doomed
<1>3. \A u \in Uploads : ~FailUpload(u)
  BY DEF FailUpload
<1> QED
  BY <1>1, <1>2, <1>3, UploadLeavesNothing, CleanerLeavesNothing DEF Next, Fail, CleanerMoves

\* When every upload and cleanup has come to its end and none failed, all bytes on
\* disk have a row and no temporary file is left.
THEOREM DiskIsTidy == Spec => []QuietMeansNoOrphans
<1>1. Init => DiskInv
  BY LockInvInit DEF Init, DiskInv, AccountedFor, PartialsWritten
<1>2. DiskInv => QuietMeansNoOrphans
  <2> SUFFICES ASSUME DiskInv, failed = FALSE, \A p \in Uploads \cup Cleaners : pc[p] = "idle"
               PROVE  partial = {} /\ \A d \in bytes : Named(d)
    BY DEF QuietMeansNoOrphans, DiskInv, LockInv, TypeOK, StoreType
  <2>1. partial \subseteq Uploads
    BY DEF DiskInv, LockInv, TypeOK, StoreType
  <2>2. \A c \in Cleaners : sweep[c] = {} /\ dead[c] = {}
    BY DEF DiskInv, LockInv, LocksAreHeld, CleanerHolds
  <2> QED
    BY <2>1, <2>2 DEF DiskInv, AccountedFor, PartialsWritten, InFlight, Doomed
<1> QED
  BY <1>1, <1>2, DiskStep, PTL DEF Spec
=============================================================================
