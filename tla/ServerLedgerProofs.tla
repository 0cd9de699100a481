------------------------- MODULE ServerLedgerProofs -------------------------
(***************************************************************************)
(* Proofs about ServerLedger for every number of handlers, objects, notes  *)
(* and operations, and for every value of the bounds: types, the safety    *)
(* properties, and that the handlers implement the service                 *)
(* OperationOutcomes states.                                               *)
(***************************************************************************)
EXTENDS ServerLedger, TLAPS

-----------------------------------------------------------------------------
(* Type correctness *)

\* A batch as the client sends it is a non-empty sequence of operations.
LEMMA BatchesAreSequences ==
    ASSUME NEW batch \in Batches
    PROVE  batch \in Seq(Operation) /\ batch # <<>>
<1>1. PICK k \in 1..MaxBatch : batch \in [1..k -> [id : OpIds, base : 0..MaxBase, mutation : Mutation]]
  BY DEF Batches
<1>2. [id : OpIds, base : 0..MaxBase, mutation : Mutation] \subseteq Operation
  BY BoundsType DEF Operation
<1>3. batch \in [1..k -> Operation] /\ k \in Nat
  BY <1>1, <1>2, BoundsType
<1>4. batch \in Seq(Operation) /\ Len(batch) = k
  BY <1>3
<1> QED
  BY <1>1, <1>4

\* The step an ingesting handler goes to next is one of an unfinished batch only
\* if operations are left.
LEMMA NextStepType ==
    ASSUME NEW rest \in Seq(Operation)
    PROVE  /\ NextStep(rest) \in Steps
           /\ NextStep(rest) \in Ingesting => rest # <<>>
BY DEF NextStep, Steps, Ingesting

\* The version an applied upsert writes.
LEMMA NextVersionType ==
    ASSUME NEW current \in MaybeVersion, NEW content \in Contents
    PROVE  [revision |-> NextRevision(current), content |-> content] \in Version
BY DEF NextRevision, MaybeVersion, Version

\* Rewriting objects keeps them and the history of their revisions well typed.
LEMMA WriteObjectsType ==
    ASSUME highest \in [Objects -> Int], NEW new \in [Objects -> MaybeVersion], WriteObjects(new)
    PROVE  objects' \in [Objects -> MaybeVersion] /\ highest' \in [Objects -> Int]
<1>1. ASSUME NEW o \in Objects
      PROVE  (IF new[o] = Absent THEN highest[o] ELSE Larger(highest[o], new[o].revision)) \in Int
  <2>1. new[o] = Absent \/ new[o] \in Version
    BY DEF MaybeVersion
  <2>2. new[o] \in Version => new[o].revision \in Int
    BY DEF Version
  <2> QED
    BY <2>1, <2>2 DEF Larger
<1> QED
  BY <1>1 DEF WriteObjects

\* A note that is touched keeps its state and has a higher revision.
LEMMA TouchedType ==
    ASSUME notes \in [Notes -> NoteRow], NEW n \in Notes
    PROVE  /\ Touched(n) \in NoteRow
           /\ Touched(n).state = notes[n].state
           /\ Touched(n).revision = notes[n].revision + 1
<1>1. notes[n] \in NoteRow
  OBVIOUS
<1> QED
  BY <1>1 DEF Touched, NoteRow
\* The object and the note an operation of a batch is about.
LEMMA HeadType ==
    ASSUME HandlersType, NEW h \in Handlers, queue[h] # <<>>
    PROVE  /\ Head(queue[h]) \in Operation
           /\ Tail(queue[h]) \in Seq(Operation)
           /\ Head(queue[h]).id \in OpIds
           /\ Head(queue[h]).base \in Nat
           /\ Head(queue[h]).mutation \in Mutation
           /\ ObjectOf[Head(queue[h]).id] \in Objects
           /\ NoteOf[ObjectOf[Head(queue[h]).id]] \in Notes
<1>1. queue[h] \in Seq(Operation)
  BY DEF HandlersType
<1>2. Head(queue[h]) \in Operation /\ Tail(queue[h]) \in Seq(Operation)
  BY <1>1
<1> QED
  BY <1>2, NoteOfType, ObjectOfType DEF Operation

\* A handler in a transaction has an operation at hand and loaded a version or nothing.
LEMMA TransactionType ==
    ASSUME TypeOK, NEW h \in Handlers, InTransaction(h)
    PROVE  queue[h] # <<>> /\ Loaded(h) \in MaybeVersion
<1>1. pc[h] \in Ingesting
  BY DEF InTransaction, Ingesting
<1>2. queue[h] # <<>>
  BY <1>1 DEF TypeOK, HandlersType
<1> QED
  BY <1>2, HeadType DEF Loaded, TypeOK, TablesType, MaybeVersion

\* A ledger row that is inserted leaves the ledger and its history well typed.
LEMMA RecordOutcomeType ==
    ASSUME TablesType, HistoryType, NEW id \in OpIds, NEW outcome \in Outcomes,
           RecordOutcome(id, outcome)
    PROVE  /\ ledger' \in [OpIds -> Outcomes]
           /\ effects' \in [OpIds -> Nat]
           /\ forgotten' \in [OpIds -> Nat]
BY DEF TablesType, HistoryType, RecordOutcome

\* So is the note that is touched.
LEMMA TouchNoteType ==
    ASSUME TablesType, NEW n \in Notes, TouchNote(n)
    PROVE  notes' \in [Notes -> NoteRow]
BY TouchedType DEF TablesType, TouchNote

\* An acknowledged operation leaves the batch.
LEMMA AcknowledgeType ==
    ASSUME HandlersType, NEW h \in Handlers, queue[h] # <<>>,
           NEW status \in {"applied", "duplicate", "conflict"}, Acknowledge(h, status)
    PROVE  /\ acks' \in [Handlers -> SUBSET Ack]
           /\ queue' \in [Handlers -> Seq(Operation)]
           /\ queue'[h] = Tail(queue[h])
           /\ \A g \in Handlers \ {h} : queue'[g] = queue[g]
<1>1. [op |-> Head(queue[h]).id, status |-> status] \in Ack
  BY HeadType DEF Ack
<1>2. acks' \in [Handlers -> SUBSET Ack]
  BY <1>1 DEF HandlersType, Acknowledge
<1> QED
  BY <1>2, HeadType DEF HandlersType, Acknowledge

\* The transactions of one ingested operation.
LEMMA IngestType ==
    ASSUME TypeOK, NEW h \in Handlers, Ingest(h)
    PROVE  TypeOK'
<1> DEFINE op == Head(queue[h])
           o == ObjectOf[op.id]
           n == NoteOf[o]
<1>1. TablesType /\ HandlersType /\ HistoryType
  BY DEF TypeOK
<1>2. InTransaction(h)
  BY DEF Ingest, ApplyUpsert, ApplyDelete, Park
<1>3. queue[h] # <<>> /\ Loaded(h) \in MaybeVersion
  BY <1>2, TransactionType
<1>4. /\ op \in Operation /\ op.id \in OpIds /\ op.mutation \in Mutation
      /\ o \in Objects /\ n \in Notes /\ Tail(queue[h]) \in Seq(Operation)
  BY <1>1, <1>3, HeadType
<1>5. CASE ApplyUpsert(h, op, o)
  <2> DEFINE v == [revision |-> NextRevision(Loaded(h)), content |-> op.mutation]
  <2>1. v \in Version
    BY <1>3, <1>4, <1>5, NextVersionType DEF ApplyUpsert, Mutation
  <2>2. [objects EXCEPT ![o] = v] \in [Objects -> MaybeVersion]
    BY <1>1, <2>1 DEF TablesType, MaybeVersion
  <2>3. objects' \in [Objects -> MaybeVersion] /\ highest' \in [Objects -> Int]
    BY <1>1, <1>5, <2>2, WriteObjectsType DEF ApplyUpsert, HistoryType
  <2>4. TablesType'
    BY <1>1, <1>4, <1>5, <2>3, RecordOutcomeType, TouchNoteType DEF ApplyUpsert, TablesType, Outcomes
  <2>5. HistoryType'
    BY <1>1, <1>4, <1>5, <2>3, RecordOutcomeType DEF ApplyUpsert, HistoryType, Outcomes
  <2>6. outbound' \in [Handlers -> SUBSET Change]
    BY <1>1, <1>4, <1>5, <2>1 DEF ApplyUpsert, HandlersType, Change, MaybeVersion
  <2>7. HandlersType'
    BY <1>1, <1>3, <1>5, <2>6, AcknowledgeType
    DEF ApplyUpsert, HandlersType, GoTo, Steps, Ingesting
  <2> QED
    BY <2>4, <2>5, <2>7 DEF TypeOK
<1>6. CASE ApplyDelete(h, op, o)
  <2>1. [objects EXCEPT ![o] = Absent] \in [Objects -> MaybeVersion]
    BY <1>1 DEF TablesType, MaybeVersion
  <2>2. objects' \in [Objects -> MaybeVersion] /\ highest' \in [Objects -> Int]
    BY <1>1, <1>6, <2>1, WriteObjectsType DEF ApplyDelete, HistoryType
  <2>3. notes' \in [Notes -> NoteRow]
    BY <1>1, <1>4, <1>6, TouchNoteType DEF ApplyDelete, TablesType
  <2>4. TablesType'
    BY <1>1, <1>4, <1>6, <2>2, <2>3, RecordOutcomeType DEF ApplyDelete, TablesType, Outcomes
  <2>5. HistoryType'
    BY <1>1, <1>4, <1>6, <2>2, RecordOutcomeType DEF ApplyDelete, HistoryType, Outcomes
  <2>6. outbound' \in [Handlers -> SUBSET Change]
    BY <1>1, <1>4, <1>6 DEF ApplyDelete, HandlersType, Change, MaybeVersion
  <2>7. HandlersType'
    BY <1>1, <1>3, <1>6, <2>6, AcknowledgeType
    DEF ApplyDelete, HandlersType, GoTo, Steps, Ingesting
  <2> QED
    BY <2>4, <2>5, <2>7 DEF TypeOK
<1>7. CASE Park(h, op, o)
  <2>1. conflicts' \in [ConflictIds -> Conflict \cup {NoConflict}]
    BY <1>1, <1>4, <1>7 DEF Park, RecordConflict, TablesType, Conflict
  <2>2. TablesType'
    BY <1>1, <1>4, <1>7, <2>1, RecordOutcomeType, TouchNoteType DEF Park, TablesType, Outcomes
  <2>3. HistoryType'
    BY <1>1, <1>4, <1>7, RecordOutcomeType DEF Park, HistoryType, Outcomes
  <2>4. HandlersType'
    BY <1>1, <1>3, <1>4, <1>7, AcknowledgeType, NextStepType DEF Park, HandlersType, GoTo
  <2> QED
    BY <2>2, <2>3, <2>4 DEF TypeOK
<1> QED
  BY <1>5, <1>6, <1>7 DEF Ingest

\* The steps of a request that touch no table.
LEMMA RequestType ==
    ASSUME TypeOK, NEW h \in Handlers,
           \/ \E batch \in Batches : Receive(h, batch)
           \/ CheckNote(h) \/ DuplicateCheck(h) \/ ReadRecorded(h) \/ ReloadCurrent(h)
           \/ ReadAbsent(h) \/ UniqueViolation(h) \/ Broadcast(h) \/ Respond(h) \/ Fail(h)
           \/ \E c \in ConflictIds : StartResolve(h, c)
           \/ ResolveReadsAbsent(h, target[h])
    PROVE  TypeOK'
<1>1. TablesType /\ HandlersType /\ HistoryType
  BY DEF TypeOK
<1>2. ASSUME UNCHANGED tables, HandlersType', UNCHANGED history,
             sent' \subseteq Change, received' \in Nat, dropped' \in BOOLEAN
      PROVE  TypeOK'
  BY <1>1, <1>2 DEF TypeOK, TablesType, HistoryType, tables, history
<1>3. sent \subseteq Change /\ received \in Nat /\ dropped \in BOOLEAN
  BY <1>1 DEF HistoryType
<1>4. ASSUME NEW batch \in Batches, Receive(h, batch)
      PROVE  TypeOK'
  <2>1. batch \in Seq(Operation) /\ batch # <<>> /\ Len(batch) \in Nat
    BY BatchesAreSequences
  <2>2. \A i \in DOMAIN batch : NoteOf[ObjectOf[batch[i].id]] \in Notes
    <3>1. ASSUME NEW i \in DOMAIN batch
          PROVE  batch[i] \in Operation
      BY <2>1
    <3>2. \A i \in DOMAIN batch : batch[i].id \in OpIds
      BY <3>1 DEF Operation
    <3> QED
      BY <3>2, NoteOfType, ObjectOfType
  <2>3. HandlersType'
    BY <1>1, <1>4, <2>1, <2>2 DEF Receive, HandlersType, GoTo, Steps, Ingesting
  <2> QED
    BY <1>2, <1>3, <1>4, <2>1, <2>3 DEF Receive
<1>5. CASE CheckNote(h)
  <2>1. HandlersType'
    BY <1>1, <1>5 DEF CheckNote, HandlersType, GoTo, Steps, Ingesting
  <2> QED
    BY <1>2, <1>3, <1>5, <2>1 DEF CheckNote
<1>6. CASE DuplicateCheck(h) \/ ReadRecorded(h) \/ ReadAbsent(h) \/ UniqueViolation(h)
  <2>1. pc[h] \in Ingesting
    BY <1>6 DEF DuplicateCheck, ReadRecorded, ReadAbsent, UniqueViolation, InTransaction, Ingesting
  <2>2. queue[h] # <<>>
    BY <1>1, <2>1 DEF HandlersType
  <2>3. Head(queue[h]).id \in OpIds
    BY <1>1, <2>2, HeadType
  <2>4. ledger[Head(queue[h]).id] \in Outcomes
    BY <1>1, <2>3 DEF TablesType
  <2>5. HandlersType'
    BY <1>1, <1>6, <2>2, <2>4
    DEF DuplicateCheck, ReadRecorded, ReadAbsent, UniqueViolation, HandlersType, GoTo, Steps, Ingesting
  <2> QED
    BY <1>2, <1>3, <1>6, <2>5 DEF DuplicateCheck, ReadRecorded, ReadAbsent, UniqueViolation
<1>7. CASE ReloadCurrent(h)
  <2>1. queue[h] # <<>>
    BY <1>1, <1>7 DEF ReloadCurrent, HandlersType, Ingesting
  <2>2. Tail(queue[h]) \in Seq(Operation) /\ Head(queue[h]).id \in OpIds
    BY <1>1, <2>1, HeadType
  <2>3. [op |-> Head(queue[h]).id, status |-> ReackStatus(row[h])] \in Ack
    BY <2>2 DEF Ack, ReackStatus
  <2>4. acks' \in [Handlers -> SUBSET Ack]
    BY <1>1, <1>7, <2>3 DEF ReloadCurrent, HandlersType
  <2>5. HandlersType'
    BY <1>1, <1>7, <2>2, <2>4, NextStepType DEF ReloadCurrent, HandlersType, GoTo
  <2> QED
    BY <1>2, <1>3, <1>7, <2>5 DEF ReloadCurrent
<1>8. CASE Broadcast(h)
  <2>1. queue[h] \in Seq(Operation) /\ outbound[h] \subseteq Change
    BY <1>1 DEF HandlersType
  <2>2. HandlersType'
    BY <1>1, <1>8, <2>1, NextStepType DEF Broadcast, HandlersType, GoTo
  <2> QED
    BY <1>2, <1>3, <1>8, <2>1, <2>2 DEF Broadcast
<1>9. CASE Respond(h) \/ Fail(h)
  <2>1. Leave(h) /\ dropped' \in BOOLEAN
    BY <1>3, <1>9 DEF Respond, Fail
  <2>2. HandlersType'
    BY <1>1, <2>1 DEF Leave, HandlersType, GoTo, Steps, Ingesting, Outcomes
  <2> QED
    BY <1>2, <1>3, <1>9, <2>1, <2>2 DEF Respond, Fail
<1>10. CASE (\E c \in ConflictIds : StartResolve(h, c)) \/ ResolveReadsAbsent(h, target[h])
  <2>1. HandlersType'
    BY ZenonT(30), <1>1, <1>10 DEF StartResolve, ResolveReadsAbsent, HandlersType, GoTo, Steps, Ingesting
  <2> QED
    BY <1>2, <1>3, <1>10, <2>1 DEF StartResolve, ResolveReadsAbsent
<1> QED
  BY <1>4, <1>5, <1>6, <1>7, <1>8, <1>9, <1>10

\* The conflict a resolving handler may write is a row of the table.
LEMMA ResolvableType ==
    ASSUME TypeOK, NEW h \in Handlers, Resolvable(h, target[h])
    PROVE  /\ target[h] \in ConflictIds
           /\ conflicts[target[h]] \in Conflict
           /\ conflicts[target[h]].op \in OpIds
           /\ conflicts[target[h]].mutation \in Mutation
           /\ ObjectOf[conflicts[target[h]].op] \in Objects
           /\ NoteOf[ObjectOf[conflicts[target[h]].op]] \in Notes
<1>1. target[h] \in ConflictIds /\ conflicts[target[h]] \in Conflict
  BY DEF Resolvable, TypeOK, TablesType, HandlersType
<1> QED
  BY <1>1, NoteOfType, ObjectOfType DEF Conflict

\* The transactions of a conflict's resolution.
LEMMA ResolutionType ==
    ASSUME TypeOK, NEW h \in Handlers, KeepBase(h, target[h]) \/ TakeIncoming(h, target[h])
    PROVE  TypeOK'
<1> DEFINE c == target[h]
           o == ObjectOf[conflicts[c].op]
<1>1. TablesType /\ HandlersType /\ HistoryType
  BY DEF TypeOK
<1>2. Resolvable(h, c)
  BY DEF KeepBase, TakeIncoming
<1>3. /\ c \in ConflictIds /\ conflicts[c] \in Conflict /\ o \in Objects /\ NoteOf[o] \in Notes
      /\ conflicts[c].mutation \in Mutation
  BY <1>2, ResolvableType
<1>4. objects[o] \in MaybeVersion
  BY <1>1, <1>3 DEF TablesType
<1>5. MarkResolved(c) => conflicts' \in [ConflictIds -> Conflict \cup {NoConflict}]
  BY <1>1, <1>3 DEF MarkResolved, TablesType, Conflict
<1>6. TouchNote(NoteOf[o]) => notes' \in [Notes -> NoteRow]
  BY <1>1, <1>3, TouchNoteType
<1>7. CASE KeepBase(h, c)
  <2>1. objects[o] # Absent => [object |-> o, version |-> objects[o]] \in Change
    BY <1>3, <1>4 DEF Change
  <2>2. TablesType'
    BY <1>1, <1>5, <1>6, <1>7 DEF KeepBase, TablesType
  <2>3. HandlersType'
    BY <1>1, <1>7, <2>1 DEF KeepBase, HandlersType, GoTo, Steps, Ingesting
  <2>4. HistoryType'
    BY <1>1, <1>7 DEF KeepBase, HistoryType, history
  <2> QED
    BY <2>2, <2>3, <2>4 DEF TypeOK
<1>8. CASE TakeIncoming(h, c)
  <2> DEFINE current == IF pc[h] = "rewrite" THEN Absent ELSE objects[o]
             v == IF conflicts[c].mutation = Deleted THEN Absent
                  ELSE [revision |-> NextRevision(current), content |-> conflicts[c].mutation]
  <2>1. current \in MaybeVersion
    BY <1>4 DEF MaybeVersion
  <2>2. conflicts[c].mutation # Deleted => v \in Version
    BY <1>3, <2>1, NextVersionType DEF Mutation
  <2>3. v \in MaybeVersion
    BY <2>2 DEF MaybeVersion
  <2>4. [objects EXCEPT ![o] = v] \in [Objects -> MaybeVersion]
    BY <1>1, <2>3 DEF TablesType
  <2>5. WriteObjects([objects EXCEPT ![o] = v])
    BY <1>8 DEF TakeIncoming
  <2>6. objects' \in [Objects -> MaybeVersion] /\ highest' \in [Objects -> Int]
    BY <1>1, <2>4, <2>5, WriteObjectsType DEF HistoryType
  <2>7. TablesType'
    BY <1>1, <1>5, <1>6, <1>8, <2>6 DEF TakeIncoming, TablesType
  <2>8. HistoryType'
    BY <1>1, <1>8, <2>6 DEF TakeIncoming, HistoryType
  <2>9. [object |-> o, version |-> v] \in Change
    BY <1>3, <2>3 DEF Change
  <2>10. outbound' = [outbound EXCEPT ![h] = {[object |-> o, version |-> v]}]
    BY <1>8 DEF TakeIncoming
  <2>11. GoTo(h, "cast") /\ UNCHANGED <<todo, queue, row, target, acks>>
    BY <1>8 DEF TakeIncoming
  <2> HIDE DEF v
  <2>12. outbound' \in [Handlers -> SUBSET Change]
    BY <1>1, <2>9, <2>10 DEF HandlersType
  <2>13. HandlersType'
    BY <1>1, <2>11, <2>12 DEF HandlersType, GoTo, Steps, Ingesting
  <2> QED
    BY <2>7, <2>8, <2>13 DEF TypeOK
<1> QED
  BY <1>7, <1>8

\* The owner's other requests, and the retention job.
LEMMA RestoreType ==
    ASSUME TypeOK, NEW h \in Handlers, NEW s \in snapshots, RestoreSnapshot(h, s)
    PROVE  TypeOK'
<1>1. TablesType /\ HandlersType /\ HistoryType
  BY DEF TypeOK
<1>2. /\ s \in Snapshot /\ s.note \in Notes /\ s.state \in {"live", "trashed"}
      /\ s.saved \in [Objects -> Contents \cup {Absent}]
  BY <1>1 DEF TablesType, Snapshot
<1>3. notes[s.note].revision \in Nat
  BY <1>1, <1>2 DEF TablesType, NoteRow
<1>4. ASSUME NEW o \in Objects
      PROVE  RestoredVersion(s, o) \in MaybeVersion
  <2>1. objects[o] \in MaybeVersion
    BY <1>1 DEF TablesType
  <2>2. RestoredRevision(objects[o], notes[s.note].revision) \in Nat
    BY <1>3, <2>1 DEF RestoredRevision, Larger, MaybeVersion, Version
  <2> QED
    BY <1>2, <2>1, <2>2 DEF RestoredVersion, MaybeVersion, Version
<1> DEFINE new == [o \in Objects |-> RestoredVersion(s, o)]
<1>5. new \in [Objects -> MaybeVersion]
  BY <1>4
<1>6. WriteObjects(new)
  BY DEF RestoreSnapshot
<1>7. objects' \in [Objects -> MaybeVersion] /\ highest' \in [Objects -> Int]
  BY <1>1, <1>5, <1>6, WriteObjectsType DEF HistoryType
<1>8. [Touched(s.note) EXCEPT !.state = s.state] \in NoteRow
  BY <1>1, <1>2, TouchedType DEF TablesType, NoteRow
<1>9. TablesType'
  BY <1>1, <1>7, <1>8 DEF RestoreSnapshot, TablesType
<1>10. HistoryType'
  BY <1>1, <1>7 DEF RestoreSnapshot, HistoryType
<1>11. ASSUME NEW o \in Objects
       PROVE  [object |-> o, version |-> new[o]] \in Change
  BY <1>5 DEF Change
<1>12. PICK told \in SUBSET Objects :
           outbound' = [outbound EXCEPT ![h] = {[object |-> o, version |-> new[o]] : o \in told}]
  BY DEF RestoreSnapshot, ObjectsOf
<1>13. GoTo(h, "cast") /\ UNCHANGED <<todo, queue, row, target, acks>>
  BY DEF RestoreSnapshot
<1> HIDE DEF new
<1>14. outbound' \in [Handlers -> SUBSET Change]
  BY <1>1, <1>11, <1>12 DEF HandlersType
<1>15. HandlersType'
  BY <1>1, <1>13, <1>14 DEF HandlersType, GoTo, Steps, Ingesting
<1> QED
  BY <1>9, <1>10, <1>15 DEF TypeOK

LEMMA InsertPageType ==
    ASSUME TypeOK, NEW h \in Handlers, NEW n \in Notes, NEW moved \in SUBSET ObjectsOf(n),
           InsertPage(h, n, moved)
    PROVE  TypeOK'
<1>1. TablesType /\ HandlersType /\ HistoryType
  BY DEF TypeOK
<1>2. moved \subseteq Objects /\ \A o \in moved : objects[o] # Absent
  BY DEF ObjectsOf, InsertPage
<1>3. ASSUME NEW o \in moved
      PROVE  ShiftedVersion(o) \in Version
  <2>1. objects[o] \in Version
    BY <1>1, <1>2 DEF TablesType, MaybeVersion
  <2> QED
    BY <2>1 DEF ShiftedVersion, Version
<1> DEFINE new == [o \in Objects |-> IF o \in moved THEN ShiftedVersion(o) ELSE objects[o]]
<1>4. new \in [Objects -> MaybeVersion]
  BY <1>1, <1>3 DEF TablesType, MaybeVersion
<1>5. WriteObjects(new)
  BY DEF InsertPage
<1>6. objects' \in [Objects -> MaybeVersion] /\ highest' \in [Objects -> Int]
  BY <1>1, <1>4, <1>5, WriteObjectsType DEF HistoryType
<1>7. TablesType'
  BY <1>1, <1>6, TouchNoteType DEF InsertPage, TablesType
<1>8. HistoryType'
  BY <1>1, <1>6 DEF InsertPage, HistoryType
<1>9. ShiftedChanges(moved) \subseteq Change
  BY <1>2, <1>3 DEF ShiftedChanges, Change, MaybeVersion
<1>10. HandlersType'
  BY <1>1, <1>9 DEF InsertPage, HandlersType, GoTo, Steps, Ingesting
<1> QED
  BY <1>7, <1>8, <1>10 DEF TypeOK

LEMMA HousekeepingType ==
    ASSUME TypeOK, Housekeeping
    PROVE  TypeOK'
<1>1. TablesType /\ HandlersType /\ HistoryType
  BY DEF TypeOK
<1>2. ASSUME UNCHANGED handler, TablesType', HistoryType'
      PROVE  TypeOK'
  BY <1>1, <1>2 DEF TypeOK, HandlersType, handler
<1>3. ASSUME NEW n \in Notes, CreateSnapshot(n)
      PROVE  TypeOK'
  <2> DEFINE saved == [o \in Objects |-> IF objects[o] = Absent \/ NoteOf[o] # n THEN Absent
                                         ELSE objects[o].content]
             s == [note |-> n, state |-> notes[n].state, saved |-> saved]
  <2>1. saved \in [Objects -> Contents \cup {Absent}]
    BY <1>1 DEF TablesType, MaybeVersion, Version
  <2>2. notes[n].state \in {"live", "trashed"}
    BY <1>1, <1>3 DEF CreateSnapshot, OwnerMayEdit, TablesType, NoteRow
  <2>3. s \in Snapshot
    BY <2>1, <2>2 DEF Snapshot
  <2>4. snapshots' = snapshots \cup {s}
    BY <1>3 DEF CreateSnapshot
  <2>5. TablesType'
    BY <1>1, <1>3, <2>3, <2>4, TouchNoteType DEF CreateSnapshot, TablesType
  <2>6. HistoryType'
    BY <1>1, <1>3 DEF CreateSnapshot, HistoryType, history
  <2> QED
    BY <1>2, <1>3, <2>5, <2>6 DEF CreateSnapshot
<1>4. ASSUME NEW n \in Notes, PurgeNote(n)
      PROVE  TypeOK'
  <2>1. objects' \in [Objects -> MaybeVersion] /\ notes' \in [Notes -> NoteRow]
    BY <1>1, <1>4 DEF PurgeNote, TablesType, MaybeVersion, NoteRow
  <2>2. ledger' \in [OpIds -> Outcomes] /\ forgotten' \in [OpIds -> Nat]
    BY <1>1, <1>4 DEF PurgeNote, TablesType, HistoryType, Outcomes
  <2>3. conflicts' \in [ConflictIds -> Conflict \cup {NoConflict}] /\ snapshots' \subseteq Snapshot
    BY <1>1, <1>4 DEF PurgeNote, TablesType
  <2> QED
    BY <1>1, <1>2, <1>4, <2>1, <2>2, <2>3 DEF PurgeNote, TablesType, HistoryType
<1>5. ASSUME NEW n \in Notes, NEW s \in {"live", "trashed"}, SetTrashed(n, s)
      PROVE  TypeOK'
  <2>1. [Touched(n) EXCEPT !.state = s] \in NoteRow
    BY <1>1, TouchedType DEF TablesType, NoteRow
  <2> QED
    BY <1>1, <1>2, <1>5, <2>1 DEF SetTrashed, TablesType, HistoryType, history
<1>6. ASSUME NEW s \in snapshots, ExpireSnapshot(s)
      PROVE  TypeOK'
  BY <1>1, <1>2, <1>6 DEF ExpireSnapshot, TablesType, HistoryType, history
<1>7. ASSUME NEW id \in OpIds, ExpireOperation(id)
      PROVE  TypeOK'
  BY <1>1, <1>2, <1>7 DEF ExpireOperation, TablesType, HistoryType, Outcomes
<1> QED
  BY <1>3, <1>4, <1>5, <1>6, <1>7 DEF Housekeeping

LEMMA TypeStep == TypeOK /\ [Next]_vars => TypeOK'
<1> SUFFICES ASSUME TypeOK, [Next]_vars
             PROVE  TypeOK'
  OBVIOUS
<1>1. ASSUME NEW h \in Handlers, Handle(h)
      PROVE  TypeOK'
  BY <1>1, IngestType, RequestType, ResolutionType, RestoreType, InsertPageType DEF Handle, Resolve
<1>2. CASE Housekeeping
  BY <1>2, HousekeepingType
<1>3. CASE UNCHANGED vars
  BY <1>3 DEF vars, tables, handler, history, TypeOK, TablesType, HandlersType, HistoryType
<1> QED
  BY <1>1, <1>2, <1>3 DEF Next

\* Every table, every handler and every recorded history keeps its type, whatever
\* the requests and however their steps interleave.
THEOREM TypeCorrect == Spec => []TypeOK
<1>1. ASSUME Init
      PROVE  TypeOK
  <2>1. TablesType
    BY <1>1 DEF Init, TablesType, MaybeVersion, NoteRow, Outcomes
  <2>2. HandlersType
    BY <1>1 DEF Init, HandlersType, Outcomes, Steps, Ingesting
  <2>3. effects \in [OpIds -> Nat] /\ forgotten \in [OpIds -> Nat] /\ highest \in [Objects -> Int]
    BY <1>1 DEF Init
  <2>4. sent \subseteq Change /\ received \in Nat /\ dropped \in BOOLEAN
    BY <1>1 DEF Init
  <2>5. HistoryType
    BY <2>3, <2>4 DEF HistoryType
  <2> QED
    BY <2>1, <2>2, <2>5 DEF TypeOK
<1> QED
  BY <1>1, TypeStep, PTL DEF Spec
-----------------------------------------------------------------------------
(* Which steps can disturb the ledger *)

\* Everything but an ingested operation, a purge and the retention job leaves the
\* ledger alone.
LEMMA LedgerSteps ==
    ASSUME [Next]_vars
    PROVE  \/ UNCHANGED <<ledger, effects, forgotten>>
           \/ \E h \in Handlers : Ingest(h)
           \/ \E n \in Notes : PurgeNote(n)
           \/ \E id \in OpIds : ExpireOperation(id)
<1>1. ASSUME NEW h \in Handlers, Handle(h), ~Ingest(h)
      PROVE  UNCHANGED <<ledger, effects, forgotten>>
  <2>1. CASE \/ \E batch \in Batches : Receive(h, batch)
             \/ CheckNote(h) \/ DuplicateCheck(h) \/ ReadRecorded(h) \/ ReloadCurrent(h)
             \/ ReadAbsent(h) \/ UniqueViolation(h)
    BY <2>1 DEF Receive, CheckNote, DuplicateCheck, ReadRecorded, ReloadCurrent, ReadAbsent,
                UniqueViolation, tables, history
  <2>2. CASE \/ Broadcast(h) \/ Respond(h) \/ Fail(h)
             \/ \E c \in ConflictIds : StartResolve(h, c)
    BY <2>2 DEF Broadcast, Respond, Fail, StartResolve, tables, history
  <2>3. CASE Resolve(h)
    BY <2>3 DEF Resolve, KeepBase, ResolveReadsAbsent, TakeIncoming, tables, history
  <2>4. CASE \/ \E s \in snapshots : RestoreSnapshot(h, s)
             \/ \E n \in Notes : \E moved \in SUBSET ObjectsOf(n) : InsertPage(h, n, moved)
    BY <2>4 DEF RestoreSnapshot, InsertPage
  <2> QED
    BY <1>1, <2>1, <2>2, <2>3, <2>4 DEF Handle
<1>2. ASSUME Housekeeping
      PROVE  \/ UNCHANGED <<ledger, effects, forgotten>>
             \/ \E n \in Notes : PurgeNote(n)
             \/ \E id \in OpIds : ExpireOperation(id)
  BY <1>2 DEF Housekeeping, CreateSnapshot, SetTrashed, ExpireSnapshot, history
<1>3. CASE UNCHANGED vars
  BY <1>3 DEF vars, tables, history
<1> QED
  BY <1>1, <1>2, <1>3 DEF Next

\* An ingested operation inserts the one ledger row that was missing.
LEMMA IngestRecords ==
    ASSUME TypeOK, NEW h \in Handlers, Ingest(h)
    PROVE  /\ queue[h] # <<>>
           /\ Head(queue[h]).id \in OpIds
           /\ \E outcome \in {"applied", "conflict"} :
                 /\ RecordOutcome(Head(queue[h]).id, outcome)
                 /\ Acknowledge(h, outcome)
<1>1. InTransaction(h)
  BY DEF Ingest, ApplyUpsert, ApplyDelete, Park
<1>2. queue[h] # <<>> /\ Head(queue[h]).id \in OpIds
  BY <1>1, TransactionType, HeadType DEF TypeOK
<1> QED
  BY <1>2 DEF Ingest, ApplyUpsert, ApplyDelete, Park
-----------------------------------------------------------------------------
(* An operation is decided once for each row the ledger kept of it *)

LEMMA DecidedStep ==
    ASSUME TypeOK, DecidedOncePerRow, [Next]_vars
    PROVE  DecidedOncePerRow'
<1>1. /\ ledger \in [OpIds -> Outcomes]
      /\ effects \in [OpIds -> Nat]
      /\ forgotten \in [OpIds -> Nat]
  BY DEF TypeOK, TablesType, HistoryType
<1>2. CASE UNCHANGED <<ledger, effects, forgotten>>
  BY <1>2 DEF DecidedOncePerRow
<1>3. ASSUME NEW h \in Handlers, Ingest(h)
      PROVE  DecidedOncePerRow'
  <2>1. PICK id \in OpIds, outcome \in {"applied", "conflict"} : RecordOutcome(id, outcome)
    BY <1>3, IngestRecords
  <2> QED
    BY <1>1, <2>1 DEF DecidedOncePerRow, RecordOutcome, KeyIsFree
<1>4. ASSUME NEW n \in Notes, PurgeNote(n)
      PROVE  DecidedOncePerRow'
  BY <1>1, <1>4 DEF DecidedOncePerRow, PurgeNote
<1>5. ASSUME NEW id \in OpIds, ExpireOperation(id)
      PROVE  DecidedOncePerRow'
  BY <1>1, <1>5 DEF DecidedOncePerRow, ExpireOperation
<1> QED
  BY <1>2, <1>3, <1>4, <1>5, LedgerSteps

\* The server makes operation ids idempotent: however many handlers ingest deliveries
\* of an id at once, the id is decided once for as long as its ledger row is kept.
THEOREM DecidedOnce == Spec => []DecidedOncePerRow
<1>1. Init => DecidedOncePerRow
  BY DEF Init, DecidedOncePerRow
<1> QED
  BY <1>1, DecidedStep, TypeCorrect, PTL DEF Spec
-----------------------------------------------------------------------------
(* What a conflict lost is kept in its row *)

\* Only parking, a resolution and a purge write the conflicts table; a resolution
\* leaves in a row the operation it came from.
LEMMA ConflictSteps ==
    ASSUME TypeOK, [Next]_vars
    PROVE  \/ \A c \in ConflictIds : conflicts'[c] # conflicts[c] =>
                  conflicts[c] # NoConflict /\ conflicts'[c] = [conflicts[c] EXCEPT !.resolved = TRUE]
           \/ \E h \in Handlers : Park(h, Head(queue[h]), ObjectOf[Head(queue[h]).id])
           \/ \E n \in Notes : PurgeNote(n)
<1>0. conflicts \in [ConflictIds -> Conflict \cup {NoConflict}]
  BY DEF TypeOK, TablesType
<1>1. ASSUME NEW h \in Handlers, Handle(h)
      PROVE  \/ UNCHANGED conflicts
             \/ \E c \in ConflictIds : conflicts[c] # NoConflict /\ MarkResolved(c)
             \/ Park(h, Head(queue[h]), ObjectOf[Head(queue[h]).id])
  <2>1. CASE \/ \E batch \in Batches : Receive(h, batch)
             \/ CheckNote(h) \/ DuplicateCheck(h) \/ ReadRecorded(h) \/ ReloadCurrent(h)
             \/ ReadAbsent(h) \/ UniqueViolation(h)
    BY <2>1 DEF Receive, CheckNote, DuplicateCheck, ReadRecorded, ReloadCurrent, ReadAbsent,
                UniqueViolation, tables
  <2>2. CASE \/ Broadcast(h) \/ Respond(h) \/ Fail(h)
             \/ \E c \in ConflictIds : StartResolve(h, c)
    BY <2>2 DEF Broadcast, Respond, Fail, StartResolve, tables
  <2>3. CASE Resolve(h)
    <3>1. pc[h] \in {"resolve", "rewrite"} => target[h] \in ConflictIds \cup {NoConflict}
      BY DEF TypeOK, HandlersType
    <3> QED
      BY <2>3, <3>1 DEF Resolve, KeepBase, ResolveReadsAbsent, TakeIncoming, Resolvable, tables
  <2>4. CASE Ingest(h)
    BY <2>4 DEF Ingest, ApplyUpsert, ApplyDelete
  <2>5. CASE \/ \E s \in snapshots : RestoreSnapshot(h, s)
             \/ \E n \in Notes : \E moved \in SUBSET ObjectsOf(n) : InsertPage(h, n, moved)
    BY <2>5 DEF RestoreSnapshot, InsertPage
  <2> QED
    BY <1>1, <2>1, <2>2, <2>3, <2>4, <2>5 DEF Handle
<1>2. ASSUME NEW c \in ConflictIds, conflicts[c] # NoConflict, MarkResolved(c)
      PROVE  \A d \in ConflictIds : conflicts'[d] # conflicts[d] =>
                conflicts[d] # NoConflict /\ conflicts'[d] = [conflicts[d] EXCEPT !.resolved = TRUE]
  BY <1>0, <1>2 DEF MarkResolved
<1>3. ASSUME Housekeeping
      PROVE  UNCHANGED conflicts \/ \E n \in Notes : PurgeNote(n)
  BY <1>3 DEF Housekeeping, CreateSnapshot, SetTrashed, ExpireSnapshot, ExpireOperation
<1>4. CASE UNCHANGED vars
  BY <1>4 DEF vars, tables
<1> QED
  BY <1>1, <1>2, <1>3, <1>4 DEF Next

LEMMA ConflictsStep ==
    ASSUME TypeOK, ConflictsAreKept, [Next]_vars
    PROVE  ConflictsAreKept'
<1>0. /\ conflicts \in [ConflictIds -> Conflict \cup {NoConflict}]
      /\ ledger \in [OpIds -> Outcomes]
  BY DEF TypeOK, TablesType
<1>1. ASSUME NEW h \in Handlers, Park(h, Head(queue[h]), ObjectOf[Head(queue[h]).id])
      PROVE  ConflictsAreKept'
  <2>1. PICK c \in ConflictIds :
           /\ conflicts[c] = NoConflict
           /\ conflicts' = [conflicts EXCEPT ![c] = [op |-> Head(queue[h]).id,
                                 mutation |-> Head(queue[h]).mutation, resolved |-> FALSE]]
    BY <1>1 DEF Park, RecordConflict
  <2>2. Head(queue[h]).id \in OpIds /\ Head(queue[h]).mutation \in Mutation
    BY <1>1, TransactionType, HeadType DEF Park, TypeOK, Operation
  <2>3. ledger' = [ledger EXCEPT ![Head(queue[h]).id] = "conflict"]
    BY <1>1 DEF Park, RecordOutcome
  <2>4. conflicts'[c] # NoConflict /\ conflicts'[c].op = Head(queue[h]).id
    <3>1. [op |-> Head(queue[h]).id, mutation |-> Head(queue[h]).mutation,
           resolved |-> FALSE] \in Conflict
      BY <2>2 DEF Conflict
    <3>2. conflicts'[c] = [op |-> Head(queue[h]).id, mutation |-> Head(queue[h]).mutation,
                           resolved |-> FALSE]
      BY <1>0, <2>1
    <3>3. conflicts'[c] \in Conflict
      BY <3>1, <3>2
    <3>4. conflicts'[c].op = Head(queue[h]).id
      BY <3>2
    <3> QED
      BY <3>3, <3>4, NoConflictIsNoRow
  <2> QED
    BY <1>0, <2>1, <2>3, <2>4 DEF ConflictsAreKept
<1>2. ASSUME NEW n \in Notes, PurgeNote(n)
      PROVE  ConflictsAreKept'
  BY <1>0, <1>2 DEF PurgeNote, ConflictsAreKept
<1>3. ASSUME \A c \in ConflictIds : conflicts'[c] # conflicts[c] =>
                conflicts[c] # NoConflict /\ conflicts'[c] = [conflicts[c] EXCEPT !.resolved = TRUE],
             \A h \in Handlers : ~Park(h, Head(queue[h]), ObjectOf[Head(queue[h]).id]),
             \A n \in Notes : ~PurgeNote(n)
      PROVE  ConflictsAreKept'
  <2>1. ASSUME NEW c \in ConflictIds, conflicts[c] # NoConflict
        PROVE  conflicts'[c] # NoConflict /\ conflicts'[c].op = conflicts[c].op
    <3>1. conflicts[c] \in Conflict
      BY <1>0, <2>1
    <3> QED
      BY <1>3, <2>1, <3>1, NoConflictIsNoRow DEF Conflict
  <2>2. ASSUME NEW id \in OpIds, ledger'[id] = "conflict" PROVE ledger[id] = "conflict"
    <3>1. CASE \E h \in Handlers : Ingest(h)
      <4>1. PICK h \in Handlers : RecordOutcome(Head(queue[h]).id, "applied")
        BY <1>3, <3>1 DEF Ingest, ApplyUpsert, ApplyDelete
      <4> QED
        BY <1>0, <2>2, <4>1 DEF RecordOutcome
    <3>2. CASE \E x \in OpIds : ExpireOperation(x)
      BY <1>0, <2>2, <3>2 DEF ExpireOperation
    <3> QED
      BY <1>3, <2>2, <3>1, <3>2, LedgerSteps
  <2> QED
    BY <2>1, <2>2 DEF ConflictsAreKept
<1> QED
  BY <1>1, <1>2, <1>3, ConflictSteps

\* What the owner of an operation recorded as a conflict sent is in the conflicts
\* table for as long as the ledger says so: a parked version is never lost.
THEOREM ConflictsKept == Spec => []ConflictsAreKept
<1>1. Init => ConflictsAreKept
  BY DEF Init, ConflictsAreKept
<1> QED
  BY <1>1, ConflictsStep, TypeCorrect, PTL DEF Spec
-----------------------------------------------------------------------------
(* The note's revision bounds the revisions of its objects *)

\* A write of objects keeps the watermark if no note's revision drops and every
\* object it changes stays within its note's new revision.
LEMMA WriteWithinWatermark ==
    ASSUME TypeOK, TypeOK', WatermarkCoversObjects, NEW new \in [Objects -> MaybeVersion],
           WriteObjects(new),
           \A n \in Notes : notes'[n].revision >= notes[n].revision,
           \A o \in Objects : \/ new[o] = objects[o]
                              \/ new[o] = Absent
                              \/ new[o].revision <= notes'[NoteOf[o]].revision
    PROVE  WatermarkCoversObjects'
<1> SUFFICES ASSUME NEW o \in Objects
             PROVE  /\ highest'[o] <= notes'[NoteOf[o]].revision
                    /\ objects'[o] # Absent => objects'[o].revision <= highest'[o]
  BY DEF WatermarkCoversObjects
<1>1. /\ NoteOf[o] \in Notes
      /\ notes[NoteOf[o]].revision \in Int /\ notes'[NoteOf[o]].revision \in Int
      /\ highest[o] \in Int
  BY NoteOfType DEF TypeOK, TablesType, HistoryType, NoteRow
<1>2. new[o] # Absent => new[o].revision \in Int
  BY DEF MaybeVersion, Version
<1>3. /\ objects'[o] = new[o]
      /\ highest'[o] = IF new[o] = Absent THEN highest[o] ELSE Larger(highest[o], new[o].revision)
  BY DEF WriteObjects
<1>4. highest[o] <= notes[NoteOf[o]].revision /\ (objects[o] # Absent => objects[o].revision <= highest[o])
  BY DEF WatermarkCoversObjects
<1> QED
  BY <1>1, <1>2, <1>3, <1>4 DEF Larger

\* The revision an upsert is given never exceeds the note's next revision.
LEMMA NextWithinWatermark ==
    ASSUME TypeOK, WatermarkCoversObjects, NEW o \in Objects,
           NEW current \in {Absent, objects[o]}
    PROVE  NextRevision(current) <= notes[NoteOf[o]].revision + 1
<1>1. NoteOf[o] \in Notes /\ notes[NoteOf[o]].revision \in Nat
  BY NoteOfType DEF TypeOK, TablesType, NoteRow
<1>2. objects[o] # Absent => objects[o].revision \in Nat
  BY DEF TypeOK, TablesType, MaybeVersion, Version
<1>3. highest[o] \in Int
  BY DEF TypeOK, HistoryType
<1>4. objects[o] # Absent => objects[o].revision <= notes[NoteOf[o]].revision
  BY <1>1, <1>2, <1>3 DEF WatermarkCoversObjects
<1> QED
  BY <1>1, <1>2, <1>4 DEF NextRevision

\* A touched note rises by one and every other note stays.
LEMMA TouchRaises ==
    ASSUME TypeOK, NEW n \in Notes, TouchNote(n)
    PROVE  /\ notes'[n].revision = notes[n].revision + 1
           /\ \A m \in Notes : notes'[m].revision >= notes[m].revision
<1>1. \A m \in Notes : notes[m].revision \in Nat
  BY DEF TypeOK, TablesType, NoteRow
<1>2. notes \in [Notes -> NoteRow]
  BY DEF TypeOK, TablesType
<1> QED
  BY <1>1, <1>2, TouchedType DEF TouchNote

\* Steps that write no object and lower no note keep the watermark.
LEMMA UntouchedWatermark ==
    ASSUME TypeOK, TypeOK', WatermarkCoversObjects, UNCHANGED <<objects, highest>>,
           \A n \in Notes : notes'[n].revision >= notes[n].revision
    PROVE  WatermarkCoversObjects'
<1> SUFFICES ASSUME NEW o \in Objects
             PROVE  /\ highest'[o] <= notes'[NoteOf[o]].revision
                    /\ objects'[o] # Absent => objects'[o].revision <= highest'[o]
  BY DEF WatermarkCoversObjects
<1>1. /\ NoteOf[o] \in Notes
      /\ notes[NoteOf[o]].revision \in Int /\ notes'[NoteOf[o]].revision \in Int
      /\ highest[o] \in Int
  BY NoteOfType DEF TypeOK, TablesType, HistoryType, NoteRow
<1> QED
  BY <1>1 DEF WatermarkCoversObjects

LEMMA IngestWatermark ==
    ASSUME TypeOK, TypeOK', WatermarkCoversObjects, NEW h \in Handlers, Ingest(h)
    PROVE  WatermarkCoversObjects'
<1> DEFINE op == Head(queue[h])
           o == ObjectOf[op.id]
           n == NoteOf[o]
<1>1. queue[h] # <<>> /\ o \in Objects /\ n \in Notes /\ op.mutation \in Mutation
  BY IngestRecords, HeadType DEF TypeOK
<1>2. objects \in [Objects -> MaybeVersion] /\ \A m \in Notes : notes[m].revision \in Nat
  BY DEF TypeOK, TablesType, NoteRow
<1>3. Loaded(h) \in {Absent, objects[o]}
  BY DEF Loaded
<1>4. CASE ApplyUpsert(h, op, o)
  <2> DEFINE v == [revision |-> NextRevision(Loaded(h)), content |-> op.mutation]
             new == [objects EXCEPT ![o] = v]
  <2>1. Loaded(h) \in MaybeVersion
    BY <1>1, <1>2, <1>3 DEF MaybeVersion
  <2>2. v \in Version
    BY <1>1, <1>4, <2>1, NextVersionType DEF ApplyUpsert, Mutation
  <2>3. new \in [Objects -> MaybeVersion] /\ WriteObjects(new)
    BY <1>2, <1>4, <2>2 DEF ApplyUpsert, MaybeVersion
  <2>4. /\ notes'[n].revision = notes[n].revision + 1
        /\ \A m \in Notes : notes'[m].revision >= notes[m].revision
    BY <1>1, <1>4, TouchRaises DEF ApplyUpsert
  <2>5. v.revision <= notes'[n].revision
    BY <1>1, <1>3, <2>4, NextWithinWatermark
  <2>6. \A x \in Objects : new[x] = objects[x] \/ new[x].revision <= notes'[NoteOf[x]].revision
    BY <1>2, <2>5
  <2> QED
    BY <2>3, <2>4, <2>6, WriteWithinWatermark
<1>5. CASE ApplyDelete(h, op, o)
  <2> DEFINE new == [objects EXCEPT ![o] = Absent]
  <2>1. new \in [Objects -> MaybeVersion] /\ WriteObjects(new)
    BY <1>2, <1>5 DEF ApplyDelete, MaybeVersion
  <2>2. \A m \in Notes : notes'[m].revision >= notes[m].revision
    BY <1>1, <1>2, <1>5, TouchRaises DEF ApplyDelete
  <2>3. \A x \in Objects : new[x] = objects[x] \/ new[x] = Absent
    BY <1>2
  <2> QED
    BY <2>1, <2>2, <2>3, WriteWithinWatermark
<1>6. CASE Park(h, op, o)
  BY <1>1, <1>6, TouchRaises, UntouchedWatermark DEF Park
<1> QED
  BY <1>4, <1>5, <1>6 DEF Ingest

LEMMA ResolutionWatermark ==
    ASSUME TypeOK, TypeOK', WatermarkCoversObjects, NEW h \in Handlers, Resolve(h)
    PROVE  WatermarkCoversObjects'
<1> DEFINE c == target[h]
           o == ObjectOf[conflicts[c].op]
           n == NoteOf[o]
<1>1. /\ o \in Objects /\ n \in Notes
      /\ conflicts[c].mutation \in Mutation
  BY ResolvableType DEF Resolve, KeepBase, ResolveReadsAbsent, TakeIncoming
<1>2. objects \in [Objects -> MaybeVersion] /\ \A m \in Notes : notes[m].revision \in Nat
  BY DEF TypeOK, TablesType, NoteRow
<1>3. CASE KeepBase(h, c)
  <2>1. TouchNote(n) /\ UNCHANGED <<objects, highest>>
    BY <1>3 DEF KeepBase, history
  <2> QED
    BY <1>1, <2>1, TouchRaises, UntouchedWatermark
<1>4. CASE ResolveReadsAbsent(h, c)
  <2>1. UNCHANGED <<objects, highest, notes>>
    BY <1>4 DEF ResolveReadsAbsent, history, tables
  <2> QED
    BY <1>2, <2>1, UntouchedWatermark
<1>5. CASE TakeIncoming(h, c)
  <2> DEFINE current == IF pc[h] = "rewrite" THEN Absent ELSE objects[o]
             v == IF conflicts[c].mutation = Deleted THEN Absent
                  ELSE [revision |-> NextRevision(current), content |-> conflicts[c].mutation]
             new == [objects EXCEPT ![o] = v]
  <2>1. current \in {Absent, objects[o]} /\ current \in MaybeVersion
    BY <1>1, <1>2 DEF MaybeVersion
  <2>2. conflicts[c].mutation # Deleted => v \in Version
    BY <1>1, <2>1, NextVersionType DEF Mutation
  <2>3. new \in [Objects -> MaybeVersion]
    BY <1>2, <2>2 DEF MaybeVersion
  <2>4. WriteObjects(new)
    BY <1>5 DEF TakeIncoming
  <2>5. /\ notes'[n].revision = notes[n].revision + 1
        /\ \A m \in Notes : notes'[m].revision >= notes[m].revision
    BY <1>1, <1>5, TouchRaises DEF TakeIncoming
  <2>6. v = Absent \/ v.revision <= notes'[n].revision
    BY <1>1, <2>1, <2>5, NextWithinWatermark
  <2>7. \A x \in Objects : new[x] = objects[x] \/ new[x] = Absent
                              \/ new[x].revision <= notes'[NoteOf[x]].revision
    BY <1>2, <2>6
  <2> QED
    BY <2>3, <2>4, <2>5, <2>7, WriteWithinWatermark
<1> QED
  BY <1>3, <1>4, <1>5 DEF Resolve

\* A restore gives every object of the note a revision above all it had, and at
\* most the note's next revision.
LEMMA RestoredRevisions ==
    ASSUME TypeOK, WatermarkCoversObjects, NEW s \in snapshots, NEW o \in Objects,
           NoteOf[o] = s.note, RestoredVersion(s, o) # Absent
    PROVE  /\ RestoredVersion(s, o) \in Version
           /\ RestoredVersion(s, o).revision = notes[s.note].revision + 1
           /\ RestoredVersion(s, o).revision > highest[o]
<1>1. /\ notes[NoteOf[o]].revision \in Nat /\ highest[o] \in Int
      /\ objects[o] # Absent => objects[o].revision \in Nat
      /\ s.saved[o] \in Contents \cup {Absent}
  BY NoteOfType DEF TypeOK, TablesType, HistoryType, NoteRow, MaybeVersion, Version, Snapshot
<1>2. /\ highest[o] <= notes[s.note].revision
      /\ objects[o] # Absent => objects[o].revision <= notes[s.note].revision
  BY <1>1 DEF WatermarkCoversObjects
<1>3. RestoredRevision(objects[o], notes[s.note].revision) = notes[s.note].revision + 1
  BY <1>1, <1>2 DEF RestoredRevision, Larger
<1>4. s.saved[o] \in Contents
  BY <1>1 DEF RestoredVersion
<1> QED
  BY <1>1, <1>2, <1>3, <1>4 DEF RestoredVersion, Version

LEMMA RestoreWatermark ==
    ASSUME TypeOK, TypeOK', WatermarkCoversObjects, NEW h \in Handlers, NEW s \in snapshots,
           RestoreSnapshot(h, s)
    PROVE  WatermarkCoversObjects'
<1> DEFINE new == [o \in Objects |-> RestoredVersion(s, o)]
<1>1. s.note \in Notes /\ s.state \in {"live", "trashed"}
  BY DEF TypeOK, TablesType, Snapshot
<1>2. objects \in [Objects -> MaybeVersion] /\ notes \in [Notes -> NoteRow]
  BY DEF TypeOK, TablesType
<1>3. ASSUME NEW o \in Objects
      PROVE  \/ NoteOf[o] # s.note /\ new[o] = objects[o]
             \/ NoteOf[o] = s.note /\ new[o] = Absent
             \/ /\ NoteOf[o] = s.note /\ new[o] \in Version
                /\ new[o].revision = notes[s.note].revision + 1
  BY RestoredRevisions DEF RestoredVersion
<1>4. new \in [Objects -> MaybeVersion] /\ WriteObjects(new)
  BY <1>2, <1>3 DEF MaybeVersion, RestoreSnapshot
<1>5. notes' = [notes EXCEPT ![s.note] = [Touched(s.note) EXCEPT !.state = s.state]]
  BY DEF RestoreSnapshot
<1>6. notes'[s.note].revision = notes[s.note].revision + 1
  BY <1>1, <1>2, <1>5, TouchedType DEF NoteRow
<1>7. \A m \in Notes : notes[m].revision \in Nat
  BY <1>2 DEF NoteRow
<1>8. \A m \in Notes : notes'[m].revision >= notes[m].revision
  BY <1>1, <1>2, <1>5, <1>6, <1>7
<1>9. \A o \in Objects : \/ new[o] = objects[o] \/ new[o] = Absent
                         \/ new[o].revision <= notes'[NoteOf[o]].revision
  BY <1>1, <1>3, <1>6, <1>7
<1> QED
  BY <1>4, <1>8, <1>9, WriteWithinWatermark

LEMMA InsertPageWatermark ==
    ASSUME TypeOK, TypeOK', WatermarkCoversObjects, NEW h \in Handlers, NEW n \in Notes,
           NEW moved \in SUBSET ObjectsOf(n), InsertPage(h, n, moved)
    PROVE  WatermarkCoversObjects'
<1> DEFINE new == [o \in Objects |-> IF o \in moved THEN ShiftedVersion(o) ELSE objects[o]]
<1>1. objects \in [Objects -> MaybeVersion] /\ \A o \in Objects : highest[o] \in Int
  BY DEF TypeOK, TablesType, HistoryType
<1>2. /\ notes'[n].revision = notes[n].revision + 1
      /\ \A m \in Notes : notes'[m].revision >= notes[m].revision
      /\ notes[n].revision \in Nat
  BY TouchRaises DEF InsertPage, TypeOK, TablesType, NoteRow
<1>3. ASSUME NEW o \in moved
      PROVE  /\ o \in Objects /\ NoteOf[o] = n
             /\ new[o] \in Version
             /\ new[o].revision <= notes'[n].revision
  <2>1. o \in Objects /\ NoteOf[o] = n /\ objects[o] # Absent
    BY DEF ObjectsOf, InsertPage
  <2>2. objects[o] \in Version
    BY <1>1, <2>1 DEF MaybeVersion
  <2>3. objects[o].revision <= notes[n].revision
    BY <1>1, <1>2, <2>1, <2>2 DEF WatermarkCoversObjects, Version
  <2> QED
    BY <1>2, <2>1, <2>2, <2>3 DEF ShiftedVersion, Version
<1>4. new \in [Objects -> MaybeVersion] /\ WriteObjects(new)
  BY <1>1, <1>3 DEF MaybeVersion, InsertPage
<1>5. \A o \in Objects : new[o] = objects[o] \/ new[o].revision <= notes'[NoteOf[o]].revision
  BY <1>3
<1> QED
  BY <1>2, <1>4, <1>5, WriteWithinWatermark

LEMMA HousekeepingWatermark ==
    ASSUME TypeOK, TypeOK', WatermarkCoversObjects, Housekeeping
    PROVE  WatermarkCoversObjects'
<1>1. notes \in [Notes -> NoteRow] /\ \A m \in Notes : notes[m].revision \in Nat
  BY DEF TypeOK, TablesType, NoteRow
<1>2. ASSUME NEW n \in Notes, CreateSnapshot(n)
      PROVE  WatermarkCoversObjects'
  BY <1>2, TouchRaises, UntouchedWatermark DEF CreateSnapshot, history
<1>3. ASSUME NEW n \in Notes, PurgeNote(n)
      PROVE  WatermarkCoversObjects'
  <2>1. \A m \in Notes : notes'[m].revision = notes[m].revision
    BY <1>1, <1>3 DEF PurgeNote, NoteRow
  <2>2. highest' = highest /\ \A o \in Objects : objects'[o] = Absent \/ objects'[o] = objects[o]
    BY <1>3 DEF PurgeNote
  <2> QED
    BY <2>1, <2>2, NoteOfType DEF WatermarkCoversObjects
<1>4. ASSUME NEW n \in Notes, NEW s \in {"live", "trashed"}, SetTrashed(n, s)
      PROVE  WatermarkCoversObjects'
  <2>1. notes' = [notes EXCEPT ![n] = [Touched(n) EXCEPT !.state = s]]
    BY <1>4 DEF SetTrashed
  <2>2. notes'[n].revision = notes[n].revision + 1
    BY <1>1, <2>1, TouchedType DEF NoteRow
  <2>3. \A m \in Notes : notes'[m].revision >= notes[m].revision
    BY <1>1, <2>1, <2>2
  <2> QED
    BY <1>4, <2>3, UntouchedWatermark DEF SetTrashed, history
<1>5. ASSUME UNCHANGED <<objects, notes, highest>>
      PROVE  WatermarkCoversObjects'
  BY <1>5 DEF WatermarkCoversObjects
<1> QED
  BY <1>2, <1>3, <1>4, <1>5 DEF Housekeeping, ExpireSnapshot, ExpireOperation, history

LEMMA WatermarkStep ==
    ASSUME TypeOK, TypeOK', WatermarkCoversObjects, [Next]_vars
    PROVE  WatermarkCoversObjects'
<1>1. ASSUME UNCHANGED <<objects, notes, highest>>
      PROVE  WatermarkCoversObjects'
  BY <1>1 DEF WatermarkCoversObjects
<1>2. ASSUME NEW h \in Handlers, Handle(h)
      PROVE  WatermarkCoversObjects'
  <2>1. CASE \/ \E batch \in Batches : Receive(h, batch)
             \/ CheckNote(h) \/ DuplicateCheck(h) \/ ReadRecorded(h) \/ ReloadCurrent(h)
             \/ ReadAbsent(h) \/ UniqueViolation(h)
    BY <1>1, <2>1 DEF Receive, CheckNote, DuplicateCheck, ReadRecorded, ReloadCurrent, ReadAbsent,
                UniqueViolation, tables, history
  <2>2. CASE \/ Broadcast(h) \/ Respond(h) \/ Fail(h)
             \/ \E c \in ConflictIds : StartResolve(h, c)
    BY <1>1, <2>2 DEF Broadcast, Respond, Fail, StartResolve, tables, history
  <2> QED
    BY <1>2, <2>1, <2>2, IngestWatermark, ResolutionWatermark, RestoreWatermark,
       InsertPageWatermark DEF Handle
<1>3. CASE UNCHANGED vars
  BY <1>1, <1>3 DEF vars, tables, history
<1> QED
  BY <1>2, <1>3, HousekeepingWatermark DEF Next

\* The revision of a note bounds every revision any of its objects ever had.
THEOREM Watermark == Spec => []WatermarkCoversObjects
<1>1. ASSUME Init
      PROVE  WatermarkCoversObjects
  <2>1. \A n \in Notes : notes[n].revision = 0
    BY <1>1 DEF Init
  <2>2. \A o \in Objects : highest[o] = -1 /\ objects[o] = Absent
    BY <1>1 DEF Init
  <2>3. ASSUME NEW o \in Objects
        PROVE  highest[o] <= notes[NoteOf[o]].revision
    <3>1. NoteOf[o] \in Notes
      BY NoteOfType
    <3>2. notes[NoteOf[o]].revision = 0 /\ highest[o] = -1
      BY <2>1, <2>2, <3>1
    <3> QED
      BY <3>2
  <2> QED
    BY <2>2, <2>3 DEF WatermarkCoversObjects
<1> QED
  BY <1>1, WatermarkStep, TypeCorrect, PTL DEF Spec

\* nextRestoredObjectRevision keeps its word: the version a restore gives an object
\* is newer than any a client may hold, even of an object that was deleted.
THEOREM RestoreNewest == Spec => RestoredIsNewest
<1>1. ASSUME TypeOK, WatermarkCoversObjects
      PROVE  \A h \in Handlers : \A s \in snapshots : RestoreSnapshot(h, s) =>
                 \A o \in ObjectsOf(s.note) :
                     objects'[o] # Absent => objects'[o].revision > highest[o]
  <2>1. SUFFICES ASSUME NEW h \in Handlers, NEW s \in snapshots, RestoreSnapshot(h, s),
                        NEW o \in ObjectsOf(s.note), objects'[o] # Absent
                 PROVE  objects'[o].revision > highest[o]
    OBVIOUS
  <2>2. o \in Objects /\ NoteOf[o] = s.note
    BY DEF ObjectsOf
  <2>3. WriteObjects([x \in Objects |-> RestoredVersion(s, x)])
    BY <2>1 DEF RestoreSnapshot
  <2>4. objects'[o] = RestoredVersion(s, o)
    BY <2>2, <2>3 DEF WriteObjects
  <2> QED
    BY <1>1, <2>1, <2>2, <2>4, RestoredRevisions
<1> QED
  BY <1>1, TypeCorrect, Watermark, PTL DEF RestoredIsNewest
-----------------------------------------------------------------------------
(* Acknowledgements tell what the ledger recorded *)

\* The ledger never changes its mind about a row it keeps.
LEMMA RecordedStays ==
    ASSUME TypeOK, [Next]_vars, NEW id \in OpIds, forgotten'[id] = 0
    PROVE  /\ forgotten[id] = 0
           /\ ledger[id] # "none" => ledger'[id] = ledger[id]
<1>1. /\ ledger \in [OpIds -> Outcomes]
      /\ forgotten \in [OpIds -> Nat]
  BY DEF TypeOK, TablesType, HistoryType
<1>2. ASSUME NEW h \in Handlers, Ingest(h)
      PROVE  forgotten[id] = 0 /\ (ledger[id] # "none" => ledger'[id] = ledger[id])
  <2>1. PICK x \in OpIds, outcome \in {"applied", "conflict"} : RecordOutcome(x, outcome)
    BY <1>2, IngestRecords
  <2> QED
    BY <1>1, <2>1 DEF RecordOutcome, KeyIsFree
<1>3. ASSUME NEW n \in Notes, PurgeNote(n)
      PROVE  forgotten[id] = 0 /\ (ledger[id] # "none" => ledger'[id] = ledger[id])
  BY <1>1, <1>3 DEF PurgeNote
<1>4. ASSUME NEW x \in OpIds, ExpireOperation(x)
      PROVE  forgotten[id] = 0 /\ (ledger[id] # "none" => ledger'[id] = ledger[id])
  BY <1>1, <1>4 DEF ExpireOperation
<1> QED
  BY <1>2, <1>3, <1>4, LedgerSteps

\* What a duplicate delivery read of the ledger is what the ledger still says.
ReadsAreCurrent ==
    \A h \in Handlers : pc[h] = "reload" =>
        /\ row[h] # "none"
        /\ forgotten[Head(queue[h]).id] = 0 => ledger[Head(queue[h]).id] = row[h]

\* The outcome an acknowledgement status stands for.
Told(status) == IF status = "conflict" THEN "conflict" ELSE "applied"

AcksInv == ReadsAreCurrent /\ AcksTellTheOutcome

\* A step changes what a handler will reload only by reading the ledger.
LEMMA ReloadSteps ==
    ASSUME TypeOK, [Next]_vars, NEW h \in Handlers, pc'[h] = "reload"
    PROVE  \/ pc[h] = "reload" /\ UNCHANGED <<queue[h], row[h]>>
           \/ ReadRecorded(h)
<1>0. /\ pc \in [Handlers -> Steps] /\ queue \in [Handlers -> Seq(Operation)]
      /\ row \in [Handlers -> Outcomes]
  BY DEF TypeOK, HandlersType
<1>1. ASSUME NEW g \in Handlers, Handle(g), ~ReadRecorded(h)
      PROVE  pc[h] = "reload" /\ UNCHANGED <<queue[h], row[h]>>
  <2>1. CASE \/ \E batch \in Batches : Receive(g, batch)
             \/ CheckNote(g) \/ DuplicateCheck(g) \/ ReadRecorded(g) \/ ReloadCurrent(g)
             \/ ReadAbsent(g) \/ UniqueViolation(g)
    BY <1>0, <1>1, <2>1 DEF Receive, CheckNote, DuplicateCheck, ReadRecorded, ReloadCurrent,
       ReadAbsent, UniqueViolation, GoTo, NextStep
  <2>2. CASE \/ Broadcast(g) \/ Respond(g) \/ Fail(g)
             \/ \E c \in ConflictIds : StartResolve(g, c)
    BY <1>0, <2>2 DEF Broadcast, Respond, Fail, StartResolve, GoTo, NextStep, Leave
  <2>3. CASE Ingest(g)
    BY <1>0, <2>3 DEF Ingest, ApplyUpsert, ApplyDelete, Park, GoTo, NextStep, Acknowledge
  <2>4. CASE Resolve(g)
    BY <1>0, <2>4 DEF Resolve, KeepBase, ResolveReadsAbsent, TakeIncoming, GoTo
  <2>5. CASE \/ \E s \in snapshots : RestoreSnapshot(g, s)
             \/ \E n \in Notes : \E moved \in SUBSET ObjectsOf(n) : InsertPage(g, n, moved)
    BY <1>0, <2>5 DEF RestoreSnapshot, InsertPage, GoTo
  <2> QED
    BY <1>1, <2>1, <2>2, <2>3, <2>4, <2>5 DEF Handle
<1>2. CASE Housekeeping
  BY <1>2 DEF Housekeeping, CreateSnapshot, PurgeNote, SetTrashed, ExpireSnapshot,
              ExpireOperation, handler
<1>3. CASE UNCHANGED vars
  BY <1>3 DEF vars, handler
<1> QED
  BY <1>1, <1>2, <1>3 DEF Next

\* A new acknowledgement comes from an ingested operation or from a reload.
LEMMA AckSteps ==
    ASSUME TypeOK, [Next]_vars, NEW h \in Handlers, NEW a \in acks'[h], a \notin acks[h]
    PROVE  \/ /\ Ingest(h)
              /\ \E outcome \in {"applied", "conflict"} :
                    /\ RecordOutcome(a.op, outcome)
                    /\ a.op \in OpIds
                    /\ a.status = outcome
           \/ /\ ReloadCurrent(h)
              /\ a = [op |-> Head(queue[h]).id, status |-> ReackStatus(row[h])]
<1>0. acks \in [Handlers -> SUBSET Ack]
  BY DEF TypeOK, HandlersType
<1>1. ASSUME NEW g \in Handlers, Handle(g), ~Ingest(g), ~ReloadCurrent(g)
      PROVE  FALSE
  <2>1. CASE \/ \E batch \in Batches : Receive(g, batch)
             \/ CheckNote(g) \/ DuplicateCheck(g) \/ ReadRecorded(g)
             \/ ReadAbsent(g) \/ UniqueViolation(g)
    BY <1>0, <2>1 DEF Receive, CheckNote, DuplicateCheck, ReadRecorded, ReadAbsent, UniqueViolation
  <2>2. CASE \/ Broadcast(g) \/ Respond(g) \/ Fail(g)
             \/ \E c \in ConflictIds : StartResolve(g, c)
    BY <1>0, <2>2 DEF Broadcast, Respond, Fail, StartResolve, Leave
  <2>3. CASE Resolve(g)
    BY <1>0, <2>3 DEF Resolve, KeepBase, ResolveReadsAbsent, TakeIncoming
  <2>4. CASE \/ \E s \in snapshots : RestoreSnapshot(g, s)
             \/ \E n \in Notes : \E moved \in SUBSET ObjectsOf(n) : InsertPage(g, n, moved)
    BY <1>0, <2>4 DEF RestoreSnapshot, InsertPage
  <2> QED
    BY <1>1, <2>1, <2>2, <2>3, <2>4 DEF Handle
<1>2. ASSUME NEW g \in Handlers, Ingest(g)
      PROVE  /\ g = h
             /\ \E outcome \in {"applied", "conflict"} :
                   RecordOutcome(a.op, outcome) /\ a.op \in OpIds /\ a.status = outcome
  <2>1. PICK outcome \in {"applied", "conflict"} :
            RecordOutcome(Head(queue[g]).id, outcome) /\ Acknowledge(g, outcome)
    BY <1>2, IngestRecords
  <2>2. g = h /\ a = [op |-> Head(queue[g]).id, status |-> outcome]
    BY <1>0, <2>1 DEF Acknowledge
  <2>3. Head(queue[g]).id \in OpIds
    BY <1>2, IngestRecords
  <2> QED
    BY <2>1, <2>2, <2>3
<1>3. ASSUME NEW g \in Handlers, ReloadCurrent(g)
      PROVE  g = h /\ a = [op |-> Head(queue[h]).id, status |-> ReackStatus(row[h])]
  BY <1>0, <1>3 DEF ReloadCurrent
<1>4. ~Housekeeping /\ ~UNCHANGED vars
  BY DEF Housekeeping, CreateSnapshot, PurgeNote, SetTrashed, ExpireSnapshot,
         ExpireOperation, handler, vars
<1> QED
  BY <1>1, <1>2, <1>3, <1>4 DEF Next

LEMMA AcksStep ==
    ASSUME TypeOK, TypeOK', AcksInv, [Next]_vars
    PROVE  AcksInv'
<1>1. ASSUME NEW h \in Handlers, pc'[h] = "reload"
      PROVE  /\ row'[h] # "none"
             /\ forgotten'[Head(queue'[h]).id] = 0 => ledger'[Head(queue'[h]).id] = row'[h]
  <2>1. CASE pc[h] = "reload" /\ UNCHANGED <<queue[h], row[h]>>
    <3>1. queue[h] # <<>>
      BY <2>1 DEF TypeOK, HandlersType, Ingesting
    <3>2. Head(queue[h]).id \in OpIds
      BY <3>1, HeadType DEF TypeOK
    <3> QED
      BY <2>1, <3>2, RecordedStays DEF AcksInv, ReadsAreCurrent
  <2>2. CASE ReadRecorded(h)
    <3>1. row \in [Handlers -> Outcomes]
      BY DEF TypeOK, HandlersType
    <3> QED
      BY <2>2, <3>1 DEF ReadRecorded, tables
  <2> QED
    BY <1>1, <2>1, <2>2, ReloadSteps
<1>2. ASSUME NEW h \in Handlers, NEW a \in acks'[h], forgotten'[a.op] = 0
      PROVE  ledger'[a.op] = Told(a.status)
  <2>0. a.op \in OpIds
    BY DEF TypeOK, HandlersType, Ack
  <2>1. CASE a \in acks[h]
    <3>1. forgotten[a.op] = 0 /\ (ledger[a.op] # "none" => ledger'[a.op] = ledger[a.op])
      BY <1>2, <2>0, RecordedStays
    <3>2. ledger[a.op] = Told(a.status)
      BY <2>1, <3>1 DEF AcksInv, AcksTellTheOutcome, Told
    <3> QED
      BY <3>1, <3>2 DEF Told
  <2>2. CASE a \notin acks[h]
    <3>1. ledger \in [OpIds -> Outcomes] /\ row[h] \in Outcomes
      BY DEF TypeOK, TablesType, HandlersType
    <3>2. CASE \E outcome \in {"applied", "conflict"} :
                   RecordOutcome(a.op, outcome) /\ a.op \in OpIds /\ a.status = outcome
      BY <3>1, <3>2 DEF RecordOutcome, Told
    <3>3. CASE /\ ReloadCurrent(h)
               /\ a = [op |-> Head(queue[h]).id, status |-> ReackStatus(row[h])]
      <4>1. /\ row[h] # "none"
            /\ UNCHANGED ledger /\ forgotten[a.op] = 0
            /\ ledger[a.op] = row[h]
        BY <1>2, <3>3 DEF ReloadCurrent, AcksInv, ReadsAreCurrent, tables, history
      <4> QED
        BY <3>1, <3>3, <4>1 DEF ReackStatus, Told, Outcomes
    <3> QED
      BY <2>2, <3>2, <3>3, AckSteps
  <2> QED
    BY <2>1, <2>2
<1> QED
  BY <1>1, <1>2 DEF AcksInv, ReadsAreCurrent, AcksTellTheOutcome, Told

\* An acknowledgement never contradicts the ledger, whether the operation was
\* ingested, found recorded, or lost the race for its primary key.
THEOREM AcksTell == Spec => []AcksTellTheOutcome
<1>1. Init => AcksInv
  BY DEF Init, AcksInv, ReadsAreCurrent, AcksTellTheOutcome
<1>2. AcksInv => AcksTellTheOutcome
  BY DEF AcksInv
<1> QED
  BY <1>1, <1>2, AcksStep, TypeCorrect, PTL DEF Spec
-----------------------------------------------------------------------------
(* The handlers implement OperationOutcomes: each commit is one step of the   *)
(* abstract service, everything around it a stutter.                          *)

\* An ingested operation takes effect, or is parked.
LEMMA IngestImplements ==
    ASSUME TypeOK, TypeOK', NEW h \in Handlers, Ingest(h)
    PROVE  \E id \in OpIds : Promise!Apply(id) \/ Promise!Park(id)
<1> DEFINE op == Head(queue[h])
           o == ObjectOf[op.id]
<1>1. queue[h] # <<>> /\ op.id \in OpIds
  BY IngestRecords
<1>2. objects \in [Objects -> MaybeVersion] /\ objects' \in [Objects -> MaybeVersion]
  BY DEF TypeOK, TablesType
<1>3. ASSUME NEW v, objects' = [objects EXCEPT ![o] = v], RecordOutcome(op.id, "applied")
      PROVE  Promise!Apply(op.id)
  BY <1>2, <1>3 DEF RecordOutcome, KeyIsFree, Promise!Apply
<1>4. CASE ApplyUpsert(h, op, o)
  BY <1>1, <1>3, <1>4 DEF ApplyUpsert, WriteObjects
<1>5. CASE ApplyDelete(h, op, o)
  BY <1>1, <1>3, <1>5 DEF ApplyDelete, WriteObjects
<1>6. CASE Park(h, op, o)
  <2>1. Promise!Park(op.id)
    BY <1>6 DEF Park, RecordOutcome, KeyIsFree, Promise!Park
  <2> QED
    BY <1>1, <2>1
<1> QED
  BY <1>4, <1>5, <1>6 DEF Ingest

\* The owner's own changes decide no operation.
LEMMA OwnerImplements ==
    ASSUME TypeOK, TypeOK', NEW h \in Handlers,
           \/ TakeIncoming(h, target[h])
           \/ \E s \in snapshots : RestoreSnapshot(h, s)
           \/ \E n \in Notes : \E moved \in SUBSET ObjectsOf(n) : InsertPage(h, n, moved)
    PROVE  Promise!OwnerChange
<1>1. objects' \in [Objects -> MaybeVersion]
  BY DEF TypeOK, TablesType
<1>2. UNCHANGED ledger
  BY DEF TakeIncoming, RestoreSnapshot, InsertPage
<1> QED
  BY <1>1, <1>2 DEF Promise!OwnerChange

LEMMA HousekeepingImplements ==
    ASSUME TypeOK, Housekeeping
    PROVE  [Promise!Next]_(Promise!vars)
<1>1. objects \in [Objects -> MaybeVersion] /\ ledger \in [OpIds -> Outcomes]
  BY DEF TypeOK, TablesType
<1>2. ASSUME NEW n \in Notes, PurgeNote(n)
      PROVE  Promise!Next
  <2> DEFINE objs == ObjectsOf(n)
  <2>1. ledger' = [id \in OpIds |-> IF ObjectOf[id] \in objs THEN "none" ELSE ledger[id]]
    BY <1>2, ObjectOfType DEF PurgeNote, ObjectsOf
  <2>2. objects' = [o \in Objects |-> IF o \in objs THEN Absent ELSE objects[o]]
    BY <1>2 DEF PurgeNote, ObjectsOf
  <2>3. Promise!Purge(objs) /\ objs \in SUBSET Objects
    BY <2>1, <2>2 DEF Promise!Purge, ObjectsOf
  <2> QED
    BY <2>3 DEF Promise!Next
<1>3. ASSUME NEW id \in OpIds, ExpireOperation(id)
      PROVE  Promise!Next
  <2>1. ledger' = [x \in OpIds |-> IF x \in {id} THEN "none" ELSE ledger[x]]
    BY <1>1, <1>3 DEF ExpireOperation
  <2>2. Promise!Forget
    BY <1>3, <2>1 DEF ExpireOperation, Promise!Forget
  <2> QED
    BY <2>2 DEF Promise!Next
<1>4. CASE \/ \E n \in Notes : CreateSnapshot(n)
           \/ \E n \in Notes, s \in {"live", "trashed"} : SetTrashed(n, s)
           \/ \E s \in snapshots : ExpireSnapshot(s)
  BY <1>4 DEF CreateSnapshot, SetTrashed, ExpireSnapshot, Promise!vars
<1> QED
  BY <1>2, <1>3, <1>4 DEF Housekeeping

LEMMA StepImplements ==
    ASSUME TypeOK, TypeOK', [Next]_vars
    PROVE  [Promise!Next]_(Promise!vars)
<1>1. ASSUME NEW h \in Handlers, Handle(h)
      PROVE  [Promise!Next]_(Promise!vars)
  <2>1. CASE \/ \E batch \in Batches : Receive(h, batch)
             \/ CheckNote(h) \/ DuplicateCheck(h) \/ ReadRecorded(h) \/ ReloadCurrent(h)
             \/ ReadAbsent(h) \/ UniqueViolation(h)
    BY <2>1 DEF Receive, CheckNote, DuplicateCheck, ReadRecorded, ReloadCurrent, ReadAbsent,
                UniqueViolation, tables, Promise!vars
  <2>2. CASE \/ Broadcast(h) \/ Respond(h) \/ Fail(h)
             \/ \E c \in ConflictIds : StartResolve(h, c)
             \/ KeepBase(h, target[h]) \/ ResolveReadsAbsent(h, target[h])
    BY <2>2 DEF Broadcast, Respond, Fail, StartResolve, KeepBase, ResolveReadsAbsent, tables,
                Promise!vars
  <2>3. CASE Ingest(h)
    BY <2>3, IngestImplements DEF Promise!Next
  <2>4. CASE \/ TakeIncoming(h, target[h])
             \/ \E s \in snapshots : RestoreSnapshot(h, s)
             \/ \E n \in Notes : \E moved \in SUBSET ObjectsOf(n) : InsertPage(h, n, moved)
    BY <2>4, OwnerImplements DEF Promise!Next
  <2> QED
    BY <1>1, <2>1, <2>2, <2>3, <2>4 DEF Handle, Resolve
<1>2. CASE UNCHANGED vars
  BY <1>2 DEF vars, tables, Promise!vars
<1> QED
  BY <1>1, <1>2, HousekeepingImplements DEF Next

\* The handlers, for all their interleavings, give clients the service that
\* OperationOutcomes states: an operation is decided at most once, takes effect on
\* its own object only, and touches nothing when it is parked as a conflict.
THEOREM LedgerImplementsOutcomes == Spec => ImplementsOutcomes
<1>1. Init => Promise!Init
  BY DEF Init, Promise!Init, MaybeVersion
<1> QED
  BY <1>1, StepImplements, TypeCorrect, PTL DEF Spec, ImplementsOutcomes, Promise!Spec
-----------------------------------------------------------------------------
(* What was committed is broadcast, or about to be *)

\* Only a handler on its way to the broadcast has changes to tell.
OnlyCastersHold == \A h \in Handlers : outbound[h] # {} => pc[h] = "cast"

Announcement(o) == [object |-> o, version |-> objects[o]]

\* The version an object has was broadcast, or some handler still has it to tell.
CommittedIsTold ==
    \A o \in Objects : objects[o] # Absent =>
        \/ Announcement(o) \in sent
        \/ \E h \in Handlers : Announcement(o) \in outbound[h]

BroadcastInv == OnlyCastersHold /\ (dropped \/ CommittedIsTold)

\* h commits changes it holds for the broadcast, new versions and all.
Announces(h) ==
    /\ pc[h] # "cast"
    /\ pc' = [pc EXCEPT ![h] = "cast"]
    /\ \A g \in Handlers \ {h} : outbound'[g] = outbound[g]
    /\ \A o \in Objects : objects'[o] # objects[o] /\ objects'[o] # Absent =>
          Announcement(o)' \in outbound'[h]
    /\ UNCHANGED <<sent, dropped>>

\* The step commits nothing, and every handler with changes still has them.
KeepsChanges ==
    /\ \A o \in Objects : objects'[o] # objects[o] => objects'[o] = Absent
    /\ \A h \in Handlers : pc[h] = "cast" => pc'[h] = "cast"
    /\ UNCHANGED <<outbound, sent, dropped>>

LEMMA IngestAnnounces ==
    ASSUME TypeOK, NEW h \in Handlers, Ingest(h)
    PROVE  Announces(h) \/ KeepsChanges
<1>0. /\ objects \in [Objects -> MaybeVersion] /\ pc \in [Handlers -> Steps]
      /\ outbound \in [Handlers -> SUBSET Change]
  BY DEF TypeOK, TablesType, HandlersType
<1>1. pc[h] # "cast"
  BY DEF Ingest, ApplyUpsert, ApplyDelete, Park, InTransaction
<1> DEFINE op == Head(queue[h])
           p == ObjectOf[op.id]
<1>2. ASSUME NEW v, WriteObjects([objects EXCEPT ![p] = v]),
             outbound' = [outbound EXCEPT ![h] = {[object |-> p, version |-> v]}],
             GoTo(h, "cast"), UNCHANGED <<sent, dropped>>
      PROVE  Announces(h)
  <2>1. objects' = [objects EXCEPT ![p] = v]
    BY <1>2 DEF WriteObjects
  <2>2. ASSUME NEW o \in Objects, objects'[o] # objects[o]
        PROVE  Announcement(o)' \in outbound'[h]
    <3>1. o = p /\ objects'[o] = v
      BY <1>0, <2>1, <2>2
    <3> QED
      BY <1>0, <1>2, <3>1 DEF Announcement
  <2> QED
    BY <1>0, <1>1, <1>2, <2>2 DEF Announces, GoTo
<1>3. CASE ApplyUpsert(h, op, p)
  BY <1>2, <1>3 DEF ApplyUpsert
<1>4. CASE ApplyDelete(h, op, p)
  BY <1>2, <1>4 DEF ApplyDelete
<1>5. CASE Park(h, op, p)
  BY <1>0, <1>1, <1>5 DEF Park, KeepsChanges, GoTo
<1> QED
  BY <1>3, <1>4, <1>5 DEF Ingest

LEMMA ResolveAnnounces ==
    ASSUME TypeOK, NEW h \in Handlers, Resolve(h)
    PROVE  Announces(h) \/ KeepsChanges
<1>0. /\ objects \in [Objects -> MaybeVersion] /\ pc \in [Handlers -> Steps]
      /\ outbound \in [Handlers -> SUBSET Change]
  BY DEF TypeOK, TablesType, HandlersType
<1> DEFINE c == target[h]
           p == ObjectOf[conflicts[c].op]
<1>1. CASE KeepBase(h, c)
  BY <1>0, <1>1 DEF KeepBase, Announces, GoTo
<1>2. CASE ResolveReadsAbsent(h, c)
  BY <1>0, <1>2 DEF ResolveReadsAbsent, KeepsChanges, GoTo, tables, history
<1>3. CASE TakeIncoming(h, c)
  <2>1. PICK v : /\ WriteObjects([objects EXCEPT ![p] = v])
                 /\ outbound' = [outbound EXCEPT ![h] = {[object |-> p, version |-> v]}]
    BY <1>3 DEF TakeIncoming
  <2>2. objects' = [objects EXCEPT ![p] = v]
    BY <2>1 DEF WriteObjects
  <2>3. ASSUME NEW o \in Objects, objects'[o] # objects[o]
        PROVE  Announcement(o)' \in outbound'[h]
    <3>1. o = p /\ objects'[o] = v
      BY <1>0, <2>2, <2>3
    <3> QED
      BY <1>0, <2>1, <3>1 DEF Announcement
  <2>4. pc[h] # "cast" /\ GoTo(h, "cast") /\ UNCHANGED <<sent, dropped>>
    BY <1>3 DEF TakeIncoming
  <2> QED
    BY <1>0, <2>1, <2>3, <2>4 DEF Announces, GoTo
<1> QED
  BY <1>1, <1>2, <1>3 DEF Resolve

LEMMA OwnerAnnounces ==
    ASSUME TypeOK, NEW h \in Handlers,
           \/ \E s \in snapshots : RestoreSnapshot(h, s)
           \/ \E n \in Notes : \E moved \in SUBSET ObjectsOf(n) : InsertPage(h, n, moved)
    PROVE  Announces(h)
<1>0. /\ objects \in [Objects -> MaybeVersion] /\ pc \in [Handlers -> Steps]
      /\ outbound \in [Handlers -> SUBSET Change]
  BY DEF TypeOK, TablesType, HandlersType
<1>1. ASSUME NEW s \in snapshots, RestoreSnapshot(h, s) PROVE Announces(h)
  <2>1. objects' = [o \in Objects |-> RestoredVersion(s, o)]
    BY <1>1 DEF RestoreSnapshot, WriteObjects
  <2>2. ASSUME NEW o \in Objects, objects'[o] # objects[o], objects'[o] # Absent
        PROVE  Announcement(o)' \in outbound'[h]
    <3>1. o \in ObjectsOf(s.note)
      BY <2>1, <2>2 DEF RestoredVersion, ObjectsOf
    <3>2. Announcement(o)' = [object |-> o, version |-> RestoredVersion(s, o)]
      BY <2>1 DEF Announcement
    <3>3. RestoredVersion(s, o) # Absent
      BY <2>1, <2>2
    <3> QED
      BY <1>0, <1>1, <3>1, <3>2, <3>3 DEF RestoreSnapshot, ObjectsOf
  <2>3. /\ pc[h] # "cast" /\ GoTo(h, "cast") /\ UNCHANGED <<sent, dropped>>
        /\ \A g \in Handlers \ {h} : outbound'[g] = outbound[g]
    BY <1>0, <1>1 DEF RestoreSnapshot
  <2> QED
    BY <1>0, <2>2, <2>3 DEF Announces, GoTo
<1>2. ASSUME NEW n \in Notes, NEW moved \in SUBSET ObjectsOf(n), InsertPage(h, n, moved)
      PROVE  Announces(h)
  <2>1. objects' = [o \in Objects |-> IF o \in moved THEN ShiftedVersion(o) ELSE objects[o]]
    BY <1>2 DEF InsertPage, WriteObjects
  <2>2. ASSUME NEW o \in Objects, objects'[o] # objects[o]
        PROVE  Announcement(o)' \in outbound'[h]
    <3>1. o \in moved /\ Announcement(o)' = [object |-> o, version |-> ShiftedVersion(o)]
      BY <2>1, <2>2 DEF Announcement
    <3> QED
      BY <1>0, <1>2, <3>1 DEF InsertPage, ShiftedChanges
  <2>3. /\ pc[h] # "cast" /\ GoTo(h, "cast") /\ UNCHANGED <<sent, dropped>>
        /\ \A g \in Handlers \ {h} : outbound'[g] = outbound[g]
    BY <1>0, <1>2 DEF InsertPage
  <2> QED
    BY <1>0, <2>2, <2>3 DEF Announces, GoTo
<1> QED
  BY <1>1, <1>2

\* A step commits changes with their announcement, or leaves all announcements to
\* be made where they are, or is one of the three ends of a handler's duty to tell.
LEMMA ChangeSteps ==
    ASSUME TypeOK, [Next]_vars
    PROVE  \/ KeepsChanges
           \/ \E h \in Handlers : Announces(h) \/ Broadcast(h) \/ Respond(h) \/ Fail(h)
<1>0. /\ objects \in [Objects -> MaybeVersion] /\ pc \in [Handlers -> Steps]
  BY DEF TypeOK, TablesType, HandlersType
<1>1. ASSUME NEW h \in Handlers, Handle(h), ~Broadcast(h), ~Respond(h), ~Fail(h)
      PROVE  Announces(h) \/ KeepsChanges
  <2>1. CASE \/ \E batch \in Batches : Receive(h, batch)
             \/ CheckNote(h) \/ DuplicateCheck(h) \/ ReadRecorded(h) \/ ReloadCurrent(h)
             \/ ReadAbsent(h) \/ UniqueViolation(h)
             \/ \E c \in ConflictIds : StartResolve(h, c)
    <3>1. UNCHANGED <<objects, outbound, sent, dropped>>
      BY <2>1 DEF Receive, CheckNote, DuplicateCheck, ReadRecorded, ReloadCurrent, ReadAbsent,
                  UniqueViolation, StartResolve, tables
    <3>2. pc[h] # "cast" /\ \E s : GoTo(h, s)
      BY <2>1 DEF Receive, CheckNote, DuplicateCheck, ReadRecorded, ReloadCurrent, ReadAbsent,
                  UniqueViolation, StartResolve, InTransaction
    <3> QED
      BY <1>0, <3>1, <3>2 DEF KeepsChanges, GoTo
  <2> QED
    BY <1>1, <2>1, IngestAnnounces, ResolveAnnounces, OwnerAnnounces DEF Handle
<1>2. CASE Housekeeping
  BY <1>0, <1>2 DEF Housekeeping, CreateSnapshot, PurgeNote, SetTrashed, ExpireSnapshot,
                    ExpireOperation, handler, history, KeepsChanges
<1>3. CASE UNCHANGED vars
  BY <1>3 DEF vars, tables, handler, KeepsChanges
<1> QED
  BY <1>1, <1>2, <1>3 DEF Next

LEMMA BroadcastStep ==
    ASSUME TypeOK, BroadcastInv, [Next]_vars
    PROVE  BroadcastInv'
<1>0. /\ pc \in [Handlers -> Steps] /\ outbound \in [Handlers -> SUBSET Change]
      /\ dropped \in BOOLEAN
  BY DEF TypeOK, HandlersType, HistoryType
<1>1. CASE KeepsChanges
  BY <1>1 DEF KeepsChanges, BroadcastInv, OnlyCastersHold, CommittedIsTold, Announcement
<1>2. ASSUME NEW h \in Handlers, Announces(h) PROVE BroadcastInv'
  <2>1. OnlyCastersHold'
    BY <1>0, <1>2 DEF Announces, BroadcastInv, OnlyCastersHold
  <2>2. ASSUME CommittedIsTold, NEW o \in Objects, objects'[o] # Absent
        PROVE  \/ Announcement(o)' \in sent'
               \/ \E g \in Handlers : Announcement(o)' \in outbound'[g]
    <3>1. outbound[h] = {}
      BY <1>2 DEF Announces, BroadcastInv, OnlyCastersHold
    <3> QED
      BY <1>2, <2>2, <3>1 DEF Announces, CommittedIsTold, Announcement
  <2> QED
    BY <1>2, <2>1, <2>2 DEF BroadcastInv, CommittedIsTold, Announces
<1>3. ASSUME NEW h \in Handlers, Broadcast(h) PROVE BroadcastInv'
  <2>1. OnlyCastersHold'
    BY <1>0, <1>3 DEF Broadcast, GoTo, BroadcastInv, OnlyCastersHold
  <2>2. CommittedIsTold => CommittedIsTold'
    BY <1>0, <1>3 DEF Broadcast, tables, CommittedIsTold, Announcement
  <2> QED
    BY <1>3, <2>1, <2>2 DEF Broadcast, BroadcastInv
<1>4. ASSUME NEW h \in Handlers, Respond(h) \/ Fail(h) PROVE BroadcastInv'
  <2>1. OnlyCastersHold'
    BY <1>0, <1>4 DEF Respond, Fail, Leave, GoTo, BroadcastInv, OnlyCastersHold
  <2>2. dropped' \/ (dropped' = dropped /\ outbound[h] = {})
    <3>1. CASE Respond(h)
      BY <3>1 DEF Respond, BroadcastInv, OnlyCastersHold
    <3>2. CASE Fail(h)
      BY <1>0, <3>2 DEF Fail
    <3> QED
      BY <1>4, <3>1, <3>2
  <2>3. ASSUME outbound[h] = {}, CommittedIsTold PROVE CommittedIsTold'
    BY <1>0, <1>4, <2>3 DEF Respond, Fail, Leave, tables, CommittedIsTold, Announcement
  <2> QED
    BY <2>1, <2>2, <2>3 DEF BroadcastInv
<1> QED
  BY <1>1, <1>2, <1>3, <1>4, ChangeSteps

\* When no request is running and no handler died between its commit and its
\* broadcast, every object's version has been broadcast: no commit, of whatever
\* request, leaves the other devices without a message about it.
THEOREM QuietIsBroadcast == Spec => []QuietMeansBroadcast
<1>1. Init => BroadcastInv
  BY DEF Init, BroadcastInv, OnlyCastersHold, CommittedIsTold
<1>2. BroadcastInv => QuietMeansBroadcast
  BY DEF BroadcastInv, OnlyCastersHold, CommittedIsTold, Announcement, QuietMeansBroadcast
<1> QED
  BY <1>1, <1>2, BroadcastStep, TypeCorrect, PTL DEF Spec
-----------------------------------------------------------------------------
(* A change of an object raises its note *)

LEMMA IngestRaises ==
    ASSUME TypeOK, NEW h \in Handlers, Ingest(h), NEW o \in Objects, objects'[o] # objects[o]
    PROVE  notes'[NoteOf[o]].revision > notes[NoteOf[o]].revision
<1> DEFINE op == Head(queue[h])
           p == ObjectOf[op.id]
<1>1. objects \in [Objects -> MaybeVersion] /\ \A m \in Notes : notes[m].revision \in Nat
  BY DEF TypeOK, TablesType, NoteRow
<1>2. PICK v : objects' = [objects EXCEPT ![p] = v]
  <2>1. ~Park(h, op, p)
    BY DEF Park
  <2> QED
    BY <2>1 DEF Ingest, ApplyUpsert, ApplyDelete, WriteObjects
<1>3. o = p /\ NoteOf[p] \in Notes
  BY <1>1, <1>2, NoteOfType
<1>4. TouchNote(NoteOf[p])
  <2>1. CASE ApplyUpsert(h, op, p)
    BY <2>1 DEF ApplyUpsert
  <2>2. CASE ApplyDelete(h, op, p)
    <3>1. objects'[p] = Absent
      BY <1>1, <1>3, <2>2 DEF ApplyDelete, WriteObjects
    <3>2. Existed(h, p)
      BY <1>3, <3>1 DEF Existed
    <3> QED
      BY <2>2, <3>2 DEF ApplyDelete
  <2>3. CASE Park(h, op, p)
    BY <2>3 DEF Park
  <2> QED
    BY <2>1, <2>2, <2>3 DEF Ingest
<1> QED
  BY <1>1, <1>3, <1>4, TouchRaises

LEMMA ResolveRaises ==
    ASSUME TypeOK, NEW h \in Handlers, Resolve(h), NEW o \in Objects, objects'[o] # objects[o]
    PROVE  notes'[NoteOf[o]].revision > notes[NoteOf[o]].revision
<1> DEFINE p == ObjectOf[conflicts[target[h]].op]
<1>1. objects \in [Objects -> MaybeVersion] /\ \A m \in Notes : notes[m].revision \in Nat
  BY DEF TypeOK, TablesType, NoteRow
<1>2. PICK v : TouchNote(NoteOf[p]) /\ objects' = [objects EXCEPT ![p] = v]
  BY DEF Resolve, KeepBase, ResolveReadsAbsent, TakeIncoming, WriteObjects, tables
<1>3. o = p /\ NoteOf[o] \in Notes
  BY <1>1, <1>2, NoteOfType
<1> QED
  BY <1>1, <1>2, <1>3, TouchRaises

LEMMA OwnerRaises ==
    ASSUME TypeOK, NEW h \in Handlers,
           \/ \E s \in snapshots : RestoreSnapshot(h, s)
           \/ \E n \in Notes : \E moved \in SUBSET ObjectsOf(n) : InsertPage(h, n, moved),
           NEW o \in Objects, objects'[o] # objects[o]
    PROVE  notes'[NoteOf[o]].revision > notes[NoteOf[o]].revision
<1>1. notes \in [Notes -> NoteRow] /\ \A m \in Notes : notes[m].revision \in Nat
  BY DEF TypeOK, TablesType, NoteRow
<1>2. ASSUME NEW s \in snapshots, RestoreSnapshot(h, s)
      PROVE  notes'[NoteOf[o]].revision > notes[NoteOf[o]].revision
  <2>1. objects'[o] = RestoredVersion(s, o)
    BY <1>2 DEF RestoreSnapshot, WriteObjects
  <2>2. NoteOf[o] = s.note /\ s.note \in Notes /\ s.state \in {"live", "trashed"}
    BY <2>1 DEF RestoredVersion, TypeOK, TablesType, Snapshot
  <2>3. notes'[s.note].revision = notes[s.note].revision + 1
    BY <1>1, <1>2, <2>2, TouchedType DEF RestoreSnapshot, NoteRow
  <2> QED
    BY <1>1, <2>2, <2>3
<1>3. ASSUME NEW n \in Notes, NEW moved \in SUBSET ObjectsOf(n), InsertPage(h, n, moved)
      PROVE  notes'[NoteOf[o]].revision > notes[NoteOf[o]].revision
  <2>1. o \in moved /\ NoteOf[o] = n
    BY <1>3 DEF InsertPage, WriteObjects, ObjectsOf
  <2> QED
    BY <1>1, <1>3, <2>1, TouchRaises DEF InsertPage
<1> QED
  BY <1>2, <1>3

LEMMA StepRaises ==
    ASSUME TypeOK, [Next]_vars, NEW o \in Objects, objects'[o] # objects[o],
           notes'[NoteOf[o]].state # "gone"
    PROVE  notes'[NoteOf[o]].revision > notes[NoteOf[o]].revision
<1>1. ASSUME NEW h \in Handlers, Handle(h)
      PROVE  notes'[NoteOf[o]].revision > notes[NoteOf[o]].revision
  <2>1. ~UNCHANGED objects
    OBVIOUS
  <2>2. \/ Ingest(h) \/ Resolve(h)
        \/ \E s \in snapshots : RestoreSnapshot(h, s)
        \/ \E n \in Notes : \E moved \in SUBSET ObjectsOf(n) : InsertPage(h, n, moved)
    BY <1>1, <2>1
       DEF Handle, Receive, CheckNote, DuplicateCheck, ReadRecorded, ReloadCurrent, ReadAbsent,
           UniqueViolation, Broadcast, Respond, Fail, StartResolve, tables
  <2> QED
    BY <2>2, IngestRaises, ResolveRaises, OwnerRaises
<1>2. ~Housekeeping
  <2>1. ASSUME NEW n \in Notes, PurgeNote(n) PROVE FALSE
    <3>1. NoteOf[o] = n /\ notes \in [Notes -> NoteRow]
      BY <2>1 DEF PurgeNote, TypeOK, TablesType
    <3>2. notes'[n].state = "gone"
      BY <2>1, <3>1 DEF PurgeNote, NoteRow
    <3> QED
      BY <3>1, <3>2
  <2> QED
    BY <2>1 DEF Housekeeping, CreateSnapshot, SetTrashed, ExpireSnapshot, ExpireOperation
<1>3. ~UNCHANGED vars
  BY DEF vars, tables
<1> QED
  BY <1>1, <1>2, <1>3 DEF Next

\* No commit changes an object of a note without raising the note's revision, which clients
\* and restores take for a bound of its objects': not even a delete that found no row when it
\* read and one when it wrote.
THEOREM ChangesAreCounted == Spec => ChangesRaiseTheNote
<1>1. TypeOK /\ [Next]_vars =>
        [\A o \in Objects :
            (objects'[o] # objects[o] /\ notes'[NoteOf[o]].state # "gone") =>
                notes'[NoteOf[o]].revision > notes[NoteOf[o]].revision]_vars
  BY StepRaises
<1> QED
  BY <1>1, TypeCorrect, PTL DEF Spec, ChangesRaiseTheNote
=============================================================================
