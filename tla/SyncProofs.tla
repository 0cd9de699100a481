----------------------------- MODULE SyncProofs -----------------------------
(***************************************************************************)
(* Proofs about SyncSystem for any devices, any number of edits and any    *)
(* bounds on failures, hydrations and deletions.                           *)
(***************************************************************************)
EXTENDS SyncSystem, SequenceTheorems, WellFoundedInduction, TLAPS

\* A set of rows has a newest one: their ids are bounded.
Bounded(rows) == \E n \in Nat : \A r \in rows : r.op.id <= n

\* Only one enqueue has read the outbox, and its operation is still entering.
EnqueuesInTurn(d) ==
    /\ \A i, j \in DOMAIN reads[d] : reads[d][i] = "enqueue" /\ reads[d][j] = "enqueue" => i = j
    /\ \A i \in DOMAIN reads[d] : reads[d][i] = "enqueue" => entering[d] # <<>>

IsSent(d, id) == \E r \in batch[d] : r.op.id = id

\* The request that is being waited for is about the rows that were sent.
BatchInv(d) ==
    /\ Bounded(outbox[d]) /\ Bounded(batch[d])
    /\ at[d] = "picked" => batch[d] # {}
    /\ at[d] = "write" => stored[d] # None
    /\ at[d] \in {"store", "write"} => \A a \in acks[d] : IsSent(d, a.id)
    /\ \A q \in requests :
          /\ q.device = d => q.attempt <= attempt[d]
          /\ Awaits(d, q) => \A x \in q.todo \cup q.acks : IsSent(d, x.id)

FlowInv == TypeOK /\ \A d \in Devices : EnqueuesInTurn(d) /\ BatchInv(d)

\* An operation with edit k is on its way under the id it was queued with: in a row,
\* in what a flush is about to write, or in a request.
InRows(k, id) ==
    \E d \in Devices : \E r \in outbox[d] \cup batch[d] : r.op.edit = k /\ r.op.id = id
InStored(k, id) ==
    \E d \in Devices : /\ stored[d] # None /\ stored[d].row # None
                      /\ stored[d].row.op.edit = k /\ stored[d].row.op.id = id
InRequests(k, id) == \E q \in requests : \E op \in q.todo : op.edit = k /\ op.id = id
Travels(k, id) == InRows(k, id) \/ InStored(k, id) \/ InRequests(k, id)

Enters(d, k) == \E i \in DOMAIN entering[d] : entering[d][i].edit = k

\* An edit is queued once, under one id, and is applied under no other.
NamesInv ==
    /\ \A k, i, j \in Contents : Travels(k, i) /\ Travels(k, j) => i = j
    /\ \A k, i \in Contents : Travels(k, i) => author[k] # None
    /\ \A k, i \in Contents : Travels(k, i) /\ k \in landed => ledger[i] # "none"
    /\ \A k \in landed : author[k] # None
    /\ \A d \in Devices, k \in Contents : Enters(d, k) =>
          author[k] = d /\ k \notin landed /\ \A i \in Contents : ~Travels(k, i)
    /\ \A d \in Devices : \A i, j \in DOMAIN entering[d] :
          entering[d][i].edit = entering[d][j].edit => i = j
\* Device d has an operation of this id on its way: queued, entering, found, about to be
\* stored again or in a request.
Carries(d, id) ==
    \/ \E r \in outbox[d] \cup batch[d] : r.op.id = id
    \/ \E i \in DOMAIN entering[d] : entering[d][i].id = id
    \/ found[d] # None /\ found[d].op.id = id
    \/ stored[d] # None /\ stored[d].row # None /\ stored[d].row.op.id = id
    \/ \E q \in requests : q.device = d /\ \E op \in q.todo : op.id = id

\* The ids that a device uses are those of its own edits, and so are the decided ones.
IdsInv ==
    /\ \A d \in Devices, id \in Contents : Carries(d, id) => author[id] = d
    /\ \A id \in Contents : ledger[id] # "none" => author[id] # None
-----------------------------------------------------------------------------
(* Users who do not edit during a flush, and responses that are not lost *)

Patient == ~EditsDuringFlush /\ ~ResponsesGetLost

\* The version that row r stands for.
Means(version, r) ==
    IF r.op.kind = "delete" THEN version = Absent
    ELSE version # Absent /\ version.content = r.op.edit

Accounted(k) == k \in landed \cup {op.edit : op \in parked}

\* The server has decided row r, and the acknowledgements say what became of it.
Settles(r, answers) ==
    /\ ledger[r.op.id] # "none" /\ Accounted(r.op.edit)
    /\ \A a \in answers : a.status # "conflict" => Means(a.object, r)

\* An enqueue has read the outbox.
Enqueues(d) == \E i \in DOMAIN reads[d] : reads[d][i] = "enqueue"

\* One edit at a time goes through the device: it enters, waits in its row, is sent.
PatientDevice(d) ==
    /\ \A r, s \in outbox[d] : r = s
    /\ \A r \in outbox[d] : /\ r.op.edit = latest[d] /\ author[r.op.id] = d
                            /\ Means(cache[d], r)
    /\ at[d] \in {"picked", "wait", "store", "write"} =>
          batch[d] = outbox[d] /\ \A r \in outbox[d] : r.due
    /\ at[d] \in {"idle", "select", "tell", "picked"} =>
          flight[d] = None /\ \A r \in outbox[d] : ledger[r.op.id] = "none"
    /\ at[d] \in {"store", "write"} => \A r \in outbox[d] : Settles(r, acks[d])
    /\ at[d] = "write" =>
          stored[d].row = None /\ \A r \in outbox[d] : Means(stored[d].object, r)
    /\ entering[d] # <<>> =>
          /\ at[d] = "idle" /\ Len(entering[d]) = 1
          /\ entering[d][1].id = entering[d][1].edit /\ author[entering[d][1].id] = d
          /\ ledger[entering[d][1].id] = "none"
    /\ Enqueues(d) =>
          IF found[d] = None THEN outbox[d] = {}
          ELSE \E r \in outbox[d] : r.op.id = found[d].op.id
    /\ latest[d] # None => latest[d] \in Queue(d) \/ Accounted(latest[d])

\* A request is on its way while its device waits for it, about the row it sent.
PatientRequest(q) ==
    /\ Awaits(q.device, q)
    /\ \A p \in requests : p.device = q.device => p = q
    /\ \A r \in batch[q.device] :
          \/ q.todo = {r.op} /\ q.acks = {} /\ ledger[r.op.id] = "none"
          \/ q.todo = {} /\ Settles(r, q.acks)

PatientAt(d) == PatientDevice(d) /\ \A q \in requests : q.device = d => PatientRequest(q)

PatientInv == \A d \in Devices \ crossed : PatientAt(d)
-----------------------------------------------------------------------------
(* Oldest and newest *)

LEMMA LeastOfNats ==
    ASSUME NEW S \in SUBSET Nat, S # {}
    PROVE  \E m \in S : \A n \in S : m <= n
<1> DEFINE Less == {ss \in Nat \X Nat : ss[1] < ss[2]}
<1>1. IsWellFoundedOn(Less, Nat)
  BY NatLessThanWellFounded DEF OpToRel
<1>2. \A m, n \in Nat : n < m => <<n, m>> \in Less
  OBVIOUS
<1> HIDE DEF Less
<1>3. PICK m \in S : \A n \in S : ~(<<n, m>> \in Less)
  BY <1>1, WFMin
<1>4. ASSUME NEW n \in S PROVE m <= n
  <2>1. m \in Nat /\ n \in Nat
    OBVIOUS
  <2>2. ~(n < m)
    BY <1>2, <1>3, <2>1, Zenon
  <2> QED
    BY <2>1, <2>2
<1> QED
  BY <1>4

LEMMA GreatestOfNats ==
    ASSUME NEW S \in SUBSET Nat, S # {}, NEW bound \in Nat, \A n \in S : n <= bound
    PROVE  \E m \in S : \A n \in S : n <= m
<1> DEFINE Over == {n \in Nat : \A x \in S : x <= n}
<1>1. PICK m \in Over : \A n \in Over : m <= n
  BY LeastOfNats
<1>2. m \in Nat /\ \A x \in S : x <= m
  BY <1>1
<1>3. ASSUME m \notin S PROVE FALSE
  <2>1. PICK x \in S : TRUE
    OBVIOUS
  <2>2. x \in Nat /\ x < m
    BY <1>2, <1>3, <2>1
  <2>3. m - 1 \in Nat /\ \A y \in S : y <= m - 1
    BY <1>2, <1>3, <2>2
  <2> QED
    BY <1>1, <1>2, <2>3
<1> QED
  BY <1>2, <1>3

LEMMA OldestRow ==
    ASSUME NEW rows \in SUBSET Row, rows # {}
    PROVE  Oldest(rows) \in rows /\ \A x \in rows : Oldest(rows).op.id <= x.op.id
<1> DEFINE Ids == {r.op.id : r \in rows}
<1>1. Ids \in SUBSET Nat /\ Ids # {}
  BY ZenonT(30), ContentsAreNumbers DEF Row, Op
<1>2. PICK m \in Ids : \A n \in Ids : m <= n
  BY <1>1, LeastOfNats
<1>3. PICK r \in rows : \A x \in rows : r.op.id <= x.op.id
  BY <1>2
<1> QED
  BY <1>3 DEF Oldest

LEMMA NewestRow ==
    ASSUME NEW rows \in SUBSET Row, rows # {}, Bounded(rows)
    PROVE  Newest(rows) \in rows /\ \A x \in rows : Newest(rows).op.id >= x.op.id
<1> DEFINE Ids == {r.op.id : r \in rows}
<1>1. Ids \in SUBSET Nat /\ Ids # {}
  BY ZenonT(30), ContentsAreNumbers DEF Row, Op
<1>2. PICK bound \in Nat : \A n \in Ids : n <= bound
  BY DEF Bounded
<1>3. PICK m \in Ids : \A n \in Ids : n <= m
  BY <1>1, <1>2, GreatestOfNats
<1>4. PICK r \in rows : \A x \in rows : r.op.id >= x.op.id
  <2>1. PICK r \in rows : m = r.op.id
    BY <1>3
  <2>2. \A x \in rows : x.op.id \in Ids /\ x.op.id \in Nat
    BY <1>1
  <2> QED
    BY <1>1, <1>3, <2>1, <2>2
<1> QED
  BY <1>4 DEF Newest

LEMMA FirstAck ==
    ASSUME TypeOK, NEW d \in Devices, acks[d] # {}
    PROVE  NextAck(d) \in acks[d]
<1> DEFINE Ids == {a.id : a \in acks[d]}
<1>0. acks[d] \subseteq AckRecord
  BY DEF TypeOK
<1>1. Ids \in SUBSET Nat /\ Ids # {}
  BY <1>0, ContentsAreNumbers DEF AckRecord
<1>2. PICK m \in Ids : \A n \in Ids : m <= n
  BY <1>1, LeastOfNats
<1>3. PICK a \in acks[d] : \A x \in acks[d] : a.id <= x.id
  BY <1>2
<1> QED
  BY <1>3 DEF NextAck

\* The operation that a request has ingested next.
NextOp(q) == CHOOSE x \in q.todo : \A y \in q.todo : x.id <= y.id

LEMMA FirstOp ==
    ASSUME TypeOK, NEW q \in requests, q.todo # {}
    PROVE  NextOp(q) \in q.todo /\ NextOp(q) \in Op
<1> DEFINE Ids == {x.id : x \in q.todo}
<1>1. q.todo \subseteq Op
  BY DEF TypeOK, Request
<1>2. Ids \in SUBSET Nat /\ Ids # {}
  BY <1>1, ContentsAreNumbers DEF Op
<1>3. PICK m \in Ids : \A n \in Ids : m <= n
  BY <1>2, LeastOfNats
<1>4. PICK x \in q.todo : \A y \in q.todo : x.id <= y.id
  BY <1>3
<1> QED
  BY <1>1, <1>4 DEF NextOp

LEMMA EditIsFresh ==
    ASSUME Unmade # {}
    PROVE  NextEdit \in Contents \ {0} /\ author[NextEdit] = None
<1>1. Unmade \in SUBSET Nat
  BY ContentsAreNumbers DEF Unmade
<1>2. PICK m \in Unmade : \A n \in Unmade : m <= n
  BY <1>1, LeastOfNats
<1> QED
  BY <1>2 DEF NextEdit, Unmade
-----------------------------------------------------------------------------
(* Type correctness *)

LEMMA InitialFlow == Init => FlowInv
<1> SUFFICES ASSUME Init PROVE FlowInv
  OBVIOUS
<1>1. server \in MaybeVersion /\ (Start # Absent => Start.content \in Contents)
  BY StartType DEF Init, MaybeVersion, Version
<1>2. \A S : <<>> \in Seq(S)
  OBVIOUS
<1>3. shown \in [Devices -> SUBSET Contents]
  BY <1>1 DEF Init
<1>4. TypeOK
  BY <1>1, <1>2, <1>3 DEF Init, TypeOK, FlushSteps
<1>5. ASSUME NEW d \in Devices PROVE EnqueuesInTurn(d) /\ BatchInv(d)
  BY SMTT(30), <1>5 DEF Init, EnqueuesInTurn, BatchInv, Bounded
<1> QED
  BY <1>4, <1>5 DEF FlowInv

LEMMA ShowTypes ==
    ASSUME TypeOK, NEW d \in Devices, NEW v \in MaybeVersion, Show(d, v)
    PROVE  canvas' \in [Devices -> MaybeVersion] /\ shown' \in [Devices -> SUBSET Contents]
<1>1. v # Absent => v.content \in Contents
  BY DEF MaybeVersion, Version
<1> QED
  BY <1>1 DEF TypeOK, Show

LEMMA NotifyTypes ==
    ASSUME TypeOK, NEW d \in Devices, NEW change \in MaybeVersion, Notify(d, change)
    PROVE  /\ canvas' \in [Devices -> MaybeVersion]
           /\ shown' \in [Devices -> SUBSET Contents]
           /\ unacked' \in [Devices -> Contents \cup {None}]
<1>1. canvas[d] \in MaybeVersion /\ Absent \in MaybeVersion
  BY DEF TypeOK, MaybeVersion
<1>2. ASSUME change # Absent, canvas[d] # Absent
      PROVE  Reconciled(canvas[d], change, unacked[d]) \in MaybeVersion
  BY <1>1, <1>2 DEF Reconciled, MaybeVersion, Version
<1>3. \E v \in MaybeVersion :
          Show(d, v) \/ UNCHANGED <<canvas, shown>>
  BY <1>1, <1>2 DEF Notify
<1>4. canvas' \in [Devices -> MaybeVersion] /\ shown' \in [Devices -> SUBSET Contents]
  BY <1>3, ShowTypes DEF TypeOK
<1>5. unacked' \in [Devices -> Contents \cup {None}]
  BY DEF Notify, TypeOK
<1> QED
  BY <1>4, <1>5

\* What a device that edits hands to its outbox.
LEMMA EditedTypes ==
    ASSUME TypeOK, NEW d \in Devices, NEW op \in Op, Edited(d, op)
    PROVE  /\ entering' \in [Devices -> Seq(Op)]
           /\ undoable' \in [Devices -> BOOLEAN]
           /\ author' \in [Contents -> Devices \cup {None}]
           /\ saw' \in [Contents -> SUBSET Contents]
<1>1. op.edit \in Contents
  BY DEF Op
<1> QED
  BY <1>1 DEF TypeOK, Edited

LEMMA UpsertTypes ==
    ASSUME TypeOK, NEW d \in Devices, Upsert(d)
    PROVE  TypeOK'
<1>1. NextEdit \in Contents
  BY EditIsFresh DEF Upsert, MayEdit
<1>2. PICK rev \in Nat :
          /\ Show(d, [revision |-> rev, content |-> NextEdit])
          /\ Edited(d, [id |-> NextEdit, edit |-> NextEdit, kind |-> "upsert",
                        base |-> rev, rev |-> rev])
  BY DEF Upsert, TypeOK, MaybeVersion, Version
<1>3. /\ [revision |-> rev, content |-> NextEdit] \in MaybeVersion
      /\ [id |-> NextEdit, edit |-> NextEdit, kind |-> "upsert", base |-> rev,
          rev |-> rev] \in Op
  BY <1>1, <1>2 DEF MaybeVersion, Version, Op
<1>4. canvas' \in [Devices -> MaybeVersion] /\ shown' \in [Devices -> SUBSET Contents]
  BY <1>2, <1>3, ShowTypes
<1>5. /\ entering' \in [Devices -> Seq(Op)]
      /\ undoable' \in [Devices -> BOOLEAN]
      /\ author' \in [Contents -> Devices \cup {None}]
      /\ saw' \in [Contents -> SUBSET Contents]
  BY <1>2, <1>3, EditedTypes
<1>6. unacked' \in [Devices -> Contents \cup {None}]
  BY <1>1 DEF Upsert, TypeOK
<1> QED
  BY <1>4, <1>5, <1>6 DEF Upsert, Edited, TypeOK, served, flushing, incoming

LEMMA DeleteTypes ==
    ASSUME TypeOK, NEW d \in Devices, Delete(d)
    PROVE  TypeOK'
<1>1. NextEdit \in Contents
  BY EditIsFresh DEF Delete, MayEdit
<1>2. canvas[d] \in Version
  BY DEF Delete, TypeOK, MaybeVersion
<1>3. [id |-> NextEdit, edit |-> NextEdit, kind |-> "delete", base |-> canvas[d].revision,
       rev |-> 0] \in Op
  BY <1>1, <1>2 DEF Version, Op
<1>4. canvas' \in [Devices -> MaybeVersion] /\ shown' \in [Devices -> SUBSET Contents]
  <2>1. Absent \in MaybeVersion /\ Show(d, Absent)
    BY DEF Delete, MaybeVersion
  <2> QED
    BY <2>1, ShowTypes
<1>5. /\ entering' \in [Devices -> Seq(Op)]
      /\ undoable' \in [Devices -> BOOLEAN]
      /\ author' \in [Contents -> Devices \cup {None}]
      /\ saw' \in [Contents -> SUBSET Contents]
  BY <1>3, EditedTypes DEF Delete
<1>6. budget' \in [{"failures", "hydrations", "deletes"} -> Nat]
  BY DEF Delete, TypeOK
<1> QED
  BY <1>4, <1>5, <1>6 DEF Delete, Edited, TypeOK, served, flushing, incoming

LEMMA EnqueueReadsTypes ==
    ASSUME TypeOK, NEW d \in Devices, EnqueueReads(d)
    PROVE  TypeOK'
<1>1. Unsent(d) # {} => Oldest(Unsent(d)) \in Row
  <2>1. Unsent(d) \subseteq Row
    BY DEF Unsent, TypeOK
  <2> QED
    BY <2>1, OldestRow
<1>2. found' \in [Devices -> Row \cup {None}]
  BY <1>1 DEF EnqueueReads, TypeOK
<1>3. reads' \in [Devices -> Seq({"enqueue", "flush", "ack"})]
  BY DEF EnqueueReads, Reads, TypeOK
<1> QED
  BY <1>2, <1>3 DEF EnqueueReads, TypeOK, served, screen, copy, flushing, incoming, edits

\* An operation is queued as an operation of the same edit.
LEMMA QueuedTypes ==
    ASSUME TypeOK, NEW d \in Devices, NEW op \in Op
    PROVE  Queued(d, op) \in Op /\ Queued(d, op).edit = op.edit /\ Queued(d, op).kind = op.kind
<1>1. found[d] # None => found[d].op.id \in Contents /\ found[d].op.base \in Nat
  BY DEF TypeOK, Row, Op
<1>2. flight[d] # None => flight[d].base + 1 \in Nat
  BY DEF TypeOK, Op
<1> QED
  BY <1>1, <1>2 DEF Queued, Op

LEMMA PutRowTypes ==
    ASSUME NEW rows \in SUBSET Row, NEW row \in Row
    PROVE  PutRow(rows, row) \in SUBSET Row
BY DEF PutRow

\* A flow that goes on leaves the rest of the line.
LEMMA GoesOnTypes ==
    ASSUME TypeOK, NEW d \in Devices, NEW flow, GoesOn(d, flow)
    PROVE  reads' \in [Devices -> Seq({"enqueue", "flush", "ack"})]
<1>1. Tail(reads[d]) \in Seq({"enqueue", "flush", "ack"})
  BY DEF GoesOn, TypeOK
<1> QED
  BY <1>1 DEF GoesOn, TypeOK

\* The operation at the head of the chain.
LEMMA EnteringOp ==
    ASSUME FlowInv, NEW d \in Devices, GoesOn(d, "enqueue")
    PROVE  /\ entering[d] \in Seq(Op) /\ entering[d] # <<>>
           /\ Head(entering[d]) \in Op /\ Tail(entering[d]) \in Seq(Op)
<1>1. reads[d] \in Seq({"enqueue", "flush", "ack"}) /\ entering[d] \in Seq(Op)
  BY DEF FlowInv, TypeOK
<1>2. 1 \in DOMAIN reads[d] /\ reads[d][1] = "enqueue"
  BY <1>1 DEF GoesOn
<1>3. entering[d] # <<>>
  BY <1>2 DEF FlowInv, EnqueuesInTurn
<1> QED
  BY <1>1, <1>3

\* The version that an operation leaves in the cache.
LEMMA WrittenTypes ==
    ASSUME NEW op \in Op, NEW rev \in Nat
    PROVE  (IF op.kind = "delete" THEN Absent ELSE [revision |-> rev, content |-> op.edit])
               \in MaybeVersion
BY DEF Op, MaybeVersion, Version

LEMMA EnqueueTypes ==
    ASSUME FlowInv, NEW d \in Devices, Enqueue(d)
    PROVE  TypeOK'
<1> DEFINE op == Queued(d, Head(entering[d]))
<1>0. TypeOK /\ GoesOn(d, "enqueue")
  BY DEF FlowInv, Enqueue
<1>1. Head(entering[d]) \in Op /\ Tail(entering[d]) \in Seq(Op)
  BY <1>0, EnteringOp
<1>2. op \in Op /\ op.rev \in Nat /\ op.edit \in Contents
  BY <1>0, <1>1, QueuedTypes DEF Op
<1>3. outbox' \in [Devices -> SUBSET Row]
  <2>1. [op |-> op, due |-> TRUE] \in Row
    BY <1>2 DEF Row
  <2>2. PutRow(outbox[d], [op |-> op, due |-> TRUE]) \in SUBSET Row
    BY <1>0, <2>1, PutRowTypes DEF TypeOK
  <2> QED
    BY <1>0, <2>2 DEF Enqueue, TypeOK
<1>4. cache' \in [Devices -> MaybeVersion]
  BY <1>0, <1>2, WrittenTypes DEF Enqueue, TypeOK
<1>5. latest' \in [Devices -> Contents \cup {None}]
  BY <1>0, <1>2 DEF Enqueue, TypeOK
<1>6. entering' \in [Devices -> Seq(Op)] /\ found' \in [Devices -> Row \cup {None}]
  BY <1>0, <1>1 DEF Enqueue, TypeOK
<1>7. awaited' \in [Devices -> Nat]
  BY <1>0 DEF Enqueue, TypeOK, CountedDown
<1>8. reads' \in [Devices -> Seq({"enqueue", "flush", "ack"})]
  BY <1>0, GoesOnTypes
<1> QED
  BY <1>0, <1>3, <1>4, <1>5, <1>6, <1>7, <1>8
  DEF Enqueue, TypeOK, served, screen, copy, incoming

LEMMA RetryDueTypes ==
    ASSUME NEW r \in Row
    PROVE  RetryDue(r) \in Row /\ RetryDue(r).op = r.op
BY DEF RetryDue, Row

LEMMA BackoffEndsTypes ==
    ASSUME TypeOK, NEW d \in Devices, BackoffEnds(d)
    PROVE  TypeOK'
<1>1. PICK r \in outbox[d] : outbox' = [outbox EXCEPT ![d] = PutRow(@, RetryDue(r))]
  BY DEF BackoffEnds
<1>2. PutRow(outbox[d], RetryDue(r)) \in SUBSET Row
  BY RetryDueTypes, PutRowTypes DEF TypeOK
<1>3. outbox' \in [Devices -> SUBSET Row]
  BY <1>1, <1>2 DEF TypeOK
<1> QED
  BY <1>3 DEF BackoffEnds, TypeOK, served, screen, copy, entry, flushing, incoming, edits

LEMMA PickBatchTypes ==
    ASSUME TypeOK, NEW d \in Devices, PickBatch(d)
    PROVE  TypeOK'
<1>1. batch' \in [Devices -> SUBSET Row] /\ at' \in [Devices -> FlushSteps]
  BY DEF PickBatch, Due, TypeOK, FlushSteps
<1>2. reads' \in [Devices -> Seq({"enqueue", "flush", "ack"})]
  BY DEF PickBatch, Reads, TypeOK
<1> QED
  BY <1>1, <1>2 DEF PickBatch, TypeOK, served, screen, copy, incoming, edits

\* The batch of a flush has a newest row.
LEMMA NewestOfBatch ==
    ASSUME FlowInv, NEW d \in Devices, at[d] = "picked"
    PROVE  Newest(batch[d]) \in batch[d] /\ Newest(batch[d]) \in Row
<1>1. batch[d] \in SUBSET Row /\ batch[d] # {} /\ Bounded(batch[d])
  BY DEF FlowInv, TypeOK, BatchInv
<1> QED
  BY <1>1, NewestRow

LEMMA SendBatchTypes ==
    ASSUME FlowInv, NEW d \in Devices, SendBatch(d)
    PROVE  TypeOK'
<1>0. TypeOK /\ at[d] = "picked" /\ GoesOn(d, "flush")
  BY DEF FlowInv, SendBatch
<1>1. Newest(batch[d]).op \in Op
  BY <1>0, NewestOfBatch DEF Row
<1>2. flight' \in [Devices -> Op \cup {None}] /\ at' \in [Devices -> FlushSteps]
  BY <1>0, <1>1 DEF SendBatch, TypeOK, FlushSteps
<1>3. attempt[d] + 1 \in Nat /\ attempt' \in [Devices -> Nat]
  BY <1>0 DEF SendBatch, TypeOK
<1>4. {r.op : r \in batch[d]} \in SUBSET Op
  BY <1>0 DEF TypeOK, Row
<1>5. requests' \subseteq Request
  BY <1>0, <1>3, <1>4 DEF SendBatch, TypeOK, Request
<1>6. reads' \in [Devices -> Seq({"enqueue", "flush", "ack"})]
  BY <1>0, GoesOnTypes
<1> QED
  BY <1>0, <1>2, <1>3, <1>5, <1>6 DEF SendBatch, TypeOK, served, screen, copy, incoming, edits

LEMMA FlushFailsTypes ==
    ASSUME TypeOK, NEW d \in Devices, NEW q \in requests, FlushFails(d, q)
    PROVE  TypeOK'
<1>1. WithoutBatch(d) \cup AttemptFailed(batch[d]) \in SUBSET Row
  <2>1. ASSUME NEW b \in batch[d] PROVE [b EXCEPT !.due = FALSE] \in Row
    <3>1. b \in Row
      BY DEF TypeOK
    <3> QED
      BY <3>1 DEF Row
  <2> QED
    BY <2>1 DEF WithoutBatch, AttemptFailed, TypeOK
<1>2. outbox' \in [Devices -> SUBSET Row]
  BY <1>1 DEF FlushFails, TypeOK
<1>3. requests' \subseteq Request
  BY DEF FlushFails, TypeOK
<1>4. /\ flight' \in [Devices -> Op \cup {None}]
      /\ batch' \in [Devices -> SUBSET Row]
      /\ at' \in [Devices -> FlushSteps]
      /\ budget' \in [{"failures", "hydrations", "deletes"} -> Nat]
  BY DEF FlushFails, TypeOK, FlushSteps
<1> QED
  BY <1>2, <1>3, <1>4 DEF FlushFails, TypeOK, served, screen, copy, entry, incoming, edits

LEMMA AwaitedTypes ==
    ASSUME TypeOK, NEW d \in Devices, WaitForEnqueues(d)
    PROVE  awaited' \in [Devices -> Nat]
<1>1. Len(entering[d]) \in Nat
  BY DEF TypeOK
<1> QED
  BY <1>1 DEF WaitForEnqueues, TypeOK

LEMMA AnsweredTypes ==
    ASSUME TypeOK, NEW d \in Devices, NEW q \in requests, Answered(d, q)
    PROVE  TypeOK'
<1>1. q.acks \in SUBSET AckRecord
  BY DEF TypeOK, Request
<1>2. acks' \in [Devices -> SUBSET AckRecord] /\ at' \in [Devices -> FlushSteps]
  BY <1>1 DEF Answered, TypeOK, FlushSteps
<1>3. awaited' \in [Devices -> Nat]
  BY AwaitedTypes DEF Answered
<1>4. requests' \subseteq Request
  BY DEF Answered, TypeOK
<1> QED
  BY <1>2, <1>3, <1>4 DEF Answered, TypeOK, served, screen, copy, entry, incoming, edits

LEMMA StoreConflictTypes ==
    ASSUME TypeOK, NEW d \in Devices, StoreConflict(d)
    PROVE  TypeOK'
<1>1. acks' \in [Devices -> SUBSET AckRecord]
  BY DEF StoreConflict, TypeOK
<1>2. awaited' \in [Devices -> Nat]
  BY AwaitedTypes DEF StoreConflict
<1> QED
  BY <1>1, <1>2 DEF StoreConflict, TypeOK, served, screen, copy, entry, incoming, edits

\* What an acknowledgement is made of.
LEMMA AckTypes ==
    ASSUME TypeOK, NEW d \in Devices, acks[d] # {}
    PROVE  NextAck(d) \in AckRecord /\ NextAck(d).object \in MaybeVersion
BY FirstAck DEF TypeOK, AckRecord

\* The newest draft of the object, rebased on a version.
LEMMA RebasedTypes ==
    ASSUME NEW row \in Row, NEW v \in Version
    PROVE  /\ Rebased(row, v) \in Row
           /\ Rebased(row, v).op.id = row.op.id
           /\ Rebased(row, v).op.edit = row.op.edit
           /\ Rebased(row, v).op.kind = row.op.kind
<1>1. row.op \in Op /\ row.op.base \in Nat /\ row.due \in BOOLEAN
  BY DEF Row, Op
<1>2. v.revision \in Nat /\ Larger(row.op.base, v.revision) \in Nat
  BY <1>1 DEF Version, Larger
<1> DEFINE half == [row.op EXCEPT !.base = Larger(@, v.revision)]
           op == [half EXCEPT !.rev = v.revision]
           mid == [row EXCEPT !.op.base = Larger(@, v.revision)]
<1>3. half \in Op /\ half.id = row.op.id /\ half.edit = row.op.edit /\ half.kind = row.op.kind
  BY <1>1, <1>2 DEF Op
<1>4. op \in Op /\ op.id = row.op.id /\ op.edit = row.op.edit /\ op.kind = row.op.kind
  <2> HIDE DEF half
  <2> QED
    BY <1>2, <1>3 DEF Op
<1>5. mid \in Row /\ mid.op = half
  <2>1. mid = [row EXCEPT !.op = half]
    OBVIOUS
  <2> HIDE DEF half, mid
  <2> QED
    BY <1>3, <2>1 DEF Row
<1>6. Rebased(row, v) = [mid EXCEPT !.op.rev = v.revision]
  BY DEF Rebased
<1>7. Rebased(row, v) = [mid EXCEPT !.op = op]
  <2> HIDE DEF mid, half
  <2> QED
    BY <1>5, <1>6
<1> HIDE DEF mid, half, op
<1> QED
  BY <1>4, <1>5, <1>7 DEF Row

\* The drafts that are newer than an acknowledged operation.
Drafts(d) == {r \in outbox[d] : r.op.id # NextAck(d).id /\ r.op.kind = "upsert"}

\* What a flush reads for the acknowledgement it stores: the object alone, or with the
\* newest draft on top.
LEMMA ReadDraftEffect ==
    ASSUME FlowInv, NEW d \in Devices, ReadDraft(d)
    PROVE  \E version \in Version :
               /\ NextAck(d).object = version
               /\ \/ /\ Drafts(d) = {}
                     /\ stored' = [stored EXCEPT ![d] = [object |-> version, row |-> None]]
                  \/ \E r \in Drafts(d) :
                        /\ r \in Row /\ \A s \in Drafts(d) : r.op.id >= s.op.id
                        /\ stored' = [stored EXCEPT ![d] =
                               [object |-> [revision |-> version.revision,
                                            content |-> r.op.edit],
                                row |-> Rebased(r, version)]]
<1>0. TypeOK
  BY DEF FlowInv
<1>1. NextAck(d).object \in Version
  BY <1>0, AckTypes DEF ReadDraft, MaybeVersion
<1>2. CASE Drafts(d) = {}
  BY <1>1, <1>2 DEF ReadDraft, Drafts
<1>3. CASE Drafts(d) # {}
  <2>1. Drafts(d) \in SUBSET Row
    BY <1>0 DEF Drafts, TypeOK
  <2>2. Bounded(Drafts(d))
    BY DEF Drafts, Bounded, FlowInv, BatchInv
  <2>3. PICK r \in Drafts(d) : r = Newest(Drafts(d)) /\ \A s \in Drafts(d) : r.op.id >= s.op.id
    BY <1>3, <2>1, <2>2, NewestRow
  <2>4. [NextAck(d).object EXCEPT !.content = r.op.edit]
            = [revision |-> NextAck(d).object.revision, content |-> r.op.edit]
    BY <1>1 DEF Version
  <2> QED
    BY <1>1, <1>3, <2>1, <2>3, <2>4 DEF ReadDraft, Drafts
<1> QED
  BY <1>2, <1>3

LEMMA ReadDraftTypes ==
    ASSUME FlowInv, NEW d \in Devices, ReadDraft(d)
    PROVE  TypeOK' /\ stored'[d] \in Stored
<1>0. TypeOK
  BY DEF FlowInv
<1>1. stored' \in [Devices -> Stored \cup {None}] /\ stored'[d] \in Stored
  <2>1. PICK version \in Version :
            \/ stored' = [stored EXCEPT ![d] = [object |-> version, row |-> None]]
            \/ \E r \in Row : stored' = [stored EXCEPT ![d] =
                   [object |-> [revision |-> version.revision, content |-> r.op.edit],
                    row |-> Rebased(r, version)]]
    BY ReadDraftEffect
  <2>2. [object |-> version, row |-> None] \in Stored
    BY DEF Stored, MaybeVersion
  <2>3. ASSUME NEW r \in Row
        PROVE  [object |-> [revision |-> version.revision, content |-> r.op.edit],
                row |-> Rebased(r, version)] \in Stored
    <3>1. Rebased(r, version) \in Row
      BY RebasedTypes
    <3>2. r.op.edit \in Contents /\ version.revision \in Nat
      BY DEF Row, Op, Version
    <3> QED
      BY <3>1, <3>2 DEF Stored, MaybeVersion, Version
  <2>4. \E new \in Stored : stored' = [stored EXCEPT ![d] = new]
    BY <2>1, <2>2, <2>3
  <2> QED
    BY <1>0, <2>4 DEF TypeOK
<1>2. at' \in [Devices -> FlushSteps]
  BY <1>0 DEF ReadDraft, TypeOK, FlushSteps
<1>3. reads' \in [Devices -> Seq({"enqueue", "flush", "ack"})]
  BY <1>0 DEF ReadDraft, Reads, TypeOK
<1> QED
  BY <1>0, <1>1, <1>2, <1>3 DEF ReadDraft, TypeOK, served, screen, copy, incoming, edits

LEMMA AckStoredTypes ==
    ASSUME TypeOK, NEW d \in Devices, NEW v \in MaybeVersion, AckStored(d, v)
    PROVE  /\ cache' \in [Devices -> MaybeVersion]
           /\ told' \in [Devices -> Seq(MaybeVersion)]
           /\ acks' \in [Devices -> SUBSET AckRecord]
           /\ awaited' \in [Devices -> Nat]
           /\ at' \in [Devices -> FlushSteps]
<1>1. awaited' \in [Devices -> Nat]
  BY AwaitedTypes DEF AckStored
<1>2. told' \in [Devices -> Seq(MaybeVersion)]
  BY DEF AckStored, TypeOK
<1> QED
  BY <1>1, <1>2 DEF AckStored, TypeOK, FlushSteps

LEMMA WriteAckedTypes ==
    ASSUME FlowInv, NEW d \in Devices, WriteAcked(d)
    PROVE  TypeOK'
<1>0. TypeOK /\ stored[d] \in Stored
  <2>1. TypeOK /\ stored[d] # None
    BY DEF FlowInv, BatchInv, WriteAcked
  <2> QED
    BY <2>1 DEF TypeOK
<1>1. stored[d].object \in MaybeVersion /\ stored[d].row \in Row \cup {None}
  BY <1>0 DEF Stored
<1>2. outbox' \in [Devices -> SUBSET Row]
  <2>1. stored[d].row # None => PutRow(outbox[d], stored[d].row) \in SUBSET Row
    BY <1>0, <1>1, PutRowTypes DEF TypeOK
  <2> QED
    BY <1>0, <2>1 DEF WriteAcked, TypeOK
<1>3. /\ cache' \in [Devices -> MaybeVersion]
      /\ told' \in [Devices -> Seq(MaybeVersion)]
      /\ acks' \in [Devices -> SUBSET AckRecord]
      /\ awaited' \in [Devices -> Nat]
      /\ at' \in [Devices -> FlushSteps]
  BY <1>0, <1>1, AckStoredTypes DEF WriteAcked
<1>4. stored' \in [Devices -> Stored \cup {None}]
  BY <1>0 DEF WriteAcked, TypeOK
<1>5. reads' \in [Devices -> Seq({"enqueue", "flush", "ack"})]
  BY <1>0, GoesOnTypes DEF WriteAcked
<1> QED
  BY <1>0, <1>2, <1>3, <1>4, <1>5
  DEF WriteAcked, TypeOK, served, screen, copy, incoming, edits

\* An acknowledgement is about a row that was sent.
LEMMA SentRow ==
    ASSUME FlowInv, NEW d \in Devices, at[d] \in {"store", "write"}, acks[d] # {}
    PROVE  \E r \in batch[d] :
               r.op.id = NextAck(d).id /\ SentOp(d, NextAck(d)) = r.op /\ r \in Row
<1>1. NextAck(d) \in acks[d] /\ batch[d] \subseteq Row
  BY FirstAck DEF FlowInv, TypeOK
<1>2. \E r \in batch[d] : r.op.id = NextAck(d).id
  BY <1>1 DEF FlowInv, BatchInv, IsSent
<1> QED
  BY <1>1, <1>2 DEF SentOp

LEMMA WriteUnechoedTypes ==
    ASSUME FlowInv, NEW d \in Devices, WriteUnechoed(d)
    PROVE  TypeOK'
<1>0. TypeOK /\ at[d] = "store" /\ acks[d] # {}
  BY DEF FlowInv, WriteUnechoed
<1>1. SentOp(d, NextAck(d)) \in Op
  BY <1>0, SentRow DEF Row
<1>2. \E v \in MaybeVersion : AckStored(d, v)
  <2>1. SentOp(d, NextAck(d)).rev \in Nat
    BY <1>1 DEF Op
  <2> QED
    BY <1>1, <2>1, WrittenTypes DEF WriteUnechoed
<1>3. /\ cache' \in [Devices -> MaybeVersion]
      /\ told' \in [Devices -> Seq(MaybeVersion)]
      /\ acks' \in [Devices -> SUBSET AckRecord]
      /\ awaited' \in [Devices -> Nat]
      /\ at' \in [Devices -> FlushSteps]
  BY <1>0, <1>2, AckStoredTypes
<1> QED
  BY <1>0, <1>3 DEF WriteUnechoed, TypeOK, served, screen, copy, entry, incoming, edits

LEMMA FinishBatchTypes ==
    ASSUME TypeOK, NEW d \in Devices, FinishBatch(d)
    PROVE  TypeOK'
<1>1. outbox' \in [Devices -> SUBSET Row]
  BY DEF FinishBatch, WithoutBatch, TypeOK
<1>2. /\ flight' \in [Devices -> Op \cup {None}]
      /\ batch' \in [Devices -> SUBSET Row]
      /\ at' \in [Devices -> FlushSteps]
  BY DEF FinishBatch, TypeOK, FlushSteps
<1> QED
  BY <1>1, <1>2 DEF FinishBatch, TypeOK, served, screen, copy, entry, incoming, edits

LEMMA TellTypes ==
    ASSUME TypeOK, NEW d \in Devices, NothingDue(d) \/ Tell(d)
    PROVE  TypeOK'
<1>1. at' \in [Devices -> FlushSteps]
  <2>1. UNCHANGED at \/ \E step \in FlushSteps : at' = [at EXCEPT ![d] = step]
    BY DEF NothingDue, Tell, FlushSteps
  <2> QED
    BY <2>1 DEF TypeOK
<1>2. CASE NothingDue(d)
  BY <1>1, <1>2
  DEF NothingDue, TypeOK, served, screen, copy, entry, incoming, edits
<1>3. CASE Tell(d) /\ told[d] = <<>>
  BY <1>1, <1>3 DEF Tell, TypeOK, served, copy, entry, incoming, edits
<1>4. CASE Tell(d) /\ told[d] # <<>>
  <2>1. Head(told[d]) \in MaybeVersion /\ Tail(told[d]) \in Seq(MaybeVersion)
    BY <1>4 DEF TypeOK
  <2>2. told' \in [Devices -> Seq(MaybeVersion)]
    BY <1>4, <2>1 DEF Tell, TypeOK
  <2>3. /\ canvas' \in [Devices -> MaybeVersion]
        /\ shown' \in [Devices -> SUBSET Contents]
        /\ unacked' \in [Devices -> Contents \cup {None}]
    BY <1>4, <2>1, NotifyTypes DEF Tell
  <2> QED
    BY <1>1, <1>4, <2>2, <2>3 DEF Tell, TypeOK, served, entry, incoming, edits
<1> QED
  BY <1>2, <1>3, <1>4

\* What a handler of the server does with operation op of request q: the three outcomes,
\* and the request as it goes on.
IngestsTo(q, op, answer) ==
    /\ answer.device = q.device /\ answer.attempt = q.attempt
    /\ answer.todo = q.todo \ {op}
    /\ requests' = (requests \ {q}) \cup {answer}
    /\ \/ /\ Decided(op)
          /\ \E status \in {"duplicate", "conflict"} :
                 /\ status = "duplicate" => ledger[op.id] = "applied"
                 /\ status = "conflict" => ledger[op.id] # "applied"
                 /\ answer.acks = q.acks \cup {[id |-> op.id, status |-> status,
                                                object |-> server]}
          /\ answer.outbound = None
          /\ UNCHANGED <<served, landed>>
       \/ /\ ~Decided(op) /\ Applies(server, op.base)
          /\ server' = IF op.kind = "delete" THEN Absent
                       ELSE [revision |-> NextRevision(server), content |-> op.edit]
          /\ ledger' = [ledger EXCEPT ![op.id] = "applied"]
          /\ landed' = landed \cup {op.edit}
          /\ answer.acks = q.acks \cup {[id |-> op.id, status |-> "applied", object |-> server']}
          /\ answer.outbound = server'
          /\ UNCHANGED parked
       \/ /\ ~Decided(op) /\ ~Applies(server, op.base)
          /\ parked' = parked \cup {op}
          /\ ledger' = [ledger EXCEPT ![op.id] = "conflict"]
          /\ answer.acks = q.acks \cup {[id |-> op.id, status |-> "conflict", object |-> server]}
          /\ answer.outbound = None
          /\ UNCHANGED <<server, landed>>

LEMMA IngestEffect ==
    ASSUME TypeOK, NEW q \in requests, Ingest(q)
    PROVE  \E op \in q.todo : \E answer \in Request : op \in Op /\ IngestsTo(q, op, answer)
<1> DEFINE op == NextOp(q)
           written == IF op.kind = "delete" THEN Absent
                      ELSE [revision |-> NextRevision(server), content |-> op.edit]
           answer(status, object, change) ==
               [q EXCEPT !.todo = @ \ {op},
                         !.acks = @ \cup {[id |-> op.id, status |-> status, object |-> object]},
                         !.outbound = change]
<1>1. op \in q.todo /\ op \in Op /\ op.id \in Contents
  BY FirstOp DEF Ingest, Op
<1>2. q \in Request /\ server \in MaybeVersion
  BY DEF TypeOK
<1>3. written \in MaybeVersion
  <2>1. NextRevision(server) \in Nat
    BY <1>2 DEF NextRevision, MaybeVersion, Version
  <2> QED
    BY <1>1, <2>1, WrittenTypes
<1> HIDE DEF op, written
<1>4. ASSUME NEW status \in {"applied", "duplicate", "conflict"},
             NEW object \in MaybeVersion, NEW change \in MaybeVersion \cup {None}
      PROVE  /\ answer(status, object, change) \in Request
             /\ answer(status, object, change).device = q.device
             /\ answer(status, object, change).attempt = q.attempt
             /\ answer(status, object, change).todo = q.todo \ {op}
             /\ answer(status, object, change).acks =
                    q.acks \cup {[id |-> op.id, status |-> status, object |-> object]}
             /\ answer(status, object, change).outbound = change
  <2>1. [id |-> op.id, status |-> status, object |-> object] \in AckRecord
    BY <1>1 DEF AckRecord
  <2>2. PICK todo \in SUBSET Op, answers \in SUBSET AckRecord :
            /\ todo = q.todo \ {op}
            /\ answers = q.acks \cup {[id |-> op.id, status |-> status, object |-> object]}
    <3>1. q.todo \in SUBSET Op /\ q.acks \in SUBSET AckRecord
      BY <1>2 DEF Request
    <3> QED
      BY <2>1, <3>1
  <2>3. answer(status, object, change)
            = [q EXCEPT !.todo = todo, !.acks = answers, !.outbound = change]
    BY <2>2
  <2> HIDE DEF answer
  <2> QED
    BY <1>2, <2>2, <2>3 DEF Request
<1>5. \/ /\ Decided(op)
         /\ \E status \in {"duplicate", "conflict"} :
                /\ status = "duplicate" => ledger[op.id] = "applied"
                /\ status = "conflict" => ledger[op.id] # "applied"
                /\ requests' = (requests \ {q}) \cup {answer(status, server, None)}
         /\ UNCHANGED <<served, landed>>
      \/ /\ ~Decided(op) /\ Applies(server, op.base)
         /\ server' = written
         /\ ledger' = [ledger EXCEPT ![op.id] = "applied"]
         /\ landed' = landed \cup {op.edit}
         /\ requests' = (requests \ {q}) \cup {answer("applied", written, written)}
         /\ UNCHANGED parked
      \/ /\ ~Decided(op) /\ ~Applies(server, op.base)
         /\ parked' = parked \cup {op}
         /\ ledger' = [ledger EXCEPT ![op.id] = "conflict"]
         /\ requests' = (requests \ {q}) \cup {answer("conflict", server, None)}
         /\ UNCHANGED <<server, landed>>
  BY DEF Ingest, op, NextOp, written
<1> HIDE DEF answer
<1>6. CASE Decided(op) /\ UNCHANGED <<served, landed>>
  <2>1. PICK status \in {"duplicate", "conflict"} :
            /\ status = "duplicate" => ledger[op.id] = "applied"
            /\ status = "conflict" => ledger[op.id] # "applied"
            /\ requests' = (requests \ {q}) \cup {answer(status, server, None)}
    BY <1>5, <1>6
  <2>2. IngestsTo(q, op, answer(status, server, None))
    BY <1>2, <1>4, <1>6, <2>1 DEF IngestsTo
  <2> QED
    BY <1>1, <1>2, <1>4, <2>2
<1>7. CASE ~Decided(op) /\ server' = written /\ landed' = landed \cup {op.edit}
           /\ Applies(server, op.base) /\ UNCHANGED parked
           /\ ledger' = [ledger EXCEPT ![op.id] = "applied"]
           /\ requests' = (requests \ {q}) \cup {answer("applied", written, written)}
  <2>1. IngestsTo(q, op, answer("applied", written, written))
    BY <1>3, <1>4, <1>7 DEF IngestsTo, written
  <2> QED
    BY <1>1, <1>3, <1>4, <2>1
<1>8. CASE /\ ~Decided(op) /\ ~Applies(server, op.base)
           /\ parked' = parked \cup {op}
           /\ ledger' = [ledger EXCEPT ![op.id] = "conflict"]
           /\ requests' = (requests \ {q}) \cup {answer("conflict", server, None)}
           /\ UNCHANGED <<server, landed>>
  <2>1. IngestsTo(q, op, answer("conflict", server, None))
    BY <1>2, <1>4, <1>8 DEF IngestsTo
  <2> QED
    BY <1>1, <1>2, <1>4, <2>1
<1> QED
  BY <1>5, <1>6, <1>7, <1>8

LEMMA IngestTypes ==
    ASSUME TypeOK, NEW q \in requests, Ingest(q)
    PROVE  TypeOK'
<1>1. PICK op \in q.todo, answer \in Request : op \in Op /\ IngestsTo(q, op, answer)
  BY IngestEffect
<1>2. requests' \subseteq Request
  BY <1>1 DEF IngestsTo, TypeOK
<1>3. server' \in MaybeVersion
  <2>1. server \in MaybeVersion
    BY DEF TypeOK
  <2>2. NextRevision(server) \in Nat
    BY <2>1 DEF NextRevision, MaybeVersion, Version
  <2> QED
    <3>1. (IF op.kind = "delete" THEN Absent
           ELSE [revision |-> NextRevision(server), content |-> op.edit]) \in MaybeVersion
      BY <1>1, <2>2, WrittenTypes
    <3> QED
      BY <1>1, <2>1, <3>1 DEF IngestsTo, served
<1>4. /\ ledger' \in [Contents -> {"none", "applied", "conflict"}]
      /\ parked' \subseteq Op /\ landed' \subseteq Contents
  BY <1>1 DEF IngestsTo, TypeOK, served, Op
<1> QED
  BY <1>2, <1>3, <1>4 DEF Ingest, TypeOK, screen, copy, entry, flushing, incoming, edits

LEMMA BroadcastTypes ==
    ASSUME TypeOK, NEW q \in requests, Broadcast(q)
    PROVE  TypeOK'
<1>1. q \in Request /\ q.outbound \in MaybeVersion
  BY DEF TypeOK, Request, Broadcast
<1>2. [q EXCEPT !.outbound = None] \in Request
  BY <1>1 DEF Request
<1>3. requests' \subseteq Request
  BY <1>2 DEF Broadcast, TypeOK
<1>4. channel' \in [Devices -> Seq(MaybeVersion)]
  <2>1. ASSUME NEW d \in Devices PROVE Append(channel[d], q.outbound) \in Seq(MaybeVersion)
    BY <1>1 DEF TypeOK
  <2> QED
    BY <2>1 DEF Broadcast
<1> QED
  BY <1>3, <1>4 DEF Broadcast, TypeOK, served, screen, copy, entry, flushing, edits

LEMMA DiscardTypes ==
    ASSUME TypeOK, NEW q \in requests, Discard(q)
    PROVE  TypeOK'
BY DEF Discard, TypeOK, served, screen, copy, entry, flushing, incoming, edits

LEMMA HandleEventTypes ==
    ASSUME TypeOK, NEW d \in Devices, HandleEvent(d)
    PROVE  TypeOK'
<1>1. Head(channel[d]) \in MaybeVersion /\ Tail(channel[d]) \in Seq(MaybeVersion)
  BY DEF HandleEvent, TypeOK
<1>2. /\ cache' \in [Devices -> MaybeVersion]
      /\ canvas' \in [Devices -> MaybeVersion]
      /\ shown' \in [Devices -> SUBSET Contents]
      /\ unacked' \in [Devices -> Contents \cup {None}]
  <2>1. CASE NoQueuedWork(d)
    BY <1>1, <2>1, NotifyTypes DEF HandleEvent, TypeOK
  <2>2. CASE ~NoQueuedWork(d)
    BY <2>2 DEF HandleEvent, TypeOK, copy
  <2> QED
    BY <2>1, <2>2
<1>3. channel' \in [Devices -> Seq(MaybeVersion)]
  BY <1>1 DEF HandleEvent, TypeOK
<1> QED
  BY <1>2, <1>3 DEF HandleEvent, TypeOK, served, entry, flushing, edits

LEMMA BeginHydrationTypes ==
    ASSUME TypeOK, NEW d \in Devices, BeginHydration(d, cache[d])
    PROVE  hydration' \in [Devices -> Hydration \cup {None}]
<1>1. RevisionOf(cache[d]) \in Int
  BY DEF TypeOK, RevisionOf, MaybeVersion, Version
<1>2. [from |-> RevisionOf(cache[d]), got |-> None] \in Hydration
  BY <1>1 DEF Hydration
<1> QED
  BY <1>2 DEF BeginHydration, TypeOK

LEMMA HydrateTypes ==
    ASSUME TypeOK, NEW d \in Devices, Hydrate(d)
    PROVE  TypeOK'
<1>1. hydration' \in [Devices -> Hydration \cup {None}]
  BY BeginHydrationTypes DEF Hydrate
<1>2. budget' \in [{"failures", "hydrations", "deletes"} -> Nat]
  BY DEF Hydrate, TypeOK
<1> QED
  BY <1>1, <1>2 DEF Hydrate, TypeOK, served, screen, copy, entry, flushing, edits

LEMMA HydrationAnsweredTypes ==
    ASSUME TypeOK, NEW d \in Devices, HydrationAnswered(d)
    PROVE  TypeOK'
<1>1. hydration[d] \in Hydration /\ server \in MaybeVersion
  BY DEF HydrationAnswered, TypeOK
<1>2. [hydration[d] EXCEPT !.got = server] \in Hydration
  BY <1>1 DEF Hydration
<1>3. hydration' = [hydration EXCEPT ![d] = [hydration[d] EXCEPT !.got = server]]
  BY DEF HydrationAnswered
<1>4. hydration' \in [Devices -> Hydration \cup {None}]
  BY <1>2, <1>3 DEF TypeOK
<1> QED
  BY <1>4 DEF HydrationAnswered, TypeOK, served, screen, copy, entry, flushing, edits

LEMMA HydrationAppliesTypes ==
    ASSUME TypeOK, NEW d \in Devices, HydrationApplies(d)
    PROVE  TypeOK'
<1>1. hydration[d].got \in MaybeVersion
  BY DEF HydrationApplies, TypeOK, Hydration
<1>2. /\ cache' \in [Devices -> MaybeVersion]
      /\ canvas' \in [Devices -> MaybeVersion]
      /\ shown' \in [Devices -> SUBSET Contents]
      /\ unacked' \in [Devices -> Contents \cup {None}]
  <2>1. CASE NoQueuedWork(d) /\ AnswerReplaces(d, hydration[d].got)
    BY <1>1, <2>1, NotifyTypes DEF HydrationApplies, TypeOK
  <2>2. CASE ~(NoQueuedWork(d) /\ AnswerReplaces(d, hydration[d].got))
    BY <2>2 DEF HydrationApplies, TypeOK, copy
  <2> QED
    BY <2>1, <2>2
<1>3. hydration' \in [Devices -> Hydration \cup {None}]
  BY DEF HydrationApplies, TypeOK
<1> QED
  BY <1>2, <1>3 DEF HydrationApplies, TypeOK, served, entry, flushing, edits

LEMMA ReconnectTypes ==
    ASSUME TypeOK, NEW d \in Devices, Reconnect(d)
    PROVE  TypeOK'
<1>1. hydration' \in [Devices -> Hydration \cup {None}]
  BY BeginHydrationTypes DEF Reconnect
<1>2. budget' \in [{"failures", "hydrations", "deletes"} -> Nat]
  BY DEF Reconnect, TypeOK
<1>3. channel' \in [Devices -> Seq(MaybeVersion)]
  BY DEF Reconnect, TypeOK
<1> QED
  BY <1>1, <1>2, <1>3 DEF Reconnect, TypeOK, served, screen, copy, entry, flushing, edits

LEMMA ReloadTypes ==
    ASSUME TypeOK, NEW d \in Devices, Reload(d)
    PROVE  TypeOK'
<1>1. hydration' \in [Devices -> Hydration \cup {None}]
  BY BeginHydrationTypes DEF Reload
<1>2. canvas' \in [Devices -> MaybeVersion] /\ shown' \in [Devices -> SUBSET Contents]
  <2>1. cache[d] \in MaybeVersion
    BY DEF TypeOK
  <2> QED
    BY <2>1, ShowTypes DEF Reload
<1>3. \A S : <<>> \in Seq(S)
  OBVIOUS
<1>4. /\ channel' \in [Devices -> Seq(MaybeVersion)]
      /\ told' \in [Devices -> Seq(MaybeVersion)]
      /\ entering' \in [Devices -> Seq(Op)]
      /\ reads' \in [Devices -> Seq({"enqueue", "flush", "ack"})]
  BY <1>3 DEF Reload, TypeOK
<1>5. /\ undoable' \in [Devices -> BOOLEAN]
      /\ unacked' \in [Devices -> Contents \cup {None}]
      /\ found' \in [Devices -> Row \cup {None}]
      /\ flight' \in [Devices -> Op \cup {None}]
      /\ at' \in [Devices -> FlushSteps]
      /\ batch' \in [Devices -> SUBSET Row]
      /\ acks' \in [Devices -> SUBSET AckRecord]
      /\ awaited' \in [Devices -> Nat]
      /\ stored' \in [Devices -> Stored \cup {None}]
      /\ budget' \in [{"failures", "hydrations", "deletes"} -> Nat]
  BY DEF Reload, TypeOK, FlushSteps
<1> QED
  BY <1>1, <1>2, <1>4, <1>5 DEF Reload, TypeOK, served, edits
-----------------------------------------------------------------------------
(* The flows of a device take turns, and requests are about what was sent *)

\* The step sends device d no request that is about other rows.
NoNewRequests(d) ==
    \A q \in requests' :
        q.device # d \/ \E p \in requests :
            /\ p.device = q.device /\ p.attempt = q.attempt
            /\ \A x \in q.todo \cup q.acks : \E y \in p.todo \cup p.acks : y.id = x.id

\* What most steps leave of the flush loop of device d.
LoopStays(d) ==
    \/ at'[d] = at[d] /\ batch'[d] = batch[d] /\ stored'[d] = stored[d] /\ acks'[d] \subseteq acks[d]
    \/ at'[d] \in {"idle", "select", "tell"} /\ (batch'[d] = batch[d] \/ batch'[d] = {})

LEMMA BatchStays ==
    ASSUME NEW d \in Devices, BatchInv(d), LoopStays(d), NoNewRequests(d),
           Bounded(outbox'[d]), attempt'[d] = attempt[d]
    PROVE  BatchInv(d)'
<1>1. Bounded(batch'[d])
  BY DEF BatchInv, LoopStays, Bounded
<1>2. ASSUME NEW q \in requests', q.device = d
      PROVE  q.attempt <= attempt'[d]
  BY <1>2 DEF BatchInv, NoNewRequests
<1>3. ASSUME NEW q \in requests', Awaits(d, q)', NEW x \in q.todo \cup q.acks
      PROVE  IsSent(d, x.id)'
  <2>1. at[d] = "wait" /\ batch'[d] = batch[d] /\ q.device = d /\ q.attempt = attempt[d]
    BY <1>3 DEF Awaits, LoopStays
  <2>2. PICK p \in requests : /\ p.device = q.device /\ p.attempt = q.attempt
                              /\ \E y \in p.todo \cup p.acks : y.id = x.id
    BY <2>1 DEF NoNewRequests
  <2>3. IsSent(d, x.id)
    BY <2>1, <2>2 DEF BatchInv, Awaits
  <2> QED
    BY <2>1, <2>3 DEF IsSent
<1>4. ASSUME at'[d] \in {"store", "write"}, NEW a \in acks'[d]
      PROVE  IsSent(d, a.id)'
  <2>1. at[d] = at'[d] /\ a \in acks[d] /\ batch'[d] = batch[d]
    BY <1>4 DEF LoopStays
  <2> QED
    BY <1>4, <2>1 DEF BatchInv, IsSent
<1>5. (at[d] = "picked" => batch[d] # {})' /\ (at[d] = "write" => stored[d] # None)'
  BY DEF BatchInv, LoopStays
<1> QED
  BY <1>1, <1>2, <1>3, <1>4, <1>5 DEF BatchInv

LEMMA TurnsStay ==
    ASSUME NEW d \in Devices, EnqueuesInTurn(d), reads'[d] = reads[d],
           entering'[d] = entering[d] \/ entering'[d] # <<>>
    PROVE  EnqueuesInTurn(d)'
BY DEF EnqueuesInTurn

LEMMA TurnsGrow ==
    ASSUME TypeOK, NEW d \in Devices, EnqueuesInTurn(d), NEW flow \in {"flush", "ack"},
           Reads(d, flow), UNCHANGED entering
    PROVE  EnqueuesInTurn(d)'
<1>1. reads[d] \in Seq({"enqueue", "flush", "ack"})
  BY DEF TypeOK
<1>2. reads'[d] = Append(reads[d], flow)
  BY DEF Reads, TypeOK
<1>3. ASSUME NEW i \in DOMAIN reads'[d], reads'[d][i] = "enqueue"
      PROVE  i \in DOMAIN reads[d] /\ reads[d][i] = "enqueue"
  BY <1>1, <1>2, <1>3
<1> QED
  BY <1>3 DEF EnqueuesInTurn

LEMMA TurnsShrink ==
    ASSUME TypeOK, NEW d \in Devices, EnqueuesInTurn(d), NEW flow, GoesOn(d, flow),
           UNCHANGED entering
    PROVE  EnqueuesInTurn(d)'
<1>1. reads[d] \in Seq({"enqueue", "flush", "ack"}) /\ reads[d] # <<>>
  BY DEF TypeOK, GoesOn
<1>2. reads'[d] = Tail(reads[d])
  BY DEF GoesOn, TypeOK
<1>3. ASSUME NEW i \in DOMAIN reads'[d]
      PROVE  i \in Int /\ i + 1 \in DOMAIN reads[d] /\ reads'[d][i] = reads[d][i + 1]
  BY <1>1, <1>2
<1>4. ASSUME NEW i \in DOMAIN reads'[d], NEW j \in DOMAIN reads'[d],
             reads'[d][i] = "enqueue", reads'[d][j] = "enqueue"
      PROVE  i = j
  <2>1. i + 1 = j + 1 /\ i \in Int /\ j \in Int
    BY <1>3, <1>4 DEF EnqueuesInTurn
  <2> QED
    BY <2>1
<1> QED
  BY <1>3, <1>4 DEF EnqueuesInTurn

LEMMA BoundedPut ==
    ASSUME NEW rows \in SUBSET Row, Bounded(rows), NEW row \in Row
    PROVE  Bounded(PutRow(rows, row))
<1>1. PICK n \in Nat : \A r \in rows : r.op.id <= n
  BY DEF Bounded
<1>2. row.op.id \in Nat /\ \A r \in rows : r.op.id \in Nat
  BY ContentsAreNumbers DEF Row, Op
<1>3. n + row.op.id \in Nat /\ \A r \in PutRow(rows, row) : r.op.id <= n + row.op.id
  BY <1>1, <1>2 DEF PutRow
<1> QED
  BY <1>3 DEF Bounded

LEMMA BoundedOf ==
    ASSUME NEW rows, NEW fewer, Bounded(rows),
           \A r \in fewer : \E s \in rows : s.op.id = r.op.id
    PROVE  Bounded(fewer)
<1>1. PICK n \in Nat : \A s \in rows : s.op.id <= n
  BY DEF Bounded
<1>2. \A r \in fewer : r.op.id <= n
  BY <1>1
<1> QED
  BY <1>2 DEF Bounded

\* Steps that leave the outboxes and the requests alone and end no flow.
LEMMA QuietFlow ==
    ASSUME FlowInv,
           UNCHANGED <<requests, outbox, reads, batch, attempt, acks, stored>>,
           NEW d \in Devices,
           \A e \in Devices : at'[e] = at[e] \/ at'[e] \in {"idle", "select", "tell"},
           \A e \in Devices : entering'[e] = entering[e] \/ entering'[e] # <<>>,
           TypeOK'
    PROVE  FlowInv'
<1>1. ASSUME NEW e \in Devices PROVE EnqueuesInTurn(e)' /\ BatchInv(e)'
  <2>1. EnqueuesInTurn(e) /\ BatchInv(e)
    BY DEF FlowInv
  <2>2. LoopStays(e) /\ NoNewRequests(e)
    BY DEF LoopStays, NoNewRequests
  <2>3. Bounded(outbox'[e])
    BY <2>1 DEF BatchInv
  <2> QED
    BY <2>1, <2>2, <2>3, BatchStays, TurnsStay
<1> QED
  BY <1>1 DEF FlowInv

\* Devices that a step of device d leaves alone.
LEMMA OthersFlow ==
    ASSUME FlowInv, NEW d \in Devices, NEW e \in Devices \ {d},
           NoNewRequests(e),
           reads'[e] = reads[e], entering'[e] = entering[e], outbox'[e] = outbox[e],
           at'[e] = at[e], batch'[e] = batch[e], attempt'[e] = attempt[e], acks'[e] = acks[e],
           stored'[e] = stored[e]
    PROVE  EnqueuesInTurn(e)' /\ BatchInv(e)'
<1>1. EnqueuesInTurn(e) /\ BatchInv(e)
  BY DEF FlowInv
<1>2. LoopStays(e) /\ Bounded(outbox'[e])
  BY <1>1 DEF LoopStays, BatchInv
<1> QED
  BY <1>1, <1>2, BatchStays, TurnsStay

LEMMA EditFlow ==
    ASSUME FlowInv, NEW d \in Devices, Upsert(d) \/ Delete(d)
    PROVE  FlowInv'
<1>1. TypeOK /\ TypeOK'
  BY UpsertTypes, DeleteTypes DEF FlowInv
<1>2. PICK op : Edited(d, op)
  BY DEF Upsert, Delete
<1>3. Append(entering[d], op) # <<>>
  <2>1. entering[d] \in Seq(Op)
    BY <1>1 DEF TypeOK
  <2>2. Len(Append(entering[d], op)) = Len(entering[d]) + 1 /\ Len(entering[d]) \in Nat
    BY <2>1
  <2> QED
    BY <2>2
<1>4. \A e \in Devices : entering'[e] = entering[e] \/ entering'[e] # <<>>
  BY <1>1, <1>2, <1>3 DEF Edited, TypeOK
<1>5. UNCHANGED <<requests, outbox, reads, batch, attempt, acks, stored, at>>
  <2>1. UNCHANGED reads
    BY DEF Upsert, Delete, Edited
  <2> QED
    BY <1>2, <2>1 DEF Edited, flushing
<1> QED
  BY <1>1, <1>4, <1>5, QuietFlow

LEMMA ListensFlow ==
    ASSUME FlowInv, NEW d \in Devices, Listens(d) \/ Hydrate(d) \/ Reconnect(d)
    PROVE  FlowInv'
<1>1. TypeOK
  BY DEF FlowInv
<1>2. TypeOK'
  BY <1>1, HandleEventTypes, HydrationAnsweredTypes, HydrationAppliesTypes, HydrateTypes,
     ReconnectTypes DEF Listens
<1>3. UNCHANGED <<requests, outbox, entry, flushing>>
  BY DEF Listens, Hydrate, Reconnect, HandleEvent, HydrationAnswered, HydrationApplies
<1> QED
  BY <1>2, <1>3, QuietFlow DEF entry, flushing

LEMMA TellFlow ==
    ASSUME FlowInv, NEW d \in Devices, NothingDue(d) \/ Tell(d)
    PROVE  FlowInv'
<1>1. TypeOK /\ TypeOK'
  BY TellTypes DEF FlowInv
<1>2. UNCHANGED <<requests, outbox, entry, batch, attempt, acks, stored>>
  BY DEF NothingDue, Tell
<1>3. \A e \in Devices : at'[e] = at[e] \/ at'[e] \in {"idle", "select", "tell"}
  BY ZenonT(30), <1>1 DEF NothingDue, Tell, TypeOK
<1> QED
  BY <1>1, <1>2, <1>3, QuietFlow DEF entry

LEMMA EnqueueReadsFlow ==
    ASSUME FlowInv, NEW d \in Devices, EnqueueReads(d)
    PROVE  FlowInv'
<1>1. TypeOK /\ TypeOK'
  BY EnqueueReadsTypes DEF FlowInv
<1>2. UNCHANGED <<requests, outbox, entering, flushing>>
  BY DEF EnqueueReads
<1>3. EnqueuesInTurn(d)'
  <2>1. reads[d] \in Seq({"enqueue", "flush", "ack"}) /\ reads'[d] = Append(reads[d], "enqueue")
    BY <1>1 DEF TypeOK, EnqueueReads, Reads
  <2>2. ASSUME NEW i \in DOMAIN reads'[d], reads'[d][i] = "enqueue"
        PROVE  i = Len(reads[d]) + 1
    <3>1. i \in DOMAIN reads[d] => reads[d][i] = "enqueue"
      BY <2>1, <2>2
    <3>2. i \notin DOMAIN reads[d]
      BY <2>2, <3>1 DEF EnqueueReads
    <3> QED
      BY <2>1, <3>2
  <2>3. entering'[d] # <<>>
    BY <1>2 DEF EnqueueReads
  <2> QED
    BY <2>2, <2>3 DEF EnqueuesInTurn
<1>4. ASSUME NEW e \in Devices PROVE EnqueuesInTurn(e)' /\ BatchInv(e)'
  <2>1. LoopStays(e) /\ NoNewRequests(e) /\ Bounded(outbox'[e]) /\ attempt'[e] = attempt[e]
    BY <1>2 DEF LoopStays, NoNewRequests, FlowInv, BatchInv, flushing
  <2>2. BatchInv(e)'
    BY <2>1, BatchStays DEF FlowInv
  <2>3. e # d => EnqueuesInTurn(e)'
    <3>1. e # d => reads'[e] = reads[e] /\ entering'[e] = entering[e]
      BY <1>1, <1>2 DEF EnqueueReads, Reads, TypeOK
    <3> QED
      BY <3>1, TurnsStay DEF FlowInv
  <2> QED
    BY <1>3, <2>2, <2>3
<1> QED
  BY <1>1, <1>4 DEF FlowInv

LEMMA EnqueueFlow ==
    ASSUME FlowInv, NEW d \in Devices, Enqueue(d)
    PROVE  FlowInv'
<1>1. TypeOK /\ TypeOK'
  BY EnqueueTypes DEF FlowInv
<1>2. UNCHANGED <<requests, at, batch, attempt, acks, stored>>
  BY DEF Enqueue
<1>3. EnqueuesInTurn(d)'
  <2>1. reads[d] \in Seq({"enqueue", "flush", "ack"}) /\ reads[d] # <<>>
        /\ Head(reads[d]) = "enqueue" /\ reads'[d] = Tail(reads[d])
    BY <1>1 DEF TypeOK, Enqueue, GoesOn
  <2>2. ASSUME NEW i \in DOMAIN reads'[d], reads'[d][i] = "enqueue"
        PROVE  FALSE
    <3>1. /\ 1 \in DOMAIN reads[d] /\ reads[d][1] = "enqueue"
          /\ i \in Nat /\ i >= 1 /\ i + 1 \in DOMAIN reads[d] /\ reads[d][i + 1] = "enqueue"
      BY <2>1, <2>2
    <3>2. 1 = i + 1
      BY <3>1 DEF FlowInv, EnqueuesInTurn
    <3> QED
      BY <3>1, <3>2
  <2> QED
    BY <2>2 DEF EnqueuesInTurn
<1>4. Bounded(outbox'[d])
  <2> DEFINE row == [op |-> Queued(d, Head(entering[d])), due |-> TRUE]
  <2>1. row \in Row
    BY <1>1, EnteringOp, QueuedTypes DEF Enqueue, Row
  <2>2. outbox'[d] = PutRow(outbox[d], row) /\ outbox[d] \in SUBSET Row
    BY <1>1 DEF TypeOK, Enqueue
  <2> QED
    BY <2>1, <2>2, BoundedPut DEF FlowInv, BatchInv
<1>5. ASSUME NEW e \in Devices PROVE EnqueuesInTurn(e)' /\ BatchInv(e)'
  <2>1. LoopStays(e) /\ NoNewRequests(e) /\ attempt'[e] = attempt[e]
    BY <1>2 DEF LoopStays, NoNewRequests
  <2>2. e # d => reads'[e] = reads[e] /\ entering'[e] = entering[e] /\ outbox'[e] = outbox[e]
    BY <1>1 DEF Enqueue, GoesOn, TypeOK
  <2>3. Bounded(outbox'[e])
    BY <1>4, <2>2 DEF FlowInv, BatchInv
  <2>4. BatchInv(e)'
    BY <2>1, <2>3, BatchStays DEF FlowInv
  <2>5. EnqueuesInTurn(e)'
    BY <1>3, <2>2, TurnsStay DEF FlowInv
  <2> QED
    BY <2>4, <2>5
<1> QED
  BY <1>1, <1>5 DEF FlowInv

LEMMA BackoffEndsFlow ==
    ASSUME FlowInv, NEW d \in Devices, BackoffEnds(d)
    PROVE  FlowInv'
<1>1. TypeOK /\ TypeOK'
  BY BackoffEndsTypes DEF FlowInv
<1>2. UNCHANGED <<requests, entry, flushing>>
  BY DEF BackoffEnds
<1>3. Bounded(outbox'[d])
  <2>1. PICK r \in outbox[d] : outbox' = [outbox EXCEPT ![d] = PutRow(@, RetryDue(r))]
    BY DEF BackoffEnds
  <2>2. outbox'[d] = PutRow(outbox[d], RetryDue(r)) /\ outbox[d] \in SUBSET Row /\ r \in Row
    BY <1>1, <2>1 DEF TypeOK
  <2> QED
    BY <2>2, RetryDueTypes, BoundedPut DEF FlowInv, BatchInv
<1>4. ASSUME NEW e \in Devices PROVE EnqueuesInTurn(e)' /\ BatchInv(e)'
  <2>1. LoopStays(e) /\ NoNewRequests(e) /\ attempt'[e] = attempt[e]
    BY <1>2 DEF LoopStays, NoNewRequests, flushing
  <2>2. e # d => outbox'[e] = outbox[e]
    BY <1>1 DEF BackoffEnds, TypeOK
  <2>3. Bounded(outbox'[e])
    BY <1>3, <2>2 DEF FlowInv, BatchInv
  <2> QED
    BY <1>2, <2>1, <2>3, BatchStays, TurnsStay DEF FlowInv, entry
<1> QED
  BY <1>1, <1>4 DEF FlowInv

LEMMA PickBatchFlow ==
    ASSUME FlowInv, NEW d \in Devices, PickBatch(d)
    PROVE  FlowInv'
<1>1. TypeOK /\ TypeOK'
  BY PickBatchTypes DEF FlowInv
<1>2. UNCHANGED <<requests, outbox, entering, attempt, acks, stored>>
  BY DEF PickBatch
<1>3. at'[d] = "picked" /\ batch'[d] = Due(d) /\ Due(d) # {}
  BY <1>1 DEF PickBatch, TypeOK
<1>4. BatchInv(d)'
  <2>1. BatchInv(d)
    BY DEF FlowInv
  <2>2. Bounded(outbox'[d]) /\ Bounded(batch'[d])
    BY <1>2, <1>3, <2>1 DEF BatchInv, Bounded, Due
  <2>3. ~(\E q \in requests' : Awaits(d, q)')
    BY <1>3 DEF Awaits
  <2> QED
    BY <1>2, <1>3, <2>1, <2>2, <2>3 DEF BatchInv
<1>5. EnqueuesInTurn(d)'
  BY <1>1, TurnsGrow DEF FlowInv, PickBatch
<1>6. ASSUME NEW e \in Devices \ {d} PROVE EnqueuesInTurn(e)' /\ BatchInv(e)'
  <2>1. /\ reads'[e] = reads[e] /\ entering'[e] = entering[e] /\ outbox'[e] = outbox[e]
        /\ at'[e] = at[e] /\ batch'[e] = batch[e] /\ attempt'[e] = attempt[e]
        /\ acks'[e] = acks[e] /\ stored'[e] = stored[e]
    BY <1>1 DEF PickBatch, Reads, TypeOK
  <2>2. NoNewRequests(e)
    BY <1>2 DEF NoNewRequests
  <2> QED
    BY <2>1, <2>2, OthersFlow
<1> QED
  BY <1>1, <1>4, <1>5, <1>6 DEF FlowInv

LEMMA SendBatchFlow ==
    ASSUME FlowInv, NEW d \in Devices, SendBatch(d)
    PROVE  FlowInv'
<1>1. TypeOK /\ TypeOK' /\ BatchInv(d)
  BY SendBatchTypes DEF FlowInv
<1> DEFINE request == [device |-> d, attempt |-> attempt[d] + 1,
                       todo |-> {r.op : r \in batch[d]}, acks |-> {}, outbound |-> None]
<1>2. UNCHANGED <<outbox, entering, batch, acks, stored>> /\ requests' = requests \cup {request}
  BY DEF SendBatch
<1>3. /\ at'[d] = "wait" /\ attempt[d] \in Nat /\ attempt'[d] = attempt[d] + 1
      /\ \A q \in requests : q.attempt \in Nat
  BY <1>1 DEF SendBatch, TypeOK, Request
<1>4. BatchInv(d)'
  <2>1. \A q \in requests' : q.device = d => q.attempt <= attempt'[d]
    BY <1>1, <1>2, <1>3 DEF BatchInv
  <2>2. ASSUME NEW q \in requests', Awaits(d, q)' PROVE q = request
    BY <1>1, <1>2, <1>3, <2>2 DEF BatchInv, Awaits
  <2>3. ASSUME NEW x \in request.todo \cup request.acks PROVE IsSent(d, x.id)'
    BY <1>2 DEF IsSent
  <2> QED
    BY <1>1, <1>2, <1>3, <2>1, <2>2, <2>3 DEF BatchInv
<1>5. EnqueuesInTurn(d)'
  BY <1>1, TurnsShrink DEF FlowInv, SendBatch
<1>6. ASSUME NEW e \in Devices \ {d} PROVE EnqueuesInTurn(e)' /\ BatchInv(e)'
  <2>1. /\ reads'[e] = reads[e] /\ entering'[e] = entering[e] /\ outbox'[e] = outbox[e]
        /\ at'[e] = at[e] /\ batch'[e] = batch[e] /\ attempt'[e] = attempt[e]
        /\ acks'[e] = acks[e] /\ stored'[e] = stored[e]
    BY <1>1 DEF SendBatch, GoesOn, TypeOK
  <2>2. NoNewRequests(e)
    BY <1>2 DEF NoNewRequests
  <2> QED
    BY <2>1, <2>2, OthersFlow
<1> QED
  BY <1>1, <1>4, <1>5, <1>6 DEF FlowInv

\* A flush that is over: its rows are put back, or leave the outbox.
LEMMA FlushEndsFlow ==
    ASSUME FlowInv, NEW d \in Devices,
           FinishBatch(d) \/ \E q \in requests : FlushFails(d, q)
    PROVE  FlowInv'
<1>1. TypeOK /\ TypeOK' /\ BatchInv(d)
  BY FlushFailsTypes, FinishBatchTypes DEF FlowInv
<1>2. /\ UNCHANGED <<entry, attempt, acks, stored>>
      /\ requests' \subseteq requests
      /\ at'[d] \in {"select", "tell"} /\ batch'[d] = {}
  BY <1>1 DEF FinishBatch, FlushFails, TypeOK
<1>3. Bounded(outbox'[d])
  <2>1. outbox'[d] \in {WithoutBatch(d), WithoutBatch(d) \cup AttemptFailed(batch[d])}
    BY <1>1 DEF FinishBatch, FlushFails, TypeOK
  <2>2. PICK n \in Nat : \A r \in outbox[d] : r.op.id <= n
    BY <1>1 DEF BatchInv, Bounded
  <2>3. PICK m \in Nat : \A r \in batch[d] : r.op.id <= m
    BY <1>1 DEF BatchInv, Bounded
  <2>4. /\ batch[d] \subseteq Row /\ outbox[d] \subseteq Row
        /\ \A r \in Row : r.op.id \in Nat
    BY <1>1, ContentsAreNumbers DEF TypeOK, Row, Op
  <2>5. \A r \in AttemptFailed(batch[d]) : \E b \in batch[d] : r.op = b.op
    <3>1. ASSUME NEW b \in batch[d] PROVE [b EXCEPT !.due = FALSE].op = b.op
      BY <2>4 DEF Row
    <3> QED
      BY <3>1 DEF AttemptFailed
  <2>6. \A r \in outbox'[d] : r.op.id <= n + m
    BY <2>1, <2>2, <2>3, <2>4, <2>5 DEF WithoutBatch
  <2> QED
    BY <2>2, <2>3, <2>6 DEF Bounded
<1>4. EnqueuesInTurn(d)' /\ BatchInv(d)'
  <2>1. LoopStays(d) /\ NoNewRequests(d) /\ attempt'[d] = attempt[d]
    BY <1>2 DEF LoopStays, NoNewRequests
  <2> QED
    BY <1>1, <1>2, <1>3, <2>1, BatchStays, TurnsStay DEF FlowInv, entry
<1>5. ASSUME NEW e \in Devices \ {d} PROVE EnqueuesInTurn(e)' /\ BatchInv(e)'
  <2>1. outbox'[e] = outbox[e] /\ at'[e] = at[e] /\ batch'[e] = batch[e]
    BY ZenonT(30), <1>1 DEF FinishBatch, FlushFails, TypeOK
  <2>2. NoNewRequests(e)
    BY <1>2 DEF NoNewRequests
  <2> QED
    BY <1>2, <2>1, <2>2, OthersFlow DEF entry
<1> QED
  BY <1>1, <1>4, <1>5 DEF FlowInv

LEMMA AnsweredFlow ==
    ASSUME FlowInv, NEW d \in Devices, NEW q \in requests, Answered(d, q)
    PROVE  FlowInv'
<1>1. TypeOK /\ TypeOK' /\ BatchInv(d)
  BY AnsweredTypes DEF FlowInv
<1>2. /\ UNCHANGED <<outbox, entry, batch, attempt, stored>>
      /\ requests' \subseteq requests
      /\ at'[d] = "store" /\ acks'[d] = q.acks /\ Awaits(d, q)
  BY <1>1 DEF Answered, TypeOK
<1>3. BatchInv(d)'
  <2>1. \A a \in acks'[d] : IsSent(d, a.id)'
    BY <1>1, <1>2 DEF BatchInv, IsSent
  <2>2. ~(\E p \in requests' : Awaits(d, p)')
    BY <1>2 DEF Awaits
  <2>3. \A p \in requests' : p.device = d => p.attempt <= attempt'[d]
    BY <1>1, <1>2 DEF BatchInv
  <2> QED
    BY <1>1, <1>2, <2>1, <2>2, <2>3 DEF BatchInv, Bounded
<1>4. EnqueuesInTurn(d)'
  BY <1>2, TurnsStay DEF FlowInv, entry
<1>5. ASSUME NEW e \in Devices \ {d} PROVE EnqueuesInTurn(e)' /\ BatchInv(e)'
  <2>1. at'[e] = at[e] /\ acks'[e] = acks[e]
    BY <1>1 DEF Answered, TypeOK
  <2>2. NoNewRequests(e)
    BY <1>2 DEF NoNewRequests
  <2> QED
    BY <1>2, <2>1, <2>2, OthersFlow DEF entry
<1> QED
  BY <1>1, <1>3, <1>4, <1>5 DEF FlowInv

LEMMA StoreConflictFlow ==
    ASSUME FlowInv, NEW d \in Devices, StoreConflict(d)
    PROVE  FlowInv'
<1>1. TypeOK /\ TypeOK'
  BY StoreConflictTypes DEF FlowInv
<1>2. UNCHANGED <<requests, outbox, entry, at, batch, attempt, stored>>
  BY DEF StoreConflict
<1>3. \A e \in Devices : acks'[e] \subseteq acks[e]
  BY <1>1 DEF StoreConflict, TypeOK
<1>4. ASSUME NEW e \in Devices PROVE EnqueuesInTurn(e)' /\ BatchInv(e)'
  <2>1. LoopStays(e) /\ NoNewRequests(e) /\ Bounded(outbox'[e]) /\ attempt'[e] = attempt[e]
    BY <1>2, <1>3 DEF LoopStays, NoNewRequests, FlowInv, BatchInv
  <2> QED
    BY <1>2, <2>1, BatchStays, TurnsStay DEF FlowInv, entry
<1> QED
  BY <1>1, <1>4 DEF FlowInv

LEMMA ReadDraftFlow ==
    ASSUME FlowInv, NEW d \in Devices, ReadDraft(d)
    PROVE  FlowInv'
<1>1. TypeOK /\ TypeOK' /\ BatchInv(d)
  BY ReadDraftTypes DEF FlowInv
<1>2. /\ UNCHANGED <<requests, outbox, entering, batch, attempt, acks>>
      /\ at[d] = "store" /\ at'[d] = "write"
  BY <1>1 DEF ReadDraft, TypeOK
<1>3. stored'[d] # None
  BY ReadDraftTypes, NoneIsFresh
<1>4. BatchInv(d)'
  <2>1. \A a \in acks'[d] : IsSent(d, a.id)'
    BY <1>1, <1>2 DEF BatchInv, IsSent
  <2>2. ~(\E p \in requests' : Awaits(d, p)')
    BY <1>2 DEF Awaits
  <2>3. \A p \in requests' : p.device = d => p.attempt <= attempt'[d]
    BY <1>1, <1>2 DEF BatchInv
  <2> QED
    BY <1>1, <1>2, <1>3, <2>1, <2>2, <2>3 DEF BatchInv, Bounded
<1>5. EnqueuesInTurn(d)'
  BY <1>1, TurnsGrow DEF FlowInv, ReadDraft
<1>6. ASSUME NEW e \in Devices \ {d} PROVE EnqueuesInTurn(e)' /\ BatchInv(e)'
  <2>1. /\ reads'[e] = reads[e] /\ at'[e] = at[e] /\ stored'[e] = stored[e]
    BY <1>1 DEF ReadDraft, Reads, TypeOK
  <2>2. NoNewRequests(e)
    BY <1>2 DEF NoNewRequests
  <2> QED
    BY <1>2, <2>1, <2>2, OthersFlow
<1> QED
  BY <1>1, <1>4, <1>5, <1>6 DEF FlowInv

LEMMA WriteFlow ==
    ASSUME FlowInv, NEW d \in Devices, WriteAcked(d) \/ WriteUnechoed(d)
    PROVE  FlowInv'
<1>1. TypeOK /\ TypeOK' /\ BatchInv(d)
  BY WriteAckedTypes, WriteUnechoedTypes DEF FlowInv
<1>2. PICK v : AckStored(d, v)
  BY DEF WriteAcked, WriteUnechoed
<1>3. /\ UNCHANGED <<requests, entering, batch, attempt>>
      /\ at[d] \in {"store", "write"} /\ at'[d] = "store" /\ acks'[d] \subseteq acks[d]
  <2>1. at'[d] = "store" /\ acks'[d] \subseteq acks[d]
    BY <1>1, <1>2 DEF AckStored, TypeOK
  <2> QED
    BY <2>1 DEF WriteAcked, WriteUnechoed, entry
<1>4. Bounded(outbox'[d])
  <2>1. CASE outbox'[d] = outbox[d]
    BY <1>1, <2>1 DEF BatchInv
  <2>2. CASE outbox'[d] # outbox[d]
    <3>1. outbox' = [outbox EXCEPT ![d] = PutRow(@, stored[d].row)] /\ stored[d].row # None
      BY <1>1, <2>2 DEF WriteAcked, WriteUnechoed, TypeOK
    <3>2. at[d] = "write"
      BY <1>1, <2>2 DEF WriteAcked, WriteUnechoed
    <3>3. stored[d] \in Stored
      BY <1>1, <3>2 DEF BatchInv, TypeOK
    <3>4. stored[d].row \in Row /\ outbox[d] \in SUBSET Row
      BY <1>1, <3>1, <3>3 DEF Stored, TypeOK
    <3>5. outbox'[d] = PutRow(outbox[d], stored[d].row)
      BY <1>1, <3>1 DEF TypeOK
    <3> QED
      BY <1>1, <3>4, <3>5, BoundedPut DEF BatchInv
  <2> QED
    BY <2>1, <2>2
<1>5. BatchInv(d)'
  <2>1. \A a \in acks'[d] : IsSent(d, a.id)'
    BY <1>1, <1>3 DEF BatchInv, IsSent
  <2>2. ~(\E p \in requests' : Awaits(d, p)')
    BY <1>3 DEF Awaits
  <2>3. \A p \in requests' : p.device = d => p.attempt <= attempt'[d]
    BY <1>1, <1>3 DEF BatchInv
  <2> QED
    BY <1>1, <1>3, <1>4, <2>1, <2>2, <2>3 DEF BatchInv, Bounded
<1>6. EnqueuesInTurn(d)'
  <2>1. CASE WriteAcked(d)
    BY <1>1, <2>1, TurnsShrink DEF FlowInv, WriteAcked
  <2>2. CASE WriteUnechoed(d)
    BY <1>1, <2>2, TurnsStay DEF FlowInv, WriteUnechoed, entry
  <2> QED
    BY <2>1, <2>2
<1>7. ASSUME NEW e \in Devices \ {d} PROVE EnqueuesInTurn(e)' /\ BatchInv(e)'
  <2>1. at'[e] = at[e] /\ acks'[e] = acks[e]
    BY <1>1, <1>2 DEF AckStored, TypeOK
  <2>2. reads'[e] = reads[e] /\ outbox'[e] = outbox[e] /\ stored'[e] = stored[e]
    BY <1>1 DEF WriteAcked, WriteUnechoed, GoesOn, entry, TypeOK
  <2>3. NoNewRequests(e)
    BY <1>3 DEF NoNewRequests
  <2> QED
    BY <1>3, <2>1, <2>2, <2>3, OthersFlow
<1> QED
  BY <1>1, <1>5, <1>6, <1>7 DEF FlowInv

\* Steps of the server take requests further, or away.
LEMMA ServerFlow ==
    ASSUME FlowInv, NEW q \in requests, Ingest(q) \/ Broadcast(q) \/ Discard(q)
    PROVE  FlowInv'
<1>1. TypeOK /\ TypeOK'
  BY IngestTypes, BroadcastTypes, DiscardTypes DEF FlowInv
<1>2. UNCHANGED <<outbox, entry, flushing>>
  BY DEF Ingest, Broadcast, Discard
<1>3. ASSUME NEW d \in Devices PROVE NoNewRequests(d)
  <2>1. CASE Ingest(q)
    <3>1. PICK op \in q.todo, answer \in Request : op \in Op /\ IngestsTo(q, op, answer)
      BY <1>1, <2>1, IngestEffect
    <3>2. /\ answer.device = q.device /\ answer.attempt = q.attempt
          /\ answer.todo \subseteq q.todo
          /\ \A a \in answer.acks : a \in q.acks \/ a.id = op.id
          /\ requests' = (requests \ {q}) \cup {answer}
      BY <3>1 DEF IngestsTo
    <3>3. \A x \in answer.todo \cup answer.acks : \E y \in q.todo \cup q.acks : y.id = x.id
      BY <3>1, <3>2
    <3> QED
      BY <3>2, <3>3 DEF NoNewRequests
  <2>2. CASE Broadcast(q)
    <3>1. q \in Request
      BY <1>1 DEF TypeOK
    <3>2. [q EXCEPT !.outbound = None].device = q.device
          /\ [q EXCEPT !.outbound = None].attempt = q.attempt
          /\ [q EXCEPT !.outbound = None].todo = q.todo
          /\ [q EXCEPT !.outbound = None].acks = q.acks
      BY <3>1 DEF Request
    <3> QED
      BY <2>2, <3>2 DEF Broadcast, NoNewRequests
  <2>3. CASE Discard(q)
    BY <2>3 DEF Discard, NoNewRequests
  <2> QED
    BY <2>1, <2>2, <2>3
<1>4. ASSUME NEW e \in Devices PROVE EnqueuesInTurn(e)' /\ BatchInv(e)'
  <2>1. LoopStays(e) /\ Bounded(outbox'[e]) /\ attempt'[e] = attempt[e]
    BY <1>2 DEF LoopStays, FlowInv, BatchInv, flushing
  <2> QED
    BY <1>2, <1>3, <2>1, BatchStays, TurnsStay DEF FlowInv, entry
<1> QED
  BY <1>1, <1>4 DEF FlowInv

LEMMA ReloadFlow ==
    ASSUME FlowInv, NEW d \in Devices, Reload(d)
    PROVE  FlowInv'
<1>1. TypeOK /\ TypeOK'
  BY ReloadTypes DEF FlowInv
<1>2. UNCHANGED <<requests, outbox, attempt>>
  BY DEF Reload
<1>3. at'[d] = "idle" /\ batch'[d] = {} /\ reads'[d] = <<>>
  BY <1>1 DEF Reload, TypeOK
<1>4. EnqueuesInTurn(d)' /\ BatchInv(d)'
  <2>1. LoopStays(d) /\ NoNewRequests(d) /\ Bounded(outbox'[d]) /\ attempt'[d] = attempt[d]
    BY <1>2, <1>3 DEF LoopStays, NoNewRequests, FlowInv, BatchInv
  <2>2. BatchInv(d)'
    BY <2>1, BatchStays DEF FlowInv
  <2>3. DOMAIN reads'[d] = {}
    BY <1>3
  <2> QED
    BY <2>2, <2>3 DEF EnqueuesInTurn
<1>5. ASSUME NEW e \in Devices \ {d} PROVE EnqueuesInTurn(e)' /\ BatchInv(e)'
  <2>1. /\ reads'[e] = reads[e] /\ entering'[e] = entering[e] /\ at'[e] = at[e]
        /\ batch'[e] = batch[e] /\ acks'[e] = acks[e] /\ stored'[e] = stored[e]
    BY <1>1 DEF Reload, TypeOK
  <2>2. NoNewRequests(e)
    BY <1>2 DEF NoNewRequests
  <2> QED
    BY <1>2, <2>1, <2>2, OthersFlow
<1> QED
  BY <1>1, <1>4, <1>5 DEF FlowInv

LEMMA FlowStutters ==
    ASSUME FlowInv, UNCHANGED vars
    PROVE  FlowInv'
<1>1. TypeOK'
  BY DEF FlowInv, TypeOK, vars, served, screen, copy, entry, flushing, incoming, edits
<1>2. UNCHANGED <<requests, outbox, reads, batch, attempt, acks, stored, at, entering>>
  BY DEF vars, entry, flushing
<1>3. ASSUME NEW e \in Devices PROVE EnqueuesInTurn(e)' /\ BatchInv(e)'
  <2>1. LoopStays(e) /\ NoNewRequests(e) /\ Bounded(outbox'[e]) /\ attempt'[e] = attempt[e]
    BY <1>2 DEF LoopStays, NoNewRequests, FlowInv, BatchInv
  <2> QED
    BY <1>2, <2>1, BatchStays, TurnsStay DEF FlowInv
<1> QED
  BY <1>1, <1>3 DEF FlowInv

LEMMA FlowStep ==
    ASSUME FlowInv, [Next]_vars
    PROVE  FlowInv'
<1>1. CASE Server
  BY <1>1, ServerFlow DEF Server
<1>2. ASSUME NEW d \in Devices, Works(d) PROVE FlowInv'
  <2>1. CASE EnqueueReads(d)
    BY <2>1, EnqueueReadsFlow
  <2>2. CASE Enqueue(d)
    BY <2>2, EnqueueFlow
  <2>3. CASE BackoffEnds(d)
    BY <2>3, BackoffEndsFlow
  <2>4. CASE PickBatch(d)
    BY <2>4, PickBatchFlow
  <2>5. CASE SendBatch(d)
    BY <2>5, SendBatchFlow
  <2>6. CASE \E q \in requests : Answered(d, q)
    BY <2>6, AnsweredFlow
  <2>7. CASE StoreConflict(d)
    BY <2>7, StoreConflictFlow
  <2>8. CASE ReadDraft(d)
    BY <2>8, ReadDraftFlow
  <2>9. CASE WriteAcked(d) \/ WriteUnechoed(d)
    BY <2>9, WriteFlow
  <2>10. CASE FinishBatch(d)
    BY <2>10, FlushEndsFlow
  <2>11. CASE NothingDue(d) \/ Tell(d)
    BY <2>11, TellFlow
  <2> QED
    BY <1>2, <2>1, <2>2, <2>3, <2>4, <2>5, <2>6, <2>7, <2>8, <2>9, <2>10, <2>11 DEF Works
<1>3. ASSUME NEW d \in Devices, Listens(d) \/ Meets(d) PROVE FlowInv'
  <2>1. CASE Upsert(d) \/ Delete(d)
    BY <2>1, EditFlow
  <2>2. CASE \E q \in requests : FlushFails(d, q)
    BY <2>2, FlushEndsFlow
  <2>3. CASE Listens(d) \/ Hydrate(d) \/ Reconnect(d)
    BY <2>3, ListensFlow
  <2>4. CASE Reload(d)
    BY <2>4, ReloadFlow
  <2> QED
    BY <1>3, <2>1, <2>2, <2>3, <2>4 DEF Meets
<1>4. CASE UNCHANGED vars
  BY <1>4, FlowStutters
<1> QED
  BY <1>1, <1>2, <1>3, <1>4 DEF Next

\* The requests a device waits for are about the rows it sent, an enqueue that has read
\* the outbox still has its operation, and so every step of the sync engine leaves the
\* outboxes, the caches, the canvases and the server's state well formed.
THEOREM SyncTypes == Spec => []TypeOK
<1>1. FlowInv => TypeOK
  BY DEF FlowInv
<1> QED
  BY <1>1, InitialFlow, FlowStep, PTL DEF Spec
-----------------------------------------------------------------------------
(* The server of this module keeps ServerLedger's promise *)

\* Every other step leaves the server and the ledger alone.
LEMMA OnlyIngestServes ==
    ASSUME [Next]_vars, ~(\E q \in requests : Ingest(q))
    PROVE  UNCHANGED <<served, landed>>
<1>1. CASE Server
  BY <1>1 DEF Server, Broadcast, Discard
<1>2. ASSUME NEW d \in Devices, Works(d) PROVE UNCHANGED <<served, landed>>
  BY <1>2 DEF Works, EnqueueReads, Enqueue, BackoffEnds, PickBatch, SendBatch, Answered,
              StoreConflict, ReadDraft, WriteAcked, WriteUnechoed, FinishBatch, NothingDue, Tell
<1>3. ASSUME NEW d \in Devices, Listens(d) \/ Meets(d) PROVE UNCHANGED <<served, landed>>
  BY <1>3 DEF Listens, HandleEvent, HydrationAnswered, HydrationApplies,
              Meets, Upsert, Delete, Edited, FlushFails, Hydrate, Reconnect, Reload
<1>4. CASE UNCHANGED vars
  BY <1>4 DEF vars
<1> QED
  BY <1>1, <1>2, <1>3, <1>4 DEF Next

LEMMA SyncStepImplements ==
    ASSUME TypeOK, TypeOK', [Next]_vars
    PROVE  [Promise!Next]_(Promise!vars)
<1>1. ASSUME NEW q \in requests, Ingest(q) PROVE Promise!Next \/ UNCHANGED Promise!vars
  <2>1. PICK op \in q.todo, answer \in Request : op \in Op /\ IngestsTo(q, op, answer)
    BY <1>1, IngestEffect
  <2>2. op.id \in Contents /\ server' \in MaybeVersion
    BY <2>1 DEF Op, TypeOK
  <2>3. CASE UNCHANGED served
    BY <2>3 DEF served, Promise!vars
  <2>4. CASE ledger' = [ledger EXCEPT ![op.id] = "applied"] /\ ~Decided(op)
    <3>1. Promise!Apply(op.id)
      BY <2>2, <2>4 DEF Promise!Apply, Decided
    <3> QED
      BY <2>2, <3>1 DEF Promise!Next
  <2>5. CASE ledger' = [ledger EXCEPT ![op.id] = "conflict"] /\ ~Decided(op)
            /\ UNCHANGED server
    <3>1. Promise!Park(op.id)
      BY <2>2, <2>5 DEF Promise!Park, Decided
    <3> QED
      BY <2>2, <3>1 DEF Promise!Next
  <2> QED
    BY <2>1, <2>3, <2>4, <2>5 DEF IngestsTo, served
<1>2. CASE ~(\E q \in requests : Ingest(q))
  BY <1>2, OnlyIngestServes DEF served, Promise!vars
<1> QED
  BY <1>1, <1>2

\* However often the devices send an operation, and whatever becomes of requests and
\* answers, the server decides it at most once, and only an operation that is decided
\* as applied changes the object.
THEOREM SyncImplementsOutcomes == Spec => ImplementsOutcomes
<1>1. Init => Promise!Init
  BY StartType DEF Init, Promise!Init
<1> QED
  BY <1>1, SyncStepImplements, SyncTypes, PTL DEF Spec, ImplementsOutcomes, Promise!Spec
-----------------------------------------------------------------------------
(* Every edit has one name *)

\* What is on its way after the step was on its way before.
NothingNewTravels == \A k, i \in Contents : Travels(k, i)' => Travels(k, i)

LEMMA NamesStay ==
    ASSUME NamesInv, NothingNewTravels, UNCHANGED <<author, ledger, landed>>,
           \A d \in Devices : entering'[d] = entering[d] \/ DOMAIN entering'[d] = {}
    PROVE  NamesInv'
<1>1. \A k, i, j \in Contents : Travels(k, i)' /\ Travels(k, j)' => i = j
  BY DEF NothingNewTravels, NamesInv
<1>2. \A k, i \in Contents : Travels(k, i)' => author'[k] # None
  BY DEF NothingNewTravels, NamesInv
<1>3. \A k, i \in Contents : Travels(k, i)' /\ k \in landed' => ledger'[i] # "none"
  BY DEF NothingNewTravels, NamesInv
<1>4. ASSUME NEW d \in Devices, NEW k \in Contents, Enters(d, k)'
      PROVE  author'[k] = d /\ k \notin landed' /\ \A i \in Contents : ~Travels(k, i)'
  <2>1. Enters(d, k)
    BY <1>4 DEF Enters
  <2> QED
    BY <2>1 DEF NothingNewTravels, NamesInv
<1>5. \A d \in Devices : \A i, j \in DOMAIN entering'[d] :
          entering'[d][i].edit = entering'[d][j].edit => i = j
  BY DEF NamesInv
<1>6. \A k \in landed' : author'[k] # None
  BY DEF NamesInv
<1> QED
  BY <1>1, <1>2, <1>3, <1>4, <1>5, <1>6 DEF NamesInv

\* Steps that queue nothing, change no row's operation and send nothing.
LEMMA RowsStayTravels ==
    ASSUME UNCHANGED <<outbox, batch, stored>>, requests' \subseteq requests
    PROVE  NothingNewTravels
<1>1. ASSUME NEW k, NEW i PROVE /\ InRows(k, i)' => InRows(k, i)
                                /\ InStored(k, i)' => InStored(k, i)
                                /\ InRequests(k, i)' => InRequests(k, i)
  BY DEF InRows, InStored, InRequests
<1> QED
  BY <1>1 DEF NothingNewTravels, Travels

\* Steps that keep or copy the operations of rows.
LEMMA CopiesTravel ==
    ASSUME UNCHANGED stored, requests' \subseteq requests,
           \A e \in Devices : \A r \in outbox'[e] \cup batch'[e] :
               \E s \in outbox[e] \cup batch[e] : s.op = r.op
    PROVE  NothingNewTravels
<1>1. ASSUME NEW k, NEW i, InRows(k, i)' PROVE InRows(k, i)
  <2>0. PICK e \in Devices : \E r \in outbox'[e] \cup batch'[e] : r.op.edit = k /\ r.op.id = i
    BY <1>1 DEF InRows
  <2>1. PICK r \in outbox'[e] \cup batch'[e] : r.op.edit = k /\ r.op.id = i
    BY <2>0
  <2>2. PICK s \in outbox[e] \cup batch[e] : s.op = r.op
    BY <2>1
  <2>3. s.op.edit = k /\ s.op.id = i
    BY <2>1, <2>2
  <2> QED
    BY <2>3 DEF InRows
<1>2. ASSUME NEW k, NEW i PROVE /\ InStored(k, i)' => InStored(k, i)
                                /\ InRequests(k, i)' => InRequests(k, i)
  BY DEF InStored, InRequests
<1> QED
  BY <1>1, <1>2 DEF NothingNewTravels, Travels

LEMMA RowStepOps ==
    ASSUME TypeOK, NEW d \in Devices,
           \/ BackoffEnds(d) \/ PickBatch(d) \/ FinishBatch(d)
           \/ \E q \in requests : FlushFails(d, q),
           NEW r \in outbox'[d] \cup batch'[d]
    PROVE  \E s \in outbox[d] \cup batch[d] : s.op = r.op
<1>1. CASE BackoffEnds(d)
  <2>1. PICK s \in outbox[d] : outbox' = [outbox EXCEPT ![d] = PutRow(@, RetryDue(s))]
    BY <1>1 DEF BackoffEnds
  <2>2. s \in Row /\ RetryDue(s).op = s.op
    BY RetryDueTypes DEF TypeOK
  <2>3. r \in outbox[d] \cup batch[d] \cup {RetryDue(s)}
    BY <1>1, <2>1 DEF BackoffEnds, flushing, PutRow, TypeOK
  <2> QED
    BY <2>2, <2>3
<1>2. CASE PickBatch(d)
  BY <1>2 DEF PickBatch, Due, TypeOK
<1>3. CASE FinishBatch(d)
  BY <1>3 DEF FinishBatch, WithoutBatch, TypeOK
<1>4. CASE \E q \in requests : FlushFails(d, q)
  <2>1. r \in outbox[d] \cup AttemptFailed(batch[d])
    BY <1>4 DEF FlushFails, WithoutBatch, TypeOK
  <2>2. ASSUME NEW b \in batch[d] PROVE [b EXCEPT !.due = FALSE].op = b.op
    <3>1. b \in Row
      BY DEF TypeOK
    <3> QED
      BY <3>1 DEF Row
  <2> QED
    BY <2>1, <2>2 DEF AttemptFailed
<1> QED
  BY <1>1, <1>2, <1>3, <1>4

LEMMA RowStepsTravel ==
    ASSUME TypeOK, NEW d \in Devices,
           \/ BackoffEnds(d) \/ PickBatch(d) \/ FinishBatch(d)
           \/ \E q \in requests : FlushFails(d, q)
    PROVE  NothingNewTravels
<1>1. UNCHANGED stored /\ requests' \subseteq requests
  BY DEF BackoffEnds, PickBatch, FinishBatch, FlushFails, flushing
<1>2. \A e \in Devices \ {d} : outbox'[e] = outbox[e] /\ batch'[e] = batch[e]
  BY DEF BackoffEnds, PickBatch, FinishBatch, FlushFails, flushing, TypeOK
<1>3. \A r \in outbox'[d] \cup batch'[d] : \E s \in outbox[d] \cup batch[d] : s.op = r.op
  BY RowStepOps
<1> QED
  BY <1>1, <1>2, <1>3, CopiesTravel

LEMMA SendTravels ==
    ASSUME NEW d \in Devices, SendBatch(d)
    PROVE  NothingNewTravels
<1>1. ASSUME NEW k, NEW i PROVE /\ InRows(k, i)' => InRows(k, i)
                                /\ InStored(k, i)' => InStored(k, i)
                                /\ InRequests(k, i)' => InRequests(k, i) \/ InRows(k, i)
  BY DEF SendBatch, InRows, InStored, InRequests
<1> QED
  BY <1>1 DEF NothingNewTravels, Travels

LEMMA DraftTravels ==
    ASSUME FlowInv, NEW d \in Devices, ReadDraft(d)
    PROVE  NothingNewTravels
<1>1. UNCHANGED <<outbox, batch, requests>> /\ TypeOK
  BY DEF ReadDraft, FlowInv
<1>2. ASSUME NEW k, NEW i, InStored(k, i)' PROVE InStored(k, i) \/ InRows(k, i)
  <2>1. PICK e \in Devices : /\ stored'[e] # None /\ stored'[e].row # None
                             /\ stored'[e].row.op.edit = k /\ stored'[e].row.op.id = i
    BY <1>2 DEF InStored
  <2>2. CASE e # d
    <3>1. stored'[e] = stored[e]
      BY <1>1, <2>2 DEF ReadDraft, TypeOK
    <3> QED
      BY <2>1, <3>1 DEF InStored
  <2>3. CASE e = d
    <3>1. PICK version \in Version :
              \/ stored' = [stored EXCEPT ![d] = [object |-> version, row |-> None]]
              \/ \E r \in Drafts(d) : r \in Row /\ stored' = [stored EXCEPT ![d] =
                     [object |-> [revision |-> version.revision, content |-> r.op.edit],
                      row |-> Rebased(r, version)]]
      BY ReadDraftEffect
    <3>2. PICK r \in Drafts(d) : r \in Row /\ stored'[d].row = Rebased(r, version)
      BY <1>1, <2>1, <2>3, <3>1 DEF TypeOK
    <3>3. r \in outbox[d] /\ r.op.edit = k /\ r.op.id = i
      BY <2>1, <2>3, <3>2, RebasedTypes DEF Drafts
    <3> QED
      BY <3>3 DEF InRows
  <2> QED
    BY <2>2, <2>3
<1>3. ASSUME NEW k, NEW i PROVE /\ InRows(k, i)' => InRows(k, i)
                                /\ InRequests(k, i)' => InRequests(k, i)
  BY <1>1 DEF InRows, InRequests
<1> QED
  BY <1>2, <1>3 DEF NothingNewTravels, Travels

LEMMA WriteTravels ==
    ASSUME FlowInv, NEW d \in Devices, WriteAcked(d) \/ WriteUnechoed(d)
    PROVE  NothingNewTravels
<1>1. TypeOK /\ UNCHANGED <<batch, requests>>
  BY DEF WriteAcked, WriteUnechoed, FlowInv
<1>2. ASSUME NEW k, NEW i, InRows(k, i)' PROVE InRows(k, i) \/ InStored(k, i)
  <2>0. PICK e \in Devices : \E r \in outbox'[e] \cup batch[e] : r.op.edit = k /\ r.op.id = i
    BY <1>1, <1>2 DEF InRows
  <2>1. PICK r \in outbox'[e] \cup batch[e] : r.op.edit = k /\ r.op.id = i
    BY <2>0
  <2>2. CASE r \in outbox[e] \cup batch[e]
    BY <2>1, <2>2 DEF InRows
  <2>3. CASE r \notin outbox[e] \cup batch[e]
    <3>1. /\ at[d] = "write" /\ stored[d].row # None /\ e = d /\ r = stored[d].row
      BY <1>1, <2>1, <2>3 DEF WriteAcked, WriteUnechoed, PutRow, TypeOK
    <3>2. stored[d] # None
      BY <3>1 DEF FlowInv, BatchInv
    <3> QED
      BY <2>1, <3>1, <3>2 DEF InStored
  <2> QED
    BY <2>2, <2>3
<1>3. ASSUME NEW k, NEW i PROVE /\ InStored(k, i)' => InStored(k, i)
                                /\ InRequests(k, i)' => InRequests(k, i)
  BY <1>1 DEF InStored, InRequests, WriteAcked, WriteUnechoed, TypeOK
<1> QED
  BY <1>2, <1>3 DEF NothingNewTravels, Travels

LEMMA ReloadTravels ==
    ASSUME TypeOK, NEW d \in Devices, Reload(d)
    PROVE  NothingNewTravels
<1>1. ASSUME NEW k, NEW i PROVE /\ InRows(k, i)' => InRows(k, i)
                                /\ InStored(k, i)' => InStored(k, i)
                                /\ InRequests(k, i)' => InRequests(k, i)
  BY DEF Reload, InRows, InStored, InRequests, TypeOK
<1> QED
  BY <1>1 DEF NothingNewTravels, Travels

LEMMA IngestTravels ==
    ASSUME TypeOK, NEW q \in requests, Ingest(q) \/ Broadcast(q) \/ Discard(q)
    PROVE  NothingNewTravels
<1>1. UNCHANGED <<outbox, batch, stored>>
  BY DEF Ingest, Broadcast, Discard, flushing
<1>2. \A p \in requests' : p \in requests \/ p.todo \subseteq q.todo
  <2>1. CASE Ingest(q)
    <3>1. PICK op \in q.todo, answer \in Request : IngestsTo(q, op, answer)
      BY <2>1, IngestEffect
    <3> QED
      BY <3>1 DEF IngestsTo
  <2>2. CASE Broadcast(q)
    <3>1. q \in Request
      BY DEF TypeOK
    <3>2. [q EXCEPT !.outbound = None].todo = q.todo
      BY <3>1 DEF Request
    <3> QED
      BY <2>2, <3>2 DEF Broadcast
  <2>3. CASE Discard(q)
    BY <2>3 DEF Discard
  <2> QED
    BY <2>1, <2>2, <2>3
<1>3. ASSUME NEW k, NEW i PROVE /\ InRows(k, i)' => InRows(k, i)
                                /\ InStored(k, i)' => InStored(k, i)
                                /\ InRequests(k, i)' => InRequests(k, i)
  BY <1>1, <1>2 DEF InRows, InStored, InRequests
<1> QED
  BY <1>3 DEF NothingNewTravels, Travels

LEMMA InitialNames == Init => NamesInv
<1> SUFFICES ASSUME Init PROVE NamesInv
  OBVIOUS
<1>1. \A k, i \in Contents : ~Travels(k, i)
  BY DEF Init, Travels, InRows, InStored, InRequests
<1>2. \A d \in Devices : DOMAIN entering[d] = {}
  BY DEF Init
<1>3. \A d \in Devices, k \in Contents : ~Enters(d, k)
  BY <1>2 DEF Enters
<1>4. landed = {}
  BY DEF Init
<1> QED
  BY <1>1, <1>2, <1>3, <1>4 DEF NamesInv

LEMMA EditNames ==
    ASSUME TypeOK, NamesInv, NEW d \in Devices, Upsert(d) \/ Delete(d)
    PROVE  NamesInv'
<1>1. PICK new \in Contents : new = NextEdit /\ author[new] = None
  BY EditIsFresh DEF Upsert, Delete, MayEdit
<1>2. PICK op : Edited(d, op) /\ op.edit = new
  BY <1>1 DEF Upsert, Delete
<1>3. UNCHANGED <<outbox, batch, stored, requests, ledger, landed>>
  BY <1>2 DEF Edited, flushing, served
<1>4. NothingNewTravels
  BY <1>3, RowsStayTravels
<1>5. /\ entering[d] \in Seq(Op) /\ entering'[d] = Append(entering[d], op)
      /\ \A e \in Devices \ {d} : entering'[e] = entering[e]
      /\ author' = [author EXCEPT ![new] = d] /\ author' \in [Contents -> Devices \cup {None}]
  BY <1>1, <1>2 DEF Edited, TypeOK
<1>6. d # None
  BY NoneIsFresh
<1>7. /\ \A k \in Contents : author[k] # None => author'[k] = author[k]
      /\ author'[new] = d
      /\ \A i \in Contents : ~Travels(new, i)'
      /\ new \notin landed'
      /\ \A e \in Devices : ~Enters(e, new)
  <2>1. /\ \A k \in Contents : author[k] # None => author'[k] = author[k]
        /\ author'[new] = d
    BY <1>1, <1>5 DEF TypeOK
  <2>2. \A i \in Contents : ~Travels(new, i)'
    BY <1>1, <1>4 DEF NothingNewTravels, NamesInv
  <2>3. new \notin landed'
    BY <1>1, <1>3 DEF NamesInv
  <2>4. \A e \in Devices : ~Enters(e, new)
    BY <1>1, NoneIsFresh DEF NamesInv
  <2> QED
    BY <2>1, <2>2, <2>3, <2>4
<1>8. ASSUME NEW e \in Devices, NEW i \in DOMAIN entering'[e]
      PROVE  \/ i \in DOMAIN entering[e] /\ entering'[e][i] = entering[e][i]
             \/ e = d /\ i = Len(entering[d]) + 1 /\ entering'[e][i].edit = new
  BY <1>2, <1>5
<1>9. ASSUME NEW e \in Devices, NEW k \in Contents, Enters(e, k)'
      PROVE  (e = d /\ k = new) \/ Enters(e, k)
  BY <1>8, <1>9 DEF Enters
<1>10. \A e \in Devices, k \in Contents : Enters(e, k)' =>
          author'[k] = e /\ k \notin landed' /\ \A i \in Contents : ~Travels(k, i)'
  <2>1. ASSUME NEW e \in Devices, NEW k \in Contents, Enters(e, k)
        PROVE  author'[k] = e /\ k \notin landed' /\ \A i \in Contents : ~Travels(k, i)'
    BY <1>3, <1>4, <1>7, <2>1, NoneIsFresh DEF NamesInv, NothingNewTravels
  <2> QED
    BY <1>7, <1>9, <2>1
<1>11. \A e \in Devices : \A i, j \in DOMAIN entering'[e] :
          entering'[e][i].edit = entering'[e][j].edit => i = j
  <2>1. \A e \in Devices : \A i \in DOMAIN entering[e] : entering[e][i].edit # new
    BY <1>7 DEF Enters
  <2> QED
    BY <1>8, <2>1 DEF NamesInv
<1>12. /\ \A k, i, j \in Contents : Travels(k, i)' /\ Travels(k, j)' => i = j
       /\ \A k, i \in Contents : Travels(k, i)' => author'[k] # None
       /\ \A k, i \in Contents : Travels(k, i)' /\ k \in landed' => ledger'[i] # "none"
  BY <1>3, <1>4, <1>7 DEF NothingNewTravels, NamesInv
<1>13. \A k \in landed' : author'[k] # None
  BY <1>3, <1>7 DEF NamesInv, TypeOK
<1> QED
  BY <1>10, <1>11, <1>12, <1>13 DEF NamesInv

\* Enqueue gives the operation at the head of the chain the name it travels under.
LEMMA EnqueueTravels ==
    ASSUME FlowInv, NEW d \in Devices, Enqueue(d)
    PROVE  \A k, i \in Contents : Travels(k, i)' =>
               \/ Travels(k, i)
               \/ k = Head(entering[d]).edit /\ i = Queued(d, Head(entering[d])).id
<1> DEFINE op == Queued(d, Head(entering[d]))
<1>1. TypeOK /\ UNCHANGED <<batch, stored, requests>>
  BY DEF FlowInv, Enqueue
<1>2. op.edit = Head(entering[d]).edit
  BY <1>1, EnteringOp, QueuedTypes DEF Enqueue
<1>3. outbox' = [outbox EXCEPT ![d] = PutRow(@, [op |-> op, due |-> TRUE])]
  BY DEF Enqueue
<1> HIDE DEF op
<1>4. ASSUME NEW k, NEW i, InRows(k, i)'
      PROVE  InRows(k, i) \/ (k = op.edit /\ i = op.id)
  <2>0. PICK e \in Devices : \E r \in outbox'[e] \cup batch[e] : r.op.edit = k /\ r.op.id = i
    BY <1>1, <1>4 DEF InRows
  <2>1. PICK r \in outbox'[e] \cup batch[e] : r.op.edit = k /\ r.op.id = i
    BY <2>0
  <2>2. r \in outbox[e] \cup batch[e] \/ r = [op |-> op, due |-> TRUE]
    BY <1>1, <1>3, <2>1 DEF PutRow, TypeOK
  <2> QED
    BY <2>1, <2>2 DEF InRows
<1>5. ASSUME NEW k, NEW i PROVE /\ InStored(k, i)' => InStored(k, i)
                                /\ InRequests(k, i)' => InRequests(k, i)
  BY <1>1 DEF InStored, InRequests
<1>6. \A k, i \in Contents : Travels(k, i)' => Travels(k, i) \/ (k = op.edit /\ i = op.id)
  BY <1>4, <1>5 DEF Travels
<1> QED
  BY <1>2, <1>6 DEF op

LEMMA EnqueueNames ==
    ASSUME FlowInv, NamesInv, NEW d \in Devices, Enqueue(d)
    PROVE  NamesInv'
<1> DEFINE new == Head(entering[d]).edit
           name == Queued(d, Head(entering[d])).id
<1>1. TypeOK /\ UNCHANGED <<author, ledger, landed>>
  BY DEF FlowInv, Enqueue, served
<1>2. entering[d] \in Seq(Op) /\ entering[d] # <<>> /\ new \in Contents
  BY EnteringOp DEF Enqueue, Op
<1>3. /\ entering'[d] = Tail(entering[d])
      /\ \A e \in Devices \ {d} : entering'[e] = entering[e]
  BY <1>1 DEF Enqueue, TypeOK
<1>4. 1 \in DOMAIN entering[d] /\ entering[d][1].edit = new
  BY <1>2
<1>5. author[new] = d /\ new \notin landed /\ \A i \in Contents : ~Travels(new, i)
  BY <1>2, <1>4 DEF NamesInv, Enters
<1>6. \A k, i \in Contents : Travels(k, i)' => Travels(k, i) \/ (k = new /\ i = name)
  BY EnqueueTravels
<1> HIDE DEF new, name
<1>7. ASSUME NEW i \in DOMAIN entering'[d]
      PROVE  /\ i \in Nat /\ i + 1 # 1 /\ i + 1 \in DOMAIN entering[d]
             /\ entering'[d][i] = entering[d][i + 1]
  BY <1>2, <1>3
<1>8. ASSUME NEW e \in Devices, NEW k \in Contents, Enters(e, k)'
      PROVE  Enters(e, k) /\ k # new
  <2>1. CASE e = d
    <3>1. PICK i \in DOMAIN entering'[d] : entering'[d][i].edit = k
      BY <1>8, <2>1 DEF Enters
    <3>2. i + 1 \in DOMAIN entering[d] /\ entering[d][i + 1].edit = k /\ i + 1 # 1
      BY <1>7, <3>1
    <3>3. k # new
      BY <1>4, <3>2 DEF NamesInv
    <3> QED
      BY <2>1, <3>2, <3>3 DEF Enters
  <2>2. CASE e # d
    <3>1. Enters(e, k)
      BY <1>3, <1>8, <2>2 DEF Enters
    <3> QED
      BY <1>5, <2>2, <3>1 DEF NamesInv
  <2> QED
    BY <2>1, <2>2
<1>9. \A k, i, j \in Contents : Travels(k, i)' /\ Travels(k, j)' => i = j
  BY <1>5, <1>6 DEF NamesInv
<1>10. \A k, i \in Contents : Travels(k, i)' => author'[k] # None
  BY <1>1, <1>5, <1>6, NoneIsFresh DEF NamesInv
<1>11. \A k, i \in Contents : Travels(k, i)' /\ k \in landed' => ledger'[i] # "none"
  BY <1>1, <1>5, <1>6 DEF NamesInv
<1>12. \A e \in Devices, k \in Contents : Enters(e, k)' =>
          author'[k] = e /\ k \notin landed' /\ \A i \in Contents : ~Travels(k, i)'
  BY <1>1, <1>6, <1>8 DEF NamesInv
<1>13. \A e \in Devices : \A i, j \in DOMAIN entering'[e] :
          entering'[e][i].edit = entering'[e][j].edit => i = j
  <2>1. ASSUME NEW i \in DOMAIN entering'[d], NEW j \in DOMAIN entering'[d],
               entering'[d][i].edit = entering'[d][j].edit
        PROVE  i = j
    <3>1. i + 1 = j + 1
      BY <1>7, <2>1 DEF NamesInv
    <3> QED
      BY <1>7, <3>1
  <2> QED
    BY <1>3, <2>1 DEF NamesInv
<1>14. \A k \in landed' : author'[k] # None
  BY <1>1 DEF NamesInv
<1> QED
  BY <1>9, <1>10, <1>11, <1>12, <1>13, <1>14 DEF NamesInv

LEMMA IngestNames ==
    ASSUME TypeOK, NamesInv, NEW q \in requests, Ingest(q)
    PROVE  NamesInv'
<1>1. PICK op \in q.todo, answer \in Request : op \in Op /\ IngestsTo(q, op, answer)
  BY IngestEffect
<1>2. NothingNewTravels
  BY IngestTravels
<1>3. UNCHANGED <<author, entering>>
  BY DEF Ingest, edits, entry
<1>4. op.id \in Contents /\ op.edit \in Contents /\ Travels(op.edit, op.id)
  BY <1>1 DEF Op, Travels, InRequests
<1>5. landed' \subseteq landed \cup {op.edit}
      /\ (landed' # landed => ledger'[op.id] = "applied")
      /\ \A i \in Contents : ledger[i] # "none" => ledger'[i] # "none"
  BY <1>1, <1>4 DEF IngestsTo, served, TypeOK
<1>6. \A k, i, j \in Contents : Travels(k, i)' /\ Travels(k, j)' => i = j
  BY <1>2 DEF NothingNewTravels, NamesInv
<1>7. \A k, i \in Contents : Travels(k, i)' => author'[k] # None
  BY <1>2, <1>3 DEF NothingNewTravels, NamesInv
<1>8. ASSUME NEW k \in Contents, NEW i \in Contents, Travels(k, i)', k \in landed'
      PROVE  ledger'[i] # "none"
  <2>1. Travels(k, i)
    BY <1>2, <1>8 DEF NothingNewTravels
  <2>2. CASE k \in landed
    BY <1>5, <2>1, <2>2 DEF NamesInv
  <2>3. CASE k \notin landed
    <3>1. k = op.edit /\ ledger'[op.id] = "applied"
      BY <1>5, <1>8, <2>3
    <3>2. i = op.id
      BY <1>4, <2>1, <3>1 DEF NamesInv
    <3> QED
      BY <3>1, <3>2
  <2> QED
    BY <2>2, <2>3
<1>9. \A k \in landed' : author'[k] # None
  BY <1>3, <1>4, <1>5 DEF NamesInv
<1>10. \A d \in Devices, k \in Contents : Enters(d, k)' =>
          author'[k] = d /\ k \notin landed' /\ \A i \in Contents : ~Travels(k, i)'
  <2>1. \A d \in Devices, k \in Contents : Enters(d, k)' => Enters(d, k)
    BY <1>3 DEF Enters
  <2>2. \A d \in Devices : ~Enters(d, op.edit)
    BY <1>4 DEF NamesInv
  <2> QED
    BY <1>2, <1>3, <1>5, <2>1, <2>2 DEF NothingNewTravels, NamesInv
<1>11. \A d \in Devices : \A i, j \in DOMAIN entering'[d] :
          entering'[d][i].edit = entering'[d][j].edit => i = j
  BY <1>3 DEF NamesInv
<1> QED
  BY <1>6, <1>7, <1>8, <1>9, <1>10, <1>11 DEF NamesInv

LEMMA NamesStep ==
    ASSUME FlowInv, NamesInv, [Next]_vars
    PROVE  NamesInv'
<1>0. TypeOK
  BY DEF FlowInv
<1>1. CASE Server
  <2>1. PICK q \in requests : Ingest(q) \/ Broadcast(q) \/ Discard(q)
    BY <1>1 DEF Server
  <2>2. CASE Ingest(q)
    BY <1>0, <2>2, IngestNames
  <2>3. CASE Broadcast(q) \/ Discard(q)
    <3>1. UNCHANGED <<author, ledger, landed, entering>>
      BY <2>3 DEF Broadcast, Discard, served, edits, entry
    <3> QED
      BY <1>0, <2>3, <3>1, IngestTravels, NamesStay
  <2> QED
    BY <2>1, <2>2, <2>3
<1>2. ASSUME NEW d \in Devices, Works(d) PROVE NamesInv'
  <2>1. CASE EnqueueReads(d) \/ (\E q \in requests : Answered(d, q)) \/ StoreConflict(d)
             \/ NothingDue(d) \/ Tell(d)
    <3>1. UNCHANGED <<outbox, batch, stored>> /\ requests' \subseteq requests
      BY <2>1 DEF EnqueueReads, Answered, StoreConflict, NothingDue, Tell, flushing
    <3>2. UNCHANGED <<author, ledger, landed, entering>>
      BY <2>1 DEF EnqueueReads, Answered, StoreConflict, NothingDue, Tell, served, edits, entry
    <3> QED
      BY <3>1, <3>2, RowsStayTravels, NamesStay
  <2>2. CASE Enqueue(d)
    BY <2>2, EnqueueNames
  <2>3. CASE BackoffEnds(d) \/ PickBatch(d) \/ FinishBatch(d)
    <3>1. UNCHANGED <<author, ledger, landed, entering>>
      BY <2>3 DEF BackoffEnds, PickBatch, FinishBatch, served, edits, entry
    <3> QED
      BY <1>0, <2>3, <3>1, RowStepsTravel, NamesStay
  <2>4. CASE SendBatch(d)
    <3>1. UNCHANGED <<author, ledger, landed, entering>>
      BY <2>4 DEF SendBatch, served, edits
    <3> QED
      BY <2>4, <3>1, SendTravels, NamesStay
  <2>5. CASE ReadDraft(d)
    <3>1. UNCHANGED <<author, ledger, landed, entering>>
      BY <2>5 DEF ReadDraft, served, edits
    <3> QED
      BY <2>5, <3>1, DraftTravels, NamesStay
  <2>6. CASE WriteAcked(d) \/ WriteUnechoed(d)
    <3>1. UNCHANGED <<author, ledger, landed, entering>>
      BY <2>6 DEF WriteAcked, WriteUnechoed, served, edits, entry
    <3> QED
      BY <2>6, <3>1, WriteTravels, NamesStay
  <2> QED
    BY <1>2, <2>1, <2>2, <2>3, <2>4, <2>5, <2>6 DEF Works
<1>3. ASSUME NEW d \in Devices, Listens(d) \/ Meets(d) PROVE NamesInv'
  <2>1. CASE Upsert(d) \/ Delete(d)
    BY <1>0, <2>1, EditNames
  <2>2. CASE \E q \in requests : FlushFails(d, q)
    <3>1. UNCHANGED <<author, ledger, landed, entering>>
      BY <2>2 DEF FlushFails, served, edits, entry
    <3> QED
      BY <1>0, <2>2, <3>1, RowStepsTravel, NamesStay
  <2>3. CASE Listens(d) \/ Hydrate(d) \/ Reconnect(d)
    <3>1. UNCHANGED <<author, ledger, landed, entering, outbox, batch, stored, requests>>
      BY <2>3 DEF Listens, HandleEvent, HydrationAnswered, HydrationApplies, Hydrate, Reconnect,
                  served, edits, entry, flushing
    <3> QED
      BY <3>1, RowsStayTravels, NamesStay
  <2>4. CASE Reload(d)
    <3>1. UNCHANGED <<author, ledger, landed>>
          /\ \A e \in Devices : entering'[e] = entering[e] \/ DOMAIN entering'[e] = {}
      BY <1>0, <2>4 DEF Reload, served, edits, TypeOK
    <3> QED
      BY <1>0, <2>4, <3>1, ReloadTravels, NamesStay
  <2> QED
    BY <1>3, <2>1, <2>2, <2>3, <2>4 DEF Meets
<1>4. CASE UNCHANGED vars
  <2>1. UNCHANGED <<author, ledger, landed, entering, outbox, batch, stored, requests>>
    BY <1>4 DEF vars, served, edits, entry, flushing
  <2> QED
    BY <2>1, RowsStayTravels, NamesStay
<1> QED
  BY <1>1, <1>2, <1>3, <1>4 DEF Next

\* A version that was replaced or deleted on the server never comes back by itself,
\* however often its operation is sent: the operation that made it has one id, and that
\* id is decided.
THEOREM VersionsStayGone == Spec => AppliedOnce
<1> DEFINE StaysGone ==
        \A k \in landed : (server # Absent => server.content # k)
            => (server' # Absent => server'.content # k)
<1>1. ASSUME FlowInv, NamesInv, [Next]_vars PROVE StaysGone
  <2>1. CASE UNCHANGED server
    BY <2>1
  <2>2. ASSUME NEW q \in requests, Ingest(q) PROVE StaysGone
    <3>1. PICK op \in q.todo, answer \in Request : op \in Op /\ IngestsTo(q, op, answer)
      BY <1>1, <2>2, IngestEffect DEF FlowInv
    <3>2. op.id \in Contents /\ op.edit \in Contents /\ Travels(op.edit, op.id)
      BY <3>1 DEF Op, Travels, InRequests
    <3>3. ASSUME NEW k \in landed, server' # server, server' # Absent, server'.content = k
          PROVE  FALSE
      <4>1. k = op.edit /\ ledger[op.id] = "none"
        BY <3>1, <3>3 DEF IngestsTo, Decided, served
      <4> QED
        BY <1>1, <3>2, <4>1 DEF NamesInv
    <3> QED
      BY <3>3
  <2> QED
    BY <1>1, <2>1, <2>2, OnlyIngestServes DEF served
<1>2. Init => FlowInv /\ NamesInv
  BY InitialFlow, InitialNames
<1>3. FlowInv /\ NamesInv /\ [Next]_vars => (FlowInv /\ NamesInv)'
  BY FlowStep, NamesStep
<1>4. FlowInv /\ NamesInv /\ [Next]_vars => [StaysGone]_vars
  BY <1>1
<1> QED
  BY <1>2, <1>3, <1>4, PTL DEF Spec, AppliedOnce
-----------------------------------------------------------------------------
(* Steps of one device and the others *)

\* What a step that is about something else leaves of device d: the history of its edits
\* and what the server decided of them, its rows, and the place where its flush is.
LeavesAlone(d) ==
    /\ outbox'[d] = outbox[d] /\ latest'[d] = latest[d]
    /\ cache'[d] = cache[d] \/ outbox[d] = {}
    /\ \/ at'[d] = at[d]
       \/ at[d] \in {"select", "tell"} /\ at'[d] \in {"idle", "select", "tell"}
    /\ batch'[d] = batch[d] /\ flight'[d] = flight[d] /\ stored'[d] = stored[d]
    /\ acks'[d] \subseteq acks[d]
    /\ entering'[d] = entering[d] /\ found'[d] = found[d]
    /\ Enqueues(d)' => Enqueues(d)
    /\ \A id \in Contents : author[id] = d => author'[id] = d /\ ledger'[id] = ledger[id]
    /\ landed \subseteq landed' /\ parked \subseteq parked'

\* Device d has what it had.
Rests(d) ==
    /\ outbox'[d] = outbox[d] /\ latest'[d] = latest[d] /\ cache'[d] = cache[d]
    /\ at'[d] = at[d] /\ batch'[d] = batch[d] /\ flight'[d] = flight[d]
    /\ stored'[d] = stored[d] /\ acks'[d] = acks[d] /\ entering'[d] = entering[d]
    /\ found'[d] = found[d] /\ reads'[d] = reads[d] /\ attempt'[d] = attempt[d]

LEMMA OthersRestInFlush ==
    ASSUME TypeOK, NEW d \in Devices, NEW e \in Devices \ {d},
           \/ PickBatch(d) \/ SendBatch(d) \/ StoreConflict(d) \/ ReadDraft(d)
           \/ FinishBatch(d) \/ NothingDue(d) \/ Tell(d)
           \/ \E q \in requests : Answered(d, q) \/ FlushFails(d, q)
    PROVE  Rests(e)
<1>1. UNCHANGED <<latest, cache, entering, found>>
  BY DEF PickBatch, SendBatch, StoreConflict, ReadDraft, FinishBatch, NothingDue, Tell, Answered,
         FlushFails, edits, entry
<1>2. outbox'[e] = outbox[e] /\ at'[e] = at[e] /\ batch'[e] = batch[e] /\ flight'[e] = flight[e]
  BY DEF PickBatch, SendBatch, StoreConflict, ReadDraft, FinishBatch, NothingDue, Tell, Answered,
         FlushFails, TypeOK
<1>3. /\ stored'[e] = stored[e] /\ acks'[e] = acks[e] /\ reads'[e] = reads[e]
      /\ attempt'[e] = attempt[e]
  BY DEF PickBatch, SendBatch, StoreConflict, ReadDraft, FinishBatch, NothingDue, Tell, Answered,
         FlushFails, Reads, GoesOn, entry, TypeOK
<1> QED
  BY <1>1, <1>2, <1>3 DEF Rests

LEMMA OthersRestInEntry ==
    ASSUME TypeOK, NEW d \in Devices, NEW e \in Devices \ {d},
           \/ Upsert(d) \/ Delete(d) \/ EnqueueReads(d) \/ Enqueue(d) \/ BackoffEnds(d)
           \/ WriteAcked(d) \/ WriteUnechoed(d) \/ Reload(d)
           \/ Listens(d) \/ Hydrate(d) \/ Reconnect(d)
    PROVE  Rests(e)
<1>1. CASE Upsert(d) \/ Delete(d)
  BY <1>1 DEF Rests, Upsert, Delete, Edited, flushing, TypeOK
<1>2. CASE EnqueueReads(d) \/ Enqueue(d)
  BY <1>2 DEF Rests, EnqueueReads, Enqueue, Reads, GoesOn, flushing, edits, TypeOK
<1>3. CASE BackoffEnds(d)
  BY <1>3 DEF Rests, BackoffEnds, flushing, entry, edits, TypeOK
<1>4. CASE WriteAcked(d) \/ WriteUnechoed(d)
  BY <1>4 DEF Rests, WriteAcked, WriteUnechoed, AckStored, GoesOn, entry, edits, TypeOK
<1>5. CASE Reload(d)
  BY <1>5 DEF Rests, Reload, edits, TypeOK
<1>6. CASE Listens(d) \/ Hydrate(d) \/ Reconnect(d)
  BY <1>6 DEF Rests, Listens, HandleEvent, HydrationAnswered, HydrationApplies, Hydrate, Reconnect,
              flushing, entry, edits, TypeOK
<1> QED
  BY <1>1, <1>2, <1>3, <1>4, <1>5, <1>6

LEMMA OthersRestAlways ==
    ASSUME TypeOK, NEW d \in Devices, Works(d) \/ Listens(d) \/ Meets(d),
           NEW e \in Devices \ {d}
    PROVE  Rests(e)
BY OthersRestInFlush, OthersRestInEntry DEF Works, Meets

\* Only an edit changes who made which edit.
LEMMA OnlyEditsAuthor ==
    ASSUME NEW d \in Devices, Works(d) \/ Listens(d) \/ Meets(d)
    PROVE  Upsert(d) \/ Delete(d) \/ UNCHANGED author
BY DEF Works, Listens, Meets, EnqueueReads, Enqueue, BackoffEnds, PickBatch, SendBatch, Answered,
       FlushFails, StoreConflict, ReadDraft, WriteAcked, WriteUnechoed, FinishBatch, NothingDue,
       Tell, HandleEvent, HydrationAnswered, HydrationApplies, Hydrate, Reconnect, Reload, edits

LEMMA EditAuthors ==
    ASSUME TypeOK, NEW d \in Devices, Upsert(d) \/ Delete(d)
    PROVE  \E new \in Contents : /\ new = NextEdit /\ author[new] = None
                                  /\ author' = [author EXCEPT ![new] = d]
<1>1. NextEdit \in Contents /\ author[NextEdit] = None
  BY EditIsFresh DEF Upsert, Delete, MayEdit
<1>2. author' = [author EXCEPT ![NextEdit] = d]
  BY DEF Upsert, Delete, Edited
<1> QED
  BY <1>1, <1>2

\* The server's decisions, the other devices and who made the older edits.
LEMMA StepsLeaveOthers ==
    ASSUME FlowInv, NEW d \in Devices, Works(d) \/ Listens(d) \/ Meets(d)
    PROVE  /\ UNCHANGED <<ledger, parked, landed>> /\ crossed \subseteq crossed'
           /\ \A id \in Contents : author[id] # None => author'[id] = author[id]
           /\ \A q \in requests' : q.device # d => q \in requests
           /\ \A e \in Devices \ {d} : LeavesAlone(e) /\ attempt'[e] = attempt[e]
<1>0. TypeOK
  BY DEF FlowInv
<1>1. UNCHANGED <<ledger, parked, landed>>
  BY DEF Works, Listens, Meets, EnqueueReads, Enqueue, BackoffEnds, PickBatch, SendBatch,
         Answered, FlushFails, StoreConflict, ReadDraft, WriteAcked, WriteUnechoed, FinishBatch,
         NothingDue, Tell, HandleEvent, HydrationAnswered, HydrationApplies, Hydrate, Reconnect,
         Reload, Upsert, Delete, Edited, served
<1>2. crossed \subseteq crossed'
  BY DEF Works, Listens, Meets, EnqueueReads, Enqueue, BackoffEnds, PickBatch, SendBatch,
         Answered, FlushFails, StoreConflict, ReadDraft, WriteAcked, WriteUnechoed, FinishBatch,
         NothingDue, Tell, HandleEvent, HydrationAnswered, HydrationApplies, Hydrate, Reconnect,
         Reload, Upsert, Delete, Edited, edits
<1>3. \A id \in Contents : author[id] # None => author'[id] = author[id]
  <2>1. CASE Upsert(d) \/ Delete(d)
    <3>1. PICK new \in Contents : author[new] = None /\ author' = [author EXCEPT ![new] = d]
      BY <1>0, <2>1, EditAuthors
    <3> QED
      BY <1>0, <3>1 DEF TypeOK
  <2> QED
    BY <2>1, OnlyEditsAuthor
<1>4. \A q \in requests' : q.device # d => q \in requests
  BY DEF Works, Listens, Meets, EnqueueReads, Enqueue, BackoffEnds, PickBatch, SendBatch,
         Answered, FlushFails, StoreConflict, ReadDraft, WriteAcked, WriteUnechoed, FinishBatch,
         NothingDue, Tell, HandleEvent, HydrationAnswered, HydrationApplies, Hydrate, Reconnect,
         Reload, Upsert, Delete, Edited
<1>5. ASSUME NEW e \in Devices \ {d} PROVE LeavesAlone(e) /\ attempt'[e] = attempt[e]
  <2>1. Rests(e)
    BY <1>0, OthersRestAlways
  <2>2. \A id \in Contents : author[id] = e => author'[id] = e /\ ledger'[id] = ledger[id]
    BY <1>1, <1>3, NoneIsFresh
  <2> QED
    BY <1>1, <2>1, <2>2 DEF Rests, LeavesAlone, Enqueues
<1> QED
  BY <1>1, <1>2, <1>3, <1>4, <1>5
-----------------------------------------------------------------------------
(* Operation ids belong to the device that made them *)

LEMMA InitialIds == Init => IdsInv
BY DEF Init, IdsInv, Carries

\* What the steps of d's own queue leave: no id that it did not carry before, but for the one
\* that an edit makes.
LEMMA EntryIds ==
    ASSUME FlowInv, NEW d \in Devices, EnqueueReads(d) \/ Enqueue(d), NEW id, Carries(d, id)'
    PROVE  Carries(d, id)
<1>0. TypeOK
  BY DEF FlowInv
<1>1. CASE EnqueueReads(d)
  <2>1. UNCHANGED <<outbox, batch, entering, stored, requests>>
    BY <1>1 DEF EnqueueReads, flushing
  <2>2. found'[d] = IF Unsent(d) = {} THEN None ELSE Oldest(Unsent(d))
    BY <1>0, <1>1 DEF EnqueueReads, TypeOK
  <2>3. Unsent(d) \in SUBSET Row /\ Unsent(d) \subseteq outbox[d]
    BY <1>0 DEF Unsent, TypeOK
  <2>4. found'[d] # None => found'[d] \in outbox[d]
    BY <2>2, <2>3, OldestRow
  <2> QED
    BY <2>1, <2>4 DEF Carries
<1>2. CASE Enqueue(d)
  <2> DEFINE first == Head(entering[d])
             op == Queued(d, first)
  <2>1. /\ UNCHANGED <<batch, stored, requests>>
        /\ outbox' = [outbox EXCEPT ![d] = PutRow(@, [op |-> op, due |-> TRUE])]
        /\ entering' = [entering EXCEPT ![d] = Tail(@)]
        /\ found' = [found EXCEPT ![d] = None]
    BY <1>2 DEF Enqueue
  <2>2. entering[d] \in Seq(Op) /\ entering[d] # <<>> /\ first = entering[d][1] /\ first \in Op
    BY <1>2, EnteringOp DEF Enqueue
  <2>3. op.id = IF found[d] = None THEN first.id ELSE found[d].op.id
    BY <2>2 DEF Queued, Op
  <2>4. Carries(d, op.id)
    <3>1. 1 \in DOMAIN entering[d]
      BY <2>2
    <3> QED
      BY <2>2, <2>3, <3>1 DEF Carries
  <2> HIDE DEF op
  <2>5. ASSUME NEW r \in outbox'[d], r.op.id = id PROVE Carries(d, id)
    <3>1. r \in outbox[d] \/ r = [op |-> op, due |-> TRUE]
      BY <1>0, <2>1, <2>5 DEF PutRow, TypeOK
    <3> QED
      BY <2>4, <2>5, <3>1 DEF Carries
  <2>6. ASSUME NEW i \in DOMAIN entering'[d], entering'[d][i].id = id PROVE Carries(d, id)
    <3>1. entering'[d] = Tail(entering[d])
      BY <1>0, <2>1 DEF TypeOK
    <3>2. i + 1 \in DOMAIN entering[d] /\ entering'[d][i] = entering[d][i + 1]
      BY <2>2, <3>1
    <3> QED
      BY <2>6, <3>2 DEF Carries
  <2>7. found'[d] = None
    BY <1>0, <2>1 DEF TypeOK
  <2> QED
    BY <2>1, <2>5, <2>6, <2>7 DEF Carries
<1> QED
  BY <1>1, <1>2

LEMMA FlushIds ==
    ASSUME FlowInv, NEW d \in Devices,
           Works(d) \/ Listens(d) \/ Hydrate(d) \/ Reconnect(d) \/ Reload(d)
               \/ \E q \in requests : FlushFails(d, q),
           ~EnqueueReads(d), ~Enqueue(d), NEW id, Carries(d, id)'
    PROVE  Carries(d, id)
<1>0. TypeOK
  BY DEF FlowInv
<1>1. CASE \/ BackoffEnds(d) \/ PickBatch(d) \/ FinishBatch(d)
           \/ \E q \in requests : FlushFails(d, q)
  <2>1. UNCHANGED <<entering, found, stored>> /\ requests' \subseteq requests
    BY <1>1 DEF BackoffEnds, PickBatch, FinishBatch, FlushFails, flushing, entry
  <2>2. \A r \in outbox'[d] \cup batch'[d] : \E s \in outbox[d] \cup batch[d] : s.op = r.op
    BY <1>0, <1>1, RowStepOps
  <2>3. ASSUME NEW r \in outbox'[d] \cup batch'[d], r.op.id = id PROVE Carries(d, id)
    <3>1. PICK s \in outbox[d] \cup batch[d] : s.op = r.op
      BY <2>2
    <3> QED
      BY <2>3, <3>1 DEF Carries
  <2> QED
    BY <2>1, <2>3 DEF Carries
<1>2. CASE SendBatch(d)
  <2>1. UNCHANGED <<outbox, batch, entering, found, stored>>
    BY <1>2 DEF SendBatch
  <2>2. ASSUME NEW q \in requests', q \notin requests, NEW op \in q.todo
        PROVE  \E r \in batch[d] : r.op = op
    BY <1>2, <2>2 DEF SendBatch
  <2> QED
    BY <2>1, <2>2 DEF Carries
<1>3. CASE ReadDraft(d)
  <2>1. UNCHANGED <<outbox, batch, entering, found, requests>>
    BY <1>3 DEF ReadDraft
  <2>2. ASSUME stored'[d].row # None
        PROVE  \E r \in outbox[d] : stored'[d].row.op.id = r.op.id
    <3>1. PICK version \in Version :
              \/ stored' = [stored EXCEPT ![d] = [object |-> version, row |-> None]]
              \/ \E r \in Drafts(d) : r \in Row /\ stored' = [stored EXCEPT ![d] =
                     [object |-> [revision |-> version.revision, content |-> r.op.edit],
                      row |-> Rebased(r, version)]]
      BY <1>3, ReadDraftEffect
    <3>2. PICK r \in Drafts(d) : r \in Row /\ stored'[d].row = Rebased(r, version)
      BY <1>0, <2>2, <3>1 DEF TypeOK
    <3> QED
      BY <3>2, RebasedTypes DEF Drafts
  <2> QED
    BY <2>1, <2>2 DEF Carries
<1>4. CASE WriteAcked(d) \/ WriteUnechoed(d)
  <2>1. UNCHANGED <<batch, entering, found, requests>>
    BY <1>4 DEF WriteAcked, WriteUnechoed, entry
  <2>2. ASSUME NEW r \in outbox'[d] PROVE r \in outbox[d] \/ (stored[d] # None /\ r = stored[d].row)
    <3>1. CASE r \notin outbox[d]
      <4>1. at[d] = "write" /\ r = stored[d].row
        BY <1>0, <1>4, <2>2, <3>1 DEF WriteAcked, WriteUnechoed, PutRow, TypeOK
      <4> QED
        BY <4>1 DEF FlowInv, BatchInv
    <3> QED
      BY <3>1
  <2>3. stored'[d] \in {None, stored[d]}
    BY <1>0, <1>4 DEF WriteAcked, WriteUnechoed, TypeOK
  <2>4. None \notin outbox'[d]
    <3>1. outbox'[d] \subseteq Row
      BY <1>4, WriteAckedTypes, WriteUnechoedTypes DEF FlowInv, TypeOK
    <3> QED
      BY <3>1, NoneIsFresh
  <2> QED
    BY <2>1, <2>2, <2>3, <2>4 DEF Carries
<1>5. CASE Reload(d)
  BY <1>0, <1>5 DEF Reload, Carries, TypeOK
<1>6. CASE \/ \E q \in requests : Answered(d, q)
           \/ StoreConflict(d) \/ NothingDue(d) \/ Tell(d)
           \/ Listens(d) \/ Hydrate(d) \/ Reconnect(d)
  <2>1. UNCHANGED <<outbox, batch, entering, found, stored>> /\ requests' \subseteq requests
    BY <1>6 DEF Answered, StoreConflict, NothingDue, Tell, Listens, HandleEvent,
                HydrationAnswered, HydrationApplies, Hydrate, Reconnect, flushing, entry
  <2> QED
    BY <2>1 DEF Carries
<1> QED
  BY <1>1, <1>2, <1>3, <1>4, <1>5, <1>6 DEF Works

LEMMA EditIds ==
    ASSUME FlowInv, NEW d \in Devices, Upsert(d) \/ Delete(d), NEW id, Carries(d, id)'
    PROVE  Carries(d, id) \/ id = NextEdit
<1>0. TypeOK
  BY DEF FlowInv
<1>1. NextEdit \in Contents
  BY EditIsFresh DEF Upsert, Delete, MayEdit
<1>2. PICK op \in Op : Edited(d, op) /\ op.id = NextEdit
  <2>1. canvas[d] # Absent => canvas[d].revision \in Nat
    BY <1>0 DEF TypeOK, MaybeVersion, Version
  <2>2. PICK base \in Nat, rev \in Nat, kind \in {"upsert", "delete"} :
            Edited(d, [id |-> NextEdit, edit |-> NextEdit, kind |-> kind, base |-> base,
                       rev |-> rev])
    BY <1>1, <2>1 DEF Upsert, Delete
  <2> QED
    BY <1>1, <2>2 DEF Op
<1>3. /\ UNCHANGED <<outbox, batch, found, stored, requests>>
      /\ entering'[d] = Append(entering[d], op) /\ entering[d] \in Seq(Op)
  BY <1>0, <1>2 DEF Edited, flushing, TypeOK
<1>4. ASSUME NEW i \in DOMAIN entering'[d]
      PROVE  entering'[d][i] = op \/ (i \in DOMAIN entering[d] /\ entering'[d][i] = entering[d][i])
  BY <1>3
<1> QED
  BY <1>2, <1>3, <1>4 DEF Carries

LEMMA ServerIds ==
    ASSUME TypeOK, NEW q \in requests, Ingest(q) \/ Broadcast(q) \/ Discard(q),
           NEW e \in Devices, NEW id, Carries(e, id)'
    PROVE  Carries(e, id)
<1>1. UNCHANGED <<outbox, batch, entering, found, stored>>
  BY DEF Ingest, Broadcast, Discard, flushing, entry
<1>2. \A p \in requests' : p \in requests \/ (p.device = q.device /\ p.todo \subseteq q.todo)
  <2>1. CASE Ingest(q)
    <3>1. PICK op \in q.todo, answer \in Request : IngestsTo(q, op, answer)
      BY <2>1, IngestEffect
    <3> QED
      BY <3>1 DEF IngestsTo
  <2>2. CASE Broadcast(q)
    <3>1. q \in Request
      BY DEF TypeOK
    <3>2. [q EXCEPT !.outbound = None].todo = q.todo
          /\ [q EXCEPT !.outbound = None].device = q.device
      BY <3>1 DEF Request
    <3> QED
      BY <2>2, <3>2 DEF Broadcast
  <2>3. CASE Discard(q)
    BY <2>3 DEF Discard
  <2> QED
    BY <2>1, <2>2, <2>3
<1> QED
  BY <1>1, <1>2 DEF Carries

LEMMA IdsStep ==
    ASSUME FlowInv, IdsInv, [Next]_vars
    PROVE  IdsInv'
<1>0. TypeOK
  BY DEF FlowInv
<1>1. ASSUME NEW d \in Devices, Works(d) \/ Listens(d) \/ Meets(d) PROVE IdsInv'
  <2>1. /\ UNCHANGED ledger
        /\ \A id \in Contents : author[id] # None => author'[id] = author[id]
        /\ \A q \in requests' : q.device # d => q \in requests
        /\ \A e \in Devices \ {d} : LeavesAlone(e)
    BY <1>1, StepsLeaveOthers
  <2>2. ASSUME NEW e \in Devices \ {d}, NEW id \in Contents, Carries(e, id)'
        PROVE  author'[id] = e
    <3>1. Carries(e, id)
      BY <2>1, <2>2 DEF Carries, LeavesAlone
    <3> QED
      BY <2>1, <3>1, NoneIsFresh DEF IdsInv
  <2>3. ASSUME NEW id \in Contents, Carries(d, id)' PROVE author'[id] = d
    <3>1. CASE Upsert(d) \/ Delete(d)
      <4>1. author'[NextEdit] = d
        BY <1>0, <3>1, EditAuthors DEF TypeOK
      <4>2. Carries(d, id) \/ id = NextEdit
        BY <2>3, <3>1, EditIds
      <4> QED
        BY <2>1, <4>1, <4>2, NoneIsFresh DEF IdsInv
    <3>2. CASE ~Upsert(d) /\ ~Delete(d)
      <4>1. Carries(d, id)
        BY <1>1, <2>3, <3>2, EntryIds, FlushIds DEF Meets
      <4> QED
        BY <2>1, <4>1, NoneIsFresh DEF IdsInv
    <3> QED
      BY <3>1, <3>2
  <2> QED
    BY <2>1, <2>2, <2>3 DEF IdsInv
<1>2. ASSUME NEW q \in requests, Ingest(q) \/ Broadcast(q) \/ Discard(q) PROVE IdsInv'
  <2>1. UNCHANGED author
    BY <1>2 DEF Ingest, Broadcast, Discard, edits
  <2>2. ASSUME NEW id \in Contents, ledger'[id] # ledger[id] PROVE author[id] # None
    <3>1. Ingest(q)
      BY <1>2, <2>2 DEF Broadcast, Discard, served
    <3>2. PICK op \in q.todo : op \in Op /\ \E answer \in Request : IngestsTo(q, op, answer)
      BY <1>0, <3>1, IngestEffect
    <3>3. id = op.id /\ q.device \in Devices
      BY <1>0, <2>2, <3>2 DEF IngestsTo, served, TypeOK, Request
    <3>4. Carries(q.device, id)
      BY <3>2, <3>3 DEF Carries
    <3> QED
      BY <3>3, <3>4, NoneIsFresh DEF IdsInv
  <2> QED
    BY <1>0, <1>2, <2>1, <2>2, ServerIds DEF IdsInv
<1>3. CASE UNCHANGED vars
  BY <1>3 DEF vars, IdsInv, Carries, served, entry, flushing, edits
<1> QED
  BY <1>1, <1>2, <1>3 DEF Next, Server
-----------------------------------------------------------------------------
(* Patient users keep their edits *)

LEMMA RowIds ==
    ASSUME TypeOK, NEW d \in Devices, NEW r \in outbox[d] \cup batch[d]
    PROVE  r \in Row /\ r.op \in Op /\ r.op.id \in Contents /\ r.op.edit \in Contents
BY DEF TypeOK, Row, Op

LEMMA AccountedStays ==
    ASSUME landed \subseteq landed', parked \subseteq parked', NEW k, Accounted(k)
    PROVE  Accounted(k)'
BY DEF Accounted

LEMMA SettlesStays ==
    ASSUME landed \subseteq landed', parked \subseteq parked', NEW r, NEW answers, NEW fewer,
           Settles(r, answers), ledger'[r.op.id] # "none", fewer \subseteq answers
    PROVE  ledger'[r.op.id] # "none" /\ Accounted(r.op.edit)'
           /\ \A a \in fewer : a.status # "conflict" => Means(a.object, r)
BY AccountedStays DEF Settles

LEMMA DeviceLeftAlone ==
    ASSUME TypeOK, NEW d \in Devices, PatientDevice(d), LeavesAlone(d)
    PROVE  PatientDevice(d)'
<1>1. \A r \in outbox[d] : r.op.id \in Contents
  BY RowIds
<1>2. \A r \in outbox[d] : author'[r.op.id] = d /\ ledger'[r.op.id] = ledger[r.op.id]
  BY <1>1 DEF LeavesAlone, PatientDevice
<1>3. \A r, s \in outbox'[d] : r = s
  BY DEF LeavesAlone, PatientDevice
<1>4. \A r \in outbox'[d] : r.op.edit = latest'[d] /\ author'[r.op.id] = d /\ Means(cache'[d], r)
  BY <1>2 DEF LeavesAlone, PatientDevice
<1>5. at'[d] \in {"picked", "wait", "store", "write"} =>
          batch'[d] = outbox'[d] /\ \A r \in outbox'[d] : r.due
  BY DEF LeavesAlone, PatientDevice
<1>6. at'[d] \in {"idle", "select", "tell", "picked"} =>
          flight'[d] = None /\ \A r \in outbox'[d] : ledger'[r.op.id] = "none"
  BY <1>2 DEF LeavesAlone, PatientDevice
<1>7. at'[d] \in {"store", "write"} => \A r \in outbox'[d] : Settles(r, acks[d])'
  <2>1. SUFFICES ASSUME at[d] \in {"store", "write"}, NEW r \in outbox[d]
                 PROVE  Settles(r, acks[d])'
    BY DEF LeavesAlone
  <2>2. Settles(r, acks[d]) /\ ledger'[r.op.id] # "none"
    BY <1>2, <2>1 DEF PatientDevice, Settles
  <2>3. landed \subseteq landed' /\ parked \subseteq parked' /\ acks'[d] \subseteq acks[d]
    BY DEF LeavesAlone
  <2>4. Accounted(r.op.edit)'
        /\ \A a \in acks'[d] : a.status # "conflict" => Means(a.object, r)
    BY <2>2, <2>3, SettlesStays
  <2> QED
    BY <2>2, <2>4 DEF Settles
<1>8. at'[d] = "write" =>
          stored'[d].row = None /\ \A r \in outbox'[d] : Means(stored'[d].object, r)
  BY DEF LeavesAlone, PatientDevice
<1>9. entering'[d] # <<>> =>
          /\ at'[d] = "idle" /\ Len(entering'[d]) = 1
          /\ entering'[d][1].id = entering'[d][1].edit /\ author'[entering'[d][1].id] = d
          /\ ledger'[entering'[d][1].id] = "none"
  <2>1. SUFFICES ASSUME entering[d] # <<>>
                 PROVE  /\ at'[d] = "idle"
                        /\ author'[entering[d][1].id] = d /\ ledger'[entering[d][1].id] = "none"
    BY DEF LeavesAlone, PatientDevice
  <2>2. entering[d][1].id \in Contents
    <3>1. entering[d] \in Seq(Op)
      BY DEF TypeOK
    <3>2. entering[d][1] \in Op
      BY <2>1, <3>1
    <3> QED
      BY <3>2 DEF Op
  <2> QED
    BY <2>1, <2>2 DEF LeavesAlone, PatientDevice
<1>10. Enqueues(d)' => IF found'[d] = None THEN outbox'[d] = {}
                       ELSE \E r \in outbox'[d] : r.op.id = found'[d].op.id
  BY DEF LeavesAlone, PatientDevice
<1>11. latest'[d] # None => latest'[d] \in Queue(d)' \/ Accounted(latest[d])'
  <2>1. latest'[d] = latest[d] /\ Queue(d)' = Queue(d)
    BY DEF LeavesAlone, Queue
  <2>2. Accounted(latest[d]) => Accounted(latest[d])'
    BY <2>1 DEF Accounted, LeavesAlone
  <2> QED
    BY <2>1, <2>2 DEF PatientDevice
<1> QED
  BY <1>3, <1>4, <1>5, <1>6, <1>7, <1>8, <1>9, <1>10, <1>11 DEF PatientDevice

LEMMA RequestLeftAlone ==
    ASSUME TypeOK, NEW q \in requests, NEW d \in Devices, q.device = d,
           PatientDevice(d), LeavesAlone(d), PatientRequest(q), attempt'[d] = attempt[d],
           \A p \in requests' : p.device = d => p \in requests
    PROVE  PatientRequest(q)'
<1>1. Awaits(d, q)' /\ at[d] = "wait" /\ Awaits(d, q)
  BY DEF PatientRequest, Awaits, LeavesAlone
<1>2. \A p \in requests' : p.device = d => p = q
  BY DEF PatientRequest
<1>3. ASSUME NEW r \in batch'[d]
      PROVE  \/ q.todo = {r.op} /\ q.acks = {} /\ ledger'[r.op.id] = "none"
             \/ q.todo = {} /\ Settles(r, q.acks)'
  <2>1. r \in batch[d] /\ r \in outbox[d]
    BY <1>1 DEF LeavesAlone, PatientDevice
  <2>2. ledger'[r.op.id] = ledger[r.op.id]
    <3>1. author[r.op.id] = d
      BY <2>1 DEF PatientDevice
    <3>2. r.op.id \in Contents
      BY <2>1, RowIds
    <3> QED
      BY <3>1, <3>2 DEF LeavesAlone
  <2>3. CASE q.todo = {r.op} /\ q.acks = {} /\ ledger[r.op.id] = "none"
    BY <2>2, <2>3
  <2>4. CASE q.todo = {} /\ Settles(r, q.acks)
    <3>1. landed \subseteq landed' /\ parked \subseteq parked' /\ ledger'[r.op.id] # "none"
      BY <2>2, <2>4 DEF LeavesAlone, Settles
    <3>2. Accounted(r.op.edit)'
      BY <2>4, <3>1, AccountedStays DEF Settles
    <3> QED
      BY <2>4, <3>1, <3>2 DEF Settles
  <2> QED
    BY <2>1, <2>3, <2>4 DEF PatientRequest
<1> QED
  BY <1>1, <1>2, <1>3 DEF PatientRequest

\* A step that leaves d alone keeps what is known of it.
LEMMA LeftAloneAt ==
    ASSUME FlowInv, NEW d \in Devices, PatientAt(d), LeavesAlone(d), attempt'[d] = attempt[d],
           \A q \in requests' : q.device = d => q \in requests
    PROVE  PatientAt(d)'
<1>0. TypeOK /\ PatientDevice(d)
  BY DEF FlowInv, PatientAt
<1>1. PatientDevice(d)'
  BY <1>0, DeviceLeftAlone
<1>2. ASSUME NEW q \in requests', q.device = d
      PROVE  PatientRequest(q)'
  <2>1. q \in requests /\ PatientRequest(q)
    BY <1>2 DEF PatientAt
  <2> QED
    BY <1>0, <1>2, <2>1, RequestLeftAlone
<1> QED
  BY <1>1, <1>2 DEF PatientAt

\* Device d waits for nothing: none of the requests is its own.
LEMMA NoRequest ==
    ASSUME NEW d \in Devices, PatientAt(d), at[d] # "wait"
    PROVE  \A q \in requests : q.device # d
BY DEF PatientAt, PatientRequest, Awaits

\* A flush and an enqueue exclude each other.
LEMMA NoEnqueueDuringFlush ==
    ASSUME FlowInv, NEW d \in Devices, PatientDevice(d), at[d] # "idle" \/ entering[d] = <<>>
    PROVE  entering[d] = <<>> /\ ~Enqueues(d)
<1>1. entering[d] = <<>>
  BY DEF PatientDevice
<1> QED
  BY <1>1 DEF Enqueues, FlowInv, EnqueuesInTurn

LEMMA InitialPatience == Init => PatientInv
<1> SUFFICES ASSUME Init PROVE PatientInv
  OBVIOUS
<1>1. ASSUME NEW d \in Devices PROVE PatientDevice(d)
  BY DEF Init, PatientDevice, Enqueues
<1> QED
  BY <1>1 DEF Init, PatientInv, PatientAt

LEMMA EditIsPatient ==
    ASSUME FlowInv, IdsInv, ~EditsDuringFlush, NEW d \in Devices, PatientAt(d),
           Upsert(d) \/ Delete(d)
    PROVE  PatientAt(d)'
<1>0. TypeOK /\ TypeOK' /\ entering[d] = <<>> /\ at[d] = "idle"
  BY EditFlow DEF FlowInv, Upsert, Delete, MayEdit
<1>1. PICK new \in Contents : new = NextEdit /\ author[new] = None
  BY EditIsFresh DEF Upsert, Delete, MayEdit
<1>2. PICK op \in Op : Edited(d, op) /\ op.edit = new /\ op.id = new
  <2>1. canvas[d] # Absent => canvas[d].revision \in Nat
    BY <1>0 DEF TypeOK, MaybeVersion, Version
  <2>2. PICK base \in Nat, rev \in Nat, kind \in {"upsert", "delete"} :
            Edited(d, [id |-> new, edit |-> new, kind |-> kind, base |-> base, rev |-> rev])
    BY <1>1, <2>1 DEF Upsert, Delete
  <2> QED
    BY <1>1, <2>2 DEF Op
<1>3. /\ UNCHANGED <<served, landed, requests, outbox, cache, latest, flushing, found, reads>>
      /\ entering'[d] = <<op>>
      /\ author' = [author EXCEPT ![new] = d]
  BY <1>0, <1>2 DEF Edited, TypeOK
<1>4. d # None /\ ledger[new] = "none" /\ ledger' = ledger
  BY <1>1, <1>3, NoneIsFresh DEF IdsInv, served
<1>5. \A id \in Contents : author[id] # None => author'[id] = author[id]
  BY <1>1, <1>3 DEF TypeOK
<1>6. PatientDevice(d)'
  <2>1. PatientDevice(d) /\ ~Enqueues(d)'
    BY <1>0, <1>3, NoEnqueueDuringFlush DEF PatientAt, Enqueues
  <2>2. \A r \in outbox[d] : author'[r.op.id] = d
    <3>1. \A r \in outbox[d] : r.op.id \in Contents /\ author[r.op.id] = d
      BY <1>0, <2>1, RowIds DEF PatientDevice
    <3> QED
      BY <1>4, <1>5, <3>1
  <2>3. /\ entering'[d] # <<>> /\ Len(entering'[d]) = 1 /\ entering'[d][1] = op
        /\ author'[op.id] = d /\ ledger'[op.id] = "none"
    BY <1>0, <1>2, <1>3, <1>4 DEF TypeOK
  <2>4. latest'[d] # None => latest'[d] \in Queue(d)' \/ Accounted(latest[d])'
    <3>1. Queue(d)' = Queue(d) /\ Accounted(latest[d])' = Accounted(latest[d])
      BY <1>3 DEF Queue, Accounted, served
    <3> QED
      BY <1>3, <2>1, <3>1 DEF PatientDevice
  <2> QED
    BY <1>0, <1>2, <1>3, <1>4, <2>1, <2>2, <2>3, <2>4 DEF PatientDevice, flushing
<1>7. \A q \in requests' : q \in requests /\ q.device # d
  BY <1>0, <1>3, NoRequest
<1> QED
  BY <1>6, <1>7 DEF PatientAt

LEMMA EnqueueReadsIsPatient ==
    ASSUME FlowInv, NEW d \in Devices, PatientAt(d), EnqueueReads(d)
    PROVE  PatientAt(d)'
<1>0. TypeOK /\ TypeOK' /\ PatientDevice(d)
  BY EnqueueReadsFlow DEF FlowInv, PatientAt
<1>1. at[d] = "idle" /\ flight[d] = None
  BY <1>0 DEF EnqueueReads, PatientDevice
<1>2. /\ UNCHANGED <<served, landed, author, requests, outbox, latest, cache, flushing, entering>>
  BY <1>0 DEF EnqueueReads, Reads, edits, TypeOK
<1>3. IF found'[d] = None THEN outbox[d] = {}
      ELSE \E r \in outbox[d] : r.op.id = found'[d].op.id
  <2>1. Unsent(d) = outbox[d] /\ outbox[d] \in SUBSET Row
    BY <1>0, <1>1 DEF Unsent, TypeOK
  <2>2. found'[d] = IF outbox[d] = {} THEN None ELSE Oldest(outbox[d])
    BY <1>0, <2>1 DEF EnqueueReads, TypeOK
  <2>3. outbox[d] # {} => Oldest(outbox[d]) \in outbox[d] /\ Oldest(outbox[d]) # None
    BY <2>1, OldestRow, NoneIsFresh
  <2> QED
    BY <2>2, <2>3
<1>4. PatientDevice(d)'
  <2>1. Queue(d)' = Queue(d) /\ Accounted(latest[d])' = Accounted(latest[d])
    BY <1>2 DEF Queue, Accounted, served
  <2> QED
    BY <1>0, <1>1, <1>2, <1>3, <2>1 DEF PatientDevice, flushing, served
<1>5. \A q \in requests' : q \in requests /\ q.device # d
  BY <1>1, <1>2, NoRequest
<1> QED
  BY <1>4, <1>5 DEF PatientAt

LEMMA EnqueueIsPatient ==
    ASSUME FlowInv, NEW d \in Devices, PatientAt(d), Enqueue(d)
    PROVE  PatientAt(d)'
<1>0. TypeOK /\ FlowInv' /\ TypeOK' /\ PatientDevice(d)
  BY EnqueueFlow DEF FlowInv, PatientAt
<1> DEFINE first == Head(entering[d])
           op == Queued(d, first)
           row == [op |-> op, due |-> TRUE]
<1>1. /\ entering[d] \in Seq(Op) /\ entering[d] # <<>> /\ first \in Op
      /\ first = entering[d][1] /\ Len(entering[d]) = 1
  BY <1>0, EnteringOp DEF Enqueue, PatientDevice
<1>2. /\ at[d] = "idle" /\ flight[d] = None
      /\ first.id = first.edit /\ author[first.id] = d /\ ledger[first.id] = "none"
      /\ \A r \in outbox[d] : ledger[r.op.id] = "none" /\ author[r.op.id] = d
  BY <1>0, <1>1 DEF PatientDevice
<1>3. Enqueues(d)
  BY <1>0 DEF Enqueues, Enqueue, GoesOn, TypeOK
<1>5. /\ PutRow(outbox[d], row) = {row}
      /\ op \in Op /\ op.edit = first.edit
      /\ ledger[op.id] = "none" /\ author[op.id] = d
  <2>1. op \in Op /\ op.edit = first.edit
    BY <1>0, <1>1, QueuedTypes
  <2>2. CASE found[d] = None
    <3>1. outbox[d] = {} /\ op = first
      BY <1>0, <1>2, <1>3, <2>2 DEF PatientDevice, Queued
    <3> QED
      BY <1>2, <2>1, <3>1 DEF PutRow
  <2>3. CASE found[d] # None
    <3>1. op.id = found[d].op.id
      BY <1>1, <2>3 DEF Queued, Op
    <3>2. PICK r \in outbox[d] : r.op.id = op.id
      BY <1>0, <1>3, <2>3, <3>1 DEF PatientDevice
    <3>3. \A s \in outbox[d] : s.op.id = op.id
      BY <1>0, <3>2 DEF PatientDevice
    <3>4. PutRow(outbox[d], row) = {row}
      BY <3>3 DEF PutRow
    <3> QED
      BY <1>2, <2>1, <3>2, <3>4
  <2> QED
    BY <2>2, <2>3
<1>6. /\ UNCHANGED <<served, landed, author, requests, at, batch, flight, attempt, acks, stored>>
      /\ outbox'[d] = {row} /\ latest'[d] = op.edit
      /\ cache'[d] = IF op.kind = "delete" THEN Absent
                     ELSE [revision |-> op.rev, content |-> op.edit]
      /\ entering'[d] = Tail(entering[d])
  <2>1. /\ outbox' = [outbox EXCEPT ![d] = PutRow(@, row)]
        /\ latest' = [latest EXCEPT ![d] = op.edit]
        /\ cache' = [cache EXCEPT ![d] = IF op.kind = "delete" THEN Absent
                                 ELSE [revision |-> op.rev, content |-> op.edit]]
        /\ entering' = [entering EXCEPT ![d] = Tail(@)]
        /\ found' = [found EXCEPT ![d] = None]
        /\ reads' = [reads EXCEPT ![d] = Tail(@)]
        /\ UNCHANGED <<served, landed, author, requests, at, batch, flight, attempt, acks, stored>>
    BY DEF Enqueue, GoesOn
  <2> HIDE DEF row, op
  <2> QED
    BY <1>0, <1>5, <2>1 DEF TypeOK
<1>7. entering'[d] = <<>>
  <2>1. Tail(entering[d]) \in Seq(Op) /\ Len(Tail(entering[d])) = 0
    BY <1>1, HeadTailProperties
  <2> QED
    BY <1>6, <2>1, EmptySeq
<1>8. ~Enqueues(d)'
  BY <1>0, <1>7 DEF Enqueues, FlowInv, EnqueuesInTurn
<1>9. Means(cache'[d], row)
  <2>1. op.kind # "delete" => cache'[d] \in Version /\ cache'[d].content = op.edit
    BY <1>5, <1>6 DEF Version, Op
  <2>2. row.op = op
    OBVIOUS
  <2> HIDE DEF row, op
  <2> QED
    BY <1>6, <2>1, <2>2, AbsentIsNoVersion DEF Means, Version
<1>10. PatientDevice(d)'
  <2>1. row.op = op
    OBVIOUS
  <2> HIDE DEF row, op
  <2>2. latest'[d] \in Queue(d)'
    BY <1>6, <2>1 DEF Queue
  <2>3. \A r \in outbox'[d] : r = row
    BY <1>6
  <2>4. /\ at'[d] = "idle" /\ flight'[d] = None /\ ledger'[op.id] = "none"
        /\ author'[op.id] = d
    BY <1>2, <1>5, <1>6 DEF served
  <2> QED
    BY <1>6, <1>7, <1>8, <1>9, <2>1, <2>2, <2>3, <2>4 DEF PatientDevice
<1>11. \A q \in requests' : q \in requests /\ q.device # d
  BY <1>2, <1>6, NoRequest
<1> QED
  BY <1>10, <1>11 DEF PatientAt

LEMMA BackoffEndsIsPatient ==
    ASSUME FlowInv, NEW d \in Devices, PatientAt(d), BackoffEnds(d)
    PROVE  PatientAt(d)'
<1>0. TypeOK /\ TypeOK' /\ PatientDevice(d)
  BY BackoffEndsFlow DEF FlowInv, PatientAt
<1>1. PICK r \in outbox[d] : /\ ~r.due
                             /\ outbox' = [outbox EXCEPT ![d] = PutRow(@, RetryDue(r))]
  BY DEF BackoffEnds
<1>2. r \in Row /\ RetryDue(r).op = r.op /\ outbox[d] = {r}
  BY <1>0, RowIds, RetryDueTypes DEF PatientDevice
<1>3. /\ UNCHANGED <<served, landed, author, requests, latest, cache, flushing, entry>>
      /\ outbox'[d] = {RetryDue(r)}
  BY <1>0, <1>1, <1>2 DEF BackoffEnds, PutRow, edits, TypeOK
<1>4. CASE at[d] \in {"idle", "select", "tell"}
  <2>1. /\ Queue(d)' = {r.op.edit} /\ Queue(d) = {r.op.edit}
        /\ Accounted(latest[d])' = Accounted(latest[d])
    BY <1>2, <1>3 DEF Queue, Accounted, served
  <2>2. Enqueues(d)' = Enqueues(d)
    BY <1>3 DEF Enqueues, entry
  <2>3. Means(cache[d], RetryDue(r)) <=> Means(cache[d], r)
    BY <1>2 DEF Means
  <2>4. PatientDevice(d)'
    BY <1>0, <1>2, <1>3, <1>4, <2>1, <2>2, <2>3 DEF PatientDevice, flushing, served, entry
  <2>5. \A q \in requests' : q \in requests /\ q.device # d
    BY <1>3, <1>4, NoRequest
  <2> QED
    BY <2>4, <2>5 DEF PatientAt
<1>5. CASE at[d] \notin {"idle", "select", "tell"}
  \* a row that is being sent is due
  <2>1. r.due
    BY <1>0, <1>5 DEF PatientDevice, TypeOK, FlushSteps
  <2> QED
    BY <1>1, <2>1
<1> QED
  BY <1>4, <1>5

LEMMA PickBatchIsPatient ==
    ASSUME FlowInv, NEW d \in Devices, PatientAt(d), PickBatch(d), d \notin crossed'
    PROVE  PatientAt(d)'
<1>0. TypeOK /\ TypeOK' /\ PatientDevice(d)
  BY PickBatchFlow DEF FlowInv, PatientAt
<1>1. /\ UNCHANGED <<served, landed, author, requests, outbox, latest, cache, flight, attempt,
                     acks, stored, entering, found>>
      /\ at[d] \in {"idle", "select"} /\ at'[d] = "picked" /\ batch'[d] = Due(d)
      /\ Due(d) # {} /\ entering[d] = <<>>
  BY <1>0 DEF PickBatch, Reads, edits, TypeOK
<1>2. Due(d) = outbox[d] /\ \A r \in outbox[d] : r.due
  BY <1>0, <1>1 DEF Due, PatientDevice
<1>3. entering'[d] = <<>> /\ ~Enqueues(d)'
  <2>1. EnqueuesInTurn(d)'
    BY PickBatchFlow DEF FlowInv
  <2> QED
    BY <1>1, <2>1 DEF EnqueuesInTurn, Enqueues
<1>4. PatientDevice(d)'
  <2>1. Queue(d)' = Queue(d) /\ Accounted(latest[d])' = Accounted(latest[d])
    BY <1>1 DEF Queue, Accounted, served
  <2> QED
    BY <1>0, <1>1, <1>2, <1>3, <2>1 DEF PatientDevice, served
<1>5. \A q \in requests' : q \in requests /\ q.device # d
  BY <1>1, NoRequest
<1> QED
  BY <1>4, <1>5 DEF PatientAt

LEMMA SendBatchIsPatient ==
    ASSUME FlowInv, NEW d \in Devices, PatientAt(d), SendBatch(d)
    PROVE  PatientAt(d)'
<1>0. TypeOK /\ TypeOK' /\ PatientDevice(d)
  BY SendBatchFlow DEF FlowInv, PatientAt
<1>a. PICK request : request = [device |-> d, attempt |-> attempt[d] + 1,
          todo |-> {r.op : r \in batch[d]}, acks |-> {}, outbound |-> None]
  OBVIOUS
<1>1. /\ UNCHANGED <<served, landed, author, outbox, latest, cache, batch,
                     acks, stored, entering, found>>
      /\ at[d] = "picked" /\ at'[d] = "wait" /\ attempt'[d] = attempt[d] + 1
      /\ requests' = requests \cup {request}
  BY <1>0, <1>a DEF SendBatch, GoesOn, edits, TypeOK
<1>2. entering[d] = <<>> /\ ~Enqueues(d)'
  <2>1. EnqueuesInTurn(d)'
    BY SendBatchFlow DEF FlowInv
  <2>2. entering[d] = <<>>
    BY <1>0, <1>1, NoEnqueueDuringFlush
  <2> QED
    BY <1>1, <2>1, <2>2 DEF EnqueuesInTurn, Enqueues
<1>3. PatientDevice(d)'
  <2>1. Queue(d)' = Queue(d) /\ Accounted(latest[d])' = Accounted(latest[d])
    BY <1>1 DEF Queue, Accounted, served
  <2> QED
    BY <1>0, <1>1, <1>2, <2>1 DEF PatientDevice, served
<1>4. \A q \in requests : q.device # d
  BY <1>1, NoRequest
<1>5. PatientRequest(request)'
  <2>1. request.device = d /\ request.attempt = attempt[d] + 1
        /\ request.todo = {r.op : r \in batch[d]} /\ request.acks = {}
    BY <1>a
  <2>2. Awaits(d, request)'
    BY <1>1, <2>1 DEF Awaits
  <2>3. \A p \in requests' : p.device = d => p = request
    BY <1>1, <1>4
  <2>4. ASSUME NEW r \in batch'[d]
        PROVE  request.todo = {r.op} /\ ledger'[r.op.id] = "none"
    BY <1>0, <1>1, <2>1 DEF PatientDevice, served
  <2> QED
    BY <2>1, <2>2, <2>3, <2>4 DEF PatientRequest
<1>6. \A q \in requests' : q.device = d => PatientRequest(q)'
  BY <1>1, <1>4, <1>5
<1> QED
  BY <1>3, <1>6 DEF PatientAt

LEMMA FlushFailsIsPatient ==
    ASSUME FlowInv, ~ResponsesGetLost, NEW d \in Devices, PatientAt(d),
           NEW q \in requests, FlushFails(d, q)
    PROVE  PatientAt(d)'
<1>0. TypeOK /\ TypeOK' /\ PatientDevice(d) /\ PatientRequest(q)
  BY FlushEndsFlow DEF FlowInv, PatientAt, FlushFails, Awaits
<1>1. /\ UNCHANGED <<served, landed, author, latest, cache, attempt, acks, stored, entry>>
      /\ at[d] = "wait" /\ at'[d] = "tell" /\ flight'[d] = None
      /\ outbox'[d] = WithoutBatch(d) \cup AttemptFailed(batch[d])
      /\ requests' = requests \ {q} /\ q.device = d /\ q.todo = {r.op : r \in batch[d]}
  BY <1>0 DEF FlushFails, Awaits, edits, TypeOK
<1>2. entering'[d] = <<>> /\ ~Enqueues(d)'
  <2>1. entering[d] = <<>> /\ ~Enqueues(d)
    BY <1>0, <1>1, NoEnqueueDuringFlush
  <2> QED
    BY <1>1, <2>1 DEF Enqueues, entry
<1>3. batch[d] = outbox[d]
  BY <1>0, <1>1 DEF PatientDevice
<1>4. /\ \A s \in outbox'[d] : \E r \in outbox[d] : s = [r EXCEPT !.due = FALSE] /\ s.op = r.op
      /\ \A r \in outbox[d] : \E s \in outbox'[d] : s.op = r.op
  <2>1. WithoutBatch(d) = {}
    BY <1>3 DEF WithoutBatch
  <2>2. outbox'[d] = {[r EXCEPT !.due = FALSE] : r \in outbox[d]}
    BY <1>1, <1>3, <2>1 DEF AttemptFailed
  <2>3. ASSUME NEW r \in outbox[d] PROVE [r EXCEPT !.due = FALSE].op = r.op
    BY <1>0, RowIds DEF Row
  <2> QED
    BY <2>2, <2>3
<1>5. \A r \in outbox[d] : ledger[r.op.id] = "none"
  BY <1>0, <1>1, <1>3 DEF PatientRequest
<1>6. PatientDevice(d)'
  <2>1. Queue(d)' = Queue(d) /\ Accounted(latest[d])' = Accounted(latest[d])
    BY <1>1, <1>4 DEF Queue, Accounted, served
  <2>2. ASSUME NEW r \in outbox'[d], NEW s \in outbox'[d] PROVE r = s
    <3>1. PICK x \in outbox[d] : r = [x EXCEPT !.due = FALSE]
      BY <1>4
    <3>2. PICK y \in outbox[d] : s = [y EXCEPT !.due = FALSE]
      BY <1>4
    <3>3. x = y
      BY <1>0 DEF PatientDevice
    <3> QED
      BY <3>1, <3>2, <3>3
  <2>3. \A r \in outbox'[d] : /\ r.op.edit = latest'[d] /\ author'[r.op.id] = d
                              /\ Means(cache'[d], r)
    BY <1>0, <1>1, <1>4 DEF PatientDevice, Means
  <2>4. \A r \in outbox'[d] : ledger'[r.op.id] = "none"
    BY <1>1, <1>4, <1>5 DEF served
  <2> QED
    BY <1>0, <1>1, <1>2, <2>1, <2>2, <2>3, <2>4 DEF PatientDevice
<1>7. \A p \in requests' : p \in requests /\ p.device # d
  BY <1>0, <1>1 DEF PatientRequest
<1> QED
  BY <1>6, <1>7 DEF PatientAt

LEMMA AnsweredIsPatient ==
    ASSUME FlowInv, NEW d \in Devices, PatientAt(d), NEW q \in requests, Answered(d, q)
    PROVE  PatientAt(d)'
<1>0. TypeOK /\ TypeOK' /\ PatientDevice(d) /\ PatientRequest(q)
  BY AnsweredFlow DEF FlowInv, PatientAt, Answered, Awaits
<1>1. /\ UNCHANGED <<served, landed, author, outbox, latest, cache, attempt, stored, entry,
                     batch, flight>>
      /\ at[d] = "wait" /\ at'[d] = "store" /\ acks'[d] = q.acks
      /\ requests' = requests \ {q} /\ q.device = d /\ q.todo = {}
  BY <1>0 DEF Answered, Awaits, edits, TypeOK
<1>2. entering'[d] = <<>> /\ ~Enqueues(d)'
  <2>1. entering[d] = <<>> /\ ~Enqueues(d)
    BY <1>0, <1>1, NoEnqueueDuringFlush
  <2> QED
    BY <1>1, <2>1 DEF Enqueues, entry
<1>3. batch[d] = outbox[d] /\ \A r \in outbox[d] : Settles(r, q.acks)
  BY <1>0, <1>1 DEF PatientDevice, PatientRequest
<1>4. PatientDevice(d)'
  <2>1. Queue(d)' = Queue(d) /\ Accounted(latest[d])' = Accounted(latest[d])
    BY <1>1 DEF Queue, Accounted, served
  <2>2. \A r \in outbox'[d] : Settles(r, acks[d])'
    BY <1>1, <1>3 DEF Settles, Accounted, served
  <2> QED
    BY <1>0, <1>1, <1>2, <1>3, <2>1, <2>2 DEF PatientDevice
<1>5. \A p \in requests' : p \in requests /\ p.device # d
  BY <1>0, <1>1 DEF PatientRequest
<1> QED
  BY <1>4, <1>5 DEF PatientAt

LEMMA ReadDraftIsPatient ==
    ASSUME FlowInv, NEW d \in Devices, PatientAt(d), ReadDraft(d)
    PROVE  PatientAt(d)'
<1>0. TypeOK /\ TypeOK' /\ PatientDevice(d)
  BY ReadDraftFlow DEF FlowInv, PatientAt
<1>1. /\ UNCHANGED <<served, landed, author, requests, outbox, latest, cache, attempt, acks,
                     batch, flight, entering, found>>
      /\ at[d] = "store" /\ at'[d] = "write" /\ acks[d] # {}
      /\ NextAck(d).status # "conflict"
  BY <1>0 DEF ReadDraft, Reads, edits, TypeOK
<1>2. entering[d] = <<>> /\ ~Enqueues(d)'
  <2>1. EnqueuesInTurn(d)'
    BY ReadDraftFlow DEF FlowInv
  <2>2. entering[d] = <<>>
    BY <1>0, <1>1, NoEnqueueDuringFlush
  <2> QED
    BY <1>1, <2>1, <2>2 DEF EnqueuesInTurn, Enqueues
<1>3. Drafts(d) = {}
  <2>1. PICK r \in batch[d] : r.op.id = NextAck(d).id
    BY <1>1, SentRow
  <2>2. \A s \in outbox[d] : s = r
    BY <1>0, <1>1, <2>1 DEF PatientDevice
  <2> QED
    BY <2>1, <2>2 DEF Drafts
<1>4. stored'[d].row = None /\ stored'[d].object = NextAck(d).object
  <2>1. PICK version : /\ NextAck(d).object = version
                       /\ stored' = [stored EXCEPT ![d] = [object |-> version, row |-> None]]
    BY <1>3, ReadDraftEffect
  <2> QED
    BY <1>0, <2>1 DEF TypeOK
<1>5. \A r \in outbox[d] : Means(NextAck(d).object, r) /\ Settles(r, acks[d])
  <2>1. NextAck(d) \in acks[d]
    BY <1>0, <1>1, FirstAck
  <2> QED
    BY <1>0, <1>1, <2>1 DEF PatientDevice, Settles
<1>6. PatientDevice(d)'
  <2>1. Queue(d)' = Queue(d) /\ Accounted(latest[d])' = Accounted(latest[d])
    BY <1>1 DEF Queue, Accounted, served
  <2>2. \A r \in outbox'[d] : Settles(r, acks[d])'
    BY <1>1, <1>5 DEF Settles, Accounted, served
  <2> QED
    BY <1>0, <1>1, <1>2, <1>4, <1>5, <2>1, <2>2 DEF PatientDevice
<1>7. \A q \in requests' : q \in requests /\ q.device # d
  BY <1>1, NoRequest
<1> QED
  BY <1>6, <1>7 DEF PatientAt

\* Whichever way the acknowledgement is stored, it is the row's own version.
LEMMA WriteMeansRow ==
    ASSUME FlowInv, NEW d \in Devices, PatientAt(d), WriteAcked(d) \/ WriteUnechoed(d)
    PROVE  outbox'[d] = outbox[d] /\ \A r \in outbox[d] : Means(cache'[d], r)
<1>0. TypeOK /\ PatientDevice(d)
  BY DEF FlowInv, PatientAt
<1>1. CASE WriteAcked(d)
  <2>1. /\ at[d] = "write" /\ stored[d].row = None
        /\ \A r \in outbox[d] : Means(stored[d].object, r)
    BY <1>0, <1>1 DEF WriteAcked, PatientDevice
  <2>2. outbox'[d] = outbox[d] /\ cache'[d] = stored[d].object
    BY <1>0, <1>1, <2>1 DEF WriteAcked, AckStored, TypeOK
  <2> QED
    BY <2>1, <2>2
<1>2. CASE WriteUnechoed(d)
  <2>1. PICK s \in batch[d] : s \in Row /\ SentOp(d, NextAck(d)) = s.op
    BY <1>2, SentRow DEF WriteUnechoed
  <2>2. /\ outbox'[d] = outbox[d] /\ at[d] = "store"
        /\ cache'[d] = IF s.op.kind = "delete" THEN Absent
                       ELSE [revision |-> s.op.rev, content |-> s.op.edit]
    BY <1>0, <1>2, <2>1 DEF WriteUnechoed, AckStored, TypeOK
  <2>3. \A r \in outbox[d] : r = s
    BY <1>0, <2>1, <2>2 DEF PatientDevice
  <2>4. s.op.kind # "delete" => cache'[d] \in Version /\ cache'[d].content = s.op.edit
    BY <2>1, <2>2 DEF Row, Op, Version
  <2>5. Means(cache'[d], s)
    BY <2>2, <2>4, AbsentIsNoVersion DEF Means, Version
  <2> QED
    BY <2>2, <2>3, <2>5
<1> QED
  BY <1>1, <1>2

LEMMA WriteIsPatient ==
    ASSUME FlowInv, NEW d \in Devices, PatientAt(d), WriteAcked(d) \/ WriteUnechoed(d)
    PROVE  PatientAt(d)'
<1>0. TypeOK /\ FlowInv' /\ TypeOK' /\ PatientDevice(d)
  BY WriteFlow DEF FlowInv, PatientAt
<1>a. PICK v : AckStored(d, v)
  BY DEF WriteAcked, WriteUnechoed
<1>b. /\ at'[d] = "store" /\ acks'[d] \subseteq acks[d]
  BY <1>0, <1>a DEF AckStored, TypeOK
<1>1. /\ UNCHANGED <<served, landed, author, requests, latest, attempt,
                     batch, flight, entering, found>>
      /\ at[d] \in {"store", "write"}
  BY <1>0 DEF WriteAcked, WriteUnechoed, GoesOn, edits, entry, TypeOK
<1>2. entering[d] = <<>> /\ ~Enqueues(d)'
  <2>1. entering[d] = <<>>
    BY <1>0, <1>1, NoEnqueueDuringFlush
  <2> QED
    BY <1>0, <1>1, <2>1 DEF EnqueuesInTurn, Enqueues, FlowInv
<1>3. outbox'[d] = outbox[d] /\ \A r \in outbox[d] : Means(cache'[d], r)
  BY WriteMeansRow
<1>4. PatientDevice(d)'
  <2>1. Queue(d)' = Queue(d) /\ Accounted(latest[d])' = Accounted(latest[d])
    BY <1>1, <1>3 DEF Queue, Accounted, served
  <2>2. \A r \in outbox'[d] : Settles(r, acks[d])'
    BY <1>0, <1>b, <1>1, <1>3 DEF PatientDevice, Settles, Accounted, served
  <2> QED
    BY <1>0, <1>b, <1>1, <1>2, <1>3, <2>1, <2>2 DEF PatientDevice
<1>5. \A q \in requests' : q \in requests /\ q.device # d
  BY <1>1, NoRequest
<1> QED
  BY <1>4, <1>5 DEF PatientAt

LEMMA FinishBatchIsPatient ==
    ASSUME FlowInv, NEW d \in Devices, PatientAt(d), FinishBatch(d)
    PROVE  PatientAt(d)'
<1>0. TypeOK /\ TypeOK' /\ PatientDevice(d)
  BY FlushEndsFlow DEF FlowInv, PatientAt
<1>1. /\ UNCHANGED <<served, landed, author, requests, latest, cache, attempt, acks, stored, entry>>
      /\ at[d] = "store" /\ at'[d] = "select" /\ flight'[d] = None
      /\ outbox'[d] = WithoutBatch(d)
  BY <1>0 DEF FinishBatch, edits, TypeOK
<1>2. entering'[d] = <<>> /\ ~Enqueues(d)'
  <2>1. entering[d] = <<>> /\ ~Enqueues(d)
    BY <1>0, <1>1, NoEnqueueDuringFlush
  <2> QED
    BY <1>1, <2>1 DEF Enqueues, entry
<1>3. outbox'[d] = {}
  BY <1>0, <1>1 DEF PatientDevice, WithoutBatch
<1>4. latest[d] # None => Accounted(latest[d])
  BY <1>0, <1>1 DEF PatientDevice, Settles, Queue
<1>5. PatientDevice(d)'
  <2>1. Accounted(latest[d])' = Accounted(latest[d])
    BY <1>1 DEF Accounted, served
  <2> QED
    BY <1>1, <1>2, <1>3, <1>4, <2>1 DEF PatientDevice
<1>6. \A q \in requests' : q \in requests /\ q.device # d
  BY <1>1, NoRequest
<1> QED
  BY <1>5, <1>6 DEF PatientAt

\* What the server answers is what the operation made.
LEMMA AnswerMeansRow ==
    ASSUME TypeOK, NEW q \in requests, NEW r \in Row, q.todo = {r.op}, q.acks = {},
           ledger[r.op.id] = "none", NEW answer, IngestsTo(q, r.op, answer)
    PROVE  answer.todo = {} /\ Settles(r, answer.acks)'
<1>1. r.op \in Op /\ r.op.id \in Contents /\ r.op.edit \in Contents
  BY DEF Row, Op
<1>2. answer.todo = {} /\ ~Decided(r.op)
  BY DEF IngestsTo, Decided
<1>3. CASE /\ server' = IF r.op.kind = "delete" THEN Absent
                        ELSE [revision |-> NextRevision(server), content |-> r.op.edit]
           /\ ledger' = [ledger EXCEPT ![r.op.id] = "applied"]
           /\ landed' = landed \cup {r.op.edit}
           /\ answer.acks = {[id |-> r.op.id, status |-> "applied", object |-> server']}
  <2>1. NextRevision(server) \in Nat
    BY DEF TypeOK, NextRevision, MaybeVersion, Version
  <2>2. r.op.kind # "delete" => server' \in Version /\ server'.content = r.op.edit
    BY <1>1, <1>3, <2>1 DEF Version
  <2>3. Means(server', r)
    BY <1>3, <2>2, AbsentIsNoVersion DEF Means, Version
  <2>4. ledger'[r.op.id] # "none" /\ Accounted(r.op.edit)'
    BY <1>1, <1>3 DEF TypeOK, Accounted
  <2>5. \A a \in answer.acks : a.object = server'
    BY <1>3
  <2> QED
    BY <1>2, <2>3, <2>4, <2>5 DEF Settles
<1>4. CASE /\ parked' = parked \cup {r.op}
           /\ ledger' = [ledger EXCEPT ![r.op.id] = "conflict"]
           /\ answer.acks = {[id |-> r.op.id, status |-> "conflict", object |-> server]}
  <2>1. ledger'[r.op.id] # "none" /\ Accounted(r.op.edit)'
    BY <1>1, <1>4 DEF TypeOK, Accounted
  <2>2. \A a \in answer.acks : a.status = "conflict"
    BY <1>4
  <2> QED
    BY <1>2, <2>1, <2>2 DEF Settles
<1> QED
  BY <1>2, <1>3, <1>4 DEF IngestsTo

LEMMA IngestIsPatient ==
    ASSUME FlowInv, NEW d \in Devices, PatientAt(d), NEW q \in requests, q.device = d, Ingest(q)
    PROVE  PatientAt(d)'
<1>0. TypeOK /\ TypeOK' /\ PatientRequest(q)
  BY ServerFlow DEF FlowInv, PatientAt
<1>1. PICK op \in q.todo, answer \in Request : op \in Op /\ IngestsTo(q, op, answer)
  BY <1>0, IngestEffect
<1>2. d = q.device /\ at[d] = "wait" /\ PatientDevice(d) /\ Awaits(d, q)
  BY <1>0 DEF PatientRequest, PatientAt, Awaits
<1>3. PICK r \in batch[d] : r \in outbox[d] /\ r.op.id = op.id
  <2>1. IsSent(d, op.id)
    BY <1>1, <1>2 DEF FlowInv, BatchInv
  <2> QED
    BY <1>2, <2>1 DEF IsSent, PatientDevice
<1>4. r \in Row /\ q.todo = {r.op} /\ q.acks = {} /\ ledger[r.op.id] = "none" /\ op = r.op
  BY <1>0, <1>1, <1>2, <1>3, RowIds DEF PatientRequest
<1>5. op.id \in Contents /\ author[op.id] = d /\ d # None
  BY <1>0, <1>2, <1>3, <1>4, RowIds, NoneIsFresh DEF PatientDevice
<1>6. answer.todo = {} /\ Settles(r, answer.acks)'
  BY <1>0, <1>1, <1>4, AnswerMeansRow
<1>7. /\ UNCHANGED <<author, outbox, latest, cache, entry, flushing>>
      /\ requests' = (requests \ {q}) \cup {answer}
      /\ answer.device = d /\ answer.attempt = q.attempt
      /\ landed \subseteq landed' /\ parked \subseteq parked'
      /\ \A id \in Contents : id # op.id => ledger'[id] = ledger[id]
  <2>1. UNCHANGED <<author, outbox, latest, cache, entry, flushing>>
    BY DEF Ingest, edits
  <2> QED
    BY <1>0, <1>1, <1>2, <1>5, <2>1 DEF IngestsTo, served, TypeOK
<1>8. PatientDevice(d)'
  <2>1. entering[d] = <<>> /\ ~Enqueues(d)
    BY <1>2, NoEnqueueDuringFlush
  <2>2. entering'[d] = <<>> /\ ~Enqueues(d)' /\ at'[d] = "wait"
    BY <1>2, <1>7, <2>1 DEF Enqueues, entry, flushing
  <2>3. Queue(d)' = Queue(d) /\ latest[d] = r.op.edit
    BY <1>2, <1>3, <1>7 DEF Queue, PatientDevice
  <2>4. latest'[d] \in Queue(d)'
    BY <1>3, <1>7, <2>3 DEF Queue
  <2> QED
    BY <1>2, <1>7, <2>2, <2>4 DEF PatientDevice, flushing
<1>9. \A p \in requests' : p.device = d => p = answer
  BY <1>0, <1>2, <1>7 DEF PatientRequest
<1>10. PatientRequest(answer)'
  <2>1. Awaits(d, answer)'
    BY <1>2, <1>7 DEF Awaits, flushing
  <2>2. \A s \in batch'[d] : s = r
    BY <1>2, <1>3, <1>7 DEF PatientDevice, flushing
  <2> QED
    BY <1>6, <1>7, <1>9, <2>1, <2>2 DEF PatientRequest
<1> QED
  BY <1>8, <1>9, <1>10 DEF PatientAt

LEMMA BroadcastIsPatient ==
    ASSUME FlowInv, NEW d \in Devices, PatientAt(d), NEW q \in requests, q.device = d,
           Broadcast(q)
    PROVE  PatientAt(d)'
<1>0. TypeOK /\ TypeOK' /\ PatientRequest(q)
  BY ServerFlow DEF FlowInv, PatientAt
<1>1. d = q.device /\ PatientDevice(d) /\ Awaits(d, q)
  BY <1>0 DEF PatientRequest, PatientAt
<1>2. PICK answer : /\ answer = [q EXCEPT !.outbound = None]
                    /\ requests' = (requests \ {q}) \cup {answer}
  BY DEF Broadcast
<1>3. answer.device = d /\ answer.attempt = q.attempt /\ answer.todo = q.todo
      /\ answer.acks = q.acks
  <2>1. q \in Request
    BY <1>0 DEF TypeOK
  <2> QED
    BY <1>1, <1>2, <2>1 DEF Request
<1>4. UNCHANGED <<served, landed, author, outbox, latest, cache, entry, flushing>>
  BY DEF Broadcast, edits
<1>5. PatientDevice(d)'
  <2>1. LeavesAlone(d)
    BY <1>4 DEF LeavesAlone, Enqueues, flushing, entry, served
  <2> QED
    BY <1>0, <1>1, <2>1, DeviceLeftAlone
<1>6. \A p \in requests' : p.device = d => p = answer
  BY <1>0, <1>1, <1>2 DEF PatientRequest
<1>7. PatientRequest(answer)'
  <2>1. Awaits(d, answer)'
    BY <1>1, <1>3, <1>4 DEF Awaits, flushing
  <2>2. \A r \in batch[d] : Settles(r, q.acks)' <=> Settles(r, q.acks)
    BY <1>4 DEF Settles, Accounted, served
  <2>3. \A r \in batch'[d] :
          \/ answer.todo = {r.op} /\ answer.acks = {} /\ ledger'[r.op.id] = "none"
          \/ answer.todo = {} /\ Settles(r, answer.acks)'
    BY <1>0, <1>1, <1>3, <1>4, <2>2 DEF PatientRequest, flushing, served
  <2> QED
    BY <1>3, <1>6, <2>1, <2>3 DEF PatientRequest
<1> QED
  BY <1>5, <1>6, <1>7 DEF PatientAt

\* The steps that are about the canvas, about other changes, or about no row.
LEMMA AsideIsPatient ==
    ASSUME FlowInv, NEW d \in Devices, PatientAt(d),
           \/ StoreConflict(d) \/ NothingDue(d) \/ Tell(d) \/ Listens(d)
           \/ Hydrate(d) \/ Reconnect(d)
    PROVE  PatientAt(d)'
<1>0. TypeOK
  BY DEF FlowInv
<1>1. /\ UNCHANGED <<requests, served, landed, author, outbox, latest, entry>>
      /\ UNCHANGED <<batch, flight, stored, attempt>>
  BY DEF StoreConflict, NothingDue, Tell, Listens, HandleEvent, HydrationAnswered,
         HydrationApplies, Hydrate, Reconnect, flushing, edits
<1>2. /\ cache'[d] = cache[d] \/ outbox[d] = {}
      /\ acks'[d] \subseteq acks[d]
      /\ \/ at'[d] = at[d]
         \/ at[d] \in {"select", "tell"} /\ at'[d] \in {"idle", "select", "tell"}
  <2>1. CASE StoreConflict(d)
    BY <1>0, <2>1 DEF StoreConflict, TypeOK
  <2>2. CASE NothingDue(d) \/ Tell(d)
    <3>1. UNCHANGED <<cache, acks>>
      BY <2>2 DEF NothingDue, Tell
    <3>2. /\ at[d] \in {"select", "tell"}
          /\ UNCHANGED at \/ \E step \in {"idle", "tell"} : at' = [at EXCEPT ![d] = step]
      BY <2>2 DEF NothingDue, Tell
    <3> QED
      BY <1>0, <3>1, <3>2 DEF TypeOK
  <2>3. CASE Listens(d) \/ Hydrate(d) \/ Reconnect(d)
    BY <1>0, <2>3 DEF Listens, HandleEvent, HydrationAnswered, HydrationApplies, Hydrate,
                      Reconnect, NoQueuedWork, flushing, TypeOK
  <2> QED
    BY <2>1, <2>2, <2>3
<1>3. LeavesAlone(d) /\ attempt'[d] = attempt[d]
  BY <1>1, <1>2 DEF LeavesAlone, Enqueues, entry, served
<1> QED
  BY <1>1, <1>3, LeftAloneAt

\* What the server decides for one device leaves the others alone: it is about an id of its.
LEMMA ServerLeavesOthers ==
    ASSUME FlowInv, IdsInv, NEW q \in requests, Ingest(q) \/ Broadcast(q) \/ Discard(q),
           NEW e \in Devices, q.device # e
    PROVE  /\ LeavesAlone(e) /\ attempt'[e] = attempt[e]
           /\ \A p \in requests' : p.device = e => p \in requests
<1>0. TypeOK
  BY DEF FlowInv
<1>1. UNCHANGED <<author, outbox, latest, cache, entry, flushing>>
  BY DEF Ingest, Broadcast, Discard, edits
<1>2. CASE Ingest(q)
  <2>1. PICK op \in q.todo, answer \in Request : op \in Op /\ IngestsTo(q, op, answer)
    BY <1>0, <1>2, IngestEffect
  <2>2. Carries(q.device, op.id) /\ op.id \in Contents /\ q.device \in Devices
    BY <1>0, <2>1 DEF Carries, Op, TypeOK, Request
  <2>3. author[op.id] # e
    BY <2>2 DEF IdsInv
  <2>4. /\ landed \subseteq landed' /\ parked \subseteq parked'
        /\ \A id \in Contents : id # op.id => ledger'[id] = ledger[id]
        /\ \A p \in requests' : p.device = e => p \in requests
    BY <1>0, <2>1, <2>2 DEF IngestsTo, served, TypeOK
  <2> QED
    BY <1>1, <2>3, <2>4 DEF LeavesAlone, Enqueues, flushing, entry
<1>3. CASE Broadcast(q) \/ Discard(q)
  <2>1. UNCHANGED <<served, landed>>
    BY <1>3 DEF Broadcast, Discard
  <2>2. \A p \in requests' : p.device = e => p \in requests
    <3>1. q \in Request
      BY <1>0 DEF TypeOK
    <3>2. [q EXCEPT !.outbound = None].device = q.device
      BY <3>1 DEF Request
    <3> QED
      BY <1>3, <3>2 DEF Broadcast, Discard
  <2> QED
    BY <1>1, <2>1, <2>2 DEF LeavesAlone, Enqueues, flushing, entry, served
<1> QED
  BY <1>2, <1>3

LEMMA OwnStepIsPatient ==
    ASSUME Patient, FlowInv, IdsInv, NEW d \in Devices, PatientAt(d), d \notin crossed',
           Works(d) \/ Listens(d) \/ Meets(d)
    PROVE  PatientAt(d)'
<1>1. ~EditsDuringFlush /\ ~ResponsesGetLost /\ ~Reload(d)
  BY DEF Patient, Reload
<1> QED
  BY <1>1, EnqueueReadsIsPatient, EnqueueIsPatient, BackoffEndsIsPatient, PickBatchIsPatient,
     SendBatchIsPatient, AnsweredIsPatient, ReadDraftIsPatient, WriteIsPatient,
     FinishBatchIsPatient, AsideIsPatient, EditIsPatient, FlushFailsIsPatient DEF Works, Meets

\* Until a flush of d crosses an enqueue, d is patient, whatever becomes of the others.
LEMMA PatientStep ==
    ASSUME Patient, FlowInv, IdsInv, PatientInv, [Next]_vars
    PROVE  PatientInv'
<1> SUFFICES ASSUME NEW e \in Devices, e \notin crossed' PROVE PatientAt(e)'
  BY DEF PatientInv
<1>1. ASSUME NEW d \in Devices, Works(d) \/ Listens(d) \/ Meets(d) PROVE PatientAt(e)'
  <2>1. PatientAt(e)
    BY <1>1, StepsLeaveOthers DEF PatientInv
  <2>2. CASE e = d
    BY <1>1, <2>1, <2>2, OwnStepIsPatient
  <2>3. CASE e # d
    <3>1. /\ LeavesAlone(e) /\ attempt'[e] = attempt[e]
          /\ \A q \in requests' : q.device = e => q \in requests
      BY <1>1, <2>3, StepsLeaveOthers
    <3> QED
      BY <2>1, <3>1, LeftAloneAt
  <2> QED
    BY <2>2, <2>3
<1>2. ASSUME NEW q \in requests, Ingest(q) \/ Broadcast(q) \/ Discard(q) PROVE PatientAt(e)'
  <2>1. PatientAt(e)
    BY <1>2 DEF PatientInv, Ingest, Broadcast, Discard, edits
  <2>2. CASE q.device = e
    <3>1. ~Discard(q)
      BY <2>1, <2>2 DEF Discard, PatientAt, PatientRequest
    <3> QED
      BY <1>2, <2>1, <2>2, <3>1, IngestIsPatient, BroadcastIsPatient
  <2>3. CASE q.device # e
    <3>1. /\ LeavesAlone(e) /\ attempt'[e] = attempt[e]
          /\ \A p \in requests' : p.device = e => p \in requests
      BY <1>2, <2>3, ServerLeavesOthers
    <3> QED
      BY <2>1, <3>1, LeftAloneAt
  <2> QED
    BY <2>2, <2>3
<1>3. CASE UNCHANGED vars
  <2>1. LeavesAlone(e) /\ attempt'[e] = attempt[e] /\ requests' = requests /\ e \notin crossed
    BY <1>3 DEF vars, LeavesAlone, Enqueues, flushing, entry, edits, served
  <2> QED
    BY <2>1, LeftAloneAt DEF PatientInv
<1> QED
  BY <1>1, <1>2, <1>3 DEF Next, Server

LEMMA PatienceIsKept == Patient => (Spec => [](TypeOK /\ PatientInv))
<1> SUFFICES ASSUME Patient PROVE Spec => [](TypeOK /\ PatientInv)
  OBVIOUS
<1>1. Init => FlowInv /\ IdsInv /\ PatientInv
  BY InitialFlow, InitialIds, InitialPatience
<1>2. FlowInv /\ IdsInv /\ PatientInv /\ [Next]_vars => (FlowInv /\ IdsInv /\ PatientInv)'
  BY FlowStep, IdsStep, PatientStep
<1>3. FlowInv /\ IdsInv /\ PatientInv => TypeOK /\ PatientInv
  BY DEF FlowInv
<1> QED
  BY <1>1, <1>2, <1>3, PTL DEF Spec

\* While users edit between flushes and no response of a decided request is lost, the last
\* edit a device stored durably is queued there, applied by the server or kept as a
\* conflict, whatever fails, is broadcast, hydrated or deleted, until a flush of that device
\* reads the outbox while an enqueue is under way.
THEOREM PatientKeepsLastEdit == Patient => (Spec => []UncrossedEditIsKept)
<1> SUFFICES ASSUME Patient PROVE Spec => []UncrossedEditIsKept
  OBVIOUS
<1>1. PatientInv => UncrossedEditIsKept
  BY DEF PatientInv, PatientAt, PatientDevice, UncrossedEditIsKept, KeepsLastEdit, Accounted
<1> QED
  BY <1>1, PatienceIsKept, PTL

\* Under the same conditions the cache holds the newest draft for as long as it waits:
\* neither acknowledgements nor broadcasts nor hydrations replace it.
THEOREM PatientKeepsDraft == Patient => (Spec => []CacheKeepsDraft)
<1> SUFFICES ASSUME Patient PROVE Spec => []CacheKeepsDraft
  OBVIOUS
<1>1. PatientInv => CacheKeepsDraft
  BY DEF PatientInv, PatientAt, PatientDevice, CacheKeepsDraft, Means
<1> QED
  BY <1>1, PatienceIsKept, PTL
-----------------------------------------------------------------------------
(* The only editor *)

\* Every edit made so far is device d's.
Alone(d) == \A k \in Contents : author[k] \in {None, d}

\* A version the server has or had before.
Current(v) == v # Absent /\ (v = server \/ v.revision < server.revision)

\* The rows the server has yet to decide, and operations that it will apply.
Undecided(d) == {r \in outbox[d] : ledger[r.op.id] = "none"}
Fits(op) == op.kind = "upsert" /\ op.base = server.revision

\* One acknowledgement at most, with the version the server has.
OneAck(answers) ==
    \A a \in answers : /\ a.status # "conflict" /\ a.object = server
                       /\ \A b \in answers : a = b

\* The canvas of d shows edit k on top of the server's version, yet to be confirmed.
ShowsEdit(d, k) ==
    canvas[d] = [revision |-> server.revision, content |-> k] /\ unacked[d] = k

\* The answer to the flush of d is under way, or not stored yet.
Deciding(d) == at[d] \in {"wait", "write"} \/ (at[d] = "store" /\ acks[d] # {})

\* Nobody else has anything to send.
OthersRest(d) ==
    /\ \A e \in Devices \ {d} : entering[e] = <<>> /\ outbox[e] = {}
    /\ \A q \in requests : q.device = d

\* What a request, an acknowledgement or a change to tell says is what the server has.
AnswersFit(d) ==
    /\ parked = {}
    /\ \A q \in requests :
          /\ q.todo # {} => q.outbound = None /\ q.acks = {}
          /\ q.todo = {} => q.acks # {} /\ OneAck(q.acks) /\ q.outbound \in {None, server}
    /\ at[d] \in {"store", "write"} => OneAck(acks[d])
    /\ at[d] = "write" => stored[d].object = server
    /\ told[d] # <<>> => /\ told[d] = <<server>>
                         /\ \/ at[d] \in {"select", "tell"} /\ outbox[d] = {}
                            \/ at[d] = "store" /\ acks[d] = {}
    /\ at[d] \in {"wait", "store", "write"} => outbox[d] # {}

\* The edits on their way fit the server's version; the canvas shows the last of them, or
\* the content the server has, until the revision of it has been told.
EditsFit(d) ==
    /\ \A i \in DOMAIN entering[d] : Fits(entering[d][i]) /\ ShowsEdit(d, entering[d][i].edit)
    /\ Enqueues(d) /\ found[d] # None => Fits(found[d].op)
    /\ \A r \in Undecided(d) :
          Fits(r.op) /\ (entering[d] = <<>> => ShowsEdit(d, r.op.edit))
    /\ entering[d] = <<>> /\ Undecided(d) = {} =>
          /\ canvas[d] # Absent /\ canvas[d].content = server.content
          /\ unacked[d] \in {None, server.content}
          /\ \/ canvas[d].revision = server.revision
             \/ /\ canvas[d].revision + 1 = server.revision
                /\ told[d] # <<>> \/ Deciding(d)

\* Broadcasts and answered hydrations carry versions of the server, and the last broadcast
\* the one it has.
MessagesFit(d) ==
    /\ server # Absent
    /\ \A i \in DOMAIN channel[d] : Current(channel[d][i])
    /\ hydration[d] # None => hydration[d].got = None \/ Current(hydration[d].got)
    /\ (\A q \in requests : q.outbound = None) /\ channel[d] # <<>> =>
          channel[d][Len(channel[d])] = server

\* With nothing queued, the cache has what the server has or is about to get it.
CacheFits(d) ==
    /\ at[d] = "store" /\ acks[d] = {} => cache[d] = server
    /\ outbox[d] = {} =>
          /\ Current(cache[d])
          /\ \/ cache[d] = server
             \/ channel[d] # <<>>
             \/ hydration[d] # None /\ hydration[d].got \in {None, server}

AloneFits(d) == OthersRest(d) /\ AnswersFit(d) /\ EditsFit(d) /\ MessagesFit(d) /\ CacheFits(d)

\* All of this while d is the only editor, nobody deleted the object, and no flush of d
\* crossed an enqueue; then none of the others did.
UndisturbedAt(d) == Alone(d) /\ d \notin crossed /\ budget["deletes"] = 0
AloneInv == \A d \in Devices : UndisturbedAt(d) => AloneFits(d) /\ crossed = {}

LEMMA InitialAlone == Start # Absent /\ Init => AloneInv
<1> SUFFICES ASSUME Start # Absent, Init, NEW d \in Devices PROVE AloneFits(d)
  BY DEF AloneInv, Init
<1>1. OthersRest(d)
  BY DEF Init, OthersRest
<1>2. AnswersFit(d)
  BY DEF Init, AnswersFit
<1>3. EditsFit(d)
  BY DEF Init, EditsFit, Undecided, Enqueues
<1>4. MessagesFit(d)
  BY DEF Init, MessagesFit
<1>5. CacheFits(d)
  BY DEF Init, CacheFits, Current
<1> QED
  BY <1>1, <1>2, <1>3, <1>4, <1>5 DEF AloneFits

\* What d has is as it was.
DeviceRests(d) ==
    /\ canvas'[d] = canvas[d] /\ unacked'[d] = unacked[d] /\ cache'[d] = cache[d]
    /\ outbox'[d] = outbox[d] /\ entering'[d] = entering[d] /\ found'[d] = found[d]
    /\ reads'[d] = reads[d] /\ at'[d] = at[d] /\ acks'[d] = acks[d]
    /\ stored'[d] = stored[d] /\ told'[d] = told[d]
    /\ channel'[d] = channel[d] /\ hydration'[d] = hydration[d]

\* A step of a device: it sends no request, and nothing is entered.
Steps(d) ==
    \/ EnqueueReads(d) \/ Enqueue(d) \/ BackoffEnds(d) \/ PickBatch(d) \/ SendBatch(d)
    \/ \E q \in requests : Answered(d, q) \/ FlushFails(d, q)
    \/ StoreConflict(d) \/ ReadDraft(d) \/ WriteAcked(d) \/ WriteUnechoed(d)
    \/ FinishBatch(d) \/ NothingDue(d) \/ Tell(d)
    \/ HandleEvent(d) \/ HydrationAnswered(d) \/ HydrationApplies(d)
    \/ Hydrate(d) \/ Reconnect(d)

\* A device without rows is not sending.
LEMMA NothingSent ==
    ASSUME FlowInv, NEW e \in Devices, PatientDevice(e), outbox[e] = {}
    PROVE  /\ at[e] # "picked"
           /\ at[e] \in {"store", "write"} => acks[e] = {}
BY DEF FlowInv, BatchInv, PatientDevice, IsSent

LEMMA NotifyOthers ==
    ASSUME TypeOK, NEW e \in Devices, NEW v, Notify(e, v), NEW f \in Devices \ {e}
    PROVE  canvas'[f] = canvas[f] /\ unacked'[f] = unacked[f]
BY DEF Notify, Show, TypeOK

\* A device that has nothing to send disturbs nobody.
LEMMA RestingStep ==
    ASSUME FlowInv, NEW d \in Devices, OthersRest(d), NEW e \in Devices \ {d}, PatientAt(e),
           Steps(e)
    PROVE  /\ UNCHANGED <<server, ledger, parked, requests, author>>
           /\ outbox'[e] = {} /\ entering'[e] = <<>>
           /\ \A f \in Devices \ {e} : DeviceRests(f)
<1>0. /\ TypeOK /\ PatientDevice(e) /\ outbox[e] = {} /\ entering[e] = <<>>
      /\ \A q \in requests : q.device # e
  BY DEF FlowInv, PatientAt, OthersRest
<1>1. at[e] # "picked" /\ (at[e] \in {"store", "write"} => acks[e] = {})
  BY <1>0, NothingSent
<1>2. ~EnqueueReads(e) /\ ~BackoffEnds(e) /\ ~PickBatch(e) /\ ~SendBatch(e)
  BY <1>0, <1>1 DEF EnqueueReads, BackoffEnds, PickBatch, SendBatch, Due
<1>3. \A q \in requests : ~Answered(e, q) /\ ~FlushFails(e, q)
  BY <1>0 DEF Answered, FlushFails, Awaits
<1>4. ~StoreConflict(e) /\ ~ReadDraft(e) /\ ~WriteUnechoed(e)
  BY <1>1 DEF StoreConflict, ReadDraft, WriteUnechoed
<1>5. ~Enqueue(e)
  <2>1. SUFFICES ASSUME GoesOn(e, "enqueue") PROVE FALSE
    BY DEF Enqueue
  <2>2. 1 \in DOMAIN reads[e] /\ reads[e][1] = "enqueue"
    BY <1>0, <2>1 DEF GoesOn, TypeOK
  <2> QED
    BY <1>0, <2>2 DEF FlowInv, EnqueuesInTurn
<1>6. CASE WriteAcked(e)
  <2>1. outbox'[e] = outbox[e] /\ \A f \in Devices \ {e} : outbox'[f] = outbox[f]
    BY <1>0, <1>6 DEF WriteAcked, PatientDevice, TypeOK
  <2>2. UNCHANGED <<server, ledger, parked, requests, author, entering>>
    BY <1>6 DEF WriteAcked, served, edits
  <2>3. ASSUME NEW f \in Devices \ {e} PROVE DeviceRests(f)
    BY <1>0, <1>6, <2>1, <2>2
       DEF DeviceRests, WriteAcked, AckStored, GoesOn, screen, copy, incoming, TypeOK
  <2> QED
    BY <1>0, <2>1, <2>2, <2>3
<1>7. CASE FinishBatch(e) \/ NothingDue(e) \/ Tell(e)
  <2>1. outbox'[e] = {}
    BY <1>0, <1>7 DEF FinishBatch, NothingDue, Tell, WithoutBatch, TypeOK
  <2>2. UNCHANGED <<server, ledger, parked, requests, author, entering>>
    BY <1>7 DEF FinishBatch, NothingDue, Tell, served, edits, entry
  <2>3. ASSUME NEW f \in Devices \ {e} PROVE DeviceRests(f)
    <3>1. CASE FinishBatch(e) \/ NothingDue(e)
      BY <1>0, <3>1
         DEF DeviceRests, FinishBatch, NothingDue, screen, copy, incoming, entry, TypeOK
    <3>2. CASE Tell(e)
      <4>1. canvas'[f] = canvas[f] /\ unacked'[f] = unacked[f]
        BY <1>0, <3>2, NotifyOthers DEF Tell, copy
      <4>2. told'[f] = told[f] /\ at'[f] = at[f]
        BY <1>0, <3>2 DEF Tell, TypeOK
      <4> QED
        BY <3>2, <4>1, <4>2 DEF DeviceRests, Tell, incoming, entry
    <3> QED
      BY <1>7, <3>1, <3>2
  <2> QED
    BY <1>0, <2>1, <2>2, <2>3
<1>8. CASE \/ HandleEvent(e) \/ HydrationAnswered(e) \/ HydrationApplies(e)
           \/ Hydrate(e) \/ Reconnect(e)
  <2>1. UNCHANGED <<server, ledger, parked, requests, author, entering, outbox>>
    BY <1>8
       DEF HandleEvent, HydrationAnswered, HydrationApplies, Hydrate, Reconnect, served, edits,
           entry
  <2>2. ASSUME NEW f \in Devices \ {e} PROVE DeviceRests(f)
    <3>1. CASE HandleEvent(e) \/ HydrationApplies(e)
      <4>1. canvas'[f] = canvas[f] /\ unacked'[f] = unacked[f]
        BY <1>0, <3>1, NotifyOthers DEF HandleEvent, HydrationApplies, copy
      <4>2. cache'[f] = cache[f] /\ channel'[f] = channel[f] /\ hydration'[f] = hydration[f]
        BY <1>0, <3>1 DEF HandleEvent, HydrationApplies, TypeOK
      <4> QED
        BY <3>1, <4>1, <4>2 DEF DeviceRests, HandleEvent, HydrationApplies, flushing, entry
    <3>2. CASE HydrationAnswered(e) \/ Hydrate(e) \/ Reconnect(e)
      BY <1>0, <3>2
         DEF DeviceRests, HydrationAnswered, Hydrate, Reconnect, BeginHydration, screen, copy,
             flushing, entry, TypeOK
    <3> QED
      BY <1>8, <3>1, <3>2
  <2> QED
    BY <1>0, <2>1, <2>2
<1> QED
  BY <1>2, <1>3, <1>4, <1>5, <1>6, <1>7, <1>8 DEF Steps

\* What is known of d stays known while others rest.
LEMMA RestIsFitting ==
    ASSUME NEW d \in Devices, AloneFits(d), DeviceRests(d),
           UNCHANGED <<server, ledger, parked, requests>>,
           OthersRest(d)'
    PROVE  AloneFits(d)'
<1>1. AnswersFit(d)'
  BY DEF AloneFits, AnswersFit, DeviceRests, OneAck
<1>2. EditsFit(d)'
  <2>1. Undecided(d)' = Undecided(d) /\ Enqueues(d)' = Enqueues(d) /\ Deciding(d)' = Deciding(d)
    BY DEF DeviceRests, Undecided, Enqueues, Deciding
  <2> QED
    BY <2>1 DEF AloneFits, EditsFit, DeviceRests, Fits, ShowsEdit
<1>3. MessagesFit(d)'
  BY DEF AloneFits, MessagesFit, DeviceRests, Current
<1>4. CacheFits(d)'
  BY DEF AloneFits, CacheFits, DeviceRests, Current
<1> QED
  BY <1>1, <1>2, <1>3, <1>4 DEF AloneFits

\* Everything that is known of d while it is the only editor.
Known(d) == /\ TypeOK /\ PatientDevice(d) /\ OthersRest(d) /\ AnswersFit(d)
            /\ EditsFit(d) /\ MessagesFit(d) /\ CacheFits(d)

LEMMA WhatIsKnown ==
    ASSUME FlowInv, NEW d \in Devices, PatientAt(d), AloneFits(d)
    PROVE  Known(d)
BY DEF Known, FlowInv, PatientAt, AloneFits

LEMMA ServerVersion ==
    ASSUME NEW d \in Devices, Known(d)
    PROVE  server \in Version /\ server.revision \in Nat /\ Current(server)
BY DEF Known, TypeOK, MessagesFit, MaybeVersion, Version, Current

\* With nothing under way, the canvas is at the server's revision.
LEMMA CanvasIsCurrent ==
    ASSUME NEW d \in Devices, Known(d), at[d] = "idle", entering[d] = <<>>
    PROVE  canvas[d] # Absent /\ canvas[d].revision = server.revision
<1>1. CASE Undecided(d) = {}
  BY <1>1 DEF Known, AnswersFit, EditsFit, Deciding
<1>2. CASE Undecided(d) # {}
  <2>1. PICK r \in Undecided(d) : ShowsEdit(d, r.op.edit) /\ r.op.edit \in Contents
    BY <1>2, RowIds DEF Known, EditsFit, Undecided
  <2>2. canvas[d] \in Version /\ canvas[d].revision = server.revision
    BY <2>1, ServerVersion DEF ShowsEdit, Version
  <2> QED
    BY <2>2, AbsentIsNoVersion DEF Version
<1> QED
  BY <1>1, <1>2

LEMMA UpsertFits ==
    ASSUME FlowInv, ~EditsDuringFlush, NEW d \in Devices, PatientAt(d), AloneFits(d), Upsert(d)
    PROVE  AloneFits(d)'
<1>0. Known(d) /\ TypeOK /\ PatientDevice(d) /\ OthersRest(d) /\ AnswersFit(d)
  BY WhatIsKnown DEF Known
<1>1. at[d] = "idle" /\ entering[d] = <<>> /\ ~Enqueues(d)
  BY <1>0, NoEnqueueDuringFlush DEF Upsert, MayEdit
<1>2. PICK k \in Contents : k = NextEdit
  BY EditIsFresh DEF Upsert, MayEdit
<1>3. PICK op : op = [id |-> k, edit |-> k, kind |-> "upsert", base |-> server.revision,
                      rev |-> server.revision]
  OBVIOUS
<1>4. /\ canvas'[d] = [revision |-> server.revision, content |-> k] /\ unacked'[d] = k
      /\ Edited(d, op)
  BY <1>0, <1>1, <1>2, <1>3, CanvasIsCurrent DEF Upsert, Show, TypeOK
<1>5. /\ entering'[d] = <<op>> /\ \A e \in Devices \ {d} : entering'[e] = entering[e]
      /\ UNCHANGED <<served, requests, cache, outbox, found, reads, flushing, incoming>>
  BY <1>0, <1>1, <1>4 DEF Edited, TypeOK
<1>6. OthersRest(d)'
  BY <1>0, <1>5 DEF OthersRest
<1>7. AnswersFit(d)'
  BY <1>0, <1>5 DEF AnswersFit, OneAck, served, flushing
<1>8. EditsFit(d)'
  <2>1. ~Enqueues(d)' /\ Undecided(d)' = Undecided(d) /\ entering'[d] # <<>>
    BY <1>1, <1>5 DEF Enqueues, Undecided, served
  <2>2. \A i \in DOMAIN entering'[d] : entering'[d][i] = op
    BY <1>5
  <2>3. Fits(op)' /\ ShowsEdit(d, op.edit)'
    BY <1>3, <1>4, <1>5 DEF Fits, ShowsEdit, served
  <2>4. \A r \in Undecided(d) : Fits(r.op)'
    BY <1>0, <1>5 DEF Known, EditsFit, Fits, served
  <2> QED
    BY <2>1, <2>2, <2>3, <2>4 DEF EditsFit
<1>9. MessagesFit(d)' /\ CacheFits(d)'
  BY <1>0, <1>5 DEF Known, MessagesFit, CacheFits, Current, served, incoming, flushing
<1> QED
  BY <1>6, <1>7, <1>8, <1>9 DEF AloneFits

LEMMA EnqueueReadsFits ==
    ASSUME FlowInv, NEW d \in Devices, PatientAt(d), AloneFits(d), EnqueueReads(d)
    PROVE  AloneFits(d)'
<1>0. Known(d) /\ TypeOK /\ PatientDevice(d)
  BY WhatIsKnown DEF Known
<1>1. /\ at[d] = "idle" /\ \A r \in outbox[d] : ledger[r.op.id] = "none"
      /\ UNCHANGED <<served, requests, screen, cache, outbox, entering, flushing, incoming>>
      /\ found'[d] = IF Unsent(d) = {} THEN None ELSE Oldest(Unsent(d))
  BY <1>0 DEF EnqueueReads, PatientDevice, TypeOK
<1>2. found'[d] # None => found'[d] \in Undecided(d)
  <2>1. Unsent(d) \in SUBSET Row
    BY <1>0 DEF Unsent, TypeOK
  <2>2. Unsent(d) # {} => Oldest(Unsent(d)) \in Unsent(d)
    BY <2>1, OldestRow
  <2> QED
    BY <1>1, <2>2 DEF Unsent, Undecided
<1>3. EditsFit(d)'
  <2>1. Undecided(d)' = Undecided(d) /\ Deciding(d)' = Deciding(d)
    BY <1>1 DEF Undecided, Deciding, served, flushing
  <2>2. found'[d] # None => Fits(found[d].op)'
    <3>1. found'[d] # None => Fits(found'[d].op)
      BY <1>0, <1>2 DEF Known, EditsFit
    <3> QED
      BY <1>1, <3>1 DEF Fits, served
  <2>3. \A op : Fits(op)' = Fits(op) /\ ShowsEdit(d, op.edit)' = ShowsEdit(d, op.edit)
    BY <1>1 DEF Fits, ShowsEdit, served, screen, copy
  <2>4. \A i \in DOMAIN entering[d] :
            (Fits(entering[d][i]) /\ ShowsEdit(d, entering[d][i].edit))'
    BY <1>0, <1>1 DEF Known, EditsFit, Fits, ShowsEdit, served, screen, copy
  <2> QED
    BY <1>0, <1>1, <2>1, <2>2, <2>3, <2>4 DEF Known, EditsFit, served, screen, copy, flushing
<1>4. OthersRest(d)' /\ AnswersFit(d)'
  BY <1>0, <1>1 DEF Known, OthersRest, AnswersFit, OneAck, served, flushing
<1>5. MessagesFit(d)' /\ CacheFits(d)'
  BY <1>0, <1>1 DEF Known, MessagesFit, CacheFits, Current, served, incoming, flushing
<1> QED
  BY <1>3, <1>4, <1>5 DEF AloneFits

LEMMA EnqueueFits ==
    ASSUME FlowInv, NEW d \in Devices, PatientAt(d), AloneFits(d), Enqueue(d)
    PROVE  AloneFits(d)'
<1>0. Known(d) /\ TypeOK /\ PatientDevice(d) /\ FlowInv' /\ TypeOK'
  BY WhatIsKnown, EnqueueFlow DEF Known, FlowInv
<1> DEFINE first == Head(entering[d])
           op == Queued(d, first)
           row == [op |-> op, due |-> TRUE]
<1>1. /\ first \in Op /\ first = entering[d][1] /\ Len(entering[d]) = 1 /\ entering[d] # <<>>
      /\ entering[d] \in Seq(Op)
  BY <1>0, EnteringOp DEF Enqueue, PatientDevice
<1>2. at[d] = "idle" /\ flight[d] = None /\ Enqueues(d)
  BY <1>0, <1>1 DEF PatientDevice, Enqueues, Enqueue, GoesOn, TypeOK
<1>3. op.edit = first.edit /\ Fits(op) /\ ShowsEdit(d, op.edit)
  <2>1. Fits(first) /\ ShowsEdit(d, first.edit)
    BY <1>1 DEF Known, EditsFit, AloneFits
  <2>2. found[d] # None => Fits(found[d].op)
    BY <1>2 DEF AloneFits, EditsFit
  <2>3. op.edit = first.edit /\ Fits(op)
    BY <1>1, <1>2, <2>1, <2>2 DEF Queued, Fits, Op
  <2> QED
    BY <2>1, <2>3
<1>4. row.op = op
  OBVIOUS
<1>5. /\ outbox' = [outbox EXCEPT ![d] = PutRow(@, row)]
      /\ entering' = [entering EXCEPT ![d] = Tail(@)]
      /\ UNCHANGED <<served, requests, screen, flight, at, batch, attempt, acks, stored, told,
                     incoming>>
      /\ \E version : cache' = [cache EXCEPT ![d] = version]
  BY DEF Enqueue
<1> HIDE DEF row, op, first
<1>6. /\ outbox'[d] = PutRow(outbox[d], row) /\ outbox'[d] # {}
      /\ \A e \in Devices \ {d} : outbox'[e] = outbox[e] /\ entering'[e] = entering[e]
  BY <1>0, <1>5 DEF TypeOK, PutRow
<1>7. entering'[d] = <<>>
  <2>1. Tail(entering[d]) \in Seq(Op) /\ Len(Tail(entering[d])) = 0
    BY <1>1, HeadTailProperties
  <2> QED
    BY <1>0, <1>5, <2>1, EmptySeq DEF TypeOK
<1>8. ~Enqueues(d)'
  BY <1>0, <1>7 DEF Enqueues, FlowInv, EnqueuesInTurn
<1>9. \A r \in outbox'[d] : r = row
  <2>1. \A r \in outbox[d] : r.op.id = op.id
    <3>1. CASE found[d] = None
      BY <1>0, <1>2, <3>1 DEF PatientDevice
    <3>2. CASE found[d] # None
      <4>1. op.id = found[d].op.id
        BY <1>1, <3>2 DEF op, Queued, Op
      <4> QED
        BY <1>0, <1>2, <3>2, <4>1 DEF PatientDevice
    <3> QED
      BY <3>1, <3>2
  <2> QED
    BY <1>4, <1>6, <2>1 DEF PutRow
<1>10. EditsFit(d)'
  <2>1. Undecided(d)' # {}
    <3>1. row \in outbox'[d]
      BY <1>6 DEF PutRow
    <3>2. ledger'[op.id] = "none"
      <4>1. PatientDevice(d)'
        BY EnqueueIsPatient DEF PatientAt
      <4>2. at'[d] = "idle"
        BY <1>2, <1>5
      <4> QED
        BY <1>4, <3>1, <4>1, <4>2 DEF PatientDevice
    <3> QED
      BY <1>4, <3>1, <3>2 DEF Undecided
  <2>2. \A x : x = op => Fits(x)' /\ ShowsEdit(d, x.edit)'
    BY <1>3, <1>5 DEF Fits, ShowsEdit, served, screen, copy
  <2>3. \A r \in Undecided(d)' : r.op = op
    BY <1>4, <1>9 DEF Undecided
  <2>4. \A i \in DOMAIN entering'[d] : FALSE
    BY <1>7
  <2> QED
    BY <1>8, <1>7, <2>1, <2>2, <2>3 DEF EditsFit
<1>11. OthersRest(d)'
  BY <1>0, <1>5, <1>6 DEF Known, OthersRest
<1>12. AnswersFit(d)'
  BY <1>0, <1>2, <1>5 DEF Known, AnswersFit, OneAck, served
<1>13. MessagesFit(d)' /\ CacheFits(d)'
  BY <1>0, <1>2, <1>5, <1>6 DEF Known, MessagesFit, CacheFits, Current, served, incoming
<1> QED
  BY <1>10, <1>11, <1>12, <1>13 DEF AloneFits

\* The rows change only in when they are due.
SameOps(rows, before) ==
    /\ \A r \in rows : \E s \in before : r.op = s.op
    /\ \A s \in before : \E r \in rows : r.op = s.op

\* The flush goes on, and what the server has stays.
LEMMA EditsStayFit ==
    ASSUME NEW d \in Devices, EditsFit(d), UNCHANGED <<server, ledger>>,
           entering'[d] = entering[d], Enqueues(d)' => Enqueues(d) /\ found'[d] = found[d],
           canvas'[d] = canvas[d], unacked'[d] = unacked[d], SameOps(outbox'[d], outbox[d]),
           told[d] # <<>> \/ Deciding(d) => \/ told'[d] # <<>> \/ Deciding(d)'
                                             \/ Undecided(d) # {}
    PROVE  EditsFit(d)'
<1>1. /\ \A r \in Undecided(d)' : \E s \in Undecided(d) : r.op = s.op
      /\ Undecided(d)' = {} => Undecided(d) = {}
  BY DEF SameOps, Undecided
<1>2. \A op : (Fits(op)' <=> Fits(op)) /\ (ShowsEdit(d, op.edit)' <=> ShowsEdit(d, op.edit))
  BY DEF Fits, ShowsEdit
<1>3. \A i \in DOMAIN entering'[d] :
          (Fits(entering[d][i]) /\ ShowsEdit(d, entering[d][i].edit))'
  BY DEF EditsFit, Fits, ShowsEdit
<1>4. (Enqueues(d) /\ found[d] # None => Fits(found[d].op))'
  BY DEF EditsFit, Fits
<1>5. \A r \in Undecided(d)' :
          Fits(r.op)' /\ (entering'[d] = <<>> => ShowsEdit(d, r.op.edit)')
  BY <1>1, <1>2 DEF EditsFit
<1>6. entering'[d] = <<>> /\ Undecided(d)' = {} =>
          /\ canvas'[d] # Absent /\ canvas'[d].content = server'.content
          /\ unacked'[d] \in {None, server'.content}
          /\ \/ canvas'[d].revision = server'.revision
             \/ /\ canvas'[d].revision + 1 = server'.revision
                /\ told'[d] # <<>> \/ Deciding(d)'
  BY <1>1 DEF EditsFit
<1> QED
  BY <1>3, <1>4, <1>5, <1>6 DEF EditsFit

LEMMA BackoffEndsFits ==
    ASSUME FlowInv, NEW d \in Devices, PatientAt(d), AloneFits(d), BackoffEnds(d)
    PROVE  AloneFits(d)'
<1>0. Known(d) /\ TypeOK /\ PatientDevice(d)
  BY WhatIsKnown DEF Known
<1>1. PICK r \in outbox[d] : ~r.due /\ outbox' = [outbox EXCEPT ![d] = PutRow(@, RetryDue(r))]
  BY DEF BackoffEnds
<1>2. r \in Row /\ RetryDue(r).op = r.op /\ outbox[d] = {r}
  BY <1>0, RowIds, RetryDueTypes DEF PatientDevice
<1>3. /\ UNCHANGED <<served, requests, screen, cache, entry, flushing, incoming>>
      /\ outbox'[d] = {RetryDue(r)} /\ outbox'[d] # {} /\ outbox[d] # {}
      /\ \A e \in Devices \ {d} : outbox'[e] = outbox[e]
  BY <1>0, <1>1, <1>2 DEF BackoffEnds, PutRow, TypeOK
<1>4. EditsFit(d)'
  <2>1. SameOps(outbox'[d], outbox[d])
    BY <1>2, <1>3 DEF SameOps
  <2>2. Enqueues(d)' = Enqueues(d) /\ Deciding(d)' = Deciding(d)
    BY <1>3 DEF Enqueues, Deciding, entry, flushing
  <2>3. EditsFit(d)
    BY <1>0 DEF Known
  <2> QED
    BY <1>3, <2>1, <2>2, <2>3, EditsStayFit DEF served, entry, screen, copy, flushing
<1>5. OthersRest(d)' /\ AnswersFit(d)'
  BY <1>0, <1>3 DEF Known, OthersRest, AnswersFit, OneAck, served, flushing, entry
<1>6. MessagesFit(d)' /\ CacheFits(d)'
  BY <1>0, <1>3 DEF Known, MessagesFit, CacheFits, Current, served, incoming, flushing
<1> QED
  BY <1>4, <1>5, <1>6 DEF AloneFits

LEMMA PickBatchFits ==
    ASSUME FlowInv, NEW d \in Devices, PatientAt(d), AloneFits(d), PickBatch(d)
    PROVE  AloneFits(d)'
<1>0. Known(d) /\ TypeOK /\ FlowInv' /\ PatientDevice(d)
  BY WhatIsKnown, PickBatchFlow DEF Known, FlowInv
<1>1. /\ UNCHANGED <<served, requests, screen, cache, outbox, entering, found, acks, stored,
                     told, incoming>>
      /\ at[d] \in {"idle", "select"} /\ at'[d] = "picked" /\ outbox[d] # {}
      /\ reads'[d] = Append(reads[d], "flush")
  BY <1>0 DEF PickBatch, Reads, Due, TypeOK
<1>2. told[d] = <<>> /\ ~Deciding(d)
  BY <1>0, <1>1 DEF Known, AnswersFit, Deciding
<1>3. EditsFit(d)'
  <2>1. SameOps(outbox'[d], outbox[d])
    BY <1>1 DEF SameOps
  <2>2. Enqueues(d)' => Enqueues(d)
    <3>1. reads[d] \in Seq({"enqueue", "flush", "ack"})
      BY <1>0 DEF TypeOK
    <3> QED
      BY <1>1, <3>1 DEF Enqueues
  <2> QED
    BY <1>0, <1>1, <1>2, <2>1, <2>2, EditsStayFit DEF Known, served, screen, copy
<1>4. OthersRest(d)' /\ AnswersFit(d)'
  BY <1>0, <1>1, <1>2 DEF Known, OthersRest, AnswersFit, OneAck, served
<1>5. MessagesFit(d)' /\ CacheFits(d)'
  BY <1>0, <1>1 DEF Known, MessagesFit, CacheFits, Current, served, incoming
<1> QED
  BY <1>3, <1>4, <1>5 DEF AloneFits

LEMMA SendBatchFits ==
    ASSUME FlowInv, NEW d \in Devices, PatientAt(d), AloneFits(d), SendBatch(d)
    PROVE  AloneFits(d)'
<1>0. Known(d) /\ TypeOK /\ FlowInv' /\ PatientDevice(d)
  BY WhatIsKnown, SendBatchFlow DEF Known, FlowInv
<1>a. PICK request : request = [device |-> d, attempt |-> attempt[d] + 1,
          todo |-> {r.op : r \in batch[d]}, acks |-> {}, outbound |-> None]
  OBVIOUS
<1>1. /\ UNCHANGED <<served, screen, cache, outbox, entering, found, acks, stored, told, incoming>>
      /\ at[d] = "picked" /\ at'[d] = "wait" /\ requests' = requests \cup {request}
      /\ batch[d] # {} /\ batch[d] = outbox[d]
      /\ reads'[d] = Tail(reads[d]) /\ reads[d] # <<>>
  BY <1>0, <1>a DEF SendBatch, GoesOn, PatientDevice, FlowInv, BatchInv, TypeOK
<1>2. request.device = d /\ request.todo # {} /\ request.acks = {} /\ request.outbound = None
  BY <1>1, <1>a
<1>3. EditsFit(d)'
  <2>1. SameOps(outbox'[d], outbox[d])
    BY <1>1 DEF SameOps
  <2>2. ~Enqueues(d)'
    <3>1. entering[d] = <<>>
      BY <1>0, <1>1, NoEnqueueDuringFlush
    <3> QED
      BY <1>0, <1>1, <3>1 DEF Enqueues, FlowInv, EnqueuesInTurn
  <2>3. Deciding(d)'
    BY <1>1 DEF Deciding
  <2> QED
    BY <1>0, <1>1, <2>1, <2>2, <2>3, EditsStayFit DEF Known, served, screen, copy
<1>4. OthersRest(d)'
  BY <1>0, <1>1, <1>2 DEF Known, OthersRest
<1>5. AnswersFit(d)'
  <2>1. \A q \in requests' :
            /\ q.todo # {} => q.outbound = None /\ q.acks = {}
            /\ q.todo = {} => q.acks # {} /\ OneAck(q.acks)' /\ q.outbound \in {None, server'}
    BY <1>0, <1>1, <1>2 DEF Known, AnswersFit, OneAck, served
  <2>2. told'[d] = <<>>
    BY <1>0, <1>1 DEF Known, AnswersFit
  <2> QED
    BY <1>0, <1>1, <2>1, <2>2 DEF Known, AnswersFit, served
<1>6. MessagesFit(d)' /\ CacheFits(d)'
  BY <1>0, <1>1, <1>2 DEF Known, MessagesFit, CacheFits, Current, served, incoming
<1> QED
  BY <1>3, <1>4, <1>5, <1>6 DEF AloneFits

\* The one request is d's, and nothing else is to be broadcast once it is gone.
LEMMA OnlyRequest ==
    ASSUME NEW d \in Devices, PatientAt(d), Known(d), NEW q \in requests
    PROVE  q.device = d /\ Awaits(d, q) /\ PatientRequest(q) /\ \A p \in requests : p = q
BY DEF PatientAt, PatientRequest, Known, OthersRest

LEMMA AnsweredFits ==
    ASSUME FlowInv, NEW d \in Devices, PatientAt(d), AloneFits(d), NEW q \in requests, Answered(d, q)
    PROVE  AloneFits(d)'
<1>0. Known(d) /\ TypeOK /\ PatientDevice(d)
  BY WhatIsKnown DEF Known
<1>1. /\ UNCHANGED <<served, screen, cache, outbox, entry, stored, told, incoming>>
      /\ at[d] = "wait" /\ at'[d] = "store" /\ acks'[d] = q.acks
      /\ q.todo = {} /\ q.outbound = None /\ requests' = {}
  BY <1>0, OnlyRequest DEF Answered, Awaits, TypeOK
<1>2. q.acks # {} /\ OneAck(q.acks)
  BY <1>0, <1>1 DEF Known, AnswersFit
<1>3. EditsFit(d)'
  <2>1. SameOps(outbox'[d], outbox[d]) /\ Enqueues(d)' = Enqueues(d) /\ Deciding(d)'
    BY <1>1, <1>2 DEF SameOps, Enqueues, Deciding, entry
  <2> QED
    BY <1>0, <1>1, <2>1, EditsStayFit DEF Known, served, screen, copy, entry
<1>4. OthersRest(d)' /\ AnswersFit(d)'
  <2>1. OneAck(acks[d])'
    BY <1>1, <1>2 DEF OneAck, served
  <2> QED
    BY <1>0, <1>1, <2>1 DEF Known, OthersRest, AnswersFit, served, entry
<1>5. MessagesFit(d)' /\ CacheFits(d)'
  <2>1. \A p \in requests : p.outbound = None
    BY <1>0, <1>1, OnlyRequest
  <2> QED
    BY <1>0, <1>1, <1>2, <2>1 DEF Known, MessagesFit, CacheFits, Current, served, incoming
<1> QED
  BY <1>3, <1>4, <1>5 DEF AloneFits

LEMMA FlushFailsFits ==
    ASSUME FlowInv, ~ResponsesGetLost,
           NEW d \in Devices, PatientAt(d), AloneFits(d), NEW q \in requests, FlushFails(d, q)
    PROVE  AloneFits(d)'
<1>0. Known(d) /\ TypeOK /\ PatientDevice(d) /\ PatientRequest(q) /\ Awaits(d, q)
  BY WhatIsKnown, OnlyRequest DEF Known
<1>1. /\ UNCHANGED <<served, screen, cache, entry, stored, acks, told, incoming>>
      /\ at[d] = "wait" /\ at'[d] = "tell" /\ q.todo = {r.op : r \in batch[d]}
      /\ batch[d] = outbox[d] /\ outbox[d] # {}
      /\ \A e \in Devices \ {d} : outbox'[e] = outbox[e]
      /\ requests' = requests \ {q}
  BY <1>0 DEF FlushFails, Awaits, TypeOK, PatientDevice, Known, AnswersFit
<1>a. requests' = {}
  BY <1>0, <1>1, OnlyRequest
<1>2. q.todo # {} /\ q.outbound = None
  BY <1>0, <1>1 DEF Known, AnswersFit
<1>3. outbox'[d] = {[r EXCEPT !.due = FALSE] : r \in outbox[d]}
  <2>1. WithoutBatch(d) = {}
    BY <1>1 DEF WithoutBatch
  <2> QED
    BY <1>0, <1>1, <2>1 DEF FlushFails, AttemptFailed, TypeOK
<1>4. \A r \in outbox[d] : r.op = [r EXCEPT !.due = FALSE].op
  BY <1>0, RowIds DEF Row
<1>5. outbox'[d] # {} /\ SameOps(outbox'[d], outbox[d])
  <2>1. \A s \in outbox'[d] : \E r \in outbox[d] : s.op = r.op
    BY <1>3, <1>4
  <2>2. \A r \in outbox[d] : \E s \in outbox'[d] : s.op = r.op
    BY <1>3, <1>4
  <2> QED
    BY <1>1, <2>1, <2>2 DEF SameOps
<1>6. Undecided(d) # {}
  <2>1. PICK r \in outbox[d] : r \in batch[d]
    BY <1>1
  <2>2. ledger[r.op.id] = "none"
    BY <1>0, <1>2, <2>1 DEF PatientRequest, Awaits
  <2> QED
    BY <2>1, <2>2 DEF Undecided
<1>7. EditsFit(d)'
  <2>1. Enqueues(d)' = Enqueues(d)
    BY <1>1 DEF Enqueues, entry
  <2> QED
    BY <1>0, <1>1, <1>5, <1>6, <2>1, EditsStayFit DEF Known, served, screen, copy, entry
<1>8. OthersRest(d)' /\ AnswersFit(d)'
  BY <1>0, <1>1, <1>a DEF Known, OthersRest, AnswersFit, served, entry
<1>9. MessagesFit(d)' /\ CacheFits(d)'
  <2>1. \A p \in requests : p.outbound = None
    BY <1>0, <1>2, OnlyRequest
  <2> QED
    BY <1>0, <1>1, <1>a, <1>5, <2>1 DEF Known, MessagesFit, CacheFits, Current, served, incoming
<1> QED
  BY <1>7, <1>8, <1>9 DEF AloneFits

LEMMA ReadDraftFits ==
    ASSUME FlowInv, NEW d \in Devices, PatientAt(d), AloneFits(d), ReadDraft(d)
    PROVE  AloneFits(d)'
<1>0. Known(d) /\ TypeOK /\ PatientDevice(d) /\ FlowInv'
  BY WhatIsKnown, ReadDraftFlow DEF Known, FlowInv
<1>1. /\ UNCHANGED <<served, requests, screen, cache, outbox, entering, found, acks, batch,
                     told, incoming>>
      /\ at[d] = "store" /\ acks[d] # {} /\ at'[d] = "write"
  BY <1>0 DEF ReadDraft, TypeOK
<1>2. Drafts(d) = {}
  <2>1. PICK r \in batch[d] : r.op.id = NextAck(d).id
    BY <1>1, SentRow
  <2>2. \A s \in outbox[d] : s = r
    BY <1>0, <1>1, <2>1 DEF PatientDevice
  <2> QED
    BY <2>1, <2>2 DEF Drafts
<1>3. stored'[d].object = server
  <2>1. PICK version : /\ NextAck(d).object = version
                       /\ stored' = [stored EXCEPT ![d] = [object |-> version, row |-> None]]
    BY <1>2, ReadDraftEffect
  <2>2. NextAck(d).object = server
    BY <1>0, <1>1, FirstAck DEF Known, AnswersFit, OneAck
  <2> QED
    BY <1>0, <2>1, <2>2 DEF TypeOK
<1>4. EditsFit(d)'
  <2>1. entering[d] = <<>>
    BY <1>0, <1>1, NoEnqueueDuringFlush
  <2>2. SameOps(outbox'[d], outbox[d]) /\ ~Enqueues(d)' /\ Deciding(d)'
    BY <1>0, <1>1, <2>1 DEF SameOps, Enqueues, FlowInv, EnqueuesInTurn, Deciding
  <2> QED
    BY <1>0, <1>1, <2>2, EditsStayFit DEF Known, served, screen, copy
<1>5. OthersRest(d)' /\ AnswersFit(d)'
  BY <1>0, <1>1, <1>3 DEF Known, OthersRest, AnswersFit, OneAck, served
<1>6. MessagesFit(d)' /\ CacheFits(d)'
  BY <1>0, <1>1 DEF Known, MessagesFit, CacheFits, Current, served, incoming
<1> QED
  BY <1>4, <1>5, <1>6 DEF AloneFits

LEMMA WriteAckedFits ==
    ASSUME FlowInv, NEW d \in Devices, PatientAt(d), AloneFits(d), WriteAcked(d)
    PROVE  AloneFits(d)'
<1>0. Known(d) /\ TypeOK /\ PatientDevice(d) /\ FlowInv'
  BY WhatIsKnown, WriteFlow DEF Known, FlowInv
<1>1. /\ at[d] = "write" /\ stored[d].object = server /\ OneAck(acks[d]) /\ told[d] = <<>>
      /\ outbox[d] # {}
  BY <1>0 DEF WriteAcked, Known, AnswersFit
<1>2. outbox' = [outbox EXCEPT ![d] = outbox[d]] /\ AckStored(d, server)
  BY <1>0, <1>1 DEF WriteAcked, PatientDevice
<1>3. /\ UNCHANGED <<served, requests, screen, entering, found, incoming, outbox>>
      /\ cache'[d] = server /\ told'[d] = <<server>> /\ at'[d] = "store"
      /\ acks'[d] = acks[d] \ {NextAck(d)}
  BY <1>0, <1>1, <1>2 DEF WriteAcked, AckStored, TypeOK
<1>4. acks'[d] = {}
  <2>1. acks[d] # {} => NextAck(d) \in acks[d]
    BY <1>0, FirstAck
  <2> QED
    BY <1>1, <1>3, <2>1 DEF OneAck
<1>5. EditsFit(d)'
  <2>1. entering[d] = <<>>
    BY <1>0, <1>1, NoEnqueueDuringFlush
  <2>2. SameOps(outbox'[d], outbox[d]) /\ ~Enqueues(d)' /\ told'[d] # <<>>
    BY <1>0, <1>3, <2>1 DEF SameOps, Enqueues, FlowInv, EnqueuesInTurn
  <2> QED
    BY <1>0, <1>3, <2>2, EditsStayFit DEF Known, served, screen, copy
<1>6. OthersRest(d)' /\ AnswersFit(d)'
  BY <1>0, <1>1, <1>3, <1>4 DEF Known, OthersRest, AnswersFit, OneAck, served
<1>7. MessagesFit(d)' /\ CacheFits(d)'
  BY <1>0, <1>1, <1>3 DEF Known, MessagesFit, CacheFits, Current, served, incoming
<1> QED
  BY <1>5, <1>6, <1>7 DEF AloneFits

LEMMA FinishBatchFits ==
    ASSUME FlowInv, NEW d \in Devices, PatientAt(d), AloneFits(d), FinishBatch(d)
    PROVE  AloneFits(d)'
<1>0. Known(d) /\ TypeOK /\ PatientDevice(d)
  BY WhatIsKnown DEF Known
<1>1. /\ UNCHANGED <<served, requests, screen, cache, entry, acks, stored, told, incoming>>
      /\ at[d] = "store" /\ acks[d] = {} /\ at'[d] = "select"
      /\ \A e \in Devices \ {d} : outbox'[e] = outbox[e]
      /\ outbox'[d] = WithoutBatch(d) /\ batch[d] = outbox[d]
  BY <1>0 DEF FinishBatch, PatientDevice, TypeOK
<1>2. outbox'[d] = {}
  BY <1>1 DEF WithoutBatch
<1>3. Undecided(d) = {} /\ entering[d] = <<>> /\ ~Enqueues(d)
  <2>1. \A r \in outbox[d] : ledger[r.op.id] # "none"
    BY <1>0, <1>1 DEF PatientDevice, Settles
  <2> QED
    BY <1>0, <1>1, <2>1, NoEnqueueDuringFlush DEF Undecided
<1>4. EditsFit(d)'
  <2>1. Undecided(d)' = {} /\ ~Enqueues(d)' /\ ~Deciding(d)
    BY <1>1, <1>2, <1>3 DEF Undecided, Enqueues, Deciding, entry
  <2> QED
    BY <1>0, <1>1, <1>3, <2>1 DEF Known, EditsFit, served, screen, copy, entry
<1>5. OthersRest(d)' /\ AnswersFit(d)'
  BY <1>0, <1>1, <1>2 DEF Known, OthersRest, AnswersFit, OneAck, served, entry
<1>6. MessagesFit(d)' /\ CacheFits(d)'
  BY <1>0, <1>1, ServerVersion DEF Known, MessagesFit, CacheFits, Current, served, incoming
<1> QED
  BY <1>4, <1>5, <1>6 DEF AloneFits

\* The canvas is told of a version the server has or had, with nothing queued.
LEMMA NotifyFits ==
    ASSUME NEW d \in Devices, Known(d), NEW v \in MaybeVersion, Current(v), Notify(d, v),
           outbox[d] = {}, UNCHANGED <<server, ledger, outbox, entering, found, reads>>,
           told[d] # <<>> \/ Deciding(d) => told'[d] # <<>> \/ Deciding(d)' \/ v = server
    PROVE  EditsFit(d)'
<1>0. TypeOK /\ EditsFit(d) /\ Undecided(d) = {} /\ SameOps(outbox'[d], outbox[d])
      /\ Enqueues(d)' = Enqueues(d) /\ Undecided(d)' = {}
  BY DEF Known, Undecided, SameOps, Enqueues
<1>1. /\ v # Absent /\ v \in Version /\ v.revision \in Nat /\ v.content \in Contents
      /\ server \in Version /\ server.revision \in Nat
      /\ v = server \/ v.revision < server.revision
  BY ServerVersion DEF Current, MaybeVersion, Version
<1>2. v.revision <= server.revision
  BY <1>1
<1>3. CASE entering[d] # <<>>
  <2>1. 1 \in DOMAIN entering[d] /\ entering[d][1].edit \in Contents
    <3>1. entering[d] \in Seq(Op)
      BY <1>0 DEF TypeOK
    <3>2. 1 \in DOMAIN entering[d] /\ entering[d][1] \in Op
      BY <1>3, <3>1
    <3> QED
      BY <3>2 DEF Op
  <2>2. ShowsEdit(d, entering[d][1].edit)
    BY <1>0, <2>1 DEF EditsFit
  <2>3. canvas[d] \in Version /\ canvas[d].revision = server.revision
    BY <1>1, <2>1, <2>2 DEF ShowsEdit, Version
  <2>4. canvas[d] # Absent /\ ~(v.revision > canvas[d].revision)
    BY <1>1, <1>2, <2>3, AbsentIsNoVersion DEF Version
  <2>5. canvas' = canvas /\ unacked' = unacked
    BY <1>1, <2>4 DEF Notify
  <2>6. (\A i \in DOMAIN entering[d] :
            Fits(entering[d][i]) /\ ShowsEdit(d, entering[d][i].edit))'
    BY <1>0, <2>5 DEF EditsFit, Fits, ShowsEdit
  <2>7. (Enqueues(d) /\ found[d] # None => Fits(found[d].op))'
    BY <1>0 DEF EditsFit, Fits
  <2> QED
    BY <1>0, <1>3, <2>6, <2>7 DEF EditsFit
<1>4. CASE entering[d] = <<>>
  <2>1. /\ canvas[d] # Absent /\ canvas[d].content = server.content
        /\ unacked[d] \in {None, server.content}
        /\ \/ canvas[d].revision = server.revision
           \/ /\ canvas[d].revision + 1 = server.revision
              /\ told[d] # <<>> \/ Deciding(d)
    BY <1>0, <1>4 DEF EditsFit
  <2>2. canvas[d].revision \in Nat
    BY <1>0, <2>1 DEF TypeOK, MaybeVersion, Version
  <2>3. (Enqueues(d) /\ found[d] # None => Fits(found[d].op))'
    BY <1>0 DEF EditsFit, Fits
  <2>4. CASE v.revision > canvas[d].revision
    <3>1. v = server
      BY <1>1, <2>1, <2>2, <2>4
    <3>2. Reconciled(canvas[d], v, unacked[d]) = server
      BY <2>1, <3>1 DEF Reconciled
    <3>3. canvas'[d] = server /\ unacked'[d] \in {None, server.content}
      BY <1>0, <1>1, <2>1, <2>2, <2>4, <3>1, <3>2 DEF Notify, Show, TypeOK
    <3> QED
      BY <1>0, <1>1, <1>4, <2>3, <3>3, AbsentIsNoVersion DEF EditsFit, Version
  <2>5. CASE ~(v.revision > canvas[d].revision)
    <3>1. canvas' = canvas /\ unacked' = unacked
      BY <1>1, <2>1, <2>5 DEF Notify
    <3>2. v = server => canvas[d].revision = server.revision
      BY <1>1, <2>1, <2>2, <2>5
    <3> QED
      BY <1>0, <1>4, <2>1, <2>3, <3>1, <3>2 DEF EditsFit
  <2> QED
    BY <2>4, <2>5
<1> QED
  BY <1>3, <1>4

LEMMA TellFits ==
    ASSUME FlowInv, NEW d \in Devices, PatientAt(d), AloneFits(d), NothingDue(d) \/ Tell(d)
    PROVE  AloneFits(d)'
<1>0. Known(d) /\ TypeOK /\ PatientDevice(d) /\ AnswersFit(d) /\ EditsFit(d)
  BY WhatIsKnown DEF Known
<1>1. /\ UNCHANGED <<served, requests, cache, outbox, entry, acks, stored, incoming>>
      /\ at[d] \in {"select", "tell"} /\ at'[d] \in {"tell", "idle"}
  BY <1>0 DEF NothingDue, Tell, TypeOK
<1>2. ~Deciding(d)
  BY <1>1 DEF Deciding
<1>3. CASE told[d] = <<>> \/ NothingDue(d)
  <2>1. UNCHANGED <<copy, told>> /\ (told[d] # <<>> => at'[d] = "tell")
    BY <1>0, <1>3 DEF NothingDue, Tell, screen, TypeOK
  <2>2. SameOps(outbox'[d], outbox[d]) /\ Enqueues(d)' = Enqueues(d)
    BY <1>1 DEF SameOps, Enqueues, entry
  <2>3. EditsFit(d)'
    BY <1>0, <1>1, <1>2, <2>1, <2>2, EditsStayFit DEF copy, served, entry
  <2>4. AnswersFit(d)'
    BY <1>0, <1>1, <2>1 DEF AnswersFit, OneAck, served
  <2> QED
    BY <1>0, <1>1, <2>3, <2>4
       DEF AloneFits, Known, OthersRest, MessagesFit, CacheFits, Current, served, incoming, entry
<1>4. CASE told[d] # <<>> /\ Tell(d)
  <2>1. told[d] = <<server>> /\ outbox[d] = {}
    BY <1>0, <1>1, <1>4 DEF AnswersFit
  <2>2. Notify(d, server) /\ told'[d] = <<>>
    BY <1>0, <1>4, <2>1 DEF Tell, TypeOK
  <2>3. EditsFit(d)'
    BY <1>0, <1>1, <2>1, <2>2, ServerVersion, NotifyFits DEF served, entry, MaybeVersion
  <2>4. AnswersFit(d)'
    BY <1>0, <1>1, <2>2 DEF AnswersFit, OneAck, served
  <2> QED
    BY <1>0, <1>1, <2>3, <2>4
       DEF AloneFits, Known, OthersRest, MessagesFit, CacheFits, Current, served, incoming, entry
<1> QED
  BY <1>3, <1>4

\* A request whose change is still to be broadcast is about rows in the outbox.
LEMMA QuietServer ==
    ASSUME NEW d \in Devices, PatientAt(d), Known(d), outbox[d] = {}
    PROVE  at[d] \notin {"wait", "store", "write"} /\ requests = {}
<1>1. at[d] \notin {"wait", "store", "write"}
  BY DEF Known, AnswersFit
<1> QED
  BY <1>1, OnlyRequest DEF Awaits

LEMMA HandleEventFits ==
    ASSUME FlowInv, NEW d \in Devices, PatientAt(d), AloneFits(d), HandleEvent(d)
    PROVE  AloneFits(d)'
<1>0. Known(d) /\ TypeOK /\ EditsFit(d) /\ MessagesFit(d) /\ CacheFits(d)
  BY WhatIsKnown DEF Known
<1>1. /\ UNCHANGED <<served, requests, outbox, entry, flushing, hydration>>
      /\ channel[d] # <<>> /\ channel'[d] = Tail(channel[d])
  BY <1>0 DEF HandleEvent, TypeOK
<1>2. /\ channel[d] \in Seq(MaybeVersion) /\ Len(channel[d]) \in Nat /\ Len(channel[d]) >= 1
      /\ Head(channel[d]) = channel[d][1] /\ channel[d][1] \in MaybeVersion
      /\ 1 \in DOMAIN channel[d] /\ Current(channel[d][1])
      /\ Len(channel'[d]) = Len(channel[d]) - 1
      /\ \A i \in 1..Len(channel[d]) - 1 : channel'[d][i] = channel[d][i + 1]
  <2>1. channel[d] \in Seq(MaybeVersion)
    BY <1>0 DEF TypeOK
  <2>2. /\ Len(channel[d]) \in Nat /\ Len(channel[d]) >= 1 /\ 1 \in DOMAIN channel[d]
        /\ Head(channel[d]) = channel[d][1] /\ channel[d][1] \in MaybeVersion
        /\ Len(Tail(channel[d])) = Len(channel[d]) - 1
        /\ \A i \in 1..Len(channel[d]) - 1 : Tail(channel[d])[i] = channel[d][i + 1]
    BY <1>1, <2>1
  <2> QED
    BY <1>0, <1>1, <2>1, <2>2 DEF MessagesFit
<1>3. (\A i \in DOMAIN channel[d] : Current(channel[d][i]))'
  <2>1. DOMAIN channel'[d] = 1..Len(channel[d]) - 1
    BY <1>1, <1>2
  <2>2. \A i \in 1..Len(channel[d]) - 1 : Current(channel[d][i + 1])
    <3>1. \A i \in 1..Len(channel[d]) - 1 : i + 1 \in DOMAIN channel[d]
      BY <1>2
    <3> QED
      BY <1>0, <3>1 DEF MessagesFit
  <2> QED
    BY <1>1, <1>2, <2>1, <2>2 DEF Current, served
<1>4. channel'[d] # <<>> => channel'[d][Len(channel'[d])] = channel[d][Len(channel[d])]
  <2>1. \A n \in Nat : n >= 1 => n = 1 \/ n - 1 \in 1..n - 1
    OBVIOUS
  <2>2. Len(channel[d]) = 1 => channel'[d] = <<>>
    <3>1. Tail(channel[d]) \in Seq(MaybeVersion)
      BY <1>1, <1>2
    <3>2. Len(channel[d]) = 1 => Len(Tail(channel[d])) = 0
      BY <1>1, <1>2
    <3> QED
      BY <1>1, <3>1, <3>2, EmptySeq
  <2>3. channel'[d] # <<>> => Len(channel[d]) - 1 \in 1..Len(channel[d]) - 1
    BY <1>2, <2>1, <2>2, Zenon
  <2>4. \A i \in 1..Len(channel[d]) - 1 : i = Len(channel[d]) - 1 => i + 1 = Len(channel[d])
    BY <1>2
  <2> QED
    BY <1>2, <2>3, <2>4
<1>5. MessagesFit(d)'
  BY <1>0, <1>1, <1>3, <1>4 DEF MessagesFit, Current, served
<1>6. OthersRest(d)' /\ AnswersFit(d)'
  BY <1>0, <1>1 DEF Known, OthersRest, AnswersFit, OneAck, served, entry, flushing
<1>7. CASE outbox[d] # {}
  <2>1. UNCHANGED <<cache, copy>>
    BY <1>7 DEF HandleEvent, NoQueuedWork
  <2>2. SameOps(outbox'[d], outbox[d]) /\ Enqueues(d)' = Enqueues(d) /\ Deciding(d)' = Deciding(d)
    BY <1>1 DEF SameOps, Enqueues, Deciding, entry, flushing
  <2>3. EditsFit(d)'
    BY <1>0, <1>1, <2>1, <2>2, EditsStayFit DEF copy, served, entry, flushing
  <2>4. CacheFits(d)'
    BY <1>0, <1>1, <1>7, <2>1 DEF CacheFits, served, flushing
  <2> QED
    BY <1>5, <1>6, <2>3, <2>4 DEF AloneFits
<1>8. CASE outbox[d] = {}
  <2>1. cache'[d] = channel[d][1] /\ Notify(d, channel[d][1])
    BY <1>0, <1>2, <1>8 DEF HandleEvent, NoQueuedWork, TypeOK
  <2>2. at[d] \notin {"wait", "store", "write"} /\ requests = {}
    BY <1>0, <1>8, QuietServer
  <2>3. EditsFit(d)'
    <3>1. Deciding(d)' = Deciding(d)
      BY <1>1 DEF Deciding, flushing
    <3> QED
      BY <1>0, <1>1, <1>2, <1>8, <2>1, <3>1, NotifyFits DEF served, entry, flushing
  <2>4. cache'[d] = server \/ channel'[d] # <<>>
    <3>1. SUFFICES ASSUME channel'[d] = <<>> PROVE channel[d][1] = server
      BY <2>1
    <3>2. Len(channel[d]) = 1
      BY <1>2, <3>1
    <3> QED
      BY <1>0, <1>1, <2>2, <3>2 DEF MessagesFit
  <2>5. CacheFits(d)'
    BY <1>1, <1>2, <2>1, <2>2, <2>4 DEF CacheFits, Current, served, flushing
  <2> QED
    BY <1>5, <1>6, <2>3, <2>5 DEF AloneFits
<1> QED
  BY <1>7, <1>8

LEMMA HydrateFits ==
    ASSUME FlowInv, NEW d \in Devices, PatientAt(d), AloneFits(d),
           Hydrate(d) \/ Reconnect(d) \/ HydrationAnswered(d)
    PROVE  AloneFits(d)'
<1>0. Known(d) /\ TypeOK
  BY WhatIsKnown DEF Known
<1>1. UNCHANGED <<served, requests, screen, cache, outbox, entry, flushing>>
  BY DEF Hydrate, Reconnect, HydrationAnswered
<1>2. /\ hydration'[d] # None /\ hydration'[d].got \in {None, server}
      /\ channel'[d] = channel[d] \/ channel'[d] = <<>>
  <2>1. CASE Hydrate(d) \/ Reconnect(d)
    <3>1. hydration'[d] = [from |-> RevisionOf(cache[d]), got |-> None]
      BY <1>0, <2>1 DEF Hydrate, Reconnect, BeginHydration, TypeOK
    <3>2. channel'[d] = channel[d] \/ channel'[d] = <<>>
      BY <1>0, <2>1 DEF Hydrate, Reconnect, TypeOK
    <3>3. RevisionOf(cache[d]) \in Int
      BY <1>0 DEF RevisionOf, MaybeVersion, Version, TypeOK
    <3>4. hydration'[d] \in Hydration
      BY <3>1, <3>3 DEF Hydration
    <3> QED
      BY <3>1, <3>2, <3>4, NoneIsFresh
  <2>2. CASE HydrationAnswered(d)
    <3>1. hydration'[d] = [hydration[d] EXCEPT !.got = server] /\ hydration[d] \in Hydration
      BY <1>0, <2>2 DEF HydrationAnswered, TypeOK
    <3> QED
      <4>1. hydration'[d] \in Hydration /\ hydration'[d].got = server
        BY <1>0, <3>1 DEF Hydration, TypeOK
      <4>2. channel'[d] = channel[d]
        BY <2>2 DEF HydrationAnswered
      <4> QED
        BY <4>1, <4>2, NoneIsFresh
  <2> QED
    BY <2>1, <2>2
<1>3. EditsFit(d)'
  <2>1. SameOps(outbox'[d], outbox[d]) /\ Enqueues(d)' = Enqueues(d) /\ Deciding(d)' = Deciding(d)
    BY <1>1 DEF SameOps, Enqueues, Deciding, entry, flushing
  <2> QED
    BY <1>0, <1>1, <2>1, EditsStayFit DEF Known, served, screen, copy, entry, flushing
<1>4. OthersRest(d)' /\ AnswersFit(d)'
  BY <1>0, <1>1 DEF Known, OthersRest, AnswersFit, OneAck, served, entry, flushing
<1>5. MessagesFit(d)'
  BY <1>0, <1>1, <1>2, ServerVersion DEF Known, MessagesFit, Current, served
<1>6. CacheFits(d)'
  BY <1>0, <1>1, <1>2 DEF Known, CacheFits, Current, served, flushing
<1> QED
  BY <1>3, <1>4, <1>5, <1>6 DEF AloneFits

LEMMA HydrationAppliesFits ==
    ASSUME FlowInv, NEW d \in Devices, PatientAt(d), AloneFits(d), HydrationApplies(d)
    PROVE  AloneFits(d)'
<1>0. Known(d) /\ TypeOK /\ EditsFit(d) /\ MessagesFit(d) /\ CacheFits(d)
  BY WhatIsKnown DEF Known
<1>1. /\ UNCHANGED <<served, requests, outbox, entry, flushing, channel>>
      /\ hydration'[d] = None /\ hydration[d] # None /\ hydration[d].got # None
  BY <1>0 DEF HydrationApplies, TypeOK
<1>2. PICK got \in Version : got = hydration[d].got /\ Current(got) /\ got # Absent
  <2>1. hydration[d].got \in MaybeVersion
    BY <1>0, <1>1 DEF TypeOK, Hydration
  <2>2. Current(hydration[d].got)
    BY <1>0, <1>1 DEF MessagesFit
  <2> QED
    BY <2>1, <2>2 DEF MaybeVersion, Current
<1>3. OthersRest(d)' /\ AnswersFit(d)'
  BY <1>0, <1>1 DEF Known, OthersRest, AnswersFit, OneAck, served, entry, flushing
<1>4. MessagesFit(d)'
  BY <1>0, <1>1 DEF MessagesFit, Current, served
<1>5. SameOps(outbox'[d], outbox[d]) /\ Enqueues(d)' = Enqueues(d) /\ Deciding(d)' = Deciding(d)
  BY <1>1 DEF SameOps, Enqueues, Deciding, entry, flushing
<1>6. CASE outbox[d] = {} /\ AnswerReplaces(d, got)
  <2>1. cache'[d] = got /\ Notify(d, got)
    BY <1>0, <1>2, <1>6 DEF HydrationApplies, NoQueuedWork, TypeOK
  <2>2. EditsFit(d)'
    BY <1>0, <1>1, <1>2, <1>5, <1>6, <2>1, NotifyFits DEF served, entry, flushing, MaybeVersion
  <2>3. got = server \/ channel[d] # <<>>
    <3>1. SUFFICES ASSUME cache[d] = server PROVE FALSE
      BY <1>0, <1>1, <1>2, <1>6 DEF CacheFits
    <3>2. got.revision > server.revision
      BY <1>2, <1>6, <3>1, <1>0 DEF AnswerReplaces, RevisionOf, MessagesFit
    <3> QED
      BY <1>0, <1>2, <3>2, ServerVersion DEF Current, Version
  <2>4. at[d] \notin {"wait", "store", "write"}
    BY <1>0, <1>6, QuietServer
  <2>5. CacheFits(d)'
    BY <1>1, <1>2, <2>1, <2>3, <2>4 DEF CacheFits, Current, served, flushing
  <2> QED
    BY <1>3, <1>4, <2>2, <2>5 DEF AloneFits
<1>7. CASE ~(outbox[d] = {} /\ AnswerReplaces(d, got))
  <2>1. UNCHANGED <<cache, copy>>
    BY <1>2, <1>7 DEF HydrationApplies, NoQueuedWork
  <2>2. EditsFit(d)'
    BY <1>0, <1>1, <1>5, <2>1, EditsStayFit DEF copy, served, entry, flushing
  <2>3. outbox[d] = {} => cache[d] = server \/ channel[d] # <<>>
    <3>1. SUFFICES ASSUME outbox[d] = {}, got = server PROVE cache[d] = server
      BY <1>0, <1>1, <1>2 DEF CacheFits
    <3>2. Current(cache[d]) /\ ~(server.revision > RevisionOf(cache[d]))
      BY <1>0, <1>2, <1>7, <3>1 DEF CacheFits, AnswerReplaces
    <3>3. cache[d] \in Version
      BY <1>0, <3>2 DEF Current, TypeOK, MaybeVersion
    <3> QED
      BY <1>0, <3>2, <3>3, ServerVersion DEF Current, RevisionOf, Version
  <2>4. CacheFits(d)'
    BY <1>0, <1>1, <2>1, <2>3 DEF CacheFits, Current, served, flushing
  <2> QED
    BY <1>3, <1>4, <2>2, <2>4 DEF AloneFits
<1> QED
  BY <1>6, <1>7

LEMMA BroadcastFits ==
    ASSUME FlowInv, NEW d \in Devices, PatientAt(d), AloneFits(d), NEW q \in requests, Broadcast(q)
    PROVE  AloneFits(d)'
<1>0. Known(d) /\ TypeOK /\ q \in Request
  BY WhatIsKnown DEF Known, TypeOK
<1>1. q.outbound = server /\ q.todo = {} /\ q.acks # {} /\ OneAck(q.acks) /\ q.device = d
  BY <1>0 DEF Broadcast, Known, AnswersFit, OthersRest
<1>2. PICK answer \in Request :
          /\ answer.device = d /\ answer.todo = {} /\ answer.acks = q.acks
          /\ answer.outbound = None /\ requests' = {answer}
  <2>1. \A p \in requests : p = q
    BY <1>0, OnlyRequest
  <2>2. [q EXCEPT !.outbound = None] \in Request
    BY <1>0 DEF Request
  <2> QED
    BY <1>0, <1>1, <2>1, <2>2 DEF Broadcast, Request
<1>3. UNCHANGED <<served, screen, cache, outbox, entry, flushing, hydration>>
      /\ channel'[d] = Append(channel[d], server)
  BY <1>1 DEF Broadcast
<1>4. EditsFit(d)'
  <2>1. SameOps(outbox'[d], outbox[d]) /\ Enqueues(d)' = Enqueues(d) /\ Deciding(d)' = Deciding(d)
    BY <1>3 DEF SameOps, Enqueues, Deciding, entry, flushing
  <2> QED
    BY <1>0, <1>3, <2>1, EditsStayFit DEF Known, served, screen, copy, entry, flushing
<1>5. OthersRest(d)'
  BY <1>0, <1>2, <1>3 DEF Known, OthersRest, entry
<1>6. AnswersFit(d)'
  <2>1. OneAck(q.acks)'
    BY <1>1, <1>3 DEF OneAck, served
  <2>2. OneAck(acks[d])' <=> OneAck(acks[d])
    BY <1>3 DEF OneAck, served, flushing
  <2> QED
    BY <1>0, <1>1, <1>2, <1>3, <2>1, <2>2 DEF Known, AnswersFit, served, flushing
<1>7. MessagesFit(d)' /\ channel'[d] # <<>>
  <2>1. channel[d] \in Seq(MaybeVersion) /\ server \in MaybeVersion
    BY <1>0 DEF TypeOK
  <2>2. /\ channel'[d] # <<>> /\ channel'[d][Len(channel'[d])] = server
        /\ \A i \in DOMAIN channel'[d] :
              \/ channel'[d][i] = server
              \/ i \in DOMAIN channel[d] /\ channel'[d][i] = channel[d][i]
    BY <1>3, <2>1
  <2>3. (\A i \in DOMAIN channel[d] : Current(channel[d][i]))'
    BY <1>0, <1>3, <2>2, ServerVersion DEF Known, MessagesFit, Current, served
  <2> QED
    BY <1>0, <1>3, <2>2, <2>3 DEF Known, MessagesFit, Current, served
<1>8. CacheFits(d)'
  BY <1>0, <1>3, <1>7 DEF Known, CacheFits, Current, served, flushing
<1> QED
  BY <1>4, <1>5, <1>6, <1>7, <1>8 DEF AloneFits

\* The one operation of the only editor fits, and is applied.
LEMMA IngestApplies ==
    ASSUME FlowInv, NEW d \in Devices, PatientAt(d), Known(d), NEW q \in requests, Ingest(q)
    PROVE  \E r \in outbox[d], answer \in Request :
               /\ outbox[d] = {r} /\ Undecided(d) = {r} /\ r \in Row
               /\ requests' = {answer} /\ answer.device = d /\ answer.todo = {}
               /\ answer.outbound = server'
               /\ answer.acks = {[id |-> r.op.id, status |-> "applied", object |-> server']}
               /\ server' = [revision |-> server.revision + 1, content |-> r.op.edit]
               /\ ledger'[r.op.id] = "applied"
               /\ parked' = parked
<1>0. TypeOK /\ PatientDevice(d) /\ Awaits(d, q) /\ PatientRequest(q) /\ q.device = d
      /\ \A p \in requests : p = q
  BY OnlyRequest DEF Known
<1>1. PICK op \in q.todo, answer \in Request : op \in Op /\ IngestsTo(q, op, answer)
  BY <1>0, IngestEffect
<1>2. at[d] = "wait" /\ batch[d] = outbox[d]
  BY <1>0 DEF Awaits, PatientDevice
<1>3. PICK r \in outbox[d] : r.op.id = op.id
  <2>1. IsSent(d, op.id)
    BY <1>0, <1>1 DEF FlowInv, BatchInv
  <2> QED
    BY <1>2, <2>1 DEF IsSent
<1>4. outbox[d] = {r}
  BY <1>0, <1>3 DEF PatientDevice
<1>5. q.todo = {r.op} /\ q.acks = {} /\ ledger[r.op.id] = "none" /\ op = r.op /\ r \in Row
  BY <1>0, <1>1, <1>2, <1>3, RowIds DEF PatientRequest
<1>6. Undecided(d) = {r} /\ Fits(op)
  <2>1. Undecided(d) = {r}
    BY <1>4, <1>5 DEF Undecided
  <2> QED
    BY <1>5, <2>1 DEF Known, EditsFit
<1>7. Applies(server, op.base) /\ server # Absent /\ op.kind = "upsert"
      /\ NextRevision(server) = server.revision + 1
  BY <1>6 DEF Known, MessagesFit, Applies, Fits, NextRevision
<1>8. /\ server' = [revision |-> server.revision + 1, content |-> op.edit]
      /\ ledger' = [ledger EXCEPT ![op.id] = "applied"]
      /\ answer.acks = {[id |-> op.id, status |-> "applied", object |-> server']}
      /\ answer.outbound = server' /\ parked' = parked
      /\ answer.todo = {} /\ answer.device = d
      /\ requests' = (requests \ {q}) \cup {answer}
  BY <1>0, <1>1, <1>5, <1>7 DEF IngestsTo, Decided
<1>9. requests' = {answer} /\ ledger'[op.id] = "applied"
  BY <1>0, <1>1, <1>8 DEF TypeOK, Op
<1> QED
  BY <1>3, <1>4, <1>5, <1>6, <1>8, <1>9

LEMMA IngestFits ==
    ASSUME FlowInv, NEW d \in Devices, PatientAt(d), AloneFits(d), NEW q \in requests, Ingest(q)
    PROVE  AloneFits(d)'
<1>0. Known(d) /\ TypeOK /\ PatientDevice(d) /\ at[d] = "wait"
  BY WhatIsKnown, OnlyRequest DEF Known, Awaits
<1>1. PICK r \in outbox[d], answer \in Request :
               /\ outbox[d] = {r} /\ Undecided(d) = {r} /\ r \in Row
               /\ requests' = {answer} /\ answer.device = d /\ answer.todo = {}
               /\ answer.outbound = server'
               /\ answer.acks = {[id |-> r.op.id, status |-> "applied", object |-> server']}
               /\ server' = [revision |-> server.revision + 1, content |-> r.op.edit]
               /\ ledger'[r.op.id] = "applied"
               /\ parked' = parked
  BY <1>0, IngestApplies
<1>2. UNCHANGED <<screen, cache, outbox, entry, flushing, incoming>>
  BY DEF Ingest
<1>3. /\ server \in Version /\ server.revision \in Nat /\ server' \in Version
      /\ server'.revision = server.revision + 1 /\ server'.content = r.op.edit
      /\ server' # Absent /\ server' # None
  <2>1. r.op.edit \in Contents
    BY <1>0, <1>1, RowIds
  <2>2. server \in Version /\ server.revision \in Nat
    BY <1>0, ServerVersion
  <2>3. server' \in Version
    BY <1>1, <2>1, <2>2 DEF Version
  <2> QED
    BY <1>1, <2>2, <2>3, AbsentIsNoVersion, NoneIsFresh DEF Version, MaybeVersion
<1>4. entering[d] = <<>> /\ ~Enqueues(d)
  BY <1>0, NoEnqueueDuringFlush
<1>5. EditsFit(d)'
  <2>1. ShowsEdit(d, r.op.edit)
    BY <1>0, <1>1, <1>4 DEF Known, EditsFit
  <2>2. canvas[d] \in Version /\ canvas[d].revision = server.revision
        /\ canvas[d].content = r.op.edit /\ unacked[d] = r.op.edit
    BY <1>0, <1>1, <1>3, <2>1, RowIds DEF ShowsEdit, Version
  <2>3. canvas[d] # Absent
    BY <2>2, AbsentIsNoVersion DEF Version
  <2>4. Undecided(d)' = {}
    BY <1>1, <1>2 DEF Undecided
  <2>5. Deciding(d)' /\ ~Enqueues(d)' /\ entering'[d] = <<>>
    BY <1>0, <1>2, <1>4 DEF Deciding, Enqueues, flushing, entry
  <2>6. \A i \in DOMAIN entering'[d] : FALSE
    BY <2>5
  <2>7. /\ canvas'[d] # Absent /\ canvas'[d].content = server'.content
        /\ unacked'[d] = server'.content
        /\ canvas'[d].revision + 1 = server'.revision
    BY <1>2, <1>3, <2>2, <2>3 DEF screen, copy
  <2> QED
    BY <2>4, <2>5, <2>6, <2>7 DEF EditsFit
<1>6. OthersRest(d)'
  BY <1>0, <1>1, <1>2 DEF Known, OthersRest, entry
<1>7. AnswersFit(d)'
  <2>1. OneAck(answer.acks)' /\ answer.acks # {}
    BY <1>1 DEF OneAck
  <2>2. told'[d] = <<>> /\ at'[d] = "wait" /\ outbox'[d] # {}
    BY <1>0, <1>1, <1>2 DEF Known, AnswersFit, flushing
  <2> QED
    BY <1>0, <1>1, <2>1, <2>2 DEF Known, AnswersFit
<1>8. MessagesFit(d)'
  <2>1. \A v \in MaybeVersion : Current(v) => Current(v)'
    BY <1>3 DEF Current, MaybeVersion, Version
  <2>2. (\A i \in DOMAIN channel[d] : Current(channel[d][i]))'
    <3>1. \A i \in DOMAIN channel[d] : channel[d][i] \in MaybeVersion /\ Current(channel[d][i])
      BY <1>0 DEF Known, MessagesFit, TypeOK
    <3> QED
      BY <1>2, <2>1, <3>1 DEF incoming, Current
  <2>3. (hydration[d] # None => hydration[d].got = None \/ Current(hydration[d].got))'
    <3>1. hydration[d] # None => hydration[d].got \in MaybeVersion \cup {None}
      BY <1>0 DEF TypeOK, Hydration
    <3>2. hydration[d] # None => hydration[d].got = None \/ Current(hydration[d].got)
      BY <1>0 DEF Known, MessagesFit
    <3> QED
      BY <1>2, <2>1, <3>1, <3>2 DEF incoming, Current
  <2>4. answer.outbound # None
    BY <1>1, <1>3
  <2> QED
    BY <1>1, <1>3, <2>2, <2>3, <2>4 DEF MessagesFit
<1>9. CacheFits(d)'
  BY <1>0, <1>1, <1>2 DEF CacheFits, flushing
<1> QED
  BY <1>5, <1>6, <1>7, <1>8, <1>9 DEF AloneFits

LEMMA OwnStepFits ==
    ASSUME Patient, FlowInv, NEW d \in Devices, PatientAt(d), AloneFits(d), Steps(d)
    PROVE  AloneFits(d)'
<1>0. Known(d) /\ ~ResponsesGetLost
  BY WhatIsKnown DEF Patient
<1>1. ~StoreConflict(d) /\ ~WriteUnechoed(d)
  <2>1. SUFFICES ASSUME at[d] = "store", acks[d] # {}
                 PROVE  NextAck(d).status # "conflict" /\ NextAck(d).object # Absent
    BY DEF StoreConflict, WriteUnechoed
  <2> QED
    BY <1>0, <2>1, FirstAck DEF Known, AnswersFit, OneAck, MessagesFit
<1> QED
  BY <1>0, <1>1, EnqueueReadsFits, EnqueueFits, BackoffEndsFits, PickBatchFits, SendBatchFits,
     AnsweredFits, FlushFailsFits, ReadDraftFits, WriteAckedFits, FinishBatchFits, TellFits,
     HandleEventFits, HydrateFits, HydrationAppliesFits DEF Steps

\* Who made which edit changes with an edit only, and deletions are counted.
LEMMA WhileUndisturbed ==
    ASSUME FlowInv, [Next]_vars, NEW d \in Devices, UndisturbedAt(d)'
    PROVE  /\ UndisturbedAt(d)
           /\ \A e \in Devices : ~Delete(e) /\ (Upsert(e) => e = d)
           /\ \A e \in crossed' \ crossed : PickBatch(e)
<1>0. TypeOK
  BY DEF FlowInv
<1>1. ASSUME NEW e \in Devices, Delete(e) PROVE budget'["deletes"] # 0
  BY <1>0, <1>1 DEF Delete, TypeOK
<1>2. ASSUME NEW e \in Devices, Upsert(e) PROVE e = d /\ Alone(d)
  <2>1. PICK new \in Contents : author[new] = None /\ author' = [author EXCEPT ![new] = e]
    BY <1>0, <1>2, EditAuthors
  <2>2. author'[new] = e /\ \A j \in Contents : j # new => author'[j] = author[j]
    BY <1>0, <2>1 DEF TypeOK
  <2> QED
    BY <2>1, <2>2, NoneIsFresh DEF Alone, UndisturbedAt
<1>3. ASSUME NEW e \in Devices, Works(e) \/ Listens(e) \/ Meets(e)
      PROVE  /\ UndisturbedAt(d)
             /\ crossed' = crossed \/ (PickBatch(e) /\ crossed' \subseteq crossed \cup {e})
  <2>1. ~Delete(e)
    BY <1>1 DEF UndisturbedAt
  <2>2. Alone(d)
    BY <1>2, <1>3, <2>1, OnlyEditsAuthor DEF Alone, UndisturbedAt
  <2>3. budget'["deletes"] = budget["deletes"]
    BY <1>0, <1>3, <2>1
       DEF Works, Listens, Meets, EnqueueReads, Enqueue, BackoffEnds, PickBatch, SendBatch,
           Answered, FlushFails, StoreConflict, ReadDraft, WriteAcked, WriteUnechoed, FinishBatch,
           NothingDue, Tell, HandleEvent, HydrationAnswered, HydrationApplies, Hydrate, Reconnect,
           Reload, Upsert, TypeOK
  <2>4. crossed' = crossed \/ (PickBatch(e) /\ crossed' \subseteq crossed \cup {e})
    BY <1>3, <2>1
       DEF Works, Listens, Meets, EnqueueReads, Enqueue, BackoffEnds, PickBatch, SendBatch,
           Answered, FlushFails, StoreConflict, ReadDraft, WriteAcked, WriteUnechoed, FinishBatch,
           NothingDue, Tell, HandleEvent, HydrationAnswered, HydrationApplies, Hydrate, Reconnect,
           Reload, Upsert, Edited, edits
  <2>5. d \notin crossed
    BY <1>3, StepsLeaveOthers DEF UndisturbedAt
  <2> QED
    BY <2>2, <2>3, <2>4, <2>5 DEF UndisturbedAt
<1>4. CASE \/ \E q \in requests : Ingest(q) \/ Broadcast(q) \/ Discard(q)
           \/ UNCHANGED vars
  <2>1. UNCHANGED <<author, crossed, budget>>
    BY <1>4 DEF Ingest, Broadcast, Discard, vars, edits
  <2> QED
    BY <1>1, <1>2, <2>1 DEF UndisturbedAt, Alone
<1> QED
  BY <1>1, <1>2, <1>3, <1>4 DEF Next, Server, UndisturbedAt

LEMMA AloneStep ==
    ASSUME Patient, FlowInv, PatientInv, AloneInv, [Next]_vars
    PROVE  AloneInv'
<1> SUFFICES ASSUME NEW d \in Devices, UndisturbedAt(d)' PROVE (AloneFits(d) /\ crossed = {})'
  BY DEF AloneInv
<1>0. TypeOK /\ ~EditsDuringFlush /\ ~ResponsesGetLost
  BY DEF FlowInv, Patient
<1>1. \A e \in Devices : ~Delete(e) /\ (Upsert(e) => e = d)
  BY WhileUndisturbed
<1>2. AloneFits(d) /\ crossed = {} /\ \A e \in Devices : PatientAt(e)
  BY WhileUndisturbed DEF AloneInv, PatientInv
<1>3. crossed' = {}
  <2>1. ASSUME NEW e \in crossed' PROVE FALSE
    <3>1. e \in Devices /\ e # d /\ PickBatch(e)
      BY <1>2, <2>1, WhileUndisturbed, FlowStep DEF FlowInv, TypeOK, UndisturbedAt
    <3>2. outbox[e] = {}
      BY <1>2, <3>1 DEF AloneFits, OthersRest
    <3> QED
      BY <3>1, <3>2 DEF PickBatch, Due
  <2> QED
    BY <2>1
<1>4. CASE \E e \in Devices : Upsert(e)
  <2>1. AloneFits(d)'
    BY <1>0, <1>1, <1>2, <1>4, UpsertFits
  <2> QED
    BY <1>3, <2>1
<1>5. CASE \E e \in Devices : Steps(e)
  <2>1. PICK e \in Devices : Steps(e)
    BY <1>5
  <2>2. CASE e = d
    <3>1. AloneFits(d)'
      BY <1>2, <2>1, <2>2, OwnStepFits
    <3> QED
      BY <1>3, <3>1
  <2>3. CASE e # d
    <3>1. /\ UNCHANGED <<server, ledger, parked, requests>>
          /\ outbox'[e] = {} /\ entering'[e] = <<>>
          /\ \A f \in Devices \ {e} : DeviceRests(f)
      BY <1>2, <2>1, <2>3, RestingStep DEF AloneFits
    <3>2. OthersRest(d)'
      BY <1>2, <3>1 DEF AloneFits, OthersRest, DeviceRests
    <3>3. AloneFits(d)'
      BY <1>2, <2>3, <3>1, <3>2, RestIsFitting
    <3> QED
      BY <1>3, <3>3
  <2> QED
    BY <2>2, <2>3
<1>6. CASE Server
  <2>1. PICK q \in requests : Ingest(q) \/ Broadcast(q) \/ Discard(q)
    BY <1>6 DEF Server
  <2>2. ~Discard(q)
    <3>1. PatientAt(q.device) /\ q.device \in Devices
      BY <1>0, <1>2 DEF TypeOK, Request
    <3> QED
      BY <3>1 DEF Discard, PatientAt, PatientRequest
  <2>3. AloneFits(d)'
    BY <1>2, <2>1, <2>2, IngestFits, BroadcastFits
  <2> QED
    BY <1>3, <2>3
<1>7. CASE UNCHANGED vars
  <2>1. DeviceRests(d) /\ UNCHANGED <<server, ledger, parked, requests>> /\ OthersRest(d)'
    BY <1>2, <1>7 DEF vars, DeviceRests, AloneFits, OthersRest, served, screen, copy, entry,
                      flushing, incoming
  <2>2. AloneFits(d)'
    BY <1>2, <2>1, RestIsFitting
  <2> QED
    BY <1>3, <2>2
<1>8. \A e \in Devices : ~Reload(e)
  BY <1>0 DEF Reload
<1> QED
  BY <1>1, <1>4, <1>5, <1>6, <1>7, <1>8 DEF Next, Works, Listens, Meets, Steps

\* While users edit between flushes and no response of a decided request is lost, a device
\* that alone edits an object, without deleting it, ends with the server's version in its
\* cache and on its canvas, whatever requests fail, however broadcasts, acknowledgements and
\* hydrations interleave, and whichever sockets break, unless a flush of it read the outbox
\* while an enqueue was under way.
THEOREM OnlyEditorEndsCurrent == Patient /\ Start # Absent => (Spec => []OnlyEditorAgrees)
<1> SUFFICES ASSUME Patient, Start # Absent PROVE Spec => []OnlyEditorAgrees
  OBVIOUS
<1>1. Init => FlowInv /\ IdsInv /\ PatientInv /\ AloneInv
  BY InitialFlow, InitialIds, InitialPatience, InitialAlone
<1>2. FlowInv /\ IdsInv /\ PatientInv /\ AloneInv /\ [Next]_vars
          => (FlowInv /\ IdsInv /\ PatientInv /\ AloneInv)'
  BY FlowStep, IdsStep, PatientStep, AloneStep
<1>3. FlowInv /\ PatientInv /\ AloneInv => OnlyEditorAgrees
  <2> SUFFICES ASSUME FlowInv, PatientInv, AloneInv, NEW d \in Devices, Settled,
                      UndisturbedAt(d)
               PROVE  cache[d] = server /\ canvas[d] = server
    BY DEF OnlyEditorAgrees, Alone, UndisturbedAt
  <2>1. AloneFits(d) /\ Known(d)
    BY WhatIsKnown DEF AloneInv, PatientInv, UndisturbedAt
  <2>2. cache[d] = server
    BY <2>1 DEF AloneFits, CacheFits, Settled
  <2>3. canvas[d] # Absent /\ canvas[d].revision = server.revision
    BY <2>1, CanvasIsCurrent DEF Settled
  <2>4. canvas[d].content = server.content
    BY <2>1 DEF AloneFits, EditsFit, Settled, Undecided
  <2>5. canvas[d] \in Version /\ server \in Version
    BY <2>1, <2>3, ServerVersion DEF Known, TypeOK, MaybeVersion
  <2> QED
    BY <2>2, <2>3, <2>4, <2>5 DEF Version
<1> QED
  BY <1>1, <1>2, <1>3, PTL DEF Spec
=============================================================================
