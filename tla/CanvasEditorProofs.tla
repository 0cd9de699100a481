------------------------- MODULE CanvasEditorProofs -------------------------
(***************************************************************************)
(* Proofs about CanvasEditor for any objects, any notes and caches, any    *)
(* limit of the history and any bounds on edits and remote changes.        *)
(***************************************************************************)
EXTENDS CanvasEditor, SequenceTheorems, FiniteSetTheorems, WellFoundedInduction, TLAPS
-----------------------------------------------------------------------------
(* Positions in a list *)

LEMMA LeastOfNats ==
    ASSUME NEW S \in SUBSET Nat, S # {}
    PROVE  \E m \in S : \A n \in S : m <= n
<1> DEFINE Less == {ss \in Nat \X Nat : ss[1] < ss[2]}
<1>1. IsWellFoundedOn(Less, Nat)
  BY NatLessThanWellFounded DEF OpToRel
<1>2. \A m, n \in Nat : n < m => <<n, m>> \in Less
  OBVIOUS
<1> HIDE DEF Less
<1>3. PICK m \in S : \A n \in S : ~(<<n, m>> \in Less)
  BY <1>1, WFMin
<1>4. ASSUME NEW n \in S PROVE m <= n
  <2>1. m \in Nat /\ n \in Nat
    OBVIOUS
  <2>2. ~(n < m)
    BY <1>2, <1>3, <2>1, Zenon
  <2> QED
    BY <2>1, <2>2
<1> QED
  BY <1>4

LEMMA GreatestOfNats ==
    ASSUME NEW S \in SUBSET Nat, S # {}, NEW bound \in Nat, \A n \in S : n <= bound
    PROVE  \E m \in S : \A n \in S : n <= m
<1>1. PICK m \in {x \in Nat : \A n \in S : n <= x} : \A y \in {x \in Nat : \A n \in S : n <= x} : m <= y
  BY LeastOfNats
<1>2. m \in Nat /\ \A x \in S : x <= m
  BY <1>1
<1>3. ASSUME m \notin S PROVE FALSE
  <2>1. PICK x \in S : TRUE
    OBVIOUS
  <2>2. x \in Nat /\ x < m
    BY <1>2, <1>3, <2>1
  <2>3. m - 1 \in Nat /\ \A y \in S : y <= m - 1
    BY <1>2, <1>3, <2>2
  <2> QED
    BY <1>1, <1>2, <2>3
<1> QED
  BY <1>2, <1>3

Below(S, i) == {j \in S : j < i}

LEMMA BelowIsFinite ==
    ASSUME NEW n \in Nat, NEW S \in SUBSET (1..n), NEW i \in Nat
    PROVE  /\ IsFiniteSet(S) /\ IsFiniteSet(Below(S, i))
           /\ Cardinality(S) \in Nat /\ Cardinality(Below(S, i)) \in Nat
           /\ Cardinality(Below(S, i)) <= Cardinality(S)
           /\ i \in S => Cardinality(Below(S, i)) < Cardinality(S)
<1>1. IsFiniteSet(1..n)
  BY FS_Interval
<1>2. IsFiniteSet(S)
  BY <1>1, FS_Subset
<1>3. Below(S, i) \in SUBSET S
  BY DEF Below
<1>4. /\ IsFiniteSet(Below(S, i))
      /\ Cardinality(Below(S, i)) <= Cardinality(S)
      /\ Cardinality(S) = Cardinality(Below(S, i)) => S = Below(S, i)
  BY <1>2, <1>3, FS_Subset
<1>5. Cardinality(S) \in Nat /\ Cardinality(Below(S, i)) \in Nat
  BY <1>2, <1>4, FS_CardinalityType
<1>6. i \notin Below(S, i)
  BY DEF Below
<1> QED
  BY <1>2, <1>4, <1>5, <1>6

LEMMA BelowGrows ==
    ASSUME NEW n \in Nat, NEW S \in SUBSET (1..n), NEW i \in S, NEW j \in S, i < j
    PROVE  Cardinality(Below(S, i)) < Cardinality(Below(S, j))
<1>1. i \in Nat /\ j \in Nat
  OBVIOUS
<1>2. Below(S, j) \in SUBSET (1..n) /\ i \in Below(S, j)
  BY DEF Below
<1>3. Below(Below(S, j), i) = Below(S, i)
  <2>1. \A x \in S : x \in Nat
    OBVIOUS
  <2>2. \A x \in S : x < i => x < j
    BY <1>1, <2>1
  <2> QED
    BY <2>2 DEF Below
<1> QED
  BY <1>1, <1>2, <1>3, BelowIsFinite

LEMMA NthExists ==
    ASSUME NEW n \in Nat, NEW S \in SUBSET (1..n), NEW k \in 1..Cardinality(S)
    PROVE  \E i \in S : Cardinality(Below(S, i)) = k - 1
<1> DEFINE Bad == {m \in 1..Cardinality(S) : \A i \in S : Cardinality(Below(S, i)) # m - 1}
<1>1. IsFiniteSet(S) /\ Cardinality(S) \in Nat
  BY BelowIsFinite
<1> \A x \in S : x \in Nat
  OBVIOUS
<1>2. SUFFICES ASSUME k \in Bad PROVE FALSE
  OBVIOUS
<1>3. PICK b \in Bad : \A m \in Bad : b <= m
  <2>1. Bad \in SUBSET Nat
    BY <1>1
  <2> QED
    BY <1>2, <2>1, LeastOfNats
<1>4. b \in 1..Cardinality(S) /\ \A i \in S : Cardinality(Below(S, i)) # b - 1
  BY <1>3
<1>5. CASE b = 1
  <2>1. S # {}
    BY <1>1, <1>4, <1>5, FS_EmptySet
  <2>2. PICK m \in S : \A x \in S : m <= x
    BY <2>1, LeastOfNats
  <2>3. Below(S, m) = {}
    <3>1. m \in Nat /\ \A x \in S : ~(x < m)
      BY <2>2
    <3> QED
      BY <3>1 DEF Below
  <2> QED
    BY <1>4, <1>5, <2>3, FS_EmptySet
<1>6. CASE b # 1
  <2>1. b - 1 \in 1..Cardinality(S) /\ b - 1 \notin Bad
    <3>1. b - 1 \in 1..Cardinality(S) /\ ~(b <= b - 1)
      BY <1>1, <1>4, <1>6
    <3> QED
      BY <1>3, <3>1
  <2>2. PICK i \in S : Cardinality(Below(S, i)) = (b - 1) - 1
    BY <2>1
  <2> DEFINE Upto == Below(S, i) \cup {i}
             Above == S \ Upto
  <2>3. i \in Nat /\ IsFiniteSet(Below(S, i)) /\ i \notin Below(S, i)
    <3>1. i \in Nat
      OBVIOUS
    <3>2. IsFiniteSet(Below(S, i))
      BY <3>1, BelowIsFinite
    <3>3. i \notin Below(S, i)
      BY <3>1 DEF Below
    <3> QED
      BY <3>1, <3>2, <3>3
  <2>4. Cardinality(Upto) = b - 1
    <3>1. Cardinality(Upto) = Cardinality(Below(S, i)) + 1
      BY <2>3, FS_AddElement
    <3> QED
      BY <1>1, <1>4, <2>2, <3>1
  <2>5. Above # {}
    <3>1. Upto \in SUBSET S
      BY DEF Below
    <3>2. Above = {} => Upto = S
      BY <3>1
    <3>3. Cardinality(Upto) # Cardinality(S)
      BY <1>1, <1>4, <2>4
    <3> HIDE DEF Above, Upto
    <3> QED
      BY <3>2, <3>3
  <2>6. PICK m \in Above : \A x \in Above : m <= x
    <3>1. Above \in SUBSET Nat
      OBVIOUS
    <3> QED
      BY <2>5, <3>1, LeastOfNats
  <2>7. Below(S, m) = Upto
    <3>1. m \in S /\ m \in Nat /\ i < m
      BY <2>3, <2>6 DEF Below
    <3>2. \A x \in S : x < m => x \in Upto
      <4>1. ASSUME NEW x \in S, x < m, x \notin Upto PROVE FALSE
        <5>1. x \in Above /\ x \in Nat
          BY <4>1
        <5> QED
          BY <2>6, <3>1, <4>1, <5>1
      <4> QED
        BY <4>1
    <3>3. \A x \in Upto : x \in S /\ x < m
      BY <2>3, <3>1 DEF Below
    <3> QED
      BY <3>2, <3>3 DEF Below
  <2> QED
    BY <1>4, <2>4, <2>6, <2>7
<1> QED
  BY <1>5, <1>6

LEMMA NthIs ==
    ASSUME NEW n \in Nat, NEW S \in SUBSET (1..n), NEW k \in 1..Cardinality(S)
    PROVE  Nth(S, k) \in S /\ Cardinality(Below(S, Nth(S, k))) = k - 1
<1>1. \E i \in S : Cardinality(Below(S, i)) = k - 1
  BY NthExists
<1>2. Nth(S, k) = CHOOSE i \in S : Cardinality(Below(S, i)) = k - 1
  BY DEF Nth, Below
<1> QED
  BY <1>1, <1>2

\* What stands at the positions S of a list: each of them once, and nothing else.
LEMMA AtPositions ==
    ASSUME NEW T, NEW s \in Seq(T), NEW S \in SUBSET DOMAIN s
    PROVE  /\ At(s, S) \in Seq(T)
           /\ \A k \in DOMAIN At(s, S) : Nth(S, k) \in S /\ At(s, S)[k] = s[Nth(S, k)]
           /\ \A j, k \in DOMAIN At(s, S) : Nth(S, j) = Nth(S, k) => j = k
           /\ \A i \in S : \E k \in DOMAIN At(s, S) : Nth(S, k) = i
<1>1. Len(s) \in Nat /\ S \in SUBSET (1..Len(s)) /\ DOMAIN s = 1..Len(s)
  OBVIOUS
<1>2. Cardinality(S) \in Nat
  BY <1>1, BelowIsFinite
<1>3. \A k \in 1..Cardinality(S) : Nth(S, k) \in S /\ Cardinality(Below(S, Nth(S, k))) = k - 1
  BY <1>1, NthIs
<1>4. DOMAIN At(s, S) = 1..Cardinality(S)
  BY DEF At
<1>5. \A k \in 1..Cardinality(S) : At(s, S)[k] = s[Nth(S, k)] /\ s[Nth(S, k)] \in T
  <2>1. \A i \in S : s[i] \in T
    BY <1>1
  <2> QED
    BY <1>3, <2>1 DEF At
<1>6. At(s, S) \in Seq(T)
  <2>1. At(s, S) = [k \in 1..Cardinality(S) |-> s[Nth(S, k)]]
    BY DEF At
  <2>2. At(s, S) \in [1..Cardinality(S) -> T]
    BY <1>5, <2>1
  <2> QED
    BY <1>2, <2>2
<1>7. \A j, k \in 1..Cardinality(S) : Nth(S, j) = Nth(S, k) => j = k
  <2>1. ASSUME NEW j \in 1..Cardinality(S), NEW k \in 1..Cardinality(S), Nth(S, j) = Nth(S, k)
        PROVE  j = k
    <3>1. j - 1 = k - 1
      BY <1>3, <2>1
    <3> QED
      BY <1>2, <3>1
  <2> QED
    BY <2>1
<1>8. \A i \in S : \E k \in 1..Cardinality(S) : Nth(S, k) = i
  <2>1. TAKE i \in S
  <2> DEFINE k == Cardinality(Below(S, i)) + 1
  <2>2. Cardinality(Below(S, i)) \in Nat /\ Cardinality(Below(S, i)) < Cardinality(S) /\ i \in Nat
    <3>1. i \in Nat
      BY <1>1
    <3> QED
      BY <1>1, <3>1, BelowIsFinite
  <2>3. k \in 1..Cardinality(S) /\ k - 1 = Cardinality(Below(S, i))
    BY <1>2, <2>2
  <2>4. Nth(S, k) \in S /\ Cardinality(Below(S, Nth(S, k))) = Cardinality(Below(S, i))
    BY <1>3, <2>3
  <2>5. ASSUME NEW j \in S, Cardinality(Below(S, j)) = Cardinality(Below(S, i)) PROVE j = i
    <3>1. i \in Nat /\ j \in Nat /\ Cardinality(Below(S, j)) \in Nat
      BY <1>1, <2>2, <2>5
    <3>2. i < j => FALSE
      <4>1. i < j => Cardinality(Below(S, i)) < Cardinality(Below(S, j))
        BY <1>1, BelowGrows
      <4> QED
        BY <2>2, <2>5, <4>1
    <3>3. j < i => FALSE
      <4>1. j < i => Cardinality(Below(S, j)) < Cardinality(Below(S, i))
        BY <1>1, BelowGrows
      <4> QED
        BY <2>2, <2>5, <4>1
    <3> QED
      BY <3>1, <3>2, <3>3
  <2> HIDE DEF k
  <2> QED
    BY <2>3, <2>4, <2>5
<1> QED
  BY <1>3, <1>4, <1>5, <1>6, <1>7, <1>8
-----------------------------------------------------------------------------
(* The version of an object on a list *)

Once(objects, id) ==
    \A i, j \in DOMAIN objects : objects[i].id = id /\ objects[j].id = id => i = j
On(objects, id) == IF id \in IdsOf(objects) THEN Content(Find(objects, id)) ELSE <<>>
Version == {<<>>} \cup (0..Places - 1) \X Texts

LEMMA ObjectFields ==
    ASSUME NEW o \in Object
    PROVE  /\ o.id \in Ids /\ o.place \in 0..Places - 1 /\ o.text \in Texts
           /\ o.revision \in 0..MaxRevision /\ o.home \in Note
           /\ Content(o) \in Version /\ Content(o) # <<>>
           /\ Content(o)[1] = o.place /\ Content(o)[2] = o.text
BY DEF Object, Content, Version

LEMMA ObjectIsSome == None \notin Object
<1>1. "kind" \in DOMAIN None
  BY DEF None
<1>2. ASSUME NEW o \in Object PROVE "kind" \notin DOMAIN o
  BY DEF Object
<1> QED
  BY <1>1, <1>2

LEMMA Finding ==
    ASSUME NEW objects \in Seq(Object), NEW id \in IdsOf(objects)
    PROVE  /\ \E i \in DOMAIN objects : objects[i].id = id /\ Find(objects, id) = objects[i]
           /\ Find(objects, id) \in Object /\ Find(objects, id).id = id
<1> DEFINE Places1 == {i \in DOMAIN objects : objects[i].id = id}
           First(i) == objects[i].id = id /\ \A j \in DOMAIN objects : objects[j].id = id => i <= j
<1>1. Places1 # {} /\ Places1 \in SUBSET Nat
  BY DEF IdsOf
<1>2. PICK m \in Places1 : \A j \in Places1 : m <= j
  BY <1>1, LeastOfNats
<1>3. m \in DOMAIN objects /\ First(m)
  BY <1>2
<1>4. Find(objects, id) = objects[CHOOSE i \in DOMAIN objects : First(i)]
  BY DEF Find
<1> HIDE DEF First
<1>5. PICK c \in DOMAIN objects : First(c) /\ Find(objects, id) = objects[c]
  BY <1>3, <1>4
<1>6. objects[c] \in Object /\ objects[c].id = id
  BY <1>5 DEF First
<1> QED
  BY <1>5, <1>6

LEMMA FindingOnce ==
    ASSUME NEW objects \in Seq(Object), NEW id, Once(objects, id),
           NEW i \in DOMAIN objects, objects[i].id = id
    PROVE  /\ id \in IdsOf(objects) /\ Find(objects, id) = objects[i]
           /\ On(objects, id) = Content(objects[i])
<1>1. id \in IdsOf(objects)
  BY DEF IdsOf
<1>2. PICK j \in DOMAIN objects : objects[j].id = id /\ Find(objects, id) = objects[j]
  BY <1>1, Finding
<1>3. j = i
  BY <1>2 DEF Once
<1> QED
  BY <1>1, <1>2, <1>3 DEF On

LEMMA OnIs ==
    ASSUME NEW objects \in Seq(Object), NEW id
    PROVE  /\ On(objects, id) \in Version
           /\ On(objects, id) = <<>> <=> id \notin IdsOf(objects)
           /\ id \in IdsOf(objects) => On(objects, id) = Content(Find(objects, id))
<1>1. ASSUME id \in IdsOf(objects)
      PROVE  On(objects, id) = Content(Find(objects, id)) /\ Find(objects, id) \in Object
  BY <1>1, Finding DEF On
<1>2. ASSUME id \notin IdsOf(objects) PROVE On(objects, id) = <<>> /\ <<>> \in Version
  BY <1>2 DEF On, Version
<1> QED
  BY <1>1, <1>2, ObjectFields

LEMMA IdsAreIds ==
    ASSUME NEW objects \in Seq(Object)
    PROVE  IdsOf(objects) \subseteq Ids /\ IsFiniteSet(IdsOf(objects))
<1>1. IdsOf(objects) \subseteq Ids
  <2>1. \A i \in DOMAIN objects : objects[i] \in Object
    OBVIOUS
  <2> QED
    BY <2>1, ObjectFields DEF IdsOf
<1>2. [i \in 1..Len(objects) |-> objects[i].id] \in Surjection(1..Len(objects), IdsOf(objects))
  BY DEF Surjection, IdsOf
<1>3. IsFiniteSet(1..Len(objects))
  BY FS_Interval
<1> QED
  BY <1>1, <1>2, <1>3, FS_Surjection

\* Lists that differ in the objects, not in their ids and places.
LEMMA MappedIs ==
    ASSUME NEW objects \in Seq(Object), NEW news \in Seq(Object), DOMAIN news = DOMAIN objects,
           \A i \in DOMAIN objects : news[i].id = objects[i].id
    PROVE  /\ IdsOf(news) = IdsOf(objects)
           /\ \A id : Once(objects, id) => Once(news, id)
           /\ \A id : Once(objects, id) /\ id \in IdsOf(objects) =>
                 \E i \in DOMAIN objects : /\ objects[i].id = id /\ Find(objects, id) = objects[i]
                                           /\ Find(news, id) = news[i]
                                           /\ On(news, id) = Content(news[i])
<1>1. IdsOf(news) = IdsOf(objects)
  BY DEF IdsOf
<1>2. \A id : Once(objects, id) => Once(news, id)
  BY DEF Once
<1>3. ASSUME NEW id, Once(objects, id), id \in IdsOf(objects)
      PROVE  \E i \in DOMAIN objects : /\ objects[i].id = id /\ Find(objects, id) = objects[i]
                                       /\ Find(news, id) = news[i]
                                       /\ On(news, id) = Content(news[i])
  <2>1. PICK i \in DOMAIN objects : objects[i].id = id /\ Find(objects, id) = objects[i]
    BY <1>3, Finding
  <2>2. Once(news, id) /\ i \in DOMAIN news /\ news[i].id = id
    BY <1>2, <1>3, <2>1
  <2>3. Find(news, id) = news[i] /\ On(news, id) = Content(news[i])
    BY <2>2, FindingOnce
  <2> QED
    BY <2>1, <2>3
<1> QED
  BY <1>1, <1>2, <1>3

LEMMA WithoutIs ==
    ASSUME NEW objects \in Seq(Object), NEW ids
    PROVE  /\ Without(objects, ids) \in Seq(Object)
           /\ IdsOf(Without(objects, ids)) = IdsOf(objects) \ ids
           /\ \A id : Once(objects, id) =>
                 /\ Once(Without(objects, ids), id)
                 /\ On(Without(objects, ids), id) = IF id \in ids THEN <<>> ELSE On(objects, id)
<1> DEFINE S == {i \in DOMAIN objects : objects[i].id \notin ids}
           news == Without(objects, ids)
<1>1. news = At(objects, S) /\ S \in SUBSET DOMAIN objects
  BY DEF Without
<1>3. \A i \in S : i \in DOMAIN objects /\ objects[i].id \notin ids
  OBVIOUS
<1>4. \A i \in DOMAIN objects : objects[i].id \notin ids => i \in S
  OBVIOUS
<1> HIDE DEF S, news
<1>2. /\ news \in Seq(Object)
      /\ \A k \in DOMAIN news : Nth(S, k) \in S /\ news[k] = objects[Nth(S, k)]
      /\ \A j, k \in DOMAIN news : Nth(S, j) = Nth(S, k) => j = k
      /\ \A i \in S : \E k \in DOMAIN news : Nth(S, k) = i
  BY <1>1, AtPositions
<1>5. IdsOf(news) = IdsOf(objects) \ ids
  <2>1. ASSUME NEW k \in DOMAIN news PROVE news[k].id \in IdsOf(objects) \ ids
    BY <1>2, <1>3 DEF IdsOf
  <2>2. ASSUME NEW i \in DOMAIN objects, objects[i].id \notin ids
        PROVE  \E k \in DOMAIN news : news[k].id = objects[i].id
    BY <1>2, <1>4, <2>2
  <2> QED
    BY <2>1, <2>2 DEF IdsOf
<1>6. ASSUME NEW id, Once(objects, id)
      PROVE  Once(news, id) /\ On(news, id) = IF id \in ids THEN <<>> ELSE On(objects, id)
  <2>1. Once(news, id)
    BY <1>2, <1>3, <1>6 DEF Once
  <2>2. CASE id \in IdsOf(news)
    <3>1. PICK k \in DOMAIN news : news[k].id = id
      BY <2>2 DEF IdsOf
    <3>2. On(news, id) = Content(news[k])
      BY <1>2, <2>1, <3>1, FindingOnce
    <3>3. Nth(S, k) \in DOMAIN objects /\ objects[Nth(S, k)].id = id
      BY <1>2, <1>3, <3>1
    <3>4. On(objects, id) = Content(objects[Nth(S, k)])
      BY <1>6, <3>3, FindingOnce
    <3> QED
      BY <1>2, <1>5, <2>1, <2>2, <3>2, <3>4, <3>1
  <2>3. CASE id \notin IdsOf(news)
    BY <1>5, <2>1, <2>3 DEF On
  <2> QED
    BY <2>2, <2>3
<1> QED
  BY <1>2, <1>5, <1>6 DEF news

LEMMA CatIs ==
    ASSUME NEW a \in Seq(Object), NEW b \in Seq(Object)
    PROVE  /\ a \o b \in Seq(Object)
           /\ IdsOf(a \o b) = IdsOf(a) \cup IdsOf(b)
           /\ \A id : Once(a, id) /\ Once(b, id) /\ (id \notin IdsOf(a) \/ id \notin IdsOf(b)) =>
                 /\ Once(a \o b, id)
                 /\ On(a \o b, id) = IF id \in IdsOf(a) THEN On(a, id) ELSE On(b, id)
<1> DEFINE c == a \o b
<1>1. /\ c \in Seq(Object) /\ Len(c) = Len(a) + Len(b)
      /\ DOMAIN c = 1..Len(a) + Len(b) /\ DOMAIN a = 1..Len(a) /\ DOMAIN b = 1..Len(b)
      /\ Len(a) \in Nat /\ Len(b) \in Nat
  OBVIOUS
<1>2. \A i \in 1..Len(a) : i \in DOMAIN c /\ c[i] = a[i]
  BY <1>1
<1>3. \A i \in 1..Len(b) : Len(a) + i \in DOMAIN c /\ c[Len(a) + i] = b[i]
  BY <1>1
<1>4. \A k \in DOMAIN c : k \in 1..Len(a) \/ \E i \in 1..Len(b) : k = Len(a) + i
  <2>1. ASSUME NEW k \in 1..Len(a) + Len(b), k \notin 1..Len(a) PROVE \E i \in 1..Len(b) : k = Len(a) + i
    <3>1. k - Len(a) \in 1..Len(b) /\ k = Len(a) + (k - Len(a))
      BY <1>1, <2>1
    <3> QED
      BY <3>1
  <2> QED
    BY <1>1, <2>1
<1> HIDE DEF c
<1>5. IdsOf(c) = IdsOf(a) \cup IdsOf(b)
  <2>1. ASSUME NEW k \in DOMAIN c PROVE c[k].id \in IdsOf(a) \cup IdsOf(b)
    BY <1>1, <1>2, <1>3, <1>4 DEF IdsOf
  <2>2. ASSUME NEW i \in DOMAIN a PROVE a[i].id \in IdsOf(c)
    BY <1>1, <1>2 DEF IdsOf
  <2>3. ASSUME NEW i \in DOMAIN b PROVE b[i].id \in IdsOf(c)
    BY <1>1, <1>3 DEF IdsOf
  <2>4. IdsOf(c) \subseteq IdsOf(a) \cup IdsOf(b)
    BY <2>1 DEF IdsOf
  <2>5. IdsOf(a) \cup IdsOf(b) \subseteq IdsOf(c)
    <3>1. IdsOf(a) \subseteq IdsOf(c)
      <4> HIDE DEF c
      <4> QED
        BY <2>2 DEF IdsOf
    <3>2. IdsOf(b) \subseteq IdsOf(c)
      BY <2>3 DEF IdsOf
    <3> QED
      BY <3>1, <3>2
  <2> QED
    BY <2>4, <2>5
<1>6. ASSUME NEW id, Once(a, id), Once(b, id), id \notin IdsOf(a) \/ id \notin IdsOf(b)
      PROVE  Once(c, id) /\ On(c, id) = IF id \in IdsOf(a) THEN On(a, id) ELSE On(b, id)
  <2>1. ASSUME NEW j \in DOMAIN c, NEW k \in DOMAIN c, c[j].id = id, c[k].id = id PROVE j = k
    <3>1. CASE id \notin IdsOf(a)
      <4>1. \A i \in 1..Len(a) : a[i].id # id
        BY <1>1, <3>1 DEF IdsOf
      <4>2. PICK m \in 1..Len(b), n \in 1..Len(b) : j = Len(a) + m /\ k = Len(a) + n
        BY <1>2, <1>4, <2>1, <4>1
      <4>3. b[m].id = id /\ b[n].id = id
        BY <1>3, <2>1, <4>2
      <4> QED
        BY <1>1, <1>6, <4>2, <4>3 DEF Once
    <3>2. CASE id \notin IdsOf(b)
      <4>1. \A i \in 1..Len(b) : b[i].id # id
        BY <1>1, <3>2 DEF IdsOf
      <4>2. j \in 1..Len(a) /\ k \in 1..Len(a)
        BY <1>3, <1>4, <2>1, <4>1
      <4> QED
        BY <1>1, <1>2, <1>6, <2>1, <4>2 DEF Once
    <3> QED
      BY <1>6, <3>1, <3>2
  <2>2. Once(c, id)
    BY <2>1 DEF Once
  <2>3. CASE id \in IdsOf(a)
    <3>1. PICK i \in DOMAIN a : a[i].id = id
      BY <2>3 DEF IdsOf
    <3>2. On(a, id) = Content(a[i])
      BY <1>6, <3>1, FindingOnce
    <3>3. i \in DOMAIN c /\ c[i] = a[i]
      BY <1>1, <1>2, <3>1
    <3>4. On(c, id) = Content(c[i])
      BY <1>1, <2>2, <3>1, <3>3, FindingOnce
    <3> QED
      BY <2>2, <2>3, <3>2, <3>3, <3>4
  <2>4. CASE id \notin IdsOf(a) /\ id \in IdsOf(b)
    <3>1. PICK i \in DOMAIN b : b[i].id = id
      BY <2>4 DEF IdsOf
    <3>2. On(b, id) = Content(b[i])
      BY <1>6, <3>1, FindingOnce
    <3>3. Len(a) + i \in DOMAIN c /\ c[Len(a) + i] = b[i]
      BY <1>1, <1>3, <3>1
    <3>4. On(c, id) = Content(c[Len(a) + i])
      BY <1>1, <2>2, <3>1, <3>3, FindingOnce
    <3> QED
      BY <2>2, <2>4, <3>2, <3>3, <3>4
  <2>5. CASE id \notin IdsOf(a) /\ id \notin IdsOf(b)
    BY <1>5, <2>2, <2>5 DEF On
  <2> QED
    BY <2>3, <2>4, <2>5
<1> QED
  BY <1>1, <1>5, <1>6 DEF c

LEMMA AppendIs ==
    ASSUME NEW objects \in Seq(Object), NEW o \in Object
    PROVE  /\ Append(objects, o) \in Seq(Object)
           /\ IdsOf(Append(objects, o)) = IdsOf(objects) \cup {o.id}
           /\ \A id : Once(objects, id) /\ o.id \notin IdsOf(objects) =>
                 /\ Once(Append(objects, o), id)
                 /\ On(Append(objects, o), id) = IF id = o.id THEN Content(o) ELSE On(objects, id)
<1>1. /\ <<o>> \in Seq(Object) /\ DOMAIN <<o>> = 1..1 /\ <<o>>[1] = o
      /\ Append(objects, o) = objects \o <<o>>
  OBVIOUS
<1> DEFINE one == <<o>>
<1> HIDE DEF one
<1>2. one \in Seq(Object) /\ DOMAIN one = 1..1 /\ one[1] = o /\ Append(objects, o) = objects \o one
  BY <1>1 DEF one
<1>3. IdsOf(one) = {o.id} /\ \A id : Once(one, id)
  BY <1>2 DEF IdsOf, Once
<1>4. On(one, o.id) = Content(o)
  BY <1>2, <1>3, FindingOnce
<1>5. \A id : id # o.id => On(one, id) = <<>>
  BY <1>3 DEF On
<1>6. /\ objects \o one \in Seq(Object)
      /\ IdsOf(objects \o one) = IdsOf(objects) \cup IdsOf(one)
      /\ \A id : Once(objects, id) /\ Once(one, id) /\ (id \notin IdsOf(objects) \/ id \notin IdsOf(one)) =>
            /\ Once(objects \o one, id)
            /\ On(objects \o one, id) = IF id \in IdsOf(objects) THEN On(objects, id) ELSE On(one, id)
  BY <1>2, CatIs
<1>7. ASSUME NEW id, Once(objects, id), o.id \notin IdsOf(objects)
      PROVE  /\ Once(objects \o one, id)
             /\ On(objects \o one, id) = IF id = o.id THEN Content(o) ELSE On(objects, id)
  <2>1. id \notin IdsOf(objects) => On(objects, id) = <<>>
    BY DEF On
  <2> QED
    BY <1>3, <1>4, <1>5, <1>6, <1>7, <2>1
<1> QED
  BY <1>2, <1>3, <1>6, <1>7

\* The objects of a function of their ids, one after another.
LEMMA ListedIs ==
    ASSUME NEW f, IsFiniteSet(DOMAIN f), \A id \in DOMAIN f : f[id] \in Object /\ f[id].id = id
    PROVE  LET news == SetToSeq({f[id] : id \in DOMAIN f})
           IN /\ news \in Seq(Object)
              /\ IdsOf(news) = DOMAIN f
              /\ \A id : Once(news, id) /\ On(news, id) = IF id \in DOMAIN f THEN Content(f[id]) ELSE <<>>
<1> DEFINE S == {f[id] : id \in DOMAIN f}
           news == SetToSeq(S)
<1>1. IsFiniteSet(S)
  <2>1. [id \in DOMAIN f |-> f[id]] \in Surjection(DOMAIN f, S)
    BY DEF Surjection
  <2> QED
    BY <2>1, FS_Surjection
<1>2. \A o \in S : o \in Object /\ o.id \in DOMAIN f /\ f[o.id] = o
  OBVIOUS
<1>3. \A id \in DOMAIN f : f[id] \in S
  OBVIOUS
<1> HIDE DEF S
<1>4. Cardinality(S) \in Nat /\ ExistsBijection(1..Cardinality(S), S)
  BY <1>1, FS_CardinalityType
<1>5. news \in [1..Cardinality(S) -> S] /\ IsInjective(news)
  <2>1. PICK g \in Bijection(1..Cardinality(S), S) : TRUE
    BY <1>4 DEF ExistsBijection
  <2>2. g \in [1..Cardinality(S) -> S] /\ IsInjective(g)
    BY <2>1 DEF Bijection, Injection, IsInjective
  <2> QED
    BY <2>2 DEF SetToSeq
<1> HIDE DEF news
<1>6. news \in Injection(1..Cardinality(S), S)
  BY <1>5 DEF Injection, IsInjective
<1>7. news \in Surjection(1..Cardinality(S), S)
  <2>1. Cardinality(1..Cardinality(S)) = Cardinality(S)
    BY <1>4, FS_Interval
  <2> QED
    BY <1>1, <1>6, <2>1, FS_Injection
<1>8. news \in Seq(Object) /\ DOMAIN news = 1..Cardinality(S)
  BY <1>2, <1>4, <1>5
<1>9. \A o \in S : \E i \in DOMAIN news : news[i] = o
  BY <1>7, <1>8 DEF Surjection
<1>10. \A i \in DOMAIN news : news[i] \in S
  BY <1>5, <1>8
<1>11. \A i, j \in DOMAIN news : news[i] = news[j] => i = j
  BY <1>5, <1>8 DEF IsInjective
<1>12. IdsOf(news) = DOMAIN f
  <2>1. ASSUME NEW i \in DOMAIN news PROVE news[i].id \in DOMAIN f
    BY <1>2, <1>10
  <2>2. ASSUME NEW id \in DOMAIN f PROVE \E i \in DOMAIN news : news[i].id = id
    BY <1>3, <1>9, <2>2
  <2> QED
    BY <2>1, <2>2 DEF IdsOf
<1>13. ASSUME NEW id PROVE Once(news, id) /\ On(news, id) = IF id \in DOMAIN f THEN Content(f[id]) ELSE <<>>
  <2>1. Once(news, id)
    BY <1>2, <1>10, <1>11 DEF Once
  <2>2. CASE id \in DOMAIN f
    <3>1. PICK i \in DOMAIN news : news[i] = f[id]
      BY <1>3, <1>9, <2>2
    <3>2. news[i].id = id
      BY <2>2, <3>1
    <3>3. On(news, id) = Content(news[i])
      BY <1>8, <2>1, <3>2, FindingOnce
    <3> QED
      BY <2>1, <2>2, <3>1, <3>3
  <2>3. CASE id \notin DOMAIN f
    BY <1>12, <2>1, <2>3 DEF On
  <2> QED
    BY <2>2, <2>3
<1> QED
  BY <1>8, <1>12, <1>13 DEF news, S

LEMMA DeduplicatedIs ==
    ASSUME NEW objects \in Seq(Object)
    PROVE  /\ Deduplicated(objects) \in Seq(Object)
           /\ IdsOf(Deduplicated(objects)) = IdsOf(objects)
           /\ \A id : Once(Deduplicated(objects), id)
           /\ \A id : Once(objects, id) => /\ On(Deduplicated(objects), id) = On(objects, id)
                                           /\ id \in IdsOf(objects) =>
                                                Find(Deduplicated(objects), id) = Find(objects, id)
<1> DEFINE Lasts(id, i) == /\ objects[i].id = id
                           /\ \A j \in DOMAIN objects : objects[j].id = id => j <= i
           last(id) == objects[CHOOSE i \in DOMAIN objects : Lasts(id, i)]
           firsts == {i \in DOMAIN objects : \A j \in 1..i - 1 : objects[j].id # objects[i].id}
           newest == [i \in DOMAIN objects |-> last(objects[i].id)]
           news == Deduplicated(objects)
<1>1. news = At(newest, firsts)
  BY DEF Deduplicated
<1>2. DOMAIN objects = 1..Len(objects) /\ Len(objects) \in Nat
  OBVIOUS
<1>3. ASSUME NEW i \in DOMAIN objects
      PROVE  /\ newest[i] \in Object /\ newest[i].id = objects[i].id
             /\ \E j \in DOMAIN objects : newest[i] = objects[j]
  <2> DEFINE Same == {j \in DOMAIN objects : objects[j].id = objects[i].id}
  <2>1. Same # {} /\ Same \in SUBSET Nat /\ \A j \in Same : j <= Len(objects)
    BY <1>2
  <2>2. PICK m \in Same : \A j \in Same : j <= m
    BY <1>2, <2>1, GreatestOfNats
  <2>3. m \in DOMAIN objects /\ Lasts(objects[i].id, m)
    BY <2>2
  <2>4. newest[i] = objects[CHOOSE k \in DOMAIN objects : Lasts(objects[i].id, k)]
    OBVIOUS
  <2>5. \A k \in DOMAIN objects : Lasts(objects[i].id, k) => objects[k].id = objects[i].id
    OBVIOUS
  <2> HIDE DEF Lasts, newest
  <2>6. PICK k \in DOMAIN objects : Lasts(objects[i].id, k) /\ newest[i] = objects[k]
    BY <2>3, <2>4
  <2> QED
    BY <2>5, <2>6
<1>4. newest \in Seq(Object) /\ DOMAIN newest = DOMAIN objects
  <2>1. newest \in [1..Len(objects) -> Object]
    BY <1>2, <1>3
  <2>2. DOMAIN newest = DOMAIN objects
    OBVIOUS
  <2> HIDE DEF newest
  <2> QED
    BY <1>2, <2>1, <2>2
<1>5. firsts \in SUBSET DOMAIN objects
  OBVIOUS
<1>6. \A i, j \in firsts : objects[i].id = objects[j].id => i = j
  <2>1. ASSUME NEW i \in firsts, NEW j \in firsts, objects[i].id = objects[j].id, i < j PROVE FALSE
    <3>1. i \in 1..j - 1
      BY <1>2, <2>1
    <3> QED
      BY <2>1, <3>1
  <2>2. \A i, j \in firsts : i < j \/ j < i \/ i = j
    BY <1>2
  <2> QED
    BY <2>1, <2>2
<1>7. ASSUME NEW i \in DOMAIN objects PROVE \E j \in firsts : objects[j].id = objects[i].id
  <2> DEFINE Same == {j \in DOMAIN objects : objects[j].id = objects[i].id}
  <2>1. Same # {} /\ Same \in SUBSET Nat
    BY <1>2
  <2>2. PICK m \in Same : \A j \in Same : m <= j
    BY <2>1, LeastOfNats
  <2>3. m \in firsts
    <3>1. ASSUME NEW j \in 1..m - 1, objects[j].id = objects[m].id PROVE FALSE
      <4>1. j \in Same /\ ~(m <= j)
        BY <1>2, <3>1
      <4> QED
        BY <2>2, <4>1
    <3> QED
      BY <3>1
  <2> QED
    BY <2>2, <2>3
<1> HIDE DEF firsts, newest, news
<1>8. /\ news \in Seq(Object)
      /\ \A k \in DOMAIN news : Nth(firsts, k) \in firsts /\ news[k] = newest[Nth(firsts, k)]
      /\ \A j, k \in DOMAIN news : Nth(firsts, j) = Nth(firsts, k) => j = k
      /\ \A i \in firsts : \E k \in DOMAIN news : Nth(firsts, k) = i
  BY <1>1, <1>4, <1>5, AtPositions
<1>9. \A k \in DOMAIN news : /\ Nth(firsts, k) \in firsts /\ Nth(firsts, k) \in DOMAIN objects
                             /\ news[k].id = objects[Nth(firsts, k)].id
                             /\ \E j \in DOMAIN objects : news[k] = objects[j]
  BY SMTT(30), <1>3, <1>5, <1>8
<1>10. IdsOf(news) = IdsOf(objects)
  <2>1. ASSUME NEW k \in DOMAIN news PROVE news[k].id \in IdsOf(objects)
    BY <1>9 DEF IdsOf
  <2>2. ASSUME NEW i \in DOMAIN objects PROVE \E k \in DOMAIN news : news[k].id = objects[i].id
    <3>1. PICK j \in firsts : objects[j].id = objects[i].id
      BY <1>7
    <3>2. PICK k \in DOMAIN news : Nth(firsts, k) = j
      BY <1>8
    <3>3. news[k].id = objects[j].id
      BY <1>9, <3>2
    <3> QED
      BY <3>1, <3>3
  <2> QED
    BY <2>1, <2>2 DEF IdsOf
<1>11. \A id : Once(news, id)
  BY <1>6, <1>8, <1>9 DEF Once
<1>12. ASSUME NEW id, Once(objects, id), id \in IdsOf(objects)
       PROVE  On(news, id) = On(objects, id) /\ Find(news, id) = Find(objects, id)
  <2>1. PICK k \in DOMAIN news : news[k].id = id
    BY <1>10, <1>12 DEF IdsOf
  <2>2. PICK j \in DOMAIN objects : news[k] = objects[j]
    BY <1>9
  <2>3. Find(news, id) = news[k] /\ On(news, id) = Content(news[k])
    BY <1>8, <1>11, <2>1, FindingOnce
  <2>4. Find(objects, id) = objects[j] /\ On(objects, id) = Content(objects[j])
    BY <1>12, <2>1, <2>2, FindingOnce
  <2> QED
    BY <2>2, <2>3, <2>4
<1>13. ASSUME NEW id, id \notin IdsOf(objects) PROVE On(news, id) = On(objects, id)
  BY <1>10, <1>13 DEF On
<1> QED
  BY <1>8, <1>10, <1>11, <1>12, <1>13 DEF news
-----------------------------------------------------------------------------
(* Types *)

Side == {f \in UNION {[S -> Object] : S \in SUBSET Ids} :
            IsFiniteSet(DOMAIN f) /\ \A id \in DOMAIN f : f[id].id = id}
Entry == [before : Side, after : Side]
Gesture == {None}
    \cup [kind : {"move"}, origins : UNION {[S -> 0..Places - 1] : S \in SUBSET Ids}]
    \cup [kind : {"resize"}, object : Object]
    \cup [kind : {"erase"}, removed : Side]

HeldBy(d) == CASE d.kind = "move" -> DOMAIN d.origins
               [] d.kind = "resize" -> {d.object.id}
               [] d.kind = "erase" -> DOMAIN d.removed
               [] OTHER -> {}

HistoryOK(u, r) == u \in Seq(Entry) /\ r \in Seq(Entry) /\ Len(u) + Len(r) <= HistoryLimit

TypeInv ==
    /\ note \in Note /\ seeded \in BOOLEAN
    /\ mirror \in Seq(Object) /\ ref \in Seq(Object)
    /\ drag \in Gesture /\ styled \in Object \cup {None} /\ (drag = None \/ styled = None)
    /\ HistoryOK(undo, redo)
    /\ pending \in [Ids -> Object \cup {None}]
    /\ imports \subseteq [id : Ids, note : Note]
    /\ made \subseteq Ids \X Note
    /\ unrecorded \subseteq Ids /\ tangled \subseteq Ids
    /\ edits \in 0..MaxEdits /\ events \in 0..MaxEvents

LEMMA SideIs ==
    ASSUME NEW f
    PROVE  f \in Side <=> /\ f = [id \in DOMAIN f |-> f[id]] /\ DOMAIN f \subseteq Ids
                          /\ IsFiniteSet(DOMAIN f)
                          /\ \A id \in DOMAIN f : f[id] \in Object /\ f[id].id = id
<1>1. ASSUME f \in Side
      PROVE  /\ f = [id \in DOMAIN f |-> f[id]] /\ DOMAIN f \subseteq Ids
             /\ IsFiniteSet(DOMAIN f)
             /\ \A id \in DOMAIN f : f[id] \in Object /\ f[id].id = id
  <2>1. PICK S \in SUBSET Ids : f \in [S -> Object]
    BY <1>1 DEF Side
  <2> QED
    BY <1>1, <2>1 DEF Side
<1>2. ASSUME f = [id \in DOMAIN f |-> f[id]], DOMAIN f \subseteq Ids,
             IsFiniteSet(DOMAIN f),
             \A id \in DOMAIN f : f[id] \in Object /\ f[id].id = id
      PROVE  f \in Side
  <2>1. f \in [DOMAIN f -> Object]
    BY <1>2
  <2>2. DOMAIN f \in SUBSET Ids
    BY <1>2
  <2>3. f \in UNION {[S -> Object] : S \in SUBSET Ids}
    BY <2>1, <2>2
  <2> QED
    BY <1>2, <2>3 DEF Side
<1> QED
  BY <1>1, <1>2

LEMMA SideOfRef ==
    ASSUME NEW objects \in Seq(Object), NEW S \in SUBSET IdsOf(objects)
    PROVE  [id \in S |-> Find(objects, id)] \in Side
<1> DEFINE f == [id \in S |-> Find(objects, id)]
<1>1. DOMAIN f = S /\ f = [id \in DOMAIN f |-> f[id]] /\ \A id \in S : f[id] = Find(objects, id)
  OBVIOUS
<1>2. S \subseteq Ids /\ IsFiniteSet(S)
  BY IdsAreIds, FS_Subset
<1>3. \A id \in S : Find(objects, id) \in Object /\ Find(objects, id).id = id
  BY Finding
<1> HIDE DEF f
<1>4. f \in Side
  BY <1>1, <1>2, <1>3, SideIs
<1> QED
  BY <1>4 DEF f

LEMMA SmallSides ==
    /\ Nothing \in Side /\ DOMAIN Nothing = {}
    /\ \A o \in Object : Single(o) \in Side /\ DOMAIN Single(o) = {o.id} /\ Single(o)[o.id] = o
<1>1. Nothing \in Side /\ DOMAIN Nothing = {}
  <2>1. DOMAIN Nothing = {} /\ Nothing = [id \in DOMAIN Nothing |-> Nothing[id]]
    BY DEF Nothing
  <2> QED
    BY <2>1, SideIs, FS_EmptySet
<1>2. ASSUME NEW o \in Object
      PROVE  Single(o) \in Side /\ DOMAIN Single(o) = {o.id} /\ Single(o)[o.id] = o
  <2>1. /\ DOMAIN Single(o) = {o.id} /\ Single(o) = [id \in DOMAIN Single(o) |-> Single(o)[id]]
        /\ Single(o)[o.id] = o
    BY DEF Single
  <2>2. o.id \in Ids /\ IsFiniteSet({o.id})
    BY ObjectFields, FS_Singleton
  <2> QED
    BY <2>1, <2>2, SideIs
<1> QED
  BY <1>1, <1>2

LEMMA GestureIs ==
    ASSUME NEW d \in Gesture
    PROVE  /\ d.kind \in {"none", "move", "resize", "erase"}
           /\ d.kind = "none" <=> d = None
           /\ d.kind = "move" => /\ \A id \in DOMAIN d.origins : d.origins[id] \in 0..Places - 1
                                 /\ HeldBy(d) = DOMAIN d.origins
           /\ d.kind = "resize" => d.object \in Object /\ HeldBy(d) = {d.object.id}
           /\ d.kind = "erase" => d.removed \in Side /\ HeldBy(d) = DOMAIN d.removed
           /\ d = None => HeldBy(d) = {}
           /\ HeldBy(d) \subseteq Ids
<1>1. CASE d = None
  BY <1>1 DEF None, HeldBy
<1>2. CASE d \in [kind : {"move"}, origins : UNION {[S -> 0..Places - 1] : S \in SUBSET Ids}]
  <2>1. PICK S \in SUBSET Ids : d.origins \in [S -> 0..Places - 1]
    BY <1>2
  <2> QED
    BY <1>2, <2>1 DEF HeldBy, None
<1>3. CASE d \in [kind : {"resize"}, object : Object]
  <2>1. d.kind = "resize" /\ d.object \in Object /\ d.object.id \in Ids
    BY <1>3, ObjectFields
  <2> QED
    BY <2>1 DEF HeldBy, None
<1>4. CASE d \in [kind : {"erase"}, removed : Side]
  <2>1. d.kind = "erase" /\ d.removed \in Side /\ DOMAIN d.removed \subseteq Ids
    BY <1>4, SideIs
  <2> QED
    BY <2>1 DEF HeldBy, None
<1> QED
  BY <1>1, <1>2, <1>3, <1>4 DEF Gesture

LEMMA HeldIs == Held = HeldBy(drag)
BY DEF Held, HeldBy

LEMMA RecordTypes ==
    ASSUME HistoryOK(undo, redo), NEW b \in Side, NEW a \in Side, Record(b, a)
    PROVE  HistoryOK(undo, redo)'
<1> DEFINE e == [before |-> b, after |-> a]
           longer == Append(undo, e)
<1>1. e \in Entry
  BY DEF Entry
<1>2. undo' = IF Len(longer) > HistoryLimit THEN Tail(longer) ELSE longer
  BY DEF Record
<1>3. redo' = <<>>
  BY DEF Record
<1>4. longer \in Seq(Entry) /\ Len(longer) = Len(undo) + 1 /\ Len(undo) \in Nat /\ Len(redo) \in Nat
  BY <1>1 DEF HistoryOK
<1> HIDE DEF longer
<1>5. Tail(longer) \in Seq(Entry) /\ Len(Tail(longer)) = Len(longer) - 1
  BY <1>4
<1>6. HistoryLimit \in Nat /\ Len(undo) <= HistoryLimit
  BY <1>4, EditorConstants DEF HistoryOK
<1>7. undo' \in Seq(Entry) /\ Len(undo') <= HistoryLimit
  BY <1>2, <1>4, <1>5, <1>6
<1>8. redo' \in Seq(Entry) /\ Len(redo') = 0
  BY <1>3
<1>9. Len(undo') \in Nat
  BY <1>7
<1> QED
  BY <1>6, <1>7, <1>8, <1>9 DEF HistoryOK

LEMMA CommittedTypes ==
    ASSUME pending \in [Ids -> Object \cup {None}], NEW versions \in Side
    PROVE  /\ Committed(versions) \in [Ids -> Object \cup {None}]
           /\ \A id \in Ids : Committed(versions)[id] = IF id \in DOMAIN versions THEN versions[id]
                                                                               ELSE pending[id]
<1>1. \A id \in DOMAIN versions : versions[id] \in Object
  BY SideIs
<1> QED
  BY <1>1 DEF Committed
-----------------------------------------------------------------------------
(* What the handlers show *)

Shows(X) == ref' = X /\ mirror' = X

LEMMA Remainders ==
    ASSUME NEW n \in Nat \ {0}
    PROVE  /\ \A a \in Int : a % n \in 0..n - 1
           /\ \A a \in 0..n - 1 : a % n = a
<1>1. ASSUME NEW a \in Int PROVE a % n \in 0..n - 1
  OBVIOUS
<1>2. ASSUME NEW a \in 0..n - 1 PROVE a % n = a
  OBVIOUS
<1> QED
  BY <1>1, <1>2

LEMMA ShiftedIs ==
    ASSUME NEW a \in 0..Places - 1, NEW b \in 0..Places - 1
    PROVE  Shifted(a, b) \in 0..Places - 1 /\ Shifted(a, 0) = a
<1>1. Places \in Nat \ {0}
  BY EditorConstants
<1>2. a + b \in Int /\ a + 0 = a
  BY <1>1
<1> QED
  BY <1>1, <1>2, Remainders DEF Shifted

\* A list in which g has changed the objects of some ids, and what it shows.
ChangedBy(objects, ids, g, news) ==
    /\ \A o \in Object : o.id \in ids => g[o] \in Object /\ g[o].id = o.id
    /\ DOMAIN news = DOMAIN objects /\ news = [i \in DOMAIN news |-> news[i]]
    /\ \A i \in DOMAIN objects :
           news[i] = IF objects[i].id \in ids THEN g[objects[i]] ELSE objects[i]

Changed(objects, ids, g, news) ==
    /\ news \in Seq(Object) /\ IdsOf(news) = IdsOf(objects)
    /\ \A id : Once(objects, id) => Once(news, id)
    /\ \A id : Once(objects, id) /\ (id \in ids => id \notin IdsOf(objects)) =>
          On(news, id) = On(objects, id)
    /\ \A id : Once(objects, id) /\ id \in ids /\ id \in IdsOf(objects) =>
          LET o == Find(objects, id)
          IN o \in Object /\ o.id = id /\ On(objects, id) = Content(o) /\ On(news, id) = Content(g[o])

LEMMA ChangedIs ==
    ASSUME NEW objects \in Seq(Object), NEW ids, NEW g, NEW news, ChangedBy(objects, ids, g, news)
    PROVE  Changed(objects, ids, g, news)
<1>0. /\ \A o \in Object : o.id \in ids => g[o] \in Object /\ g[o].id = o.id
      /\ DOMAIN news = DOMAIN objects /\ news = [i \in DOMAIN news |-> news[i]]
      /\ \A i \in DOMAIN objects :
             news[i] = IF objects[i].id \in ids THEN g[objects[i]] ELSE objects[i]
  BY DEF ChangedBy
<1>1. \A i \in DOMAIN objects : objects[i] \in Object
  OBVIOUS
<1>2. \A i \in DOMAIN objects : news[i] \in Object /\ news[i].id = objects[i].id
  BY <1>0, <1>1
<1>3. news \in Seq(Object) /\ DOMAIN news = DOMAIN objects
  <2>1. DOMAIN objects = 1..Len(objects) /\ Len(objects) \in Nat
    OBVIOUS
  <2>2. news \in [DOMAIN news -> Object]
    BY <1>0, <1>2
  <2> QED
    BY <1>0, <2>1, <2>2
<1>4. \A i \in DOMAIN objects : news[i] = IF objects[i].id \in ids THEN g[objects[i]] ELSE objects[i]
  BY <1>0
<1>5. /\ IdsOf(news) = IdsOf(objects)
      /\ \A id : Once(objects, id) => Once(news, id)
      /\ \A id : Once(objects, id) /\ id \in IdsOf(objects) =>
            \E i \in DOMAIN objects : /\ objects[i].id = id /\ Find(objects, id) = objects[i]
                                      /\ Find(news, id) = news[i] /\ On(news, id) = Content(news[i])
  BY <1>2, <1>3, MappedIs
<1>6. ASSUME NEW id, Once(objects, id), id \in ids => id \notin IdsOf(objects)
      PROVE  On(news, id) = On(objects, id)
  <2>1. CASE id \in IdsOf(objects)
    <3>1. PICK i \in DOMAIN objects : /\ objects[i].id = id /\ Find(objects, id) = objects[i]
                                      /\ On(news, id) = Content(news[i])
      BY <1>5, <1>6, <2>1
    <3>2. news[i] = objects[i]
      BY <1>4, <1>6, <2>1, <3>1
    <3> QED
      BY <2>1, <3>1, <3>2 DEF On
  <2>2. CASE id \notin IdsOf(objects)
    BY <1>5, <2>2 DEF On
  <2> QED
    BY <2>1, <2>2
<1>7. ASSUME NEW id, Once(objects, id), id \in ids, id \in IdsOf(objects)
      PROVE  /\ Find(objects, id) \in Object /\ Find(objects, id).id = id
             /\ On(objects, id) = Content(Find(objects, id))
             /\ On(news, id) = Content(g[Find(objects, id)])
  <2>1. PICK i \in DOMAIN objects : /\ objects[i].id = id /\ Find(objects, id) = objects[i]
                                    /\ On(news, id) = Content(news[i])
    BY <1>5, <1>7
  <2>2. news[i] = g[objects[i]]
    BY <1>4, <1>7, <2>1
  <2> QED
    BY <1>1, <1>7, <2>1, <2>2 DEF On
<1> QED
  BY <1>3, <1>5, <1>6, <1>7 DEF Changed

\* What a drag has found of an object that is now in version now.
FoundOf(d, id, now) ==
    IF id \notin HeldBy(d) THEN now
    ELSE CASE d.kind = "move" -> <<d.origins[id], now[2]>>
           [] d.kind = "resize" -> Content(d.object)
           [] OTHER -> Content(d.removed[id])

LEMMA MoveShows ==
    ASSUME TypeInv, NEW by \in 0..Places - 1, Move(by)
    PROVE  /\ mirror' = ref' /\ ref' \in Seq(Object) /\ IdsOf(ref') = IdsOf(ref)
           /\ \A id : Once(ref, id) =>
                 /\ Once(ref', id)
                 /\ ~(id \in HeldBy(drag) /\ id \in IdsOf(ref)) => On(ref', id) = On(ref, id)
                 /\ id \in HeldBy(drag) /\ id \in IdsOf(ref) =>
                       On(ref', id) = <<Shifted(FoundOf(drag, id, On(ref, id))[1], by), On(ref, id)[2]>>
<1>1. drag \in Gesture /\ ref \in Seq(Object)
  BY DEF TypeInv
<1>2. CASE drag.kind = "move"
  <2> DEFINE g == [o \in Object |-> [o EXCEPT !.place = Shifted(drag.origins[o.id], by)]]
  <2>1. \A id \in HeldBy(drag) : drag.origins[id] \in 0..Places - 1
    BY <1>1, <1>2, GestureIs
  <2>2. ASSUME NEW o \in Object, o.id \in HeldBy(drag)
        PROVE  /\ g[o] \in Object /\ g[o].id = o.id
               /\ Content(g[o]) = <<Shifted(drag.origins[o.id], by), o.text>>
    <3>1. Shifted(drag.origins[o.id], by) \in 0..Places - 1
      BY <2>1, <2>2, ShiftedIs
    <3>2. g[o] = [o EXCEPT !.place = Shifted(drag.origins[o.id], by)]
      OBVIOUS
    <3> HIDE DEF g
    <3> QED
      BY <3>1, <3>2 DEF Object, Content
  <2>3. /\ ref' = [i \in DOMAIN ref |-> IF ref[i].id \in HeldBy(drag) THEN g[ref[i]] ELSE ref[i]]
        /\ mirror' = ref'
    <3>1. \A i \in DOMAIN ref : g[ref[i]] = [ref[i] EXCEPT !.place = Shifted(drag.origins[ref[i].id], by)]
      BY <1>1
    <3>2. /\ ref' = [i \in DOMAIN ref |-> IF ref[i].id \in Held
                        THEN [ref[i] EXCEPT !.place = Shifted(drag.origins[ref[i].id], by)] ELSE ref[i]]
          /\ mirror' = ref'
      BY <1>2 DEF Move, Show, Mapped
    <3> HIDE DEF g
    <3> QED
      BY <3>1, <3>2, HeldIs
  <2> HIDE DEF g
  <2>4. /\ ref' \in Seq(Object) /\ IdsOf(ref') = IdsOf(ref)
        /\ \A id : Once(ref, id) => Once(ref', id)
        /\ \A id : Once(ref, id) /\ (id \in HeldBy(drag) => id \notin IdsOf(ref)) =>
              On(ref', id) = On(ref, id)
        /\ \A id : Once(ref, id) /\ id \in HeldBy(drag) /\ id \in IdsOf(ref) =>
              LET o == Find(ref, id)
              IN o \in Object /\ o.id = id /\ On(ref, id) = Content(o) /\ On(ref', id) = Content(g[o])
    <3>1. \A o \in Object : o.id \in HeldBy(drag) => g[o] \in Object /\ g[o].id = o.id
      BY <2>2
    <3>2. /\ DOMAIN ref' = DOMAIN ref /\ ref' = [i \in DOMAIN ref' |-> ref'[i]]
          /\ \A i \in DOMAIN ref : ref'[i] = IF ref[i].id \in HeldBy(drag) THEN g[ref[i]] ELSE ref[i]
      BY <2>3
    <3>3. ChangedBy(ref, HeldBy(drag), g, ref')
      BY <3>1, <3>2 DEF ChangedBy
    <3>4. Changed(ref, HeldBy(drag), g, ref')
      BY <1>1, <3>3, ChangedIs
    <3> QED
      BY <3>4 DEF Changed
  <2>5. ASSUME NEW id, Once(ref, id), id \in HeldBy(drag), id \in IdsOf(ref)
        PROVE  On(ref', id) = <<Shifted(FoundOf(drag, id, On(ref, id))[1], by), On(ref, id)[2]>>
    <3>1. FoundOf(drag, id, On(ref, id))[1] = drag.origins[id]
      BY <1>2, <2>5 DEF FoundOf
    <3> QED
      BY <2>2, <2>4, <2>5, <3>1, ObjectFields
  <2> QED
    BY <2>3, <2>4, <2>5
<1>3. CASE drag.kind = "resize"
  <2> DEFINE g == [o \in Object |-> [drag.object EXCEPT !.place = Shifted(drag.object.place, by), !.text = o.text]]
  <2>1. drag.object \in Object /\ HeldBy(drag) = {drag.object.id}
    BY <1>1, <1>3, GestureIs
  <2>2. ASSUME NEW o \in Object, o.id \in HeldBy(drag)
        PROVE  /\ g[o] \in Object /\ g[o].id = o.id
               /\ Content(g[o]) = <<Shifted(drag.object.place, by), o.text>>
    <3>1. Shifted(drag.object.place, by) \in 0..Places - 1 /\ o.text \in Texts /\ o.id = drag.object.id
      BY <2>1, <2>2, ObjectFields, ShiftedIs
    <3>2. g[o] = [drag.object EXCEPT !.place = Shifted(drag.object.place, by), !.text = o.text]
      OBVIOUS
    <3> HIDE DEF g
    <3> QED
      BY <2>1, <3>1, <3>2 DEF Object, Content
  <2>3. /\ ref' = [i \in DOMAIN ref |-> IF ref[i].id \in HeldBy(drag) THEN g[ref[i]] ELSE ref[i]]
        /\ mirror' = ref'
    <3>1. \A i \in DOMAIN ref : g[ref[i]] = [drag.object EXCEPT !.place = Shifted(drag.object.place, by), !.text = ref[i].text]
      <4>1. \A i \in DOMAIN ref : ref[i] \in Object
        BY <1>1
      <4> QED
        BY <4>1
    <3>2. /\ ref' = [i \in DOMAIN ref |-> IF ref[i].id \in Held
                        THEN [drag.object EXCEPT !.place = Shifted(drag.object.place, by), !.text = ref[i].text] ELSE ref[i]]
          /\ mirror' = ref'
      BY <1>3 DEF Move, Show, Mapped
    <3> HIDE DEF g
    <3> QED
      BY <3>1, <3>2, HeldIs
  <2> HIDE DEF g
  <2>4. /\ ref' \in Seq(Object) /\ IdsOf(ref') = IdsOf(ref)
        /\ \A id : Once(ref, id) => Once(ref', id)
        /\ \A id : Once(ref, id) /\ (id \in HeldBy(drag) => id \notin IdsOf(ref)) =>
              On(ref', id) = On(ref, id)
        /\ \A id : Once(ref, id) /\ id \in HeldBy(drag) /\ id \in IdsOf(ref) =>
              LET o == Find(ref, id)
              IN o \in Object /\ o.id = id /\ On(ref, id) = Content(o) /\ On(ref', id) = Content(g[o])
    <3>1. \A o \in Object : o.id \in HeldBy(drag) => g[o] \in Object /\ g[o].id = o.id
      BY <2>2
    <3>2. /\ DOMAIN ref' = DOMAIN ref /\ ref' = [i \in DOMAIN ref' |-> ref'[i]]
          /\ \A i \in DOMAIN ref : ref'[i] = IF ref[i].id \in HeldBy(drag) THEN g[ref[i]] ELSE ref[i]
      BY <2>3
    <3>3. ChangedBy(ref, HeldBy(drag), g, ref')
      BY <3>1, <3>2 DEF ChangedBy
    <3>4. Changed(ref, HeldBy(drag), g, ref')
      BY <1>1, <3>3, ChangedIs
    <3> QED
      BY <3>4 DEF Changed
  <2>5. ASSUME NEW id, Once(ref, id), id \in HeldBy(drag), id \in IdsOf(ref)
        PROVE  On(ref', id) = <<Shifted(FoundOf(drag, id, On(ref, id))[1], by), On(ref, id)[2]>>
    <3>1. FoundOf(drag, id, On(ref, id))[1] = drag.object.place
      BY <1>3, <2>1, <2>5, ObjectFields DEF FoundOf
    <3> QED
      BY <2>2, <2>4, <2>5, <3>1, ObjectFields
  <2> QED
    BY <2>3, <2>4, <2>5
<1> QED
  BY <1>2, <1>3 DEF Move

LEMMA FoundIs ==
    ASSUME TypeInv, drag.kind \in {"move", "resize"}
    PROVE  /\ DOMAIN Found = HeldBy(drag) \cap IdsOf(ref)
           /\ \A id \in DOMAIN Found :
                 /\ Found[id] \in Object /\ Found[id].id = id
                 /\ Content(Found[id]) = FoundOf(drag, id, On(ref, id))
<1>1. drag \in Gesture /\ ref \in Seq(Object)
  BY DEF TypeInv
<1>2. CASE drag.kind = "move"
  <2>1. Found = [id \in Held \cap IdsOf(ref) |-> [Find(ref, id) EXCEPT !.place = drag.origins[id]]]
    BY <1>2 DEF Found
  <2>2. ASSUME NEW id \in HeldBy(drag) \cap IdsOf(ref)
        PROVE  /\ Found[id] \in Object /\ Found[id].id = id
               /\ Content(Found[id]) = FoundOf(drag, id, On(ref, id))
    <3>1. drag.origins[id] \in 0..Places - 1
      BY <1>1, <1>2, GestureIs
    <3>2. Find(ref, id) \in Object /\ Find(ref, id).id = id
      BY <1>1, Finding
    <3>3. Found[id] = [Find(ref, id) EXCEPT !.place = drag.origins[id]]
      BY <2>1, HeldIs
    <3>4. On(ref, id)[2] = Find(ref, id).text
      BY <3>2, ObjectFields DEF On
    <3>5. FoundOf(drag, id, On(ref, id)) = <<drag.origins[id], Find(ref, id).text>>
      BY <1>2, <3>4 DEF FoundOf
    <3>6. Content(Found[id]) = <<drag.origins[id], Find(ref, id).text>>
      BY <3>2, <3>3 DEF Content, Object
    <3>7. Found[id] \in Object /\ Found[id].id = id
      BY <3>1, <3>2, <3>3 DEF Object
    <3> QED
      BY <3>5, <3>6, <3>7
  <2> QED
    BY <2>1, <2>2, HeldIs
<1>3. CASE drag.kind = "resize"
  <2>1. Found = [id \in Held \cap IdsOf(ref) |-> drag.object]
    BY <1>3 DEF Found
  <2>2. drag.object \in Object /\ HeldBy(drag) = {drag.object.id}
    BY <1>1, <1>3, GestureIs
  <2> QED
    BY <1>3, <2>1, <2>2, HeldIs DEF FoundOf
<1> QED
  BY <1>2, <1>3

LEMMA CancelShows ==
    ASSUME TypeInv, Cancel
    PROVE  /\ mirror' = ref' /\ ref' \in Seq(Object)
           /\ IdsOf(ref') \subseteq IdsOf(ref) \cup HeldBy(drag)
           /\ \A id : /\ Once(ref, id)
                      /\ id \in HeldBy(drag) => (drag.kind = "erase" <=> id \notin IdsOf(ref))
                 => Once(ref', id) /\ On(ref', id) = FoundOf(drag, id, On(ref, id))
<1>1. drag \in Gesture /\ ref \in Seq(Object)
  BY DEF TypeInv
<1>2. CASE drag.kind = "erase"
  <2> DEFINE news == SetToSeq({drag.removed[id] : id \in DOMAIN drag.removed})
  <2>1. drag.removed \in Side /\ HeldBy(drag) = DOMAIN drag.removed
    BY <1>1, <1>2, GestureIs
  <2>2. ref' = ref \o news /\ mirror' = ref'
    <3>1. Held = DOMAIN drag.removed
      BY <2>1, HeldIs
    <3> QED
      BY <1>2, <3>1 DEF Cancel, Show
  <2>3. /\ news \in Seq(Object) /\ IdsOf(news) = DOMAIN drag.removed
        /\ \A id : Once(news, id) /\ On(news, id) = IF id \in DOMAIN drag.removed
                                                    THEN Content(drag.removed[id]) ELSE <<>>
    <3>1. /\ IsFiniteSet(DOMAIN drag.removed)
          /\ \A id \in DOMAIN drag.removed : drag.removed[id] \in Object /\ drag.removed[id].id = id
      BY <2>1, SideIs
    <3> QED
      BY <3>1, ListedIs
  <2> HIDE DEF news
  <2>4. /\ ref \o news \in Seq(Object)
        /\ IdsOf(ref \o news) = IdsOf(ref) \cup IdsOf(news)
        /\ \A id : Once(ref, id) /\ Once(news, id) /\ (id \notin IdsOf(ref) \/ id \notin IdsOf(news)) =>
              /\ Once(ref \o news, id)
              /\ On(ref \o news, id) = IF id \in IdsOf(ref) THEN On(ref, id) ELSE On(news, id)
    BY <1>1, <2>3, CatIs
  <2>5. ASSUME NEW id, Once(ref, id), id \in HeldBy(drag) => (drag.kind = "erase" <=> id \notin IdsOf(ref))
        PROVE  Once(ref', id) /\ On(ref', id) = FoundOf(drag, id, On(ref, id))
    <3>1. CASE id \in HeldBy(drag)
      <4>1. FoundOf(drag, id, On(ref, id)) = Content(drag.removed[id])
        BY <1>2, <3>1 DEF FoundOf
      <4> QED
        BY <1>2, <2>1, <2>2, <2>3, <2>4, <2>5, <3>1, <4>1
    <3>2. CASE id \notin HeldBy(drag)
      <4>1. FoundOf(drag, id, On(ref, id)) = On(ref, id)
        BY <3>2 DEF FoundOf
      <4>2. id \notin IdsOf(ref) => On(ref, id) = <<>>
        BY DEF On
      <4> QED
        BY <2>1, <2>2, <2>3, <2>4, <2>5, <3>2, <4>1, <4>2
    <3> QED
      BY <3>1, <3>2
  <2> QED
    BY <2>1, <2>2, <2>3, <2>4, <2>5
<1>3. CASE drag.kind \in {"move", "resize"}
  <2> DEFINE g == [o \in Object |-> IF drag.kind = "resize" THEN drag.object
                                    ELSE [o EXCEPT !.place = drag.origins[o.id]]]
  <2>1. DOMAIN Found = HeldBy(drag) \cap IdsOf(ref)
    BY <1>3, FoundIs
  <2>2. ASSUME NEW o \in Object, o.id \in HeldBy(drag)
        PROVE  /\ g[o] \in Object /\ g[o].id = o.id
               /\ Content(g[o]) = FoundOf(drag, o.id, Content(o))
    <3>1. CASE drag.kind = "resize"
      <4>1. drag.object \in Object /\ HeldBy(drag) = {drag.object.id} /\ g[o] = drag.object
        BY <1>1, <3>1, GestureIs
      <4> QED
        BY <2>2, <3>1, <4>1 DEF FoundOf
    <3>2. CASE drag.kind = "move"
      <4>1. drag.origins[o.id] \in 0..Places - 1
        BY <1>1, <2>2, <3>2, GestureIs
      <4>2. g[o] = [o EXCEPT !.place = drag.origins[o.id]]
        BY <3>2
      <4> HIDE DEF g
      <4>3. g[o] \in Object /\ g[o].id = o.id /\ Content(g[o]) = <<drag.origins[o.id], o.text>>
        BY <4>1, <4>2 DEF Object, Content
      <4>4. FoundOf(drag, o.id, Content(o)) = <<drag.origins[o.id], o.text>>
        BY <2>2, <3>2, ObjectFields DEF FoundOf
      <4> QED
        BY <4>3, <4>4
    <3> QED
      BY <1>3, <3>1, <3>2
  <2>3. /\ DOMAIN ref' = DOMAIN ref /\ ref' = [i \in DOMAIN ref' |-> ref'[i]] /\ mirror' = ref'
        /\ \A i \in DOMAIN ref : ref'[i] = IF ref[i].id \in HeldBy(drag) THEN g[ref[i]] ELSE ref[i]
    <3>1. /\ ref' = [i \in DOMAIN ref |-> IF ref[i].id \in DOMAIN Found
                        THEN IF drag.kind = "resize" THEN drag.object
                             ELSE [ref[i] EXCEPT !.place = drag.origins[ref[i].id]]
                        ELSE ref[i]]
          /\ mirror' = ref'
      BY <1>3 DEF Cancel, Show, Mapped
    <3>2. \A i \in DOMAIN ref : ref[i] \in Object /\ (ref[i].id \in DOMAIN Found <=> ref[i].id \in HeldBy(drag))
      BY <1>1, <2>1 DEF IdsOf
    <3>3. \A i \in DOMAIN ref : g[ref[i]] = IF drag.kind = "resize" THEN drag.object
                                            ELSE [ref[i] EXCEPT !.place = drag.origins[ref[i].id]]
      BY <3>2
    <3> HIDE DEF g
    <3>4. \A i \in DOMAIN ref : ref'[i] = IF ref[i].id \in HeldBy(drag) THEN g[ref[i]] ELSE ref[i]
      <4>1. TAKE i \in DOMAIN ref
      <4>2. ref'[i] = IF ref[i].id \in DOMAIN Found
                      THEN IF drag.kind = "resize" THEN drag.object
                           ELSE [ref[i] EXCEPT !.place = drag.origins[ref[i].id]]
                      ELSE ref[i]
        BY <3>1
      <4> QED
        BY <3>2, <3>3, <4>2
    <3>5. DOMAIN ref' = DOMAIN ref /\ ref' = [i \in DOMAIN ref' |-> ref'[i]]
      BY <3>1
    <3> QED
      BY <3>1, <3>4, <3>5
  <2> HIDE DEF g
  <2>4. Changed(ref, HeldBy(drag), g, ref')
    <3>1. ChangedBy(ref, HeldBy(drag), g, ref')
      BY <2>2, <2>3 DEF ChangedBy
    <3> QED
      BY <1>1, <3>1, ChangedIs
  <2>5. ASSUME NEW id, Once(ref, id), id \in HeldBy(drag) => (drag.kind = "erase" <=> id \notin IdsOf(ref))
        PROVE  Once(ref', id) /\ On(ref', id) = FoundOf(drag, id, On(ref, id))
    <3>1. CASE id \in HeldBy(drag)
      <4>1. id \in IdsOf(ref)
        BY <1>3, <2>5, <3>1
      <4> QED
        BY <2>2, <2>4, <2>5, <3>1, <4>1 DEF Changed
    <3>2. CASE id \notin HeldBy(drag)
      <4>1. FoundOf(drag, id, On(ref, id)) = On(ref, id)
        BY <3>2 DEF FoundOf
      <4> QED
        BY <2>4, <2>5, <3>2, <4>1 DEF Changed
    <3> QED
      BY <3>1, <3>2
  <2> QED
    BY <2>3, <2>4, <2>5 DEF Changed
<1>4. drag.kind \in {"move", "resize", "erase"}
  BY <1>1, GestureIs DEF Cancel
<1> QED
  BY <1>2, <1>3, <1>4

Names(e) == DOMAIN e.before \cup DOMAIN e.after

LEMMA RestoredIs ==
    ASSUME NEW objects \in Seq(Object), objects = ref, NEW e \in Entry, NEW desired \in {e.before, e.after}
    PROVE  LET news == Restored(e, desired)
           IN /\ news \in Seq(Object)
              /\ IdsOf(news) = (IdsOf(ref) \ Names(e)) \cup DOMAIN desired
              /\ \A id : Once(ref, id) =>
                    /\ Once(news, id)
                    /\ On(news, id) = IF id \in DOMAIN desired THEN Content(desired[id])
                                      ELSE IF id \in Names(e) THEN <<>> ELSE On(ref, id)
              /\ [id \in DOMAIN desired |-> Find(news, id)] \in Side
              /\ DOMAIN desired \subseteq Names(e)
<1> DEFINE rev(id) == IF id \in IdsOf(ref) THEN Find(ref, id).revision ELSE 0
           f == [id \in DOMAIN desired |-> [desired[id] EXCEPT !.revision = rev(id)]]
           back == SetToSeq({f[id] : id \in DOMAIN f})
           rest == Without(ref, Names(e))
           news == Restored(e, desired)
<1>1. /\ desired \in Side /\ DOMAIN desired \subseteq Ids /\ IsFiniteSet(DOMAIN desired)
      /\ \A id \in DOMAIN desired : desired[id] \in Object /\ desired[id].id = id
      /\ DOMAIN desired \subseteq Names(e)
  <2>1. desired \in Side /\ DOMAIN desired \subseteq Names(e)
    BY DEF Entry, Names
  <2> QED
    BY <2>1, SideIs
<1>2. \A id \in DOMAIN desired : rev(id) \in 0..MaxRevision
  <2>1. \A id \in IdsOf(ref) : Find(ref, id).revision \in 0..MaxRevision
    BY Finding, ObjectFields
  <2>2. 0 \in 0..MaxRevision
    BY EditorConstants
  <2> QED
    BY <2>1, <2>2
<1> HIDE DEF rev
<1>3. /\ DOMAIN f = DOMAIN desired
      /\ \A id \in DOMAIN f : f[id] \in Object /\ f[id].id = id /\ Content(f[id]) = Content(desired[id])
  <2>1. DOMAIN f = DOMAIN desired
    OBVIOUS
  <2>2. ASSUME NEW id \in DOMAIN desired
        PROVE  f[id] \in Object /\ f[id].id = id /\ Content(f[id]) = Content(desired[id])
    <3>1. f[id] = [desired[id] EXCEPT !.revision = rev(id)] /\ desired[id] \in Object /\ desired[id].id = id
      BY <1>1
    <3> HIDE DEF f
    <3> QED
      BY <1>2, <3>1 DEF Object, Content
  <2> QED
    BY <2>1, <2>2
<1>4. {f[id] : id \in DOMAIN f} = {[desired[id] EXCEPT !.revision = IF id \in IdsOf(ref) THEN Find(ref, id).revision
                                                                            ELSE 0] : id \in DOMAIN desired}
  BY DEF rev
<1>5. news = rest \o back
  BY <1>4 DEF Restored, Names
<1> HIDE DEF f
<1>6. /\ back \in Seq(Object) /\ IdsOf(back) = DOMAIN f
      /\ \A id : Once(back, id) /\ On(back, id) = IF id \in DOMAIN f THEN Content(f[id]) ELSE <<>>
  BY <1>1, <1>3, ListedIs
<1> HIDE DEF back, news
<1>7. /\ rest \in Seq(Object) /\ IdsOf(rest) = IdsOf(ref) \ Names(e)
      /\ \A id : Once(ref, id) => /\ Once(rest, id)
                                  /\ On(rest, id) = IF id \in Names(e) THEN <<>> ELSE On(ref, id)
  BY WithoutIs
<1> HIDE DEF rest
<1>8. /\ rest \o back \in Seq(Object) /\ IdsOf(rest \o back) = IdsOf(rest) \cup IdsOf(back)
      /\ \A id : Once(rest, id) /\ Once(back, id) /\ (id \notin IdsOf(rest) \/ id \notin IdsOf(back)) =>
            /\ Once(rest \o back, id)
            /\ On(rest \o back, id) = IF id \in IdsOf(rest) THEN On(rest, id) ELSE On(back, id)
  BY <1>6, <1>7, CatIs
<1>9. ASSUME NEW id, Once(ref, id)
      PROVE  /\ Once(news, id)
             /\ On(news, id) = IF id \in DOMAIN desired THEN Content(desired[id])
                               ELSE IF id \in Names(e) THEN <<>> ELSE On(ref, id)
  <2>1. CASE id \in DOMAIN desired
    BY <1>1, <1>3, <1>5, <1>6, <1>7, <1>8, <1>9, <2>1
  <2>2. CASE id \notin DOMAIN desired
    <3>1. id \notin IdsOf(ref) => On(ref, id) = <<>>
      BY DEF On
    <3> QED
      BY <1>3, <1>5, <1>6, <1>7, <1>8, <1>9, <2>2, <3>1
  <2> QED
    BY <2>1, <2>2
<1>10. /\ news \in Seq(Object) /\ IdsOf(news) = (IdsOf(ref) \ Names(e)) \cup DOMAIN desired
  BY <1>3, <1>5, <1>6, <1>7, <1>8
<1>11. [id \in DOMAIN desired |-> Find(news, id)] \in Side
  BY <1>10, SideOfRef
<1> QED
  BY <1>1, <1>9, <1>10, <1>11 DEF news

\* The object with another text, on the list and as it is committed.
Written(id, text, o) ==
    /\ o = WithText(Find(ref, id), text)
    /\ Show(Mapped(ref, LAMBDA old : IF old.id = id THEN o ELSE old))

LEMMA TextShows ==
    ASSUME ref \in Seq(Object), NEW id \in IdsOf(ref), NEW text \in Texts, NEW o,
           Written(id, text, o)
    PROVE  /\ o \in Object /\ o.id = id /\ o.text = text /\ o.place = Find(ref, id).place
           /\ mirror' = ref' /\ ref' \in Seq(Object) /\ IdsOf(ref') = IdsOf(ref)
           /\ \A k : Once(ref, k) => /\ Once(ref', k)
                                     /\ On(ref', k) = IF k = id THEN Content(o) ELSE On(ref, k)
<1>1. Find(ref, id) \in Object /\ Find(ref, id).id = id
  BY Finding
<1>2. o \in Object /\ o.id = id /\ o.text = text /\ o.place = Find(ref, id).place
  BY <1>1 DEF Written, WithText, Object
<1> DEFINE g == [x \in Object |-> o]
<1>3. /\ DOMAIN ref' = DOMAIN ref /\ ref' = [i \in DOMAIN ref' |-> ref'[i]] /\ mirror' = ref'
      /\ \A i \in DOMAIN ref : ref'[i] = IF ref[i].id \in {id} THEN o ELSE ref[i]
  BY DEF Written, Show, Mapped
<1>4. \A x \in Object : g[x] = o
  OBVIOUS
<1> HIDE DEF g
<1>5. \A i \in DOMAIN ref : ref'[i] = IF ref[i].id \in {id} THEN g[ref[i]] ELSE ref[i]
  <2>1. \A i \in DOMAIN ref : ref[i] \in Object
    OBVIOUS
  <2> QED
    BY <1>3, <1>4, <2>1
<1>6. \A x \in Object : x.id \in {id} => g[x] \in Object /\ g[x].id = x.id
  BY <1>2, <1>4
<1>7. ChangedBy(ref, {id}, g, ref')
  BY <1>3, <1>5, <1>6 DEF ChangedBy
<1>8. Changed(ref, {id}, g, ref')
  BY <1>7, ChangedIs
<1>9. ASSUME NEW k, Once(ref, k)
      PROVE  Once(ref', k) /\ On(ref', k) = IF k = id THEN Content(o) ELSE On(ref, k)
  <2>1. CASE k = id
    <3>1. On(ref', k) = Content(g[Find(ref, id)])
      BY <1>8, <1>9, <2>1 DEF Changed
    <3> QED
      BY <1>1, <1>4, <1>8, <1>9, <2>1, <3>1 DEF Changed
  <2>2. CASE k # id
    BY <1>8, <1>9, <2>2 DEF Changed
  <2> QED
    BY <2>1, <2>2
<1> QED
  BY <1>2, <1>3, <1>8, <1>9 DEF Changed

Rows == IF mirror = << >> THEN Cached[note] ELSE << >>

LEMMA SeedShows ==
    ASSUME TypeInv, Seed
    PROVE  /\ mirror' \in Seq(Object) /\ IdsOf(mirror') = IdsOf(mirror) \cup IdsOf(Rows)
           /\ IdsOf(Rows) \subseteq IdsOf(Cached[note]) /\ IdsOf(Rows) \subseteq Ids
           /\ IdsOf(Rows) # {} => mirror = << >>
           /\ \A id : Once(mirror, id) =>
                 Once(mirror', id) /\ (id \notin IdsOf(Rows) => On(mirror', id) = On(mirror, id))
<1>1. mirror \in Seq(Object) /\ Cached[note] \in Seq(Object)
  BY EditorConstants DEF TypeInv
<1>2. /\ Rows \in Seq(Object) /\ \A id : Once(Rows, id)
      /\ IdsOf(Rows) \subseteq IdsOf(Cached[note]) /\ (IdsOf(Rows) # {} => mirror = << >>)
  <2>1. CASE mirror = << >>
    BY <1>1, <2>1, RowsAreKeyed DEF Rows, Once, TypeInv
  <2>2. CASE mirror # << >>
    BY <2>2 DEF Rows, Once, IdsOf
  <2> QED
    BY <2>1, <2>2
<1>3. mirror' = mirror \o Rows
  BY DEF Seed, Rows
<1>4. /\ mirror \o Rows \in Seq(Object)
      /\ IdsOf(mirror \o Rows) = IdsOf(mirror) \cup IdsOf(Rows)
      /\ \A id : Once(mirror, id) /\ Once(Rows, id) /\ (id \notin IdsOf(mirror) \/ id \notin IdsOf(Rows)) =>
            /\ Once(mirror \o Rows, id)
            /\ On(mirror \o Rows, id) = IF id \in IdsOf(mirror) THEN On(mirror, id) ELSE On(Rows, id)
  BY <1>1, <1>2, CatIs
<1>5. mirror = << >> => IdsOf(mirror) = {}
  BY DEF IdsOf
<1>6. ASSUME NEW id, Once(mirror, id)
      PROVE  Once(mirror', id) /\ (id \notin IdsOf(Rows) => On(mirror', id) = On(mirror, id))
  BY <1>2, <1>3, <1>4, <1>5, <1>6 DEF On
<1>7. IdsOf(Rows) \subseteq Ids
  BY <1>2, IdsAreIds
<1> QED
  BY <1>2, <1>3, <1>4, <1>6, <1>7

\* What a remote version becomes here.
Merged(remote) == Reconcile(Find(Deduplicated(mirror), remote.id), remote)

LEMMA UpsertShows ==
    ASSUME TypeInv, NEW remote \in Object, RemoteUpsert(remote)
    PROVE  /\ mirror' \in Seq(Object) /\ IdsOf(mirror') = IdsOf(mirror) \cup {remote.id}
           /\ Merged(remote) \in Object \/ remote.id \notin IdsOf(mirror)
           /\ \A id : Once(mirror, id) =>
                 /\ Once(mirror', id)
                 /\ On(mirror', id) = IF id # remote.id THEN On(mirror, id)
                                      ELSE IF id \in IdsOf(mirror) THEN Content(Merged(remote))
                                      ELSE Content(remote)
<1> DEFINE all == Deduplicated(mirror)
<1>1. mirror \in Seq(Object)
  BY DEF TypeInv
<1>2. /\ all \in Seq(Object) /\ IdsOf(all) = IdsOf(mirror) /\ \A id : Once(all, id)
      /\ \A id : Once(mirror, id) => On(all, id) = On(mirror, id)
  BY <1>1, DeduplicatedIs
<1>3. CASE remote.id \in IdsOf(mirror)
  <2> DEFINE local == Find(all, remote.id)
             merged == Reconcile(local, remote)
             g == [x \in Object |-> merged]
  <2>1. local \in Object /\ local.id = remote.id
    BY <1>2, <1>3, Finding
  <2>2. merged \in Object /\ merged.id = remote.id
    <3>1. remote.revision \in 0..MaxRevision
      BY ObjectFields
    <3> HIDE DEF local
    <3> QED
      BY <2>1, <3>1 DEF Reconcile, Object
  <2>3. mirror' = [i \in DOMAIN all |-> IF all[i].id = remote.id THEN merged ELSE all[i]]
    BY <1>3 DEF RemoteUpsert, Mapped
  <2>4. \A x \in Object : g[x] = merged
    OBVIOUS
  <2>5. Merged(remote) = merged
    BY DEF Merged
  <2> HIDE DEF g, merged, all
  <2>6. ChangedBy(all, {remote.id}, g, mirror')
    <3>1. \A i \in DOMAIN all : all[i] \in Object
      BY <1>2
    <3>2. \A i \in DOMAIN all : mirror'[i] = IF all[i].id \in {remote.id} THEN g[all[i]] ELSE all[i]
      BY <2>3, <2>4, <3>1
    <3>3. DOMAIN mirror' = DOMAIN all /\ mirror' = [i \in DOMAIN mirror' |-> mirror'[i]]
      BY <2>3
    <3>4. \A x \in Object : x.id \in {remote.id} => g[x] \in Object /\ g[x].id = x.id
      BY <2>2, <2>4
    <3> QED
      BY <3>2, <3>3, <3>4 DEF ChangedBy
  <2>7. Changed(all, {remote.id}, g, mirror')
    BY <1>2, <2>6, ChangedIs
  <2>8. ASSUME NEW id, Once(mirror, id)
        PROVE  /\ Once(mirror', id)
               /\ On(mirror', id) = IF id # remote.id THEN On(mirror, id) ELSE Content(merged)
    <3>1. CASE id = remote.id
      <4>1. Find(all, id) \in Object /\ On(mirror', id) = Content(g[Find(all, id)])
        BY <1>2, <1>3, <2>7, <3>1 DEF Changed
      <4> QED
        BY <1>2, <2>4, <2>7, <3>1, <4>1 DEF Changed
    <3>2. CASE id # remote.id
      BY <1>2, <2>7, <2>8, <3>2 DEF Changed
    <3> QED
      BY <3>1, <3>2
  <2>9. mirror' \in Seq(Object) /\ IdsOf(mirror') = IdsOf(all)
    BY <2>7 DEF Changed
  <2> QED
    BY <1>2, <1>3, <2>2, <2>5, <2>8, <2>9
<1>4. CASE remote.id \notin IdsOf(mirror)
  <2>1. mirror' = Append(all, remote)
    BY <1>4 DEF RemoteUpsert
  <2> HIDE DEF all
  <2>2. /\ mirror' \in Seq(Object) /\ IdsOf(mirror') = IdsOf(all) \cup {remote.id}
        /\ \A id : Once(all, id) /\ remote.id \notin IdsOf(all) =>
              /\ Once(mirror', id)
              /\ On(mirror', id) = IF id = remote.id THEN Content(remote) ELSE On(all, id)
    BY <1>2, <2>1, AppendIs
  <2> QED
    BY <1>2, <1>4, <2>2
<1> QED
  BY <1>3, <1>4

LEMMA RemovalShows ==
    ASSUME TypeInv, NEW id, RemoteDelete(id)
    PROVE  /\ mirror' \in Seq(Object) /\ IdsOf(mirror') = IdsOf(mirror) \ {id}
           /\ \A k : Once(mirror, k) =>
                 Once(mirror', k) /\ On(mirror', k) = IF k = id THEN <<>> ELSE On(mirror, k)
<1>1. mirror \in Seq(Object) /\ mirror' = Without(Deduplicated(mirror), {id})
  BY DEF TypeInv, RemoteDelete
<1>2. /\ Deduplicated(mirror) \in Seq(Object) /\ IdsOf(Deduplicated(mirror)) = IdsOf(mirror)
      /\ \A k : Once(Deduplicated(mirror), k)
      /\ \A k : Once(mirror, k) => On(Deduplicated(mirror), k) = On(mirror, k)
  BY <1>1, DeduplicatedIs
<1>3. /\ mirror' \in Seq(Object) /\ IdsOf(mirror') = IdsOf(Deduplicated(mirror)) \ {id}
      /\ \A k : Once(Deduplicated(mirror), k) =>
            /\ Once(mirror', k)
            /\ On(mirror', k) = IF k \in {id} THEN <<>> ELSE On(Deduplicated(mirror), k)
  BY <1>1, <1>2, WithoutIs
<1> QED
  BY <1>2, <1>3
-----------------------------------------------------------------------------
(* Types are kept *)

LEMMA EditCounts ==
    ASSUME TypeInv, Edit
    PROVE  edits' \in 0..MaxEdits
BY EditorConstants DEF TypeInv, Edit

LEMMA InitTypes == Init => TypeInv
<1> SUFFICES ASSUME Init PROVE TypeInv
  OBVIOUS
<1>1. /\ note \in Note /\ mirror \in Seq(Object) /\ ref \in Seq(Object) /\ seeded \in BOOLEAN
      /\ drag = None /\ styled = None /\ imports = {}
      /\ unrecorded = {} /\ tangled = {} /\ edits \in 0..MaxEdits /\ events \in 0..MaxEvents
  <2>1. note = 1 /\ 1 \in Note /\ edits = 0 /\ 0 \in 0..MaxEdits /\ events = 0 /\ 0 \in 0..MaxEvents
    BY EditorConstants DEF Init, Note
  <2>2. seeded \in BOOLEAN
    BY Zenon DEF Init
  <2>3. /\ mirror = <<>> /\ ref = <<>> /\ drag = None /\ styled = None /\ imports = {}
        /\ unrecorded = {} /\ tangled = {}
    BY DEF Init
  <2> QED
    BY <2>1, <2>2, <2>3
<1>4. /\ undo \in Seq(Entry) /\ redo \in Seq(Entry) /\ Len(undo) = 0 /\ Len(redo) = 0
      /\ pending \in [Ids -> Object \cup {None}]
  BY DEF Init
<1>2. made \subseteq Ids \X Note
  <2>1. ASSUME NEW n \in Note PROVE IdsOf(Cached[n]) \X {n} \subseteq Ids \X Note
    <3>1. Cached[n] \in Seq(Object)
      BY EditorConstants
    <3>2. IdsOf(Cached[n]) \subseteq Ids
      BY <3>1, IdsAreIds
    <3> QED
      BY <3>2
  <2> QED
    BY <2>1 DEF Init
<1>3. HistoryOK(undo, redo)
  <2>1. 0 <= HistoryLimit
    BY EditorConstants
  <2> QED
    BY <1>4, <2>1 DEF HistoryOK
<1> QED
  BY <1>1, <1>2, <1>3, <1>4 DEF TypeInv, Gesture

LEMMA OpenTypes == TypeInv /\ OpenNote => TypeInv'
<1> SUFFICES ASSUME TypeInv, OpenNote PROVE TypeInv'
  OBVIOUS
<1>1. note' \in Note
  BY EditorConstants DEF TypeInv, OpenNote, Note
<1>2. /\ ref' = <<>> /\ mirror' = <<>> /\ seeded' = FALSE /\ drag' = None /\ styled' = None
      /\ undo' = <<>> /\ redo' = <<>> /\ pending' = [id \in Ids |-> None]
      /\ unrecorded' = {} /\ tangled' = {}
      /\ UNCHANGED <<imports, made, edits, events>>
  BY DEF OpenNote, Show, ForgetHistory
<1>3. HistoryOK(undo', redo')
  <2>1. 0 <= HistoryLimit
    BY EditorConstants
  <2> QED
    BY <1>2, <2>1 DEF HistoryOK
<1>4. /\ drag' \in Gesture /\ styled' \in Object \cup {None}
      /\ pending' \in [Ids -> Object \cup {None}] /\ ref' \in Seq(Object) /\ mirror' \in Seq(Object)
      /\ seeded' \in BOOLEAN
  <2>1. seeded' \in BOOLEAN
    BY Zenon DEF OpenNote
  <2> QED
    BY <1>2, <2>1 DEF Gesture
<1>5. /\ imports' \subseteq [id : Ids, note : Note] /\ made' \subseteq Ids \X Note
      /\ unrecorded' \subseteq Ids /\ tangled' \subseteq Ids
      /\ edits' \in 0..MaxEdits /\ events' \in 0..MaxEvents
  BY <1>2 DEF TypeInv
<1> QED
  BY <1>1, <1>2, <1>3, <1>4, <1>5 DEF TypeInv, HistoryOK

LEMMA RemoteTypes ==
    ASSUME TypeInv,
           \/ Seed \/ Render \/ \E id \in Ids : RemoteDelete(id)
           \/ \E remote \in Object : RemoteUpsert(remote)
    PROVE  TypeInv'
<1>1. CASE Seed
  <2>1. /\ mirror' \in Seq(Object) /\ IdsOf(Rows) \subseteq Ids
    BY <1>1, SeedShows
  <2>2. /\ UNCHANGED <<note, ref, drag, styled, undo, redo, pending, imports, made, edits, events>>
        /\ seeded' = TRUE
        /\ tangled' = tangled \cup {id \in IdsOf(Rows) : pending[id] # None \/ id \in Held}
        /\ unrecorded' = unrecorded \cup (IdsOf(Rows) \cap Mentioned)
    BY <1>1 DEF Seed, Rows, history
  <2>3. tangled' \subseteq Ids /\ unrecorded' \subseteq Ids
    BY <2>1, <2>2 DEF TypeInv
  <2> QED
    BY <2>1, <2>2, <2>3 DEF TypeInv, HistoryOK
<1>2. CASE Render
  BY <1>2 DEF Render, TypeInv, HistoryOK, history, traces
<1>3. ASSUME NEW id \in Ids, RemoteDelete(id) PROVE TypeInv'
  <2>1. mirror' \in Seq(Object)
    BY <1>3, RemovalShows
  <2>2. events' \in 0..MaxEvents /\ unrecorded' \subseteq Ids
    BY <1>3, EditorConstants DEF RemoteDelete, TypeInv
  <2> QED
    BY <1>3, <2>1, <2>2 DEF RemoteDelete, TypeInv, HistoryOK, history
<1>4. ASSUME NEW remote \in Object, RemoteUpsert(remote) PROVE TypeInv'
  <2>1. mirror' \in Seq(Object) /\ remote.id \in Ids
    BY <1>4, UpsertShows, ObjectFields
  <2>2. events' \in 0..MaxEvents
    BY <1>4, EditorConstants DEF RemoteUpsert, TypeInv
  <2>3. unrecorded' \subseteq Ids /\ tangled' \subseteq Ids
    BY <1>4, <2>1 DEF RemoteUpsert, TypeInv
  <2>4. pending' \in [Ids -> Object \cup {None}]
    BY <1>4 DEF RemoteUpsert, TypeInv
  <2>5. made' \subseteq Ids \X Note
    BY <1>4, <2>1 DEF RemoteUpsert, TypeInv
  <2> QED
    BY <1>4, <2>1, <2>2, <2>3, <2>4, <2>5 DEF RemoteUpsert, TypeInv, HistoryOK, history
<1> QED
  BY <1>1, <1>2, <1>3, <1>4

LEMMA BeginTypes ==
    ASSUME TypeInv, NEW ids \in SUBSET Ids, NEW gesture \in Gesture, Begin(gesture, ids)
    PROVE  TypeInv'
<1>1. edits' \in 0..MaxEdits
  BY EditCounts DEF Begin
<1>2. tangled' \subseteq Ids
  BY DEF Begin, TypeInv
<1> QED
  BY <1>1, <1>2 DEF Begin, Free, TypeInv, HistoryOK, canvas, history

LEMMA DownTypes ==
    ASSUME TypeInv,
           \/ \E ids \in SUBSET IdsOf(ref) : DownMove(ids)
           \/ \E id \in IdsOf(ref) : DownResize(id)
           \/ DownErase
    PROVE  TypeInv'
<1>1. ref \in Seq(Object) /\ IdsOf(ref) \subseteq Ids
  BY IdsAreIds DEF TypeInv
<1>2. ASSUME NEW ids \in SUBSET IdsOf(ref), DownMove(ids) PROVE TypeInv'
  <2> DEFINE origins == [id \in ids |-> Find(ref, id).place]
  <2>1. \A id \in ids : Find(ref, id).place \in 0..Places - 1
    BY <1>1, Finding, ObjectFields
  <2>2. ids \in SUBSET Ids /\ origins \in [ids -> 0..Places - 1]
    BY <1>1, <2>1
  <2>3. [kind |-> "move", origins |-> origins] \in Gesture
    BY <2>2 DEF Gesture
  <2> QED
    BY <1>2, <2>2, <2>3, BeginTypes DEF DownMove
<1>3. ASSUME NEW id \in IdsOf(ref), DownResize(id) PROVE TypeInv'
  <2>1. [kind |-> "resize", object |-> Find(ref, id)] \in Gesture /\ {id} \in SUBSET Ids
    BY <1>1, Finding DEF Gesture
  <2> QED
    BY <1>3, <2>1, BeginTypes DEF DownResize
<1>4. ASSUME DownErase PROVE TypeInv'
  <2>1. [kind |-> "erase", removed |-> Nothing] \in Gesture /\ {} \in SUBSET Ids
    BY SmallSides DEF Gesture
  <2> QED
    BY <1>4, <2>1, BeginTypes DEF DownErase
<1> QED
  BY <1>2, <1>3, <1>4

\* The eraser's next object, and the gesture that holds it too.
LEMMA EraseShows ==
    ASSUME TypeInv, NEW id \in IdsOf(ref), EraseAt(id)
    PROVE  /\ mirror' = ref' /\ ref' \in Seq(Object) /\ IdsOf(ref') = IdsOf(ref) \ {id}
           /\ \A k : Once(ref, k) =>
                 Once(ref', k) /\ On(ref', k) = IF k = id THEN <<>> ELSE On(ref, k)
           /\ drag' \in Gesture /\ drag.kind = "erase" /\ drag'.kind = "erase"
           /\ id \notin HeldBy(drag) /\ HeldBy(drag') = HeldBy(drag) \cup {id}
           /\ \A k \in HeldBy(drag) : drag'.removed[k] = drag.removed[k]
           /\ drag'.removed[id] = Find(ref, id)
<1>1. drag \in Gesture /\ ref \in Seq(Object) /\ drag.kind = "erase"
  BY DEF TypeInv, EraseAt
<1>2. drag.removed \in Side /\ HeldBy(drag) = DOMAIN drag.removed
  BY <1>1, GestureIs
<1>3. Find(ref, id) \in Object /\ Find(ref, id).id = id /\ id \in Ids
  BY <1>1, Finding, IdsAreIds
<1> DEFINE removed == [k \in Held \cup {id} |-> IF k = id THEN Find(ref, id) ELSE drag.removed[k]]
<1>4. /\ DOMAIN removed = HeldBy(drag) \cup {id} /\ removed[id] = Find(ref, id)
      /\ removed = [k \in DOMAIN removed |-> removed[k]]
      /\ \A k \in HeldBy(drag) : k # id => removed[k] = drag.removed[k]
  BY HeldIs
<1>5. id \notin HeldBy(drag)
  BY HeldIs DEF EraseAt
<1>6. drag' = [drag EXCEPT !.removed = removed]
  BY DEF EraseAt
<1> HIDE DEF removed
<1>7. removed \in Side
  <2>1. /\ DOMAIN drag.removed \subseteq Ids /\ IsFiniteSet(DOMAIN drag.removed)
        /\ \A k \in DOMAIN drag.removed : drag.removed[k] \in Object /\ drag.removed[k].id = k
    BY <1>2, SideIs
  <2>2. IsFiniteSet(DOMAIN removed) /\ DOMAIN removed \subseteq Ids
    BY <1>2, <1>3, <1>4, <2>1, FS_AddElement
  <2>3. \A k \in DOMAIN removed : removed[k] \in Object /\ removed[k].id = k
    BY <1>2, <1>3, <1>4, <2>1
  <2> QED
    BY <1>4, <2>2, <2>3, SideIs
<1>8. drag \in [kind : {"erase"}, removed : Side]
  BY <1>1, GestureIs DEF Gesture, None
<1>9. drag' \in [kind : {"erase"}, removed : Side] /\ drag'.removed = removed
  BY <1>6, <1>7, <1>8
<1>10. drag' \in Gesture /\ drag'.kind = "erase" /\ HeldBy(drag') = DOMAIN removed
  BY <1>9 DEF Gesture, HeldBy
<1>11. /\ mirror' = ref' /\ ref' = Without(ref, {id})
  BY DEF EraseAt, Show
<1>12. /\ ref' \in Seq(Object) /\ IdsOf(ref') = IdsOf(ref) \ {id}
       /\ \A k : Once(ref, k) =>
             Once(ref', k) /\ On(ref', k) = IF k \in {id} THEN <<>> ELSE On(ref, k)
  BY <1>1, <1>11, WithoutIs
<1> QED
  BY <1>1, <1>4, <1>5, <1>9, <1>10, <1>11, <1>12

LEMMA DragTypes ==
    ASSUME TypeInv,
           \/ \E by \in 0..Places - 1 : Move(by)
           \/ \E id \in IdsOf(ref) : EraseAt(id)
           \/ Cancel \/ Abandon
    PROVE  TypeInv'
<1>1. ASSUME NEW by \in 0..Places - 1, Move(by) PROVE TypeInv'
  <2>1. mirror' \in Seq(Object) /\ ref' \in Seq(Object)
    BY <1>1, MoveShows
  <2> QED
    BY <1>1, <2>1 DEF Move, Dragging, TypeInv, HistoryOK, history, traces
<1>2. ASSUME NEW id \in IdsOf(ref), EraseAt(id) PROVE TypeInv'
  <2>1. mirror' \in Seq(Object) /\ ref' \in Seq(Object) /\ drag' \in Gesture /\ drag.kind = "erase"
    BY <1>2, EraseShows
  <2>2. drag # None
    BY <2>1 DEF None
  <2> QED
    BY <1>2, <2>1, <2>2 DEF EraseAt, Dragging, TypeInv, HistoryOK, history, traces
<1>3. CASE Cancel
  <2>1. mirror' \in Seq(Object) /\ ref' \in Seq(Object) /\ drag' \in Gesture
    BY <1>3, CancelShows DEF Cancel, Gesture
  <2> QED
    BY <1>3, <2>1 DEF Cancel, Dragging, TypeInv, HistoryOK, history, traces
<1>4. CASE Abandon
  <2>1. drag' \in Gesture /\ drag' = None
    BY <1>4 DEF Abandon, Gesture
  <2>2. tangled' \subseteq Ids
    BY <1>4, HeldIs, GestureIs DEF Abandon, TypeInv
  <2> QED
    BY <1>4, <2>1, <2>2 DEF Abandon, TypeInv, HistoryOK, canvas, history
<1> QED
  BY <1>1, <1>2, <1>3, <1>4

\* What Drop commits and records.
DroppedIds == {id \in DOMAIN Found : Find(ref, id).place # Found[id].place}
DropBefore == [id \in DroppedIds |-> Found[id]]
DropAfter == [id \in DroppedIds |-> Find(ref, id)]

LEMMA DropSides ==
    ASSUME TypeInv, drag.kind \in {"move", "resize"}
    PROVE  /\ DropBefore \in Side /\ DropAfter \in Side
           /\ DroppedIds \subseteq HeldBy(drag) \cap IdsOf(ref)
<1>1. /\ DOMAIN Found = HeldBy(drag) \cap IdsOf(ref)
      /\ \A id \in DOMAIN Found : Found[id] \in Object /\ Found[id].id = id
  BY FoundIs
<1>2. ref \in Seq(Object) /\ DroppedIds \in SUBSET IdsOf(ref)
  BY <1>1 DEF TypeInv, DroppedIds
<1>3. DropAfter \in Side
  BY <1>2, SideOfRef DEF DropAfter
<1>4. DropBefore \in Side
  <2>1. DOMAIN DropBefore = DroppedIds /\ DropBefore = [id \in DOMAIN DropBefore |-> DropBefore[id]]
    BY DEF DropBefore
  <2>2. \A id \in DroppedIds : DropBefore[id] = Found[id] /\ id \in DOMAIN Found
    BY DEF DropBefore, DroppedIds
  <2>3. DroppedIds \subseteq Ids /\ IsFiniteSet(DroppedIds)
    BY <1>2, IdsAreIds, FS_Subset
  <2> QED
    BY <1>1, <2>1, <2>2, <2>3, SideIs
<1> QED
  BY <1>1, <1>3, <1>4 DEF DroppedIds

LEMMA DropTypes ==
    ASSUME TypeInv, Drop \/ DropEraser
    PROVE  TypeInv'
<1>1. CASE Drop
  <2>1. /\ drag.kind \in {"move", "resize"} /\ drag' = None /\ pending' = Committed(DropAfter)
        /\ IF DroppedIds # {} THEN Record(DropBefore, DropAfter) ELSE UNCHANGED history
        /\ UNCHANGED <<note, ref, mirror, seeded, styled, imports, made, unrecorded, tangled, edits, events>>
    BY <1>1 DEF Drop, DroppedIds, DropBefore, DropAfter, canvas, traces
  <2>2. DropBefore \in Side /\ DropAfter \in Side
    BY <2>1, DropSides
  <2>3. HistoryOK(undo', redo')
    <3>1. CASE DroppedIds # {}
      BY <2>1, <2>2, <3>1, RecordTypes DEF TypeInv, HistoryOK
    <3>2. CASE DroppedIds = {}
      BY <2>1, <3>2 DEF TypeInv, history
    <3> QED
      BY <3>1, <3>2
  <2>4. pending' \in [Ids -> Object \cup {None}]
    BY <2>1, <2>2, CommittedTypes DEF TypeInv
  <2>5. drag' \in Gesture
    BY <2>1 DEF Gesture
  <2> QED
    BY <2>1, <2>3, <2>4, <2>5 DEF TypeInv, HistoryOK
<1>2. CASE DropEraser
  <2>1. drag \in Gesture /\ drag.kind = "erase" /\ drag.removed \in Side /\ Nothing \in Side
    BY <1>2, GestureIs, SmallSides DEF DropEraser, TypeInv
  <2>2. HistoryOK(undo', redo')
    <3>1. CASE Held # {}
      BY <1>2, <2>1, <3>1, RecordTypes DEF DropEraser, TypeInv, HistoryOK
    <3>2. CASE Held = {}
      BY <1>2, <3>2 DEF DropEraser, TypeInv, history
    <3> QED
      BY <3>1, <3>2
  <2>3. drag' \in Gesture /\ drag' = None
    BY <1>2 DEF DropEraser, Gesture
  <2> QED
    BY <1>2, <2>2, <2>3 DEF DropEraser, TypeInv, HistoryOK, canvas, traces
<1> QED
  BY <1>1, <1>2

LEMMA AppendedTypes ==
    ASSUME TypeInv, NEW o \in Object, Appended(o)
    PROVE  /\ mirror' = ref' /\ ref' \in Seq(Object) /\ HistoryOK(undo', redo')
           /\ pending' \in [Ids -> Object \cup {None}]
<1>1. ref' = Append(ref, o) /\ mirror' = ref' /\ pending' = Committed(Single(o)) /\ Record(Nothing, Single(o))
  BY DEF Appended, Show
<1>2. Nothing \in Side /\ Single(o) \in Side
  BY SmallSides
<1>3. HistoryOK(undo', redo')
  BY <1>1, <1>2, RecordTypes DEF TypeInv, HistoryOK
<1>4. pending' \in [Ids -> Object \cup {None}]
  BY <1>1, <1>2, CommittedTypes DEF TypeInv
<1>5. ref' \in Seq(Object)
  BY <1>1, AppendIs DEF TypeInv
<1> QED
  BY <1>1, <1>3, <1>4, <1>5

Blank(id, home, place) == [id |-> id, home |-> home, place |-> place, text |-> 0, revision |-> 0]

LEMMA BlankIs ==
    ASSUME NEW id \in Ids, NEW home \in Note, NEW place \in 0..Places - 1
    PROVE  Blank(id, home, place) \in Object /\ Blank(id, home, place).id = id
<1>1. 0 \in 0..MaxRevision
  BY EditorConstants
<1> QED
  BY <1>1 DEF Blank, Object, Texts

LEMMA NewTypes ==
    ASSUME TypeInv,
           \/ \E id \in Ids, place \in 0..Places - 1 : Create(id, place)
           \/ \E id \in Ids : BeginImport(id)
           \/ \E i \in imports : EndImport(i) \/ FailImport(i)
    PROVE  TypeInv'
<1>1. ASSUME NEW id \in Ids, NEW place \in 0..Places - 1, Create(id, place) PROVE TypeInv'
  <2>1. note \in Note /\ Blank(id, note, place) \in Object
    BY BlankIs DEF TypeInv
  <2>2. Appended(Blank(id, note, place))
    BY <1>1 DEF Create, Blank
  <2>3. edits' \in 0..MaxEdits
    BY <1>1, EditCounts DEF Create
  <2>4. made' \subseteq Ids \X Note
    BY <1>1, <2>1 DEF Create, TypeInv
  <2> QED
    BY <1>1, <2>1, <2>2, <2>3, <2>4, AppendedTypes DEF Create, TypeInv, HistoryOK, traces
<1>2. ASSUME NEW id \in Ids, BeginImport(id) PROVE TypeInv'
  <2>1. edits' \in 0..MaxEdits
    BY <1>2, EditCounts DEF BeginImport
  <2>2. made' \subseteq Ids \X Note /\ imports' \subseteq [id : Ids, note : Note]
    BY <1>2 DEF BeginImport, TypeInv
  <2> QED
    BY <1>2, <2>1, <2>2 DEF BeginImport, TypeInv, HistoryOK, canvas, history, traces
<1>3. ASSUME NEW i \in imports, EndImport(i) PROVE TypeInv'
  <2>1. i.id \in Ids /\ i.note \in Note /\ 0 \in 0..Places - 1
    BY EditorConstants DEF TypeInv
  <2>2. Blank(i.id, i.note, 0) \in Object
    BY <2>1, BlankIs
  <2>3. Appended(Blank(i.id, i.note, 0))
    BY <1>3 DEF EndImport, Blank
  <2> QED
    BY <1>3, <2>2, <2>3, AppendedTypes DEF EndImport, TypeInv, HistoryOK
<1>4. ASSUME NEW i \in imports, FailImport(i) PROVE TypeInv'
  BY <1>4 DEF FailImport, TypeInv, HistoryOK, canvas, history, traces
<1> QED
  BY <1>1, <1>2, <1>3, <1>4

LEMMA TangleTypes ==
    ASSUME TypeInv, NEW ids, Tangle(ids)
    PROVE  tangled' \subseteq Ids
BY HeldIs, GestureIs DEF Tangle, TypeInv

LEMMA DeleteTypes ==
    ASSUME TypeInv, NEW ids \in SUBSET IdsOf(ref), DeleteSelection(ids)
    PROVE  TypeInv'
<1> DEFINE removed == {id \in ids : ~Locked(id)}
           before == [id \in removed |-> Find(ref, id)]
<1>1. /\ ref' = Without(ref, removed) /\ mirror' = ref' /\ Record(before, Nothing) /\ Tangle(removed)
  BY DEF DeleteSelection, Show
<1>2. ref \in Seq(Object) /\ removed \in SUBSET IdsOf(ref)
  BY DEF TypeInv
<1>3. before \in Side /\ Nothing \in Side
  BY <1>2, SideOfRef, SmallSides
<1> HIDE DEF before, removed
<1>4. HistoryOK(undo', redo')
  BY <1>1, <1>3, RecordTypes DEF TypeInv, HistoryOK
<1>5. ref' \in Seq(Object) /\ mirror' \in Seq(Object)
  BY <1>1, <1>2, WithoutIs
<1>6. tangled' \subseteq Ids /\ edits' \in 0..MaxEdits
  BY <1>1, TangleTypes, EditCounts DEF DeleteSelection
<1> QED
  BY <1>4, <1>5, <1>6 DEF DeleteSelection, TypeInv, HistoryOK

LEMMA HistoryTypes ==
    ASSUME TypeInv, NEW e \in Entry, NEW desired \in {e.before, e.after}, ApplyHistory(e, desired),
           HistoryOK(undo', redo')
    PROVE  TypeInv'
<1> DEFINE objects == Restored(e, desired)
<1>1. /\ ref' = objects /\ mirror' = objects
      /\ pending' = Committed([id \in DOMAIN desired |-> Find(objects, id)])
      /\ Tangle(DOMAIN e.before \cup DOMAIN e.after) /\ Edit
      /\ UNCHANGED <<note, seeded, drag, styled, imports, made, unrecorded, events>>
  BY DEF ApplyHistory, Show
<1>2. objects \in Seq(Object) /\ [id \in DOMAIN desired |-> Find(objects, id)] \in Side
  BY RestoredIs DEF TypeInv
<1> HIDE DEF objects
<1>3. pending' \in [Ids -> Object \cup {None}]
  BY <1>1, <1>2, CommittedTypes DEF TypeInv
<1>4. tangled' \subseteq Ids /\ edits' \in 0..MaxEdits
  BY <1>1, TangleTypes, EditCounts
<1> QED
  BY <1>1, <1>2, <1>3, <1>4 DEF TypeInv, HistoryOK

LEMMA StackTypes ==
    ASSUME NEW from \in Seq(Entry), NEW to \in Seq(Entry), from # << >>
    PROVE  /\ Last(from) \in Entry /\ Front(from) \in Seq(Entry) /\ Append(to, Last(from)) \in Seq(Entry)
           /\ Len(Front(from)) = Len(from) - 1 /\ Len(Append(to, Last(from))) = Len(to) + 1
           /\ Len(from) \in Nat \ {0} /\ Len(to) \in Nat
           /\ \A i \in DOMAIN Front(from) : i \in DOMAIN from /\ Front(from)[i] = from[i]
           /\ Last(from) = from[Len(from)]
<1>1. Len(from) \in Nat \ {0} /\ Len(to) \in Nat
  BY EmptySeq
<1>2. Last(from) = from[Len(from)] /\ Last(from) \in Entry
  BY <1>1 DEF Last
<1>3. Front(from) = SubSeq(from, 1, Len(from) - 1)
  BY DEF Front
<1>4. /\ Front(from) \in Seq(Entry) /\ Len(Front(from)) = Len(from) - 1
      /\ \A i \in DOMAIN Front(from) : i \in DOMAIN from /\ Front(from)[i] = from[i]
  <2> DEFINE n == Len(from) - 1
  <2>1. n \in Nat /\ n + 1 = Len(from) /\ DOMAIN from = 1..Len(from) /\ 1..n \subseteq DOMAIN from
    BY <1>1
  <2> HIDE DEF n
  <2>2. \A i \in 1..n : from[i] \in Entry
    BY <2>1
  <2>3. /\ SubSeq(from, 1, n) \in Seq(Entry)
        /\ Len(SubSeq(from, 1, n)) = IF 1 <= n THEN n - 1 + 1 ELSE 0
        /\ \A i \in 1..n - 1 + 1 : SubSeq(from, 1, n)[i] = from[1 + i - 1]
    BY <2>1, <2>2, SubSeqProperties
  <2>4. Front(from) = SubSeq(from, 1, n)
    BY <1>3 DEF n
  <2>5. Len(Front(from)) = n /\ \A i \in 1..n : Front(from)[i] = from[i]
    BY <2>1, <2>3, <2>4
  <2>6. DOMAIN Front(from) = 1..n
    BY <2>3, <2>4, <2>5
  <2> QED
    BY <2>1, <2>3, <2>4, <2>5, <2>6
<1> QED
  BY <1>1, <1>2, <1>4

LEMMA UndoTypes ==
    ASSUME TypeInv, Undo \/ Redo
    PROVE  TypeInv'
<1>1. undo \in Seq(Entry) /\ redo \in Seq(Entry) /\ Len(undo) + Len(redo) <= HistoryLimit
  BY DEF TypeInv, HistoryOK
<1>2. CASE Undo
  <2>1. /\ undo # << >> /\ ApplyHistory(Last(undo), Last(undo).before)
        /\ undo' = Front(undo) /\ redo' = Append(redo, Last(undo))
    BY <1>2 DEF Undo
  <2>2. /\ Last(undo) \in Entry /\ undo' \in Seq(Entry) /\ redo' \in Seq(Entry)
        /\ Len(undo') = Len(undo) - 1 /\ Len(redo') = Len(redo) + 1 /\ Len(undo) \in Nat /\ Len(redo) \in Nat
    BY <1>1, <2>1, StackTypes
  <2>3. HistoryOK(undo', redo')
    <3>1. Len(undo') + Len(redo') <= HistoryLimit
      BY <1>1, <2>2, EditorConstants
    <3> QED
      BY <2>2, <3>1 DEF HistoryOK
  <2> QED
    BY <2>1, <2>2, <2>3, HistoryTypes
<1>3. CASE Redo
  <2>1. /\ redo # << >> /\ ApplyHistory(Last(redo), Last(redo).after)
        /\ undo' = Append(undo, Last(redo)) /\ redo' = Front(redo)
    BY <1>3 DEF Redo
  <2>2. /\ Last(redo) \in Entry /\ undo' \in Seq(Entry) /\ redo' \in Seq(Entry)
        /\ Len(redo') = Len(redo) - 1 /\ Len(undo') = Len(undo) + 1 /\ Len(undo) \in Nat /\ Len(redo) \in Nat
    BY <1>1, <2>1, StackTypes
  <2>3. HistoryOK(undo', redo')
    <3>1. Len(undo') + Len(redo') <= HistoryLimit
      BY <1>1, <2>2, EditorConstants
    <3> QED
      BY <2>2, <3>1 DEF HistoryOK
  <2> QED
    BY <2>1, <2>2, <2>3, HistoryTypes
<1> QED
  BY <1>2, <1>3

LEMMA TextTypes ==
    ASSUME TypeInv, NEW id \in IdsOf(ref), NEW text \in Texts, Type(id, text) \/ PreviewStyle(id, text)
    PROVE  TypeInv'
<1> DEFINE o == WithText(Find(ref, id), text)
<1>1. Written(id, text, o) /\ pending' = Committed(Single(o)) /\ Edit
  BY DEF Type, PreviewStyle, Written
<1> HIDE DEF o
<1>2. ref \in Seq(Object) /\ id \in Ids /\ Find(ref, id) \in Object
  BY IdsAreIds, Finding DEF TypeInv
<1>3. o \in Object /\ mirror' \in Seq(Object) /\ ref' \in Seq(Object)
  BY <1>1, <1>2, TextShows
<1>4. pending' \in [Ids -> Object \cup {None}]
  BY <1>1, <1>3, SmallSides, CommittedTypes DEF TypeInv
<1>5. edits' \in 0..MaxEdits
  BY <1>1, EditCounts
<1>6. CASE Type(id, text)
  <2>1. tangled' \subseteq Ids
    BY <1>6, TangleTypes DEF Type
  <2>2. unrecorded' \subseteq Ids
    BY <1>2, <1>6 DEF Type, TypeInv
  <2> QED
    BY <1>3, <1>4, <1>5, <1>6, <2>1, <2>2 DEF Type, TypeInv, HistoryOK, history
<1>7. CASE PreviewStyle(id, text)
  <2>1. styled' \in Object \cup {None}
    BY <1>2, <1>7 DEF PreviewStyle, TypeInv
  <2> QED
    BY <1>3, <1>4, <1>5, <1>7, <2>1 DEF PreviewStyle, TypeInv, HistoryOK, history, traces
<1> QED
  BY <1>6, <1>7

LEMMA StyleTypes ==
    ASSUME TypeInv, CommitStyle
    PROVE  TypeInv'
<1>1. styled \in Object /\ styled' = None
  BY DEF CommitStyle, TypeInv
<1>2. HistoryOK(undo', redo')
  <2>1. CASE styled.id \in IdsOf(ref) /\ Find(ref, styled.id).text # styled.text
    <3>1. Find(ref, styled.id) \in Object
      BY <2>1, Finding DEF TypeInv
    <3>2. Single(styled) \in Side /\ Single(Find(ref, styled.id)) \in Side
      BY <1>1, <3>1, SmallSides
    <3> QED
      BY <2>1, <3>2, RecordTypes DEF CommitStyle, TypeInv, HistoryOK
  <2>2. CASE ~(styled.id \in IdsOf(ref) /\ Find(ref, styled.id).text # styled.text)
    BY <2>2 DEF CommitStyle, TypeInv, history
  <2> QED
    BY <2>1, <2>2
<1> QED
  BY <1>1, <1>2 DEF CommitStyle, TypeInv, HistoryOK, canvas, traces

LEMMA NextTypes == TypeInv /\ [Next]_vars => TypeInv'
<1> SUFFICES ASSUME TypeInv, [Next]_vars PROVE TypeInv'
  OBVIOUS
<1>1. CASE UNCHANGED vars
  BY <1>1 DEF vars, canvas, history, traces, TypeInv, HistoryOK
<1>2. CASE Next
  <2>1. ASSUME NEW id \in Ids, NEW place \in 0..Places - 1, NEW text \in Texts,
               NEW revision \in 1..MaxRevision,
               RemoteUpsert([id |-> id, home |-> note, place |-> place, text |-> text, revision |-> revision])
        PROVE  TypeInv'
    <3>1. revision \in 0..MaxRevision /\ note \in Note
      BY EditorConstants DEF TypeInv
    <3>2. [id |-> id, home |-> note, place |-> place, text |-> text, revision |-> revision] \in Object
      BY <3>1 DEF Object
    <3> QED
      BY <2>1, <3>2, RemoteTypes
  <2>2. ASSUME NEW ids \in SUBSET IdsOf(ref), DownMove(ids) \/ DeleteSelection(ids) PROVE TypeInv'
    BY <2>2, DownTypes, DeleteTypes
  <2>3. ASSUME NEW id \in IdsOf(ref), DownResize(id) \/ EraseAt(id) PROVE TypeInv'
    BY <2>3, DownTypes, DragTypes
  <2> QED
    BY <1>2, <2>1, <2>2, <2>3, OpenTypes, RemoteTypes, DownTypes, DragTypes, DropTypes, NewTypes,
       UndoTypes, TextTypes, StyleTypes DEF Next
<1> QED
  BY <1>1, <1>2

LEMMA EntryIs ==
    ASSUME NEW e \in Entry
    PROVE  /\ e.before \in Side /\ e.after \in Side
           /\ \A id \in DOMAIN e.before : e.before[id] \in Object /\ e.before[id].id = id
           /\ \A id \in DOMAIN e.after : e.after[id] \in Object /\ e.after[id].id = id
           /\ Names(e) \subseteq Ids
<1>1. e.before \in Side /\ e.after \in Side
  BY DEF Entry
<1> QED
  BY <1>1, SideIs DEF Names

LEMMA StacksAreEntries ==
    ASSUME TypeInv
    PROVE  /\ undo \in Seq(Entry) /\ redo \in Seq(Entry)
           /\ \A i \in DOMAIN undo : undo[i] \in Entry
           /\ \A i \in DOMAIN redo : redo[i] \in Entry
           /\ ToSet(undo \o redo) = {undo[i] : i \in DOMAIN undo} \cup {redo[i] : i \in DOMAIN redo}
<1>1. undo \in Seq(Entry) /\ redo \in Seq(Entry)
  BY DEF TypeInv, HistoryOK
<1>2. (\A i \in DOMAIN undo : undo[i] \in Entry) /\ (\A i \in DOMAIN redo : redo[i] \in Entry)
  BY <1>1
<1>3. /\ DOMAIN undo = 1..Len(undo) /\ Len(undo) \in Nat
      /\ DOMAIN redo = 1..Len(redo) /\ Len(redo) \in Nat
      /\ DOMAIN (undo \o redo) = 1..Len(undo) + Len(redo)
  BY <1>1
<1>4. ASSUME NEW i \in DOMAIN undo PROVE i \in DOMAIN (undo \o redo) /\ (undo \o redo)[i] = undo[i]
  BY <1>1, <1>3, <1>4
<1>5. ASSUME NEW i \in DOMAIN redo
      PROVE  Len(undo) + i \in DOMAIN (undo \o redo) /\ (undo \o redo)[Len(undo) + i] = redo[i]
  BY <1>1, <1>3, <1>5
<1>6. ASSUME NEW i \in DOMAIN (undo \o redo), i \notin DOMAIN undo
      PROVE  i - Len(undo) \in DOMAIN redo /\ (undo \o redo)[i] = redo[i - Len(undo)]
  BY <1>1, <1>3, <1>6
<1>7. ToSet(undo \o redo) = {(undo \o redo)[i] : i \in DOMAIN (undo \o redo)}
  BY DEF ToSet
<1>8. ASSUME NEW x \in ToSet(undo \o redo)
      PROVE  x \in {undo[i] : i \in DOMAIN undo} \cup {redo[i] : i \in DOMAIN redo}
  BY <1>4, <1>6, <1>7, <1>8
<1>9. ASSUME NEW x \in {undo[i] : i \in DOMAIN undo} \cup {redo[i] : i \in DOMAIN redo}
      PROVE  x \in ToSet(undo \o redo)
  BY <1>4, <1>5, <1>7, <1>9
<1> QED
  BY <1>1, <1>2, <1>8, <1>9

LEMMA TypesHold == TypeInv => TypeOK
<1> SUFFICES ASSUME TypeInv PROVE TypeOK
  OBVIOUS
<1>1. IsDrag(drag)
  <2>1. CASE drag = None
    BY <2>1 DEF IsDrag
  <2>2. CASE drag \in [kind : {"move"}, origins : UNION {[S -> 0..Places - 1] : S \in SUBSET Ids}]
    BY <2>2 DEF IsDrag
  <2>3. CASE drag \in [kind : {"resize"}, object : Object]
    BY <2>3 DEF IsDrag
  <2>4. CASE drag \in [kind : {"erase"}, removed : Side]
    <3>1. drag.kind = "erase" /\ drag.removed \in Side
      BY <2>4
    <3>2. \A id \in DOMAIN drag.removed : drag.removed[id] \in Object
      BY <3>1, SideIs
    <3> QED
      BY <3>1, <3>2 DEF IsDrag
  <2> QED
    BY <2>1, <2>2, <2>3, <2>4 DEF TypeInv, Gesture
<1>2. \A e \in ToSet(undo \o redo) :
          /\ \A id \in DOMAIN e.before : e.before[id] \in Object
          /\ \A id \in DOMAIN e.after : e.after[id] \in Object
  <2>1. ToSet(undo \o redo) \subseteq Entry
    BY StacksAreEntries
  <2> QED
    BY <2>1, EntryIs
<1>3. seeded \in BOOLEAN
  BY Zenon DEF TypeInv
<1>4. unrecorded \cup tangled \subseteq Ids
  BY DEF TypeInv
<1>5. /\ note \in Note /\ mirror \in Seq(Object) /\ ref \in Seq(Object)
      /\ styled \in Object \cup {None} /\ Len(undo) + Len(redo) <= HistoryLimit
      /\ pending \in [Ids -> Object \cup {None}]
      /\ imports \subseteq [id : Ids, note : Note] /\ made \subseteq Ids \X Note
      /\ edits \in 0..MaxEdits /\ events \in 0..MaxEvents
  BY DEF TypeInv, HistoryOK
<1> QED
  BY <1>1, <1>2, <1>3, <1>4, <1>5, Zenon DEF TypeOK

(* At most one gesture and one style are under way, each in its own shape, *)
(* the refs and states hold objects of the canvas, and no way around undo, *)
(* redo and new edits lets the history outgrow its limit.                  *)
THEOREM EditorTypes == Spec => []TypeOK
<1>1. TypeInv /\ [Next]_vars => TypeInv'
  BY NextTypes
<1> QED
  BY <1>1, InitTypes, TypesHold, PTL DEF Spec
-----------------------------------------------------------------------------
(* Ids: those in use were taken, and no import's object is in use yet *)

Spoken(u, r, s) == {id \in Ids : \/ \E i \in DOMAIN u : id \in Names(u[i])
                                 \/ \E i \in DOMAIN r : id \in Names(r[i])
                                 \/ s # None /\ s.id = id}
AroundOf(R, M, d, u, r, s) == IdsOf(R) \cup IdsOf(M) \cup HeldBy(d) \cup Spoken(u, r, s)
Around == AroundOf(ref, mirror, drag, undo, redo, styled)
Taken(m, id) == \E n \in Note : <<id, n>> \in m

Named(m, im, around) ==
    /\ \A id \in around : Taken(m, id)
    /\ \A n \in Note : \A id \in IdsOf(Cached[n]) : Taken(m, id)
    /\ \A i \in im : Taken(m, i.id) /\ i.id \notin around /\ \A n \in Note : i.id \notin IdsOf(Cached[n])
    /\ \A i, j \in im : i.id = j.id => i = j
NamesInv == Named(made, imports, Around)

LEMMA MentionedIs ==
    ASSUME TypeInv
    PROVE  Mentioned = Spoken(undo, redo, styled)
<1>1. /\ ToSet(undo \o redo) = {undo[i] : i \in DOMAIN undo} \cup {redo[i] : i \in DOMAIN redo}
      /\ \A i \in DOMAIN undo : undo[i] \in Entry
      /\ \A i \in DOMAIN redo : redo[i] \in Entry
  BY StacksAreEntries
<1>2. \A e \in Entry : Names(e) \subseteq Ids
  BY EntryIs
<1> DEFINE entries == ToSet(undo \o redo)
           style == {id \in Ids : styled # None /\ styled.id = id}
           named == UNION {DOMAIN e.before \cup DOMAIN e.after : e \in entries}
<1>3. Mentioned = named \cup style
  BY Zenon DEF Mentioned
<1> HIDE DEF entries, style
<1>a. \A id : id \in Mentioned <=> (\E e \in entries : id \in Names(e)) \/ id \in style
  <2>1. \A id : id \in named <=> \E e \in entries : id \in Names(e)
    <3>1. ASSUME NEW id, id \in named PROVE \E e \in entries : id \in Names(e)
      BY <3>1 DEF Names
    <3>2. ASSUME NEW id, NEW e \in entries, id \in Names(e) PROVE id \in named
      BY <3>2 DEF Names
    <3> QED
      BY <3>1, <3>2
  <2> HIDE DEF named
  <2>2. \A id : id \in Mentioned <=> id \in named \/ id \in style
    BY <1>3
  <2> QED
    BY <2>1, <2>2
<1>4. \A id : id \in Mentioned <=>
          \/ \E e \in ToSet(undo \o redo) : id \in Names(e)
          \/ id \in Ids /\ styled # None /\ styled.id = id
  BY <1>a DEF entries, style
<1>5. \A id : (\E e \in ToSet(undo \o redo) : id \in Names(e)) <=>
          \/ \E i \in DOMAIN undo : id \in Names(undo[i])
          \/ \E i \in DOMAIN redo : id \in Names(redo[i])
  BY <1>1
<1>6. \A id : id \in Spoken(undo, redo, styled) <=>
          /\ id \in Ids
          /\ \/ \E i \in DOMAIN undo : id \in Names(undo[i])
             \/ \E i \in DOMAIN redo : id \in Names(redo[i])
             \/ styled # None /\ styled.id = id
  BY DEF Spoken
<1>7. \A id : id \in Mentioned <=> id \in Spoken(undo, redo, styled)
  BY <1>1, <1>2, <1>4, <1>5, <1>6
<1> QED
  BY <1>7

\* What is recorded is the last entry of the stack, from which the first may have been taken.
LEMMA RecordIs ==
    ASSUME HistoryOK(undo, redo), NEW b \in Side, NEW a \in Side, Record(b, a)
    PROVE  /\ redo' = << >>
           /\ \E k \in {0, 1} :
                 /\ Len(undo') = Len(undo) + 1 - k /\ Len(undo) \in Nat
                 /\ DOMAIN undo = 1..Len(undo) /\ DOMAIN undo' = 1..Len(undo')
                 /\ undo'[Len(undo')] = [before |-> b, after |-> a] /\ Len(undo') >= 1
                 /\ \A i \in DOMAIN undo' : i < Len(undo') =>
                       i + k \in DOMAIN undo /\ undo'[i] = undo[i + k]
<1> DEFINE e == [before |-> b, after |-> a]
           longer == Append(undo, e)
<1>1. e \in Entry /\ undo \in Seq(Entry)
  BY DEF Entry, HistoryOK
<1>2. undo' = (IF Len(longer) > HistoryLimit THEN Tail(longer) ELSE longer) /\ redo' = << >>
  BY DEF Record
<1> HIDE DEF e
<1>3. /\ longer \in Seq(Entry) /\ Len(longer) = Len(undo) + 1 /\ Len(undo) \in Nat
      /\ DOMAIN undo = 1..Len(undo) /\ DOMAIN longer = 1..Len(undo) + 1
      /\ longer[Len(undo) + 1] = e /\ \A i \in DOMAIN undo : longer[i] = undo[i]
  BY <1>1
<1> HIDE DEF longer
<1>4. HistoryLimit \in Nat /\ HistoryLimit >= 1
  BY EditorConstants
<1>5. CASE Len(longer) > HistoryLimit
  <2>1. undo' = Tail(longer) /\ Len(undo) >= 1
    BY <1>2, <1>3, <1>4, <1>5
  <2>2. /\ Len(Tail(longer)) = Len(undo) /\ DOMAIN Tail(longer) = 1..Len(undo)
        /\ \A i \in 1..Len(undo) : Tail(longer)[i] = longer[i + 1]
    BY <1>3
  <2>3. /\ Len(undo') = Len(undo) + 1 - 1 /\ DOMAIN undo' = 1..Len(undo') /\ undo'[Len(undo')] = e
        /\ Len(undo') >= 1
        /\ \A i \in DOMAIN undo' : i < Len(undo') => i + 1 \in DOMAIN undo /\ undo'[i] = undo[i + 1]
    BY <1>3, <2>1, <2>2
  <2> QED
    BY <1>2, <1>3, <2>3 DEF e
<1>6. CASE ~(Len(longer) > HistoryLimit)
  <2>1. undo' = longer
    BY <1>2, <1>6
  <2>2. /\ Len(undo') = Len(undo) + 1 - 0 /\ DOMAIN undo' = 1..Len(undo') /\ undo'[Len(undo')] = e
        /\ Len(undo') >= 1
        /\ \A i \in DOMAIN undo' : i < Len(undo') => i + 0 \in DOMAIN undo /\ undo'[i] = undo[i + 0]
    BY <1>3, <2>1
  <2> QED
    BY <1>2, <1>3, <2>2 DEF e
<1> QED
  BY <1>5, <1>6

LEMMA RecordSpeaks ==
    ASSUME HistoryOK(undo, redo), NEW b \in Side, NEW a \in Side, Record(b, a), NEW s
    PROVE  Spoken(undo', redo', s) \subseteq Spoken(undo, redo, s) \cup DOMAIN b \cup DOMAIN a
<1>1. PICK k \in {0, 1} :
          /\ DOMAIN undo' = 1..Len(undo') /\ Len(undo') = Len(undo) + 1 - k /\ Len(undo) \in Nat
          /\ undo'[Len(undo')] = [before |-> b, after |-> a]
          /\ \A i \in DOMAIN undo' : i < Len(undo') => i + k \in DOMAIN undo /\ undo'[i] = undo[i + k]
  BY RecordIs
<1>2. redo' = << >>
  BY RecordIs
<1>3. Names(undo'[Len(undo')]) = DOMAIN b \cup DOMAIN a
  BY <1>1 DEF Names
<1>4. ASSUME NEW id, NEW i \in DOMAIN undo', id \in Names(undo'[i])
      PROVE  id \in DOMAIN b \cup DOMAIN a \/ \E j \in DOMAIN undo : id \in Names(undo[j])
  <2>1. i = Len(undo') \/ i < Len(undo')
    BY <1>1
  <2> QED
    BY <1>1, <1>3, <1>4, <2>1
<1>5. DOMAIN redo' = {}
  BY <1>2
<1> QED
  BY <1>4, <1>5 DEF Spoken

Brought(m, im, new) == \A id \in new : Taken(m, id) /\ \A i \in im : i.id # id

LEMMA NamesStep ==
    ASSUME NEW m, NEW im, NEW around, Named(m, im, around),
           NEW m2, NEW im2, NEW around2, NEW new, m \subseteq m2, im2 \subseteq im,
           around2 \subseteq around \cup new, Brought(m2, im2, new)
    PROVE  Named(m2, im2, around2)
<1> USE DEF Brought
<1>1. \A id : Taken(m, id) => Taken(m2, id)
  BY DEF Taken
<1>2. \A id \in around2 : Taken(m2, id)
  BY <1>1 DEF Named
<1>3. \A n \in Note : \A id \in IdsOf(Cached[n]) : Taken(m2, id)
  BY <1>1 DEF Named
<1>4. \A i \in im2 : Taken(m2, i.id) /\ i.id \notin around2 /\ \A n \in Note : i.id \notin IdsOf(Cached[n])
  BY <1>1 DEF Named
<1>5. \A i, j \in im2 : i.id = j.id => i = j
  BY DEF Named
<1> QED
  BY <1>2, <1>3, <1>4, <1>5 DEF Named

LEMMA InitNames == Init => NamesInv
<1> SUFFICES ASSUME Init PROVE NamesInv
  OBVIOUS
<1>1. Around = {}
  <2>1. IdsOf(<< >>) = {}
    BY DEF IdsOf
  <2>2. HeldBy(None) = {}
    BY DEF HeldBy, None
  <2>3. Spoken(<< >>, << >>, None) = {}
    BY DEF Spoken
  <2> QED
    BY <2>1, <2>2, <2>3 DEF Around, AroundOf, Init
<1>2. ASSUME NEW n \in Note, NEW id \in IdsOf(Cached[n]) PROVE Taken(made, id)
  <2>1. <<id, n>> \in IdsOf(Cached[n]) \X {n}
    OBVIOUS
  <2>2. made = UNION {IdsOf(Cached[k]) \X {k} : k \in Note}
    BY DEF Init
  <2> QED
    BY <2>1, <2>2 DEF Taken
<1>3. imports = {}
  BY DEF Init
<1> QED
  BY <1>1, <1>2, <1>3 DEF NamesInv, Named

\* A step that takes no import up, and brings in ids that are taken by no import.
LEMMA NamesKept ==
    ASSUME NamesInv, NEW new, made \subseteq made', imports' \subseteq imports,
           Around' \subseteq Around \cup new, Brought(made', imports', new)
    PROVE  NamesInv'
<1> DEFINE m2 == made'
           im2 == imports'
           around2 == Around'
<1>1. Named(made, imports, Around)
  BY DEF NamesInv
<1>2. /\ made \subseteq m2 /\ im2 \subseteq imports /\ around2 \subseteq Around \cup new
      /\ Brought(m2, im2, new)
  OBVIOUS
<1> HIDE DEF m2, im2, around2
<1>3. Named(m2, im2, around2)
  BY <1>1, <1>2, NamesStep
<1> QED
  BY <1>3 DEF NamesInv, m2, im2, around2

\* A step that brings in no id.
LEMMA NoNewNames ==
    ASSUME NamesInv, made' = made, imports' \subseteq imports, Around' \subseteq Around
    PROVE  NamesInv'
<1>1. Brought(made', imports', {}) /\ made \subseteq made' /\ Around' \subseteq Around \cup {}
  BY DEF Brought
<1> QED
  BY <1>1, NamesKept

LEMMA AroundIs ==
    /\ Around = IdsOf(ref) \cup IdsOf(mirror) \cup HeldBy(drag) \cup Spoken(undo, redo, styled)
    /\ Around' = IdsOf(ref') \cup IdsOf(mirror') \cup HeldBy(drag') \cup Spoken(undo', redo', styled')
BY DEF Around, AroundOf

LEMMA NothingAround ==
    /\ IdsOf(<< >>) = {} /\ HeldBy(None) = {} /\ Spoken(<< >>, << >>, None) = {}
    /\ \A u, r, s : Spoken(u, r, None) \subseteq Spoken(u, r, s)
<1>1. IdsOf(<< >>) = {}
  BY DEF IdsOf
<1>2. HeldBy(None) = {}
  BY DEF HeldBy, None
<1>3. Spoken(<< >>, << >>, None) = {}
  BY DEF Spoken
<1>4. \A u, r, s : Spoken(u, r, None) \subseteq Spoken(u, r, s)
  BY DEF Spoken
<1> QED
  BY <1>1, <1>2, <1>3, <1>4

LEMMA OpenNames ==
    ASSUME TypeInv, NamesInv, OpenNote \/ Seed \/ Render
    PROVE  NamesInv'
<1>1. CASE OpenNote
  <2>1. /\ ref' = << >> /\ mirror' = << >> /\ drag' = None /\ styled' = None /\ undo' = << >> /\ redo' = << >>
        /\ imports' = imports /\ made' = made
    BY <1>1 DEF OpenNote, Show, ForgetHistory
  <2>2. Around' = {}
    BY <2>1, AroundIs, NothingAround
  <2> QED
    BY <2>1, <2>2, NoNewNames
<1>2. CASE Seed
  <2>1. /\ ref' = ref /\ drag' = drag /\ styled' = styled /\ undo' = undo /\ redo' = redo
        /\ imports' = imports /\ made' = made
    BY <1>2 DEF Seed, history
  <2>2. IdsOf(mirror') = IdsOf(mirror) \cup IdsOf(Rows) /\ IdsOf(Rows) \subseteq IdsOf(Cached[note]) /\ note \in Note
    BY <1>2, SeedShows DEF TypeInv
  <2>3. Around' \subseteq Around \cup IdsOf(Rows)
    BY <2>1, <2>2, AroundIs
  <2>4. Brought(made', imports', IdsOf(Rows)) /\ made \subseteq made'
    BY <2>1, <2>2 DEF NamesInv, Named, Brought
  <2> QED
    BY <2>1, <2>3, <2>4, NamesKept
<1>3. CASE Render
  <2>1. /\ ref' = mirror /\ mirror' = mirror /\ drag' = drag /\ styled' = styled /\ undo' = undo /\ redo' = redo
        /\ imports' = imports /\ made' = made
    BY <1>3 DEF Render, history
  <2>2. Around' \subseteq Around
    BY <2>1, AroundIs
  <2> QED
    BY <2>1, <2>2, NoNewNames
<1> QED
  BY <1>1, <1>2, <1>3

LEMMA RemoteNames ==
    ASSUME TypeInv, NamesInv,
           (\E remote \in Object : RemoteUpsert(remote)) \/ \E id \in Ids : RemoteDelete(id)
    PROVE  NamesInv'
<1>1. ASSUME NEW remote \in Object, RemoteUpsert(remote) PROVE NamesInv'
  <2>1. /\ ref' = ref /\ drag' = drag /\ styled' = styled /\ undo' = undo /\ redo' = redo
        /\ imports' = imports /\ made' = made \cup {<<remote.id, note>>}
        /\ \A i \in imports : i.id # remote.id
    BY <1>1 DEF RemoteUpsert, history
  <2>2. IdsOf(mirror') = IdsOf(mirror) \cup {remote.id}
    BY <1>1, UpsertShows
  <2>3. Around' \subseteq Around \cup {remote.id}
    BY <2>1, <2>2, AroundIs
  <2>4. Brought(made', imports', {remote.id}) /\ made \subseteq made'
    BY <2>1 DEF Taken, TypeInv, Brought
  <2> QED
    BY <2>1, <2>3, <2>4, NamesKept
<1>2. ASSUME NEW id \in Ids, RemoteDelete(id) PROVE NamesInv'
  <2>1. /\ ref' = ref /\ drag' = drag /\ styled' = styled /\ undo' = undo /\ redo' = redo
        /\ imports' = imports /\ made' = made
    BY <1>2 DEF RemoteDelete, history
  <2>2. IdsOf(mirror') = IdsOf(mirror) \ {id}
    BY <1>2, RemovalShows
  <2>3. Around' \subseteq Around
    BY <2>1, <2>2, AroundIs
  <2> QED
    BY <2>1, <2>3, NoNewNames
<1> QED
  BY <1>1, <1>2

\* A gesture that begins holds ids of the canvas.
LEMMA DownHolds ==
    ASSUME TypeInv,
           \/ \E ids \in SUBSET IdsOf(ref) : DownMove(ids)
           \/ \E id \in IdsOf(ref) : DownResize(id)
           \/ DownErase
    PROVE  /\ drag = None /\ styled = None /\ styled' = None
           /\ ref' = ref /\ mirror' = mirror /\ undo' = undo /\ redo' = redo /\ pending' = pending
           /\ imports' = imports /\ made' = made /\ unrecorded' = unrecorded
           /\ HeldBy(drag') \subseteq IdsOf(ref)
           /\ tangled' = tangled \cup {id \in HeldBy(drag') : \/ id \notin IdsOf(mirror)
                                                              \/ Find(mirror, id) # Find(ref, id)}
           /\ \A id \in HeldBy(drag') :
                 \/ drag'.kind = "move" /\ drag'.origins[id] = Find(ref, id).place
                 \/ drag'.kind = "resize" /\ drag'.object = Find(ref, id)
<1>1. ASSUME NEW gesture, NEW ids, Begin(gesture, ids)
      PROVE  /\ drag = None /\ styled = None /\ styled' = None /\ drag' = gesture
             /\ ref' = ref /\ mirror' = mirror /\ undo' = undo /\ redo' = redo /\ pending' = pending
             /\ imports' = imports /\ made' = made /\ unrecorded' = unrecorded
             /\ tangled' = tangled \cup {id \in ids : \/ id \notin IdsOf(mirror)
                                                      \/ Find(mirror, id) # Find(ref, id)}
  BY <1>1 DEF Begin, Free, canvas, history
<1>2. ASSUME NEW ids \in SUBSET IdsOf(ref), DownMove(ids)
      PROVE  /\ Begin([kind |-> "move", origins |-> [id \in ids |-> Find(ref, id).place]], ids)
             /\ drag'.kind = "move" /\ DOMAIN drag'.origins = ids /\ HeldBy(drag') = ids
             /\ \A id \in ids : drag'.origins[id] = Find(ref, id).place
  BY <1>2 DEF DownMove, Begin, HeldBy
<1>3. ASSUME NEW id \in IdsOf(ref), DownResize(id)
      PROVE  /\ Begin([kind |-> "resize", object |-> Find(ref, id)], {id})
             /\ drag'.kind = "resize" /\ drag'.object = Find(ref, id) /\ HeldBy(drag') = {id}
  <2>1. Find(ref, id).id = id
    BY Finding DEF TypeInv
  <2> QED
    BY <1>3, <2>1 DEF DownResize, Begin, HeldBy
<1>4. ASSUME DownErase
      PROVE  Begin([kind |-> "erase", removed |-> Nothing], {}) /\ HeldBy(drag') = {}
  BY <1>4, SmallSides DEF DownErase, Begin, HeldBy
<1> QED
  BY <1>1, <1>2, <1>3, <1>4

LEMMA GestureNames ==
    ASSUME TypeInv, NamesInv,
           \/ \E ids \in SUBSET IdsOf(ref) : DownMove(ids)
           \/ \E id \in IdsOf(ref) : DownResize(id) \/ EraseAt(id)
           \/ \E by \in 0..Places - 1 : Move(by)
           \/ DownErase \/ Cancel \/ Abandon
    PROVE  NamesInv'
<1>1. CASE \/ \E ids \in SUBSET IdsOf(ref) : DownMove(ids)
           \/ \E id \in IdsOf(ref) : DownResize(id)
           \/ DownErase
  <2>1. /\ styled' = styled /\ ref' = ref /\ mirror' = mirror /\ undo' = undo /\ redo' = redo
        /\ imports' = imports /\ made' = made /\ HeldBy(drag') \subseteq IdsOf(ref)
    BY <1>1, DownHolds
  <2>2. Around' \subseteq Around
    BY <2>1, AroundIs
  <2> QED
    BY <2>1, <2>2, NoNewNames
<1>2. ASSUME NEW id \in IdsOf(ref), EraseAt(id) PROVE NamesInv'
  <2>1. /\ IdsOf(ref') = IdsOf(ref) \ {id} /\ mirror' = ref' /\ HeldBy(drag') = HeldBy(drag) \cup {id}
    BY <1>2, EraseShows
  <2>2. /\ styled' = styled /\ undo' = undo /\ redo' = redo /\ imports' = imports /\ made' = made
    BY <1>2 DEF EraseAt, Dragging, history
  <2>3. Around' \subseteq Around
    BY <2>1, <2>2, AroundIs
  <2> QED
    BY <2>2, <2>3, NoNewNames
<1>3. ASSUME NEW by \in 0..Places - 1, Move(by) PROVE NamesInv'
  <2>1. IdsOf(ref') = IdsOf(ref) /\ mirror' = ref'
    BY <1>3, MoveShows
  <2>2. /\ drag' = drag /\ styled' = styled /\ undo' = undo /\ redo' = redo /\ imports' = imports
        /\ made' = made
    BY <1>3 DEF Move, Dragging, history
  <2>3. Around' \subseteq Around
    BY <2>1, <2>2, AroundIs
  <2> QED
    BY <2>2, <2>3, NoNewNames
<1>4. CASE Cancel
  <2>1. IdsOf(ref') \subseteq IdsOf(ref) \cup HeldBy(drag) /\ mirror' = ref'
    BY <1>4, CancelShows
  <2>2. /\ drag' = None /\ styled' = styled /\ undo' = undo /\ redo' = redo /\ imports' = imports
        /\ made' = made
    BY <1>4 DEF Cancel, Dragging, history
  <2>3. Around' \subseteq Around
    BY <2>1, <2>2, AroundIs, NothingAround
  <2> QED
    BY <2>2, <2>3, NoNewNames
<1>5. CASE Abandon
  <2>1. /\ drag' = None /\ styled' = styled /\ undo' = undo /\ redo' = redo /\ imports' = imports
        /\ made' = made /\ ref' = ref /\ mirror' = mirror
    BY <1>5 DEF Abandon, history, canvas
  <2>2. Around' \subseteq Around
    BY <2>1, AroundIs, NothingAround
  <2> QED
    BY <2>1, <2>2, NoNewNames
<1> QED
  BY <1>1, <1>2, <1>3, <1>4, <1>5
-----------------------------------------------------------------------------
(* What the handlers that commit an edit change *)

\* The sides b and a are recorded, or nothing is because they are empty.
Recorded(b, a) ==
    \/ Record(b, a)
    \/ undo' = undo /\ redo' = redo /\ DOMAIN b = {} /\ DOMAIN a = {}

Aside == imports' = imports /\ made' = made

LEMMA DropIs ==
    ASSUME TypeInv, Drop \/ DropEraser
    PROVE  /\ drag # None /\ styled = None
           /\ drag' = None /\ styled' = None /\ ref' = ref /\ mirror' = mirror /\ Aside
           /\ unrecorded' = unrecorded /\ tangled' = tangled
           /\ \E b, a \in Side :
                 /\ Recorded(b, a) /\ pending' = Committed(a)
                 /\ DOMAIN a \subseteq DOMAIN b /\ DOMAIN b \subseteq HeldBy(drag)
                 /\ \A id \in DOMAIN b : Content(b[id]) = FoundOf(drag, id, On(ref, id))
                 /\ \A id \in DOMAIN a : id \in IdsOf(ref) /\ a[id] = Find(ref, id)
                 /\ drag.kind = "erase" => DOMAIN b = HeldBy(drag) /\ DOMAIN a = {}
                 /\ drag.kind # "erase" =>
                       /\ DOMAIN a = DOMAIN b
                       /\ \A id \in HeldBy(drag) \cap IdsOf(ref) : id \notin DOMAIN b =>
                             FoundOf(drag, id, On(ref, id))[1] = Find(ref, id).place
<1>1. CASE Drop
  <2>1. /\ drag.kind \in {"move", "resize"} /\ drag' = None /\ pending' = Committed(DropAfter)
        /\ IF DroppedIds # {} THEN Record(DropBefore, DropAfter) ELSE UNCHANGED history
        /\ UNCHANGED <<note, ref, mirror, seeded, styled, imports, made, unrecorded, tangled, edits, events>>
    BY <1>1 DEF Drop, DroppedIds, DropBefore, DropAfter, canvas, traces
  <2>2. drag # None /\ styled = None
    BY <2>1 DEF None, TypeInv
  <2>3. DropBefore \in Side /\ DropAfter \in Side /\ DroppedIds \subseteq HeldBy(drag) \cap IdsOf(ref)
    BY <2>1, DropSides
  <2>4. DOMAIN DropBefore = DroppedIds /\ DOMAIN DropAfter = DroppedIds
    BY DEF DropBefore, DropAfter
  <2>5. Recorded(DropBefore, DropAfter)
    BY <2>1, <2>4 DEF Recorded, history
  <2>6. /\ DOMAIN Found = HeldBy(drag) \cap IdsOf(ref)
        /\ \A id \in DOMAIN Found : /\ Found[id] \in Object
                                    /\ Content(Found[id]) = FoundOf(drag, id, On(ref, id))
    BY <2>1, FoundIs
  <2>7. \A id \in DroppedIds : DropBefore[id] = Found[id] /\ DropAfter[id] = Find(ref, id)
    BY DEF DropBefore, DropAfter
  <2>8. \A id \in HeldBy(drag) \cap IdsOf(ref) : id \notin DroppedIds =>
            FoundOf(drag, id, On(ref, id))[1] = Find(ref, id).place
    BY <2>6, ObjectFields DEF DroppedIds
  <2>9. drag.kind # "erase"
    BY <2>1
  <2> QED
    BY <2>1, <2>2, <2>3, <2>4, <2>5, <2>6, <2>7, <2>8, <2>9 DEF Aside
<1>2. CASE DropEraser
  <2>1. drag.kind = "erase" /\ drag.removed \in Side /\ HeldBy(drag) = DOMAIN drag.removed
    BY <1>2, GestureIs DEF DropEraser, TypeInv
  <2>2. drag # None /\ styled = None
    BY <2>1 DEF None, TypeInv
  <2>3. Nothing \in Side /\ DOMAIN Nothing = {}
    BY SmallSides
  <2>4. Recorded(drag.removed, Nothing)
    BY <1>2, <2>1, <2>3, HeldIs DEF DropEraser, Recorded, history
  <2>5. pending' = Committed(Nothing)
    <3>1. pending' = pending /\ pending \in [Ids -> Object \cup {None}]
      BY <1>2 DEF DropEraser, TypeInv
    <3>2. \A id \in Ids : Committed(Nothing)[id] = pending[id]
      BY <2>3 DEF Committed
    <3>3. Committed(Nothing) = [id \in Ids |-> Committed(Nothing)[id]]
      BY DEF Committed
    <3> QED
      BY <3>1, <3>2, <3>3
  <2>6. \A id \in HeldBy(drag) : Content(drag.removed[id]) = FoundOf(drag, id, On(ref, id))
    BY <2>1 DEF FoundOf
  <2> QED
    BY <1>2, <2>1, <2>2, <2>3, <2>4, <2>5, <2>6 DEF DropEraser, canvas, traces, Aside
<1> QED
  BY <1>1, <1>2

LEMMA NewIs ==
    ASSUME TypeInv, NamesInv,
           \/ \E id \in Ids, place \in 0..Places - 1 : Create(id, place)
           \/ \E i \in imports : EndImport(i)
    PROVE  \E o \in Object :
               /\ o.id \notin Around
               /\ drag' = drag /\ styled' = styled /\ unrecorded' = unrecorded /\ tangled' = tangled
               /\ imports' \subseteq imports /\ made \subseteq made' /\ Brought(made', imports', {o.id})
               /\ mirror' = ref' /\ ref' = Append(ref, o)
               /\ pending' = Committed(Single(o)) /\ Record(Nothing, Single(o))
<1>1. ASSUME NEW id \in Ids, NEW place \in 0..Places - 1, Create(id, place)
      PROVE  \E o \in Object :
               /\ o.id \notin Around
               /\ drag' = drag /\ styled' = styled /\ unrecorded' = unrecorded /\ tangled' = tangled
               /\ imports' \subseteq imports /\ made \subseteq made' /\ Brought(made', imports', {o.id})
               /\ mirror' = ref' /\ ref' = Append(ref, o)
               /\ pending' = Committed(Single(o)) /\ Record(Nothing, Single(o))
  <2> DEFINE o == Blank(id, note, place)
  <2>1. note \in Note /\ o \in Object /\ o.id = id
    BY BlankIs DEF TypeInv
  <2>2. Appended(o) /\ Fresh(id) /\ made' = made \cup {<<id, note>>}
    BY <1>1 DEF Create, Blank
  <2> HIDE DEF o
  <2>3. ~Taken(made, id)
    BY <2>2 DEF Fresh, Taken
  <2>4. id \notin Around /\ \A i \in imports : i.id # id
    BY <2>3 DEF NamesInv, Named
  <2>5. Brought(made', imports', {o.id})
    BY <1>1, <2>1, <2>2, <2>4 DEF Create, Brought, Taken
  <2> QED
    BY <1>1, <2>1, <2>2, <2>4, <2>5 DEF Create, Appended, Show, traces
<1>2. ASSUME NEW i \in imports, EndImport(i)
      PROVE  \E o \in Object :
               /\ o.id \notin Around
               /\ drag' = drag /\ styled' = styled /\ unrecorded' = unrecorded /\ tangled' = tangled
               /\ imports' \subseteq imports /\ made \subseteq made' /\ Brought(made', imports', {o.id})
               /\ mirror' = ref' /\ ref' = Append(ref, o)
               /\ pending' = Committed(Single(o)) /\ Record(Nothing, Single(o))
  <2> DEFINE o == Blank(i.id, i.note, 0)
  <2>1. i.id \in Ids /\ i.note \in Note /\ 0 \in 0..Places - 1
    BY EditorConstants DEF TypeInv
  <2>2. o \in Object /\ o.id = i.id
    BY <2>1, BlankIs
  <2>3. Appended(o) /\ imports' = imports \ {i} /\ made' = made
    BY <1>2 DEF EndImport, Blank
  <2> HIDE DEF o
  <2>4. o.id \notin Around
    BY <2>2 DEF NamesInv, Named
  <2>5. Brought(made', imports', {o.id})
    BY <2>2, <2>3 DEF NamesInv, Named, Brought
  <2> QED
    BY <1>2, <2>2, <2>3, <2>4, <2>5 DEF EndImport, Appended, Show
<1> QED
  BY <1>1, <1>2

LEMMA DeleteIs ==
    ASSUME TypeInv, NEW ids \in SUBSET IdsOf(ref), DeleteSelection(ids)
    PROVE  /\ styled = None /\ styled' = None /\ drag' = drag /\ pending' = pending /\ Aside
           /\ unrecorded' = unrecorded
           /\ \E b \in Side :
                 /\ Record(b, Nothing) /\ tangled' = tangled \cup (DOMAIN b \cap HeldBy(drag))
                 /\ mirror' = ref' /\ IdsOf(ref') = IdsOf(ref) \ DOMAIN b
                 /\ \A id : Once(ref, id) =>
                       /\ Once(ref', id)
                       /\ On(ref', id) = IF id \in DOMAIN b THEN <<>> ELSE On(ref, id)
                 /\ \A id \in DOMAIN b : id \in IdsOf(ref) /\ b[id] = Find(ref, id)
<1> DEFINE removed == {id \in ids : ~Locked(id)}
           before == [id \in removed |-> Find(ref, id)]
<1>1. /\ ref' = Without(ref, removed) /\ mirror' = ref' /\ Record(before, Nothing) /\ Tangle(removed)
  BY DEF DeleteSelection, Show
<1>2. ref \in Seq(Object) /\ removed \in SUBSET IdsOf(ref)
  BY DEF TypeInv
<1>3. before \in Side /\ DOMAIN before = removed /\ \A id \in removed : before[id] = Find(ref, id)
  BY <1>2, SideOfRef
<1> HIDE DEF before, removed
<1>4. tangled' = tangled \cup (removed \cap HeldBy(drag))
  BY <1>1, HeldIs DEF Tangle
<1>5. /\ IdsOf(ref') = IdsOf(ref) \ removed
      /\ \A id : Once(ref, id) =>
            Once(ref', id) /\ On(ref', id) = IF id \in removed THEN <<>> ELSE On(ref, id)
  BY <1>1, <1>2, WithoutIs
<1> QED
  BY <1>1, <1>2, <1>3, <1>4, <1>5 DEF DeleteSelection, Aside

LEMMA HistoryIs ==
    ASSUME TypeInv, NEW e \in Entry, NEW desired \in {e.before, e.after}, ApplyHistory(e, desired)
    PROVE  /\ styled = None /\ styled' = None /\ drag' = drag /\ Aside
           /\ unrecorded' = unrecorded /\ tangled' = tangled \cup (Names(e) \cap HeldBy(drag))
           /\ mirror' = ref' /\ ref' \in Seq(Object) /\ IdsOf(ref') \subseteq IdsOf(ref) \cup Names(e)
           /\ \A id : Once(ref, id) =>
                 /\ Once(ref', id)
                 /\ On(ref', id) = IF id \in DOMAIN desired THEN Content(desired[id])
                                   ELSE IF id \in Names(e) THEN <<>> ELSE On(ref, id)
           /\ DOMAIN desired \subseteq IdsOf(ref') /\ DOMAIN desired \subseteq Names(e)
           /\ \A id \in Ids : pending'[id] = IF id \in DOMAIN desired THEN Find(ref', id) ELSE pending[id]
<1> DEFINE objects == Restored(e, desired)
           mine == [id \in DOMAIN desired |-> Find(objects, id)]
<1>1. /\ ref' = objects /\ mirror' = objects /\ pending' = Committed(mine)
      /\ Tangle(DOMAIN e.before \cup DOMAIN e.after) /\ styled = None
      /\ UNCHANGED <<note, seeded, drag, styled, imports, made, unrecorded, events>>
  BY DEF ApplyHistory, Show
<1>2. /\ objects \in Seq(Object) /\ mine \in Side
      /\ IdsOf(objects) = (IdsOf(ref) \ Names(e)) \cup DOMAIN desired
      /\ \A id : Once(ref, id) =>
            /\ Once(objects, id)
            /\ On(objects, id) = IF id \in DOMAIN desired THEN Content(desired[id])
                                 ELSE IF id \in Names(e) THEN <<>> ELSE On(ref, id)
      /\ DOMAIN desired \subseteq Names(e)
  BY RestoredIs DEF TypeInv
<1>3. DOMAIN mine = DOMAIN desired /\ \A id \in DOMAIN desired : mine[id] = Find(objects, id)
  OBVIOUS
<1> HIDE DEF objects, mine
<1>4. \A id \in Ids : pending'[id] = IF id \in DOMAIN desired THEN Find(ref', id) ELSE pending[id]
  BY <1>1, <1>2, <1>3, CommittedTypes DEF TypeInv
<1>5. tangled' = tangled \cup (Names(e) \cap HeldBy(drag))
  BY <1>1, HeldIs DEF Tangle, Names
<1> QED
  BY <1>1, <1>2, <1>4, <1>5 DEF Aside

LEMMA TextIs ==
    ASSUME TypeInv, NEW id \in IdsOf(ref), NEW text \in Texts, Type(id, text) \/ PreviewStyle(id, text)
    PROVE  /\ drag' = drag /\ undo' = undo /\ redo' = redo /\ Aside
           /\ \E o \in Object :
                 /\ o.id = id /\ o.place = Find(ref, id).place /\ Find(ref, id) \in Object
                 /\ mirror' = ref' /\ IdsOf(ref') = IdsOf(ref)
                 /\ \A k : Once(ref, k) => /\ Once(ref', k)
                                           /\ On(ref', k) = IF k = id THEN Content(o) ELSE On(ref, k)
                 /\ \A k \in Ids : pending'[k] = IF k = id THEN o ELSE pending[k]
           /\ \/ /\ styled = None /\ styled' = None
                 /\ unrecorded' = unrecorded \cup ({id} \cap Mentioned)
                 /\ tangled' = tangled \cup ({id} \cap HeldBy(drag))
              \/ /\ drag = None /\ unrecorded' = unrecorded /\ tangled' = tangled
                 /\ styled # None => styled.id = id /\ styled' = styled
                 /\ styled = None => styled' = Find(ref, id)
                 /\ Find(ref, id).id = id
<1> DEFINE o == WithText(Find(ref, id), text)
<1>1. Written(id, text, o) /\ pending' = Committed(Single(o))
  BY DEF Type, PreviewStyle, Written
<1> HIDE DEF o
<1>2. ref \in Seq(Object) /\ Find(ref, id) \in Object /\ Find(ref, id).id = id
  BY Finding DEF TypeInv
<1>3. /\ o \in Object /\ o.id = id /\ o.place = Find(ref, id).place
      /\ mirror' = ref' /\ IdsOf(ref') = IdsOf(ref)
      /\ \A k : Once(ref, k) => /\ Once(ref', k)
                                /\ On(ref', k) = IF k = id THEN Content(o) ELSE On(ref, k)
  BY <1>1, <1>2, TextShows
<1>4. \A k \in Ids : pending'[k] = IF k = id THEN o ELSE pending[k]
  <2>1. Single(o) \in Side /\ DOMAIN Single(o) = {id} /\ Single(o)[id] = o
    BY <1>3, SmallSides
  <2>2. pending \in [Ids -> Object \cup {None}]
    BY DEF TypeInv
  <2>3. \A k \in Ids : Committed(Single(o))[k] = IF k \in DOMAIN Single(o) THEN Single(o)[k] ELSE pending[k]
    BY <2>1, <2>2, CommittedTypes
  <2> QED
    BY <1>1, <2>1, <2>3
<1>5. drag' = drag /\ undo' = undo /\ redo' = redo /\ Aside
  BY DEF Type, PreviewStyle, history, Aside
<1>6. \/ /\ styled = None /\ styled' = None
         /\ unrecorded' = unrecorded \cup ({id} \cap Mentioned)
         /\ tangled' = tangled \cup ({id} \cap HeldBy(drag))
      \/ /\ drag = None /\ unrecorded' = unrecorded /\ tangled' = tangled
         /\ styled # None => styled.id = id /\ styled' = styled
         /\ styled = None => styled' = Find(ref, id)
  <2>1. CASE Type(id, text)
    BY <2>1, HeldIs DEF Type, Tangle
  <2>2. CASE PreviewStyle(id, text)
    BY <2>2 DEF PreviewStyle, traces
  <2> QED
    BY <2>1, <2>2
<1> QED
  BY <1>2, <1>3, <1>4, <1>5, <1>6

LEMMA StyleIs ==
    ASSUME TypeInv, CommitStyle
    PROVE  /\ styled \in Object /\ styled # None /\ styled' = None /\ drag = None /\ drag' = None
           /\ ref' = ref /\ mirror' = mirror /\ pending' = pending /\ Aside
           /\ unrecorded' = unrecorded /\ tangled' = tangled
           /\ \E b, a \in Side :
                 /\ Recorded(b, a) /\ DOMAIN a = DOMAIN b /\ DOMAIN b \subseteq {styled.id}
                 /\ \A id \in DOMAIN b : b[id] = styled /\ id \in IdsOf(ref) /\ a[id] = Find(ref, id)
                 /\ styled.id \in IdsOf(ref) /\ styled.id \notin DOMAIN b =>
                       Find(ref, styled.id).text = styled.text
<1>1. /\ styled \in Object /\ styled # None /\ styled' = None /\ drag = None /\ drag' = None
      /\ ref' = ref /\ mirror' = mirror /\ pending' = pending /\ Aside
      /\ unrecorded' = unrecorded /\ tangled' = tangled
  BY DEF CommitStyle, TypeInv, canvas, traces, Aside
<1>2. CASE styled.id \in IdsOf(ref) /\ Find(ref, styled.id).text # styled.text
  <2> DEFINE b == Single(styled)
             a == Single(Find(ref, styled.id))
  <2>1. Find(ref, styled.id) \in Object /\ Find(ref, styled.id).id = styled.id
    BY <1>2, Finding DEF TypeInv
  <2>2. /\ b \in Side /\ a \in Side /\ DOMAIN b = {styled.id} /\ DOMAIN a = {styled.id}
        /\ b[styled.id] = styled /\ a[styled.id] = Find(ref, styled.id)
    BY <1>1, <2>1, SmallSides
  <2>3. Recorded(b, a)
    BY <1>2 DEF CommitStyle, Recorded
  <2> HIDE DEF a, b
  <2> QED
    BY <1>1, <1>2, <2>2, <2>3
<1>3. CASE ~(styled.id \in IdsOf(ref) /\ Find(ref, styled.id).text # styled.text)
  <2>1. Recorded(Nothing, Nothing) /\ Nothing \in Side /\ DOMAIN Nothing = {}
    BY <1>3, SmallSides DEF CommitStyle, Recorded, history
  <2> QED
    BY <1>1, <1>3, <2>1
<1> QED
  BY <1>2, <1>3

LEMMA DropNames ==
    ASSUME TypeInv, NamesInv, Drop \/ DropEraser
    PROVE  NamesInv'
<1>1. /\ drag' = None /\ styled' = styled /\ ref' = ref /\ mirror' = mirror /\ imports' = imports /\ made' = made
  BY DropIs DEF Aside
<1>2. PICK b \in Side, a \in Side :
          /\ Recorded(b, a) /\ DOMAIN a \subseteq DOMAIN b /\ DOMAIN b \subseteq HeldBy(drag)
  BY DropIs
<1>3. Spoken(undo', redo', styled) \subseteq Spoken(undo, redo, styled) \cup HeldBy(drag)
  <2>1. CASE Record(b, a)
    BY <1>2, <2>1, RecordSpeaks DEF TypeInv
  <2>2. CASE ~Record(b, a)
    BY <1>2, <2>2 DEF Recorded
  <2> QED
    BY <2>1, <2>2
<1>4. Around' \subseteq Around
  BY <1>1, <1>3, AroundIs, NothingAround
<1> QED
  BY <1>1, <1>4, NoNewNames

LEMMA NewNames ==
    ASSUME TypeInv, NamesInv,
           \/ \E id \in Ids, place \in 0..Places - 1 : Create(id, place)
           \/ \E i \in imports : EndImport(i)
    PROVE  NamesInv'
<1>1. PICK o \in Object :
          /\ drag' = drag /\ styled' = styled
          /\ imports' \subseteq imports /\ made \subseteq made' /\ Brought(made', imports', {o.id})
          /\ mirror' = ref' /\ ref' = Append(ref, o) /\ Record(Nothing, Single(o))
  BY NewIs
<1>2. IdsOf(ref') = IdsOf(ref) \cup {o.id}
  BY <1>1, AppendIs DEF TypeInv
<1>3. /\ Nothing \in Side /\ DOMAIN Nothing = {} /\ Single(o) \in Side /\ DOMAIN Single(o) = {o.id}
  BY SmallSides
<1>4. Spoken(undo', redo', styled) \subseteq Spoken(undo, redo, styled) \cup {o.id}
  <2>1. HistoryOK(undo, redo)
    BY DEF TypeInv
  <2>2. Spoken(undo', redo', styled)
            \subseteq Spoken(undo, redo, styled) \cup DOMAIN Nothing \cup DOMAIN Single(o)
    BY <1>1, <1>3, <2>1, RecordSpeaks
  <2> QED
    BY <1>3, <2>2
<1>5. Around' \subseteq Around \cup {o.id}
  BY <1>1, <1>2, <1>4, AroundIs
<1> QED
  BY <1>1, <1>5, NamesKept

LEMMA DeleteNames ==
    ASSUME TypeInv, NamesInv, NEW ids \in SUBSET IdsOf(ref), DeleteSelection(ids)
    PROVE  NamesInv'
<1>1. styled' = styled /\ drag' = drag /\ imports' = imports /\ made' = made
  BY DeleteIs DEF Aside
<1>2. PICK b \in Side : /\ Record(b, Nothing) /\ mirror' = ref' /\ IdsOf(ref') = IdsOf(ref) \ DOMAIN b
                        /\ \A id \in DOMAIN b : id \in IdsOf(ref)
  BY DeleteIs
<1>3. Spoken(undo', redo', styled) \subseteq Spoken(undo, redo, styled) \cup DOMAIN b
  <2>1. HistoryOK(undo, redo) /\ Nothing \in Side /\ DOMAIN Nothing = {}
    BY SmallSides DEF TypeInv
  <2>2. Spoken(undo', redo', styled)
            \subseteq Spoken(undo, redo, styled) \cup DOMAIN b \cup DOMAIN Nothing
    BY <1>2, <2>1, RecordSpeaks
  <2> QED
    BY <2>1, <2>2
<1>4. Around' \subseteq Around
  BY <1>1, <1>2, <1>3, AroundIs
<1> QED
  BY <1>1, <1>4, NoNewNames

\* Undo and redo take the last entry of one stack to the other.
LEMMA StackSpeaks ==
    ASSUME NEW from \in Seq(Entry), NEW to \in Seq(Entry), from # << >>, NEW s, s = None
    PROVE  /\ Names(Last(from)) \subseteq Spoken(from, to, s)
           /\ Spoken(Front(from), Append(to, Last(from)), s) \subseteq Spoken(from, to, s)
           /\ Spoken(from, to, s) = Spoken(to, from, s)
<1>1. /\ Last(from) \in Entry /\ Len(from) \in Nat \ {0} /\ Last(from) = from[Len(from)]
      /\ \A i \in DOMAIN Front(from) : i \in DOMAIN from /\ Front(from)[i] = from[i]
  BY StackTypes
<1>2. Len(from) \in DOMAIN from
  BY <1>1
<1>3. Names(Last(from)) \subseteq Ids
  BY <1>1, EntryIs
<1>4. \A i \in DOMAIN Append(to, Last(from)) :
          \/ i \in DOMAIN to /\ Append(to, Last(from))[i] = to[i]
          \/ Append(to, Last(from))[i] = Last(from)
  BY <1>1
<1>5. Names(Last(from)) \subseteq Spoken(from, to, s)
  BY <1>1, <1>2, <1>3 DEF Spoken
<1>6. Spoken(Front(from), Append(to, Last(from)), s) \subseteq Spoken(from, to, s)
  BY <1>1, <1>2, <1>4 DEF Spoken
<1>7. Spoken(from, to, s) = Spoken(to, from, s)
  BY DEF Spoken
<1> QED
  BY <1>5, <1>6, <1>7

LEMMA UndoNames ==
    ASSUME TypeInv, NamesInv, Undo \/ Redo
    PROVE  NamesInv'
<1>1. undo \in Seq(Entry) /\ redo \in Seq(Entry)
  BY DEF TypeInv, HistoryOK
<1>2. PICK e \in Entry :
          /\ styled = None /\ \E desired \in {e.before, e.after} : ApplyHistory(e, desired)
          /\ Names(e) \subseteq Spoken(undo, redo, None)
          /\ Spoken(undo', redo', None) \subseteq Spoken(undo, redo, None)
  <2>1. CASE Undo
    <3>1. /\ undo # << >> /\ ApplyHistory(Last(undo), Last(undo).before) /\ styled = None
          /\ undo' = Front(undo) /\ redo' = Append(redo, Last(undo))
      BY <2>1 DEF Undo, ApplyHistory
    <3>2. Last(undo) \in Entry
      BY <1>1, <3>1, StackTypes
    <3>3. /\ Names(Last(undo)) \subseteq Spoken(undo, redo, None)
          /\ Spoken(undo', redo', None) \subseteq Spoken(undo, redo, None)
      BY <1>1, <3>1, StackSpeaks
    <3> QED
      BY <3>1, <3>2, <3>3
  <2>2. CASE Redo
    <3>1. /\ redo # << >> /\ ApplyHistory(Last(redo), Last(redo).after) /\ styled = None
          /\ undo' = Append(undo, Last(redo)) /\ redo' = Front(redo)
      BY <2>2 DEF Redo, ApplyHistory
    <3>2. /\ Last(redo) \in Entry /\ undo' \in Seq(Entry) /\ redo' \in Seq(Entry)
      BY <1>1, <3>1, StackTypes
    <3>3. /\ Names(Last(redo)) \subseteq Spoken(redo, undo, None)
          /\ Spoken(redo', undo', None) \subseteq Spoken(redo, undo, None)
          /\ Spoken(redo, undo, None) = Spoken(undo, redo, None)
      BY <1>1, <3>1, StackSpeaks
    <3>4. Spoken(redo', undo', None) = Spoken(undo', redo', None)
      BY DEF Spoken
    <3> QED
      BY <3>1, <3>2, <3>3, <3>4
  <2> QED
    BY <2>1, <2>2
<1>3. /\ styled' = None /\ drag' = drag /\ imports' = imports /\ made' = made
      /\ mirror' = ref' /\ IdsOf(ref') \subseteq IdsOf(ref) \cup Names(e)
  BY <1>2, HistoryIs DEF Aside
<1>4. Around' \subseteq Around
  BY <1>2, <1>3, AroundIs
<1> QED
  BY <1>3, <1>4, NoNewNames

LEMMA TextNames ==
    ASSUME TypeInv, NamesInv, NEW id \in IdsOf(ref), NEW text \in Texts, Type(id, text) \/ PreviewStyle(id, text)
    PROVE  NamesInv'
<1>1. /\ drag' = drag /\ undo' = undo /\ redo' = redo /\ imports' = imports /\ made' = made
      /\ mirror' = ref' /\ IdsOf(ref') = IdsOf(ref)
      /\ styled' # styled => styled'.id = id
  <2>1. PICK o \in Object : mirror' = ref' /\ IdsOf(ref') = IdsOf(ref)
    BY TextIs
  <2>2. styled' # styled => styled'.id = id
    BY TextIs
  <2> QED
    BY <2>1, <2>2, TextIs DEF Aside
<1>2. Spoken(undo', redo', styled') \subseteq Spoken(undo, redo, styled) \cup {id}
  BY <1>1 DEF Spoken
<1>3. Around' \subseteq Around
  BY <1>1, <1>2, AroundIs
<1> QED
  BY <1>1, <1>3, NoNewNames

LEMMA StyleNames ==
    ASSUME TypeInv, NamesInv, CommitStyle
    PROVE  NamesInv'
<1>1. /\ styled \in Object /\ styled # None /\ styled' = None /\ drag' = drag
      /\ ref' = ref /\ mirror' = mirror /\ imports' = imports /\ made' = made
  BY StyleIs DEF Aside
<1>2. PICK b \in Side, a \in Side : Recorded(b, a) /\ DOMAIN a = DOMAIN b /\ DOMAIN b \subseteq {styled.id}
  BY StyleIs
<1>3. Spoken(undo', redo', None) \subseteq Spoken(undo, redo, styled) \cup {styled.id}
  <2>1. CASE Record(b, a)
    <3>1. Spoken(undo', redo', None) \subseteq Spoken(undo, redo, None) \cup DOMAIN b \cup DOMAIN a
      BY <2>1, RecordSpeaks DEF TypeInv
    <3> QED
      BY <1>2, <3>1, NothingAround
  <2>2. CASE ~Record(b, a)
    BY <1>2, <2>2, NothingAround DEF Recorded
  <2> QED
    BY <2>1, <2>2
<1>4. styled.id \in Spoken(undo, redo, styled)
  BY <1>1, ObjectFields DEF Spoken
<1>5. Around' \subseteq Around
  BY <1>1, <1>3, <1>4, AroundIs
<1> QED
  BY <1>1, <1>5, NoNewNames

LEMMA ImportNames ==
    ASSUME TypeInv, NamesInv,
           (\E id \in Ids : BeginImport(id)) \/ \E i \in imports : FailImport(i)
    PROVE  NamesInv'
<1>1. ASSUME NEW id \in Ids, BeginImport(id) PROVE NamesInv'
  <2>1. /\ drag' = drag /\ styled' = styled /\ ref' = ref /\ mirror' = mirror /\ undo' = undo /\ redo' = redo
        /\ Fresh(id) /\ made' = made \cup {<<id, note>>} /\ imports' = imports \cup {[id |-> id, note |-> note]}
    BY <1>1 DEF BeginImport, canvas, history
  <2>2. Around' = Around
    BY <2>1, AroundIs
  <2>3. ~Taken(made, id) /\ Taken(made', id) /\ \A k : Taken(made, k) => Taken(made', k)
    BY <2>1 DEF Fresh, Taken, TypeInv
  <2>4. id \notin Around /\ (\A i \in imports : i.id # id) /\ \A n \in Note : id \notin IdsOf(Cached[n])
    BY <2>3 DEF NamesInv, Named
  <2> DEFINE m == made'
             im == imports'
             i0 == [id |-> id, note |-> note]
  <2>5. im = imports \cup {i0} /\ i0.id = id
    BY <2>1
  <2>6. Taken(m, id) /\ \A k : Taken(made, k) => Taken(m, k)
    BY <2>3
  <2> HIDE DEF m, im, i0
  <2>7. Named(m, im, Around)
    <3>1. \A k \in Around : Taken(m, k)
      BY <2>6 DEF NamesInv, Named
    <3>2. \A n \in Note : \A k \in IdsOf(Cached[n]) : Taken(m, k)
      BY <2>6 DEF NamesInv, Named
    <3>3. \A i \in im : Taken(m, i.id) /\ i.id \notin Around /\ \A n \in Note : i.id \notin IdsOf(Cached[n])
      BY <2>4, <2>5, <2>6 DEF NamesInv, Named
    <3>4. \A i, j \in im : i.id = j.id => i = j
      BY <2>4, <2>5 DEF NamesInv, Named
    <3> QED
      BY <3>1, <3>2, <3>3, <3>4 DEF Named
  <2> QED
    BY <2>2, <2>7 DEF NamesInv, m, im
<1>2. ASSUME NEW i \in imports, FailImport(i) PROVE NamesInv'
  <2>1. /\ drag' = drag /\ styled' = styled /\ ref' = ref /\ mirror' = mirror /\ undo' = undo /\ redo' = redo
        /\ made' = made /\ imports' = imports \ {i}
    BY <1>2 DEF FailImport, canvas, history
  <2>2. Around' \subseteq Around
    BY <2>1, AroundIs
  <2> QED
    BY <2>1, <2>2, NoNewNames
<1> QED
  BY <1>1, <1>2

LEMMA NextNames == TypeInv /\ NamesInv /\ [Next]_vars => NamesInv'
<1> SUFFICES ASSUME TypeInv, NamesInv, [Next]_vars PROVE NamesInv'
  OBVIOUS
<1>1. CASE UNCHANGED vars
  BY <1>1, AroundIs, NoNewNames DEF vars, canvas, history, traces
<1>2. CASE Next
  <2>1. ASSUME NEW id \in Ids, NEW place \in 0..Places - 1, NEW text \in Texts,
               NEW revision \in 1..MaxRevision,
               RemoteUpsert([id |-> id, home |-> note, place |-> place, text |-> text, revision |-> revision])
        PROVE  NamesInv'
    <3>1. revision \in 0..MaxRevision /\ note \in Note
      BY EditorConstants DEF TypeInv
    <3>2. [id |-> id, home |-> note, place |-> place, text |-> text, revision |-> revision] \in Object
      BY <3>1 DEF Object
    <3> QED
      BY <2>1, <3>2, RemoteNames
  <2>2. ASSUME NEW ids \in SUBSET IdsOf(ref), DownMove(ids) \/ DeleteSelection(ids) PROVE NamesInv'
    BY <2>2, GestureNames, DeleteNames
  <2>3. ASSUME NEW id \in IdsOf(ref), DownResize(id) \/ EraseAt(id) PROVE NamesInv'
    BY <2>3, GestureNames
  <2> QED
    BY <1>2, <2>1, <2>2, <2>3, OpenNames, RemoteNames, GestureNames, DropNames, NewNames,
       UndoNames, TextNames, StyleNames, ImportNames DEF Next
<1> QED
  BY <1>1, <1>2
-----------------------------------------------------------------------------
(* One object: the gesture that holds it, what the canvas shows of it and  *)
(* shows next, and the own edit of it that is not confirmed                *)

Fine(d, id, now, next, p) ==
    /\ id \in HeldBy(d) => /\ next = now
                           /\ d.kind = "erase" => now = <<>>
                           /\ d.kind # "erase" => now # <<>>
                           /\ d.kind = "resize" => now[2] = d.object.text
    /\ p # None /\ FoundOf(d, id, now) # <<>> => Content(p) = FoundOf(d, id, now)
    /\ id \notin HeldBy(d) /\ p # None /\ next # <<>> => Content(p) = next

GoodOf(id, R, M, d, p) == Once(R, id) /\ Once(M, id) /\ Fine(d, id, On(R, id), On(M, id), p)
GoodInv == \A id \in Ids \ tangled : GoodOf(id, ref, mirror, drag, pending[id])

\* Of what a dragged selection shows nothing changes.
HeldStill ==
    drag'.kind = "move" =>
        /\ drag' = drag /\ tangled \subseteq tangled'
        /\ \A id \in HeldBy(drag) \ tangled' : On(ref', id) = On(ref, id)

LEMMA FineFree ==
    ASSUME NEW d, NEW id, id \notin HeldBy(d), NEW now, NEW next, NEW p
    PROVE  Fine(d, id, now, next, p) <=>
               (p # None => /\ now # <<>> => Content(p) = now
                            /\ next # <<>> => Content(p) = next)
BY DEF Fine, FoundOf

LEMMA FineShown ==
    ASSUME NEW d, NEW id, NEW now, NEW next, NEW p, Fine(d, id, now, next, p)
    PROVE  Fine(d, id, now, now, p)
BY DEF Fine, FoundOf

LEMMA NotHeldByNone == \A id : id \notin HeldBy(None)
BY NothingAround

LEMMA FineByNone ==
    ASSUME NEW id, NEW now, NEW next, NEW p
    PROVE  Fine(None, id, now, next, p) <=>
               (p # None => /\ now # <<>> => Content(p) = now
                            /\ next # <<>> => Content(p) = next)
BY NotHeldByNone, FineFree

\* A list without the object, and one that is shown as it was.
LEMMA EmptyList == \A id : Once(<< >>, id) /\ On(<< >>, id) = <<>>
BY NothingAround DEF Once, On

LEMMA InitGood == Init => GoodInv
<1> SUFFICES ASSUME Init, NEW id \in Ids \ tangled PROVE GoodOf(id, ref, mirror, drag, pending[id])
  BY DEF GoodInv
<1>1. ref = << >> /\ mirror = << >> /\ drag = None /\ pending[id] = None
  BY DEF Init
<1>2. Fine(None, id, <<>>, <<>>, None)
  BY FineFree, NotHeldByNone
<1> QED
  BY <1>1, <1>2, EmptyList DEF GoodOf

LEMMA OpenGood ==
    ASSUME TypeInv, GoodInv, OpenNote \/ Seed \/ Render
    PROVE  GoodInv' /\ (Render \/ HeldStill)
<1>1. CASE OpenNote
  <2>1. /\ ref' = << >> /\ mirror' = << >> /\ drag' = None /\ \A id \in Ids : pending'[id] = None
    BY <1>1 DEF OpenNote, Show
  <2>2. \A id : Fine(None, id, <<>>, <<>>, None)
    BY FineFree, NotHeldByNone
  <2>3. GoodInv'
    BY <2>1, <2>2, EmptyList DEF GoodInv, GoodOf
  <2>4. drag'.kind # "move"
    BY <2>1 DEF None
  <2> QED
    BY <2>3, <2>4 DEF HeldStill
<1>2. CASE Seed
  <2>1. /\ ref' = ref /\ drag' = drag /\ pending' = pending
        /\ tangled' = tangled \cup {id \in IdsOf(Rows) : pending[id] # None \/ id \in HeldBy(drag)}
    BY <1>2, HeldIs DEF Seed, Rows
  <2>2. \A id : Once(mirror, id) =>
                   Once(mirror', id) /\ (id \notin IdsOf(Rows) => On(mirror', id) = On(mirror, id))
    BY <1>2, SeedShows
  <2>3. ASSUME NEW id \in Ids \ tangled' PROVE GoodOf(id, ref', mirror', drag', pending'[id])
    <3>1. id \in Ids \ tangled /\ (id \in IdsOf(Rows) => pending[id] = None /\ id \notin HeldBy(drag))
      BY <2>1, <2>3
    <3>2. Once(ref, id) /\ Once(mirror, id) /\ Fine(drag, id, On(ref, id), On(mirror, id), pending[id])
      BY <3>1 DEF GoodInv, GoodOf
    <3>3. Fine(drag, id, On(ref, id), On(mirror', id), pending[id])
      <4>1. CASE id \in IdsOf(Rows)
        BY <3>1, <4>1, FineFree
      <4>2. CASE id \notin IdsOf(Rows)
        BY <2>2, <3>2, <4>2
      <4> QED
        BY <4>1, <4>2
    <3> QED
      BY <2>1, <2>2, <3>2, <3>3 DEF GoodOf
  <2> QED
    BY <2>1, <2>3 DEF GoodInv, HeldStill
<1>3. CASE Render
  <2>1. /\ ref' = mirror /\ mirror' = mirror /\ drag' = drag /\ pending' = pending /\ tangled' = tangled
    BY <1>3 DEF Render, traces
  <2>2. ASSUME NEW id \in Ids \ tangled' PROVE GoodOf(id, ref', mirror', drag', pending'[id])
    <3>1. Once(mirror, id) /\ Fine(drag, id, On(ref, id), On(mirror, id), pending[id])
      BY <2>1 DEF GoodInv, GoodOf
    <3>2. Fine(drag, id, On(mirror, id), On(mirror, id), pending[id])
      BY <3>1 DEF Fine, FoundOf
    <3> QED
      BY <2>1, <3>1, <3>2 DEF GoodOf
  <2> QED
    BY <1>3, <2>2 DEF GoodInv
<1> QED
  BY <1>1, <1>2, <1>3

LEMMA RemoteGood ==
    ASSUME TypeInv, GoodInv,
           (\E remote \in Object : RemoteUpsert(remote)) \/ \E id \in Ids : RemoteDelete(id)
    PROVE  GoodInv' /\ HeldStill
<1>1. ASSUME NEW remote \in Object, RemoteUpsert(remote) PROVE GoodInv' /\ HeldStill
  <2>1. ref' = ref /\ drag' = drag /\ tangled \subseteq tangled'
    BY <1>1 DEF RemoteUpsert
  <2>2. /\ mirror' \in Seq(Object)
        /\ \A id : Once(mirror, id) =>
             /\ Once(mirror', id)
             /\ On(mirror', id) = IF id # remote.id THEN On(mirror, id)
                                  ELSE IF id \in IdsOf(mirror) THEN Content(Merged(remote))
                                  ELSE Content(remote)
    BY <1>1, UpsertShows
  <2>3. CASE remote.id \in IdsOf(mirror)
    <3>1. /\ remote.id \notin HeldBy(drag)
          /\ pending' = IF Acknowledges(remote) THEN [pending EXCEPT ![remote.id] = None] ELSE pending
      BY <1>1, <2>3, HeldIs DEF RemoteUpsert, Spared
    <3>2. /\ pending \in [Ids -> Object \cup {None}] /\ remote.id \in Ids
          /\ \A k : k # remote.id => pending'[k] = pending[k]
      BY <3>1, ObjectFields DEF TypeInv
    <3>3. ASSUME NEW id \in Ids \ tangled' PROVE GoodOf(id, ref', mirror', drag', pending'[id])
      <4>1. Once(ref, id) /\ Once(mirror, id) /\ Fine(drag, id, On(ref, id), On(mirror, id), pending[id])
        BY <2>1 DEF GoodInv, GoodOf
      <4>2. CASE id # remote.id
        BY <2>1, <2>2, <3>2, <4>1, <4>2 DEF GoodOf
      <4>3. CASE id = remote.id /\ pending'[id] = None
        BY <2>1, <2>2, <3>1, <4>1, <4>3, FineFree DEF GoodOf
      <4>4. CASE id = remote.id /\ pending'[id] # None
        <5>1. pending[id] # None /\ ~Acknowledges(remote) /\ pending' = pending
          BY <3>1, <3>2, <4>4 DEF Acknowledges
        <5> DEFINE local == Find(Deduplicated(mirror), id)
        <5>2. local = Find(mirror, id) /\ local.id = id /\ local \in Object /\ On(mirror, id) = Content(local)
          <6>1. local = Find(mirror, id)
            BY <2>3, <4>1, <4>4, DeduplicatedIs DEF TypeInv
          <6>2. Find(mirror, id) \in Object /\ Find(mirror, id).id = id
            BY <2>3, <4>4, Finding DEF TypeInv
          <6> QED
            BY <2>3, <4>4, <6>1, <6>2 DEF On
        <5> HIDE DEF local
        <5>3. Merged(remote) = [local EXCEPT !.revision = remote.revision]
          <6>1. Merged(remote) = Reconcile(local, remote)
            BY <4>4 DEF Merged, local
          <6> QED
            BY <5>1, <5>2, <6>1 DEF Reconcile
        <5>4. Content(Merged(remote)) = Content(local)
          BY <5>2, <5>3 DEF Content, Object
        <5>5. On(mirror', id) = On(mirror, id)
          BY <2>2, <2>3, <4>1, <4>4, <5>2, <5>4
        <5> QED
          BY <2>1, <2>2, <4>1, <5>1, <5>5 DEF GoodOf
      <4> QED
        BY <4>2, <4>3, <4>4
    <3> QED
      BY <2>1, <3>3 DEF GoodInv, HeldStill
  <2>4. CASE remote.id \notin IdsOf(mirror)
    <3>1. /\ pending' = pending
          /\ tangled' = IF pending[remote.id] # None \/ remote.id \in HeldBy(drag)
                        THEN tangled \cup {remote.id} ELSE tangled
      BY <1>1, <2>4, HeldIs DEF RemoteUpsert
    <3>2. ASSUME NEW id \in Ids \ tangled' PROVE GoodOf(id, ref', mirror', drag', pending'[id])
      <4>1. Once(ref, id) /\ Once(mirror, id) /\ Fine(drag, id, On(ref, id), On(mirror, id), pending[id])
        BY <2>1 DEF GoodInv, GoodOf
      <4>2. CASE id # remote.id
        BY <2>1, <2>2, <3>1, <4>1, <4>2 DEF GoodOf
      <4>3. CASE id = remote.id
        <5>1. pending[id] = None /\ id \notin HeldBy(drag)
          BY <3>1, <4>3
        <5> QED
          BY <2>1, <2>2, <3>1, <4>1, <5>1, FineFree DEF GoodOf
      <4> QED
        BY <4>2, <4>3
    <3> QED
      BY <2>1, <3>2 DEF GoodInv, HeldStill
  <2> QED
    BY <2>3, <2>4
<1>2. ASSUME NEW id0 \in Ids, RemoteDelete(id0) PROVE GoodInv' /\ HeldStill
  <2>1. /\ ref' = ref /\ drag' = drag /\ tangled' = tangled /\ pending' = pending
        /\ pending[id0] = None /\ id0 \notin HeldBy(drag)
    BY <1>2, HeldIs DEF RemoteDelete, Spared
  <2>2. \A id : Once(mirror, id) =>
            Once(mirror', id) /\ On(mirror', id) = IF id = id0 THEN <<>> ELSE On(mirror, id)
    BY <1>2, RemovalShows
  <2>3. ASSUME NEW id \in Ids \ tangled' PROVE GoodOf(id, ref', mirror', drag', pending'[id])
    <3>1. Once(ref, id) /\ Once(mirror, id) /\ Fine(drag, id, On(ref, id), On(mirror, id), pending[id])
      BY <2>1 DEF GoodInv, GoodOf
    <3>2. CASE id # id0
      BY <2>1, <2>2, <3>1, <3>2 DEF GoodOf
    <3>3. CASE id = id0
      BY <2>1, <2>2, <3>1, <3>3, FineFree DEF GoodOf
    <3> QED
      BY <3>2, <3>3
  <2> QED
    BY <2>1, <2>3 DEF GoodInv, HeldStill
<1> QED
  BY <1>1, <1>2

LEMMA DownGood ==
    ASSUME TypeInv, GoodInv,
           \/ \E ids \in SUBSET IdsOf(ref) : DownMove(ids)
           \/ \E id \in IdsOf(ref) : DownResize(id)
           \/ DownErase
    PROVE  /\ GoodInv'
           /\ \A id \in HeldBy(drag') \ tangled' :
                 /\ id \in IdsOf(ref) /\ On(mirror, id) = On(ref, id)
                 /\ drag'.kind = "move" => On(ref', id)[1] = drag'.origins[id]
           /\ \A id \in Ids \ tangled' : FoundOf(drag', id, On(ref', id)) = On(ref, id)
<1>1. /\ drag = None /\ ref' = ref /\ mirror' = mirror /\ pending' = pending
      /\ HeldBy(drag') \subseteq IdsOf(ref) /\ tangled \subseteq tangled'
      /\ \A id \in HeldBy(drag') : id \notin tangled' => id \in IdsOf(mirror) /\ Find(mirror, id) = Find(ref, id)
      /\ \A id \in HeldBy(drag') :
            \/ drag'.kind = "move" /\ drag'.origins[id] = Find(ref, id).place
            \/ drag'.kind = "resize" /\ drag'.object = Find(ref, id)
  BY DownHolds
<1>2. ASSUME NEW id \in HeldBy(drag'), id \notin tangled'
      PROVE  /\ id \in IdsOf(ref) /\ On(ref, id) = Content(Find(ref, id)) /\ On(mirror, id) = On(ref, id)
             /\ On(ref, id) # <<>> /\ On(ref, id)[1] = Find(ref, id).place /\ On(ref, id)[2] = Find(ref, id).text
             /\ FoundOf(drag', id, On(ref, id)) = On(ref, id)
             /\ drag'.kind # "erase"
  <2>1. id \in IdsOf(ref) /\ id \in IdsOf(mirror) /\ Find(mirror, id) = Find(ref, id)
    BY <1>1, <1>2
  <2>2. Find(ref, id) \in Object /\ On(ref, id) = Content(Find(ref, id)) /\ On(mirror, id) = On(ref, id)
    BY <2>1, Finding DEF TypeInv, On
  <2>3. On(ref, id) # <<>> /\ On(ref, id)[1] = Find(ref, id).place /\ On(ref, id)[2] = Find(ref, id).text
    BY <2>2, ObjectFields
  <2>4. On(ref, id) = <<Find(ref, id).place, On(ref, id)[2]>>
    BY <2>2, <2>3 DEF Content
  <2>5. FoundOf(drag', id, On(ref, id)) = On(ref, id) /\ drag'.kind # "erase"
    <3>1. CASE drag'.kind = "move" /\ drag'.origins[id] = Find(ref, id).place
      BY <1>2, <2>4, <3>1 DEF FoundOf
    <3>2. CASE drag'.kind = "resize" /\ drag'.object = Find(ref, id)
      BY <1>2, <2>2, <3>2 DEF FoundOf
    <3> QED
      BY <1>1, <3>1, <3>2
  <2> QED
    BY <2>1, <2>2, <2>3, <2>5
<1>3. ASSUME NEW id \in Ids \ tangled'
      PROVE  /\ GoodOf(id, ref', mirror', drag', pending'[id])
             /\ FoundOf(drag', id, On(ref', id)) = On(ref, id)
  <2>1. Once(ref, id) /\ Once(mirror, id) /\ Fine(None, id, On(ref, id), On(mirror, id), pending[id])
    BY <1>1, <1>3 DEF GoodInv, GoodOf
  <2>2. pending[id] # None => /\ On(ref, id) # <<>> => Content(pending[id]) = On(ref, id)
                              /\ On(mirror, id) # <<>> => Content(pending[id]) = On(mirror, id)
    BY <2>1, FineByNone
  <2>3. CASE id \in HeldBy(drag')
    <3>1. drag'.kind = "resize" => On(ref, id)[2] = drag'.object.text
      BY <1>1, <1>2, <1>3, <2>3
    <3>2. Fine(drag', id, On(ref, id), On(mirror, id), pending[id])
      BY <1>2, <1>3, <2>2, <2>3, <3>1 DEF Fine
    <3> QED
      BY <1>1, <1>2, <1>3, <2>1, <2>3, <3>2 DEF GoodOf
  <2>4. CASE id \notin HeldBy(drag')
    <3>1. Fine(drag', id, On(ref, id), On(mirror, id), pending[id])
      BY <2>2, <2>4, FineFree
    <3> QED
      BY <1>1, <2>1, <2>4, <3>1 DEF GoodOf, FoundOf
  <2> QED
    BY <2>3, <2>4
<1>4. GoodInv'
  BY <1>3 DEF GoodInv
<1>5. \A id \in HeldBy(drag') \ tangled' : drag'.kind = "move" => On(ref', id)[1] = drag'.origins[id]
  BY <1>1, <1>2
<1> QED
  BY <1>2, <1>3, <1>4, <1>5

LEMMA FoundVersion ==
    ASSUME TypeInv, NEW id, NEW now \in Version, id \in HeldBy(drag) => (drag.kind # "erase" => now # <<>>)
    PROVE  FoundOf(drag, id, now) \in Version
<1>1. drag \in Gesture
  BY DEF TypeInv
<1>2. CASE id \notin HeldBy(drag)
  BY <1>2 DEF FoundOf
<1>3. CASE id \in HeldBy(drag) /\ drag.kind = "move"
  <2>1. drag.origins[id] \in 0..Places - 1
    BY <1>1, <1>3, GestureIs
  <2>2. now[2] \in Texts
    BY <1>3 DEF Version
  <2> QED
    BY <1>3, <2>1, <2>2 DEF FoundOf, Version
<1>4. CASE id \in HeldBy(drag) /\ drag.kind = "resize"
  <2>1. drag.object \in Object
    BY <1>1, <1>4, GestureIs
  <2> QED
    BY <1>4, <2>1, ObjectFields DEF FoundOf
<1>5. CASE id \in HeldBy(drag) /\ drag.kind = "erase"
  <2>1. drag.removed \in Side /\ id \in DOMAIN drag.removed
    BY <1>1, <1>5, GestureIs
  <2>2. drag.removed[id] \in Object
    BY <2>1, SideIs
  <2> QED
    BY <1>5, <2>2, ObjectFields DEF FoundOf
<1> QED
  <2>1. drag.kind \in {"none", "move", "resize", "erase"} /\ (drag.kind = "none" => id \notin HeldBy(drag))
    BY <1>1, GestureIs
  <2> QED
    BY <1>2, <1>3, <1>4, <1>5, <2>1

LEMMA DragGood ==
    ASSUME TypeInv, GoodInv,
           \/ \E by \in 0..Places - 1 : Move(by)
           \/ \E id \in IdsOf(ref) : EraseAt(id)
    PROVE  /\ GoodInv' /\ mirror' = ref'
           /\ \A id \in Ids \ tangled' :
                 FoundOf(drag', id, On(ref', id)) = FoundOf(drag, id, On(ref, id))
<1>1. ASSUME NEW by \in 0..Places - 1, Move(by), NEW id \in Ids \ tangled'
      PROVE  /\ GoodOf(id, ref', mirror', drag', pending'[id]) /\ mirror' = ref'
             /\ FoundOf(drag', id, On(ref', id)) = FoundOf(drag, id, On(ref, id))
  <2>1. drag' = drag /\ pending' = pending /\ tangled' = tangled /\ drag.kind \in {"move", "resize"}
    BY <1>1 DEF Move, Dragging, traces
  <2>2. Once(ref, id) /\ Once(mirror, id) /\ Fine(drag, id, On(ref, id), On(mirror, id), pending[id])
    BY <2>1 DEF GoodInv, GoodOf
  <2>3. /\ mirror' = ref' /\ Once(ref', id)
        /\ ~(id \in HeldBy(drag) /\ id \in IdsOf(ref)) => On(ref', id) = On(ref, id)
        /\ id \in HeldBy(drag) /\ id \in IdsOf(ref) =>
              On(ref', id) = <<Shifted(FoundOf(drag, id, On(ref, id))[1], by), On(ref, id)[2]>>
    BY <1>1, <2>2, MoveShows
  <2>4. CASE ~(id \in HeldBy(drag) /\ id \in IdsOf(ref))
    <3>1. Fine(drag, id, On(ref', id), On(ref', id), pending[id])
      BY <2>2, <2>3, <2>4, FineShown
    <3> QED
      BY <2>1, <2>3, <2>4, <3>1 DEF GoodOf
  <2>5. CASE id \in HeldBy(drag) /\ id \in IdsOf(ref)
    <3> DEFINE now == On(ref, id)
               then == On(ref', id)
    <3>1. then # <<>> /\ then[2] = now[2]
      BY <2>3, <2>5
    <3> HIDE DEF now, then
    <3>2. FoundOf(drag, id, then) = FoundOf(drag, id, now)
      BY <2>1, <2>5, <3>1 DEF FoundOf
    <3>3. Fine(drag, id, then, then, pending[id])
      BY <2>1, <2>2, <2>5, <3>1, <3>2 DEF Fine, now
    <3> QED
      BY <2>1, <2>3, <3>2, <3>3 DEF GoodOf, now, then
  <2> QED
    BY <2>4, <2>5
<1>2. ASSUME NEW id0 \in IdsOf(ref), EraseAt(id0), NEW id \in Ids \ tangled'
      PROVE  /\ GoodOf(id, ref', mirror', drag', pending'[id]) /\ mirror' = ref'
             /\ FoundOf(drag', id, On(ref', id)) = FoundOf(drag, id, On(ref, id))
  <2>1. pending' = pending /\ tangled' = tangled
    BY <1>2 DEF EraseAt, Dragging, traces
  <2>2. Once(ref, id) /\ Once(mirror, id) /\ Fine(drag, id, On(ref, id), On(mirror, id), pending[id])
    BY <2>1 DEF GoodInv, GoodOf
  <2>3. /\ mirror' = ref' /\ Once(ref', id) /\ On(ref', id) = IF id = id0 THEN <<>> ELSE On(ref, id)
        /\ drag.kind = "erase" /\ drag'.kind = "erase"
        /\ id0 \notin HeldBy(drag) /\ HeldBy(drag') = HeldBy(drag) \cup {id0}
        /\ \A k \in HeldBy(drag) : drag'.removed[k] = drag.removed[k]
        /\ drag'.removed[id0] = Find(ref, id0)
    BY <1>2, <2>2, EraseShows
  <2>4. CASE id = id0
    <3>1. On(ref, id) = Content(Find(ref, id))
      BY <2>4 DEF On
    <3>2. FoundOf(drag', id, <<>>) = On(ref, id) /\ FoundOf(drag, id, On(ref, id)) = On(ref, id)
      BY <2>3, <2>4, <3>1 DEF FoundOf
    <3>3. Fine(drag', id, <<>>, <<>>, pending[id])
      BY <2>2, <2>3, <2>4, <3>2 DEF Fine
    <3> QED
      BY <2>1, <2>3, <2>4, <3>2, <3>3 DEF GoodOf
  <2>5. CASE id # id0
    <3>1. FoundOf(drag', id, On(ref, id)) = FoundOf(drag, id, On(ref, id))
      BY <2>3, <2>5 DEF FoundOf
    <3>2. Fine(drag', id, On(ref, id), On(ref, id), pending[id])
      <4>1. Fine(drag, id, On(ref, id), On(ref, id), pending[id])
        BY <2>2, FineShown
      <4> QED
        BY <2>3, <2>5, <3>1, <4>1 DEF Fine
    <3> QED
      BY <2>1, <2>3, <2>5, <3>1, <3>2 DEF GoodOf
  <2> QED
    BY <2>4, <2>5
<1>3. mirror' = ref'
  BY MoveShows, EraseShows
<1> QED
  BY <1>1, <1>2, <1>3 DEF GoodInv

LEMMA CancelGood ==
    ASSUME TypeInv, GoodInv, Cancel \/ Abandon
    PROVE  /\ GoodInv' /\ drag' = None
           /\ \A id \in Ids \ tangled' : On(ref', id) = FoundOf(drag, id, On(ref, id))
           /\ mirror' = ref' \/ (mirror' = mirror /\ ref' = ref)
<1>1. CASE Cancel
  <2>1. drag' = None /\ pending' = pending /\ tangled' = tangled
    BY <1>1 DEF Cancel, Dragging, traces
  <2>2. ASSUME NEW id \in Ids \ tangled'
        PROVE  /\ GoodOf(id, ref', mirror', drag', pending'[id])
               /\ On(ref', id) = FoundOf(drag, id, On(ref, id))
    <3>1. Once(ref, id) /\ Once(mirror, id) /\ Fine(drag, id, On(ref, id), On(mirror, id), pending[id])
      BY <2>1 DEF GoodInv, GoodOf
    <3>2. id \in HeldBy(drag) => (drag.kind = "erase" <=> id \notin IdsOf(ref))
      <4>1. On(ref, id) = <<>> <=> id \notin IdsOf(ref)
        BY OnIs DEF TypeInv
      <4> QED
        BY <3>1, <4>1 DEF Fine
    <3>3. mirror' = ref' /\ Once(ref', id) /\ On(ref', id) = FoundOf(drag, id, On(ref, id))
      BY <1>1, <3>1, <3>2, CancelShows
    <3>4. Fine(None, id, On(ref', id), On(ref', id), pending[id])
      <4>1. pending[id] # None /\ On(ref', id) # <<>> => Content(pending[id]) = On(ref', id)
        BY <3>1, <3>3 DEF Fine
      <4> QED
        BY <4>1, FineByNone
    <3> QED
      BY <2>1, <3>3, <3>4 DEF GoodOf
  <2>3. mirror' = ref'
    BY <1>1, CancelShows
  <2> QED
    BY <2>1, <2>2, <2>3 DEF GoodInv
<1>2. CASE Abandon
  <2>1. /\ drag' = None /\ pending' = pending /\ tangled' = tangled \cup HeldBy(drag)
        /\ ref' = ref /\ mirror' = mirror
    BY <1>2, HeldIs DEF Abandon, canvas
  <2>2. ASSUME NEW id \in Ids \ tangled'
        PROVE  /\ GoodOf(id, ref', mirror', drag', pending'[id])
               /\ On(ref', id) = FoundOf(drag, id, On(ref, id))
    <3>1. /\ Once(ref, id) /\ Once(mirror, id) /\ Fine(drag, id, On(ref, id), On(mirror, id), pending[id])
          /\ id \notin HeldBy(drag)
      BY <2>1 DEF GoodInv, GoodOf
    <3>2. Fine(None, id, On(ref, id), On(mirror, id), pending[id])
      BY <3>1, FineFree, FineByNone
    <3> QED
      BY <2>1, <3>1, <3>2 DEF GoodOf, FoundOf
  <2> QED
    BY <2>1, <2>2 DEF GoodInv
<1> QED
  BY <1>1, <1>2

\* A dragged object that has not moved is as the gesture found it.
LEMMA DropStill ==
    ASSUME TypeInv, NEW id \in HeldBy(drag), NEW next, NEW p, Fine(drag, id, On(ref, id), next, p),
           drag.kind # "erase",
           id \in IdsOf(ref) => FoundOf(drag, id, On(ref, id))[1] = Find(ref, id).place
    PROVE  FoundOf(drag, id, On(ref, id)) = On(ref, id)
<1>1. id \in IdsOf(ref) /\ On(ref, id) # <<>>
  BY OnIs DEF Fine, TypeInv
<1>2. /\ FoundOf(drag, id, On(ref, id))[1] = Find(ref, id).place
      /\ Find(ref, id) \in Object /\ On(ref, id) = Content(Find(ref, id))
  BY <1>1, Finding DEF On, TypeInv
<1>3. CASE drag.kind = "move"
  <2>1. FoundOf(drag, id, On(ref, id)) = <<drag.origins[id], On(ref, id)[2]>>
    BY <1>3 DEF FoundOf
  <2> QED
    BY <1>2, <2>1 DEF Content
<1>4. CASE drag.kind = "resize"
  <2>1. FoundOf(drag, id, On(ref, id)) = <<drag.object.place, drag.object.text>>
    BY <1>4 DEF FoundOf, Content
  <2>2. On(ref, id)[2] = drag.object.text
    BY <1>4 DEF Fine
  <2> QED
    BY <1>2, <2>1, <2>2 DEF Content
<1>5. drag.kind \in {"move", "resize"}
  BY GestureIs DEF TypeInv
<1> QED
  BY <1>3, <1>4, <1>5

LEMMA DropGood ==
    ASSUME TypeInv, GoodInv, Drop \/ DropEraser
    PROVE  /\ GoodInv' /\ drag' = None
           /\ \A id \in HeldBy(drag) \ tangled : On(mirror, id) = On(ref, id)
<1>1. /\ drag' = None /\ ref' = ref /\ mirror' = mirror /\ tangled' = tangled
  BY DropIs
<1>2. PICK b \in Side, a \in Side :
          /\ pending' = Committed(a) /\ DOMAIN a \subseteq DOMAIN b /\ DOMAIN b \subseteq HeldBy(drag)
          /\ \A id \in DOMAIN a : id \in IdsOf(ref) /\ a[id] = Find(ref, id)
          /\ drag.kind = "erase" => DOMAIN b = HeldBy(drag) /\ DOMAIN a = {}
          /\ drag.kind # "erase" =>
                /\ DOMAIN a = DOMAIN b
                /\ \A id \in HeldBy(drag) \cap IdsOf(ref) : id \notin DOMAIN b =>
                      FoundOf(drag, id, On(ref, id))[1] = Find(ref, id).place
  BY DropIs
<1>3. \A id \in Ids : pending'[id] = IF id \in DOMAIN a THEN a[id] ELSE pending[id]
  BY <1>2, CommittedTypes DEF TypeInv
<1>4. drag \in Gesture /\ HeldBy(drag) \subseteq Ids
  BY GestureIs DEF TypeInv
<1>5. ASSUME NEW id \in Ids \ tangled
      PROVE  /\ GoodOf(id, ref', mirror', drag', pending'[id])
             /\ id \in HeldBy(drag) => On(mirror, id) = On(ref, id)
  <2>1. Once(ref, id) /\ Once(mirror, id) /\ Fine(drag, id, On(ref, id), On(mirror, id), pending[id])
    BY DEF GoodInv, GoodOf
  <2>2. id \in HeldBy(drag) => On(mirror, id) = On(ref, id)
    BY <2>1 DEF Fine
  <2>3. CASE id \notin HeldBy(drag)
    <3>1. pending'[id] = pending[id]
      BY <1>2, <1>3, <2>3
    <3>2. Fine(None, id, On(ref, id), On(mirror, id), pending[id])
      BY <2>1, <2>3, FineFree, FineByNone
    <3> QED
      BY <1>1, <2>1, <2>2, <3>1, <3>2 DEF GoodOf
  <2>4. CASE id \in HeldBy(drag)
    <3>1. pending'[id] # None /\ On(ref, id) # <<>> => Content(pending'[id]) = On(ref, id)
      <4>1. CASE id \in DOMAIN a
        BY <1>2, <1>3, <4>1 DEF On
      <4>2. CASE id \notin DOMAIN a /\ drag.kind = "erase"
        BY <2>1, <2>4, <4>2 DEF Fine
      <4>3. CASE id \notin DOMAIN a /\ drag.kind # "erase"
        <5>3. FoundOf(drag, id, On(ref, id)) = On(ref, id)
          BY <1>2, <2>1, <2>4, <4>3, DropStill
        <5>4. pending'[id] = pending[id]
          BY <1>3, <4>3
        <5> QED
          BY <2>1, <5>3, <5>4 DEF Fine
      <4> QED
        BY <4>1, <4>2, <4>3
    <3>2. Fine(None, id, On(ref, id), On(mirror, id), pending'[id])
      BY <2>2, <2>4, <3>1, FineByNone
    <3> QED
      BY <1>1, <2>1, <2>2, <3>2 DEF GoodOf
  <2> QED
    BY <2>3, <2>4
<1> QED
  BY <1>1, <1>4, <1>5 DEF GoodInv

LEMMA NewGood ==
    ASSUME TypeInv, NamesInv, GoodInv,
           \/ \E id \in Ids, place \in 0..Places - 1 : Create(id, place)
           \/ \E i \in imports : EndImport(i)
    PROVE  GoodInv' /\ HeldStill
<1>1. PICK o \in Object :
          /\ o.id \notin Around
          /\ drag' = drag /\ tangled' = tangled
          /\ mirror' = ref' /\ ref' = Append(ref, o) /\ pending' = Committed(Single(o))
  BY NewIs
<1>2. o.id \notin IdsOf(ref) /\ o.id \notin HeldBy(drag) /\ o.id \in Ids /\ Content(o) # <<>>
  BY <1>1, AroundIs, ObjectFields
<1>3. \A id : Once(ref, id) =>
          Once(ref', id) /\ On(ref', id) = IF id = o.id THEN Content(o) ELSE On(ref, id)
  BY <1>1, <1>2, AppendIs DEF TypeInv
<1>4. \A id \in Ids : pending'[id] = IF id = o.id THEN o ELSE pending[id]
  <2>1. Single(o) \in Side /\ DOMAIN Single(o) = {o.id} /\ Single(o)[o.id] = o
    BY SmallSides
  <2>2. pending \in [Ids -> Object \cup {None}]
    BY DEF TypeInv
  <2>3. \A id \in Ids : Committed(Single(o))[id]
                            = IF id \in DOMAIN Single(o) THEN Single(o)[id] ELSE pending[id]
    BY <2>1, <2>2, CommittedTypes
  <2> QED
    BY <1>1, <2>1, <2>3
<1>5. ASSUME NEW id \in Ids \ tangled'
      PROVE  GoodOf(id, ref', mirror', drag', pending'[id])
  <2>1. Once(ref, id) /\ Fine(drag, id, On(ref, id), On(mirror, id), pending[id])
    BY <1>1 DEF GoodInv, GoodOf
  <2>2. CASE id = o.id
    <3>1. Fine(drag, id, Content(o), Content(o), o)
      BY <1>2, <2>2, FineFree
    <3> QED
      BY <1>1, <1>3, <1>4, <2>1, <2>2, <3>1 DEF GoodOf
  <2>3. CASE id # o.id
    <3>1. Fine(drag, id, On(ref, id), On(ref, id), pending[id])
      BY <2>1, FineShown
    <3> QED
      BY <1>1, <1>3, <1>4, <2>1, <2>3, <3>1 DEF GoodOf
  <2> QED
    BY <2>2, <2>3
<1>6. ASSUME NEW id \in HeldBy(drag) \ tangled' PROVE On(ref', id) = On(ref, id)
  <2>1. id \in Ids \ tangled
    BY <1>1, GestureIs DEF TypeInv
  <2> QED
    BY <1>2, <1>3, <2>1 DEF GoodInv, GoodOf
<1> QED
  BY <1>1, <1>5, <1>6 DEF GoodInv, HeldStill

LEMMA DeleteGood ==
    ASSUME TypeInv, GoodInv, NEW ids \in SUBSET IdsOf(ref), DeleteSelection(ids)
    PROVE  GoodInv' /\ HeldStill
<1>1. PICK b \in Side :
          /\ tangled' = tangled \cup (DOMAIN b \cap HeldBy(drag)) /\ mirror' = ref'
          /\ \A id : Once(ref, id) =>
                Once(ref', id) /\ On(ref', id) = IF id \in DOMAIN b THEN <<>> ELSE On(ref, id)
  BY DeleteIs
<1>2. drag' = drag /\ pending' = pending
  BY DeleteIs
<1>3. ASSUME NEW id \in Ids \ tangled'
      PROVE  /\ GoodOf(id, ref', mirror', drag', pending'[id])
             /\ id \in HeldBy(drag) => On(ref', id) = On(ref, id)
  <2>1. /\ Once(ref, id) /\ Fine(drag, id, On(ref, id), On(mirror, id), pending[id])
        /\ id \in DOMAIN b => id \notin HeldBy(drag)
    BY <1>1 DEF GoodInv, GoodOf
  <2>2. CASE id \in DOMAIN b
    <3>1. Fine(drag, id, <<>>, <<>>, pending[id])
      BY <2>1, <2>2, FineFree
    <3> QED
      BY <1>1, <1>2, <2>1, <2>2, <3>1 DEF GoodOf
  <2>3. CASE id \notin DOMAIN b
    <3>1. Fine(drag, id, On(ref, id), On(ref, id), pending[id])
      BY <2>1, FineShown
    <3> QED
      BY <1>1, <1>2, <2>1, <2>3, <3>1 DEF GoodOf
  <2> QED
    BY <2>2, <2>3
<1>4. HeldBy(drag) \subseteq Ids
  BY GestureIs DEF TypeInv
<1> QED
  BY <1>1, <1>2, <1>3, <1>4 DEF GoodInv, HeldStill

LEMMA HistoryGood ==
    ASSUME TypeInv, GoodInv, NEW e \in Entry, NEW desired \in {e.before, e.after}, ApplyHistory(e, desired)
    PROVE  GoodInv' /\ HeldStill
<1>1. /\ drag' = drag /\ tangled' = tangled \cup (Names(e) \cap HeldBy(drag))
      /\ mirror' = ref' /\ ref' \in Seq(Object)
      /\ \A id : Once(ref, id) =>
            /\ Once(ref', id)
            /\ On(ref', id) = IF id \in DOMAIN desired THEN Content(desired[id])
                              ELSE IF id \in Names(e) THEN <<>> ELSE On(ref, id)
      /\ DOMAIN desired \subseteq IdsOf(ref') /\ DOMAIN desired \subseteq Names(e)
      /\ \A id \in Ids : pending'[id] = IF id \in DOMAIN desired THEN Find(ref', id) ELSE pending[id]
  BY HistoryIs
<1>2. ASSUME NEW id \in Ids \ tangled'
      PROVE  /\ GoodOf(id, ref', mirror', drag', pending'[id])
             /\ id \in HeldBy(drag) => On(ref', id) = On(ref, id)
  <2>1. /\ Once(ref, id) /\ Fine(drag, id, On(ref, id), On(mirror, id), pending[id])
        /\ id \in Names(e) => id \notin HeldBy(drag)
    BY <1>1 DEF GoodInv, GoodOf
  <2>2. CASE id \in DOMAIN desired
    <3>1. pending'[id] = Find(ref', id) /\ On(ref', id) = Content(Find(ref', id)) /\ id \notin HeldBy(drag)
      BY <1>1, <2>1, <2>2 DEF On
    <3>2. Fine(drag, id, On(ref', id), On(ref', id), pending'[id])
      BY <3>1, FineFree
    <3> QED
      BY <1>1, <2>1, <3>1, <3>2 DEF GoodOf
  <2>3. CASE id \in Names(e) \ DOMAIN desired
    <3>1. Fine(drag, id, <<>>, <<>>, pending[id])
      BY <2>1, <2>3, FineFree
    <3> QED
      BY <1>1, <2>1, <2>3, <3>1 DEF GoodOf
  <2>4. CASE id \notin Names(e)
    <3>1. Fine(drag, id, On(ref, id), On(ref, id), pending[id])
      BY <2>1, FineShown
    <3>2. id \notin DOMAIN desired
      BY <1>1, <2>4
    <3> QED
      BY <1>1, <2>1, <2>4, <3>1, <3>2 DEF GoodOf
  <2> QED
    BY <2>2, <2>3, <2>4
<1>3. HeldBy(drag) \subseteq Ids
  BY GestureIs DEF TypeInv
<1> QED
  BY <1>1, <1>2, <1>3 DEF GoodInv, HeldStill

LEMMA UndoGood ==
    ASSUME TypeInv, GoodInv, Undo \/ Redo
    PROVE  GoodInv' /\ HeldStill
<1>1. undo \in Seq(Entry) /\ redo \in Seq(Entry)
  BY DEF TypeInv, HistoryOK
<1>2. CASE Undo
  <2>1. undo # << >> /\ ApplyHistory(Last(undo), Last(undo).before)
    BY <1>2 DEF Undo
  <2>2. Last(undo) \in Entry
    BY <1>1, <2>1, StackTypes
  <2> QED
    BY <2>1, <2>2, HistoryGood
<1>3. CASE Redo
  <2>1. redo # << >> /\ ApplyHistory(Last(redo), Last(redo).after)
    BY <1>3 DEF Redo
  <2>2. Last(redo) \in Entry
    BY <1>1, <2>1, StackTypes
  <2> QED
    BY <2>1, <2>2, HistoryGood
<1> QED
  BY <1>2, <1>3

LEMMA TextGood ==
    ASSUME TypeInv, GoodInv, NEW id0 \in IdsOf(ref), NEW text \in Texts,
           Type(id0, text) \/ PreviewStyle(id0, text)
    PROVE  GoodInv' /\ HeldStill
<1>1. PICK o \in Object :
          /\ o.id = id0 /\ mirror' = ref'
          /\ \A k : Once(ref, k) => Once(ref', k) /\ On(ref', k) = IF k = id0 THEN Content(o) ELSE On(ref, k)
          /\ \A k \in Ids : pending'[k] = IF k = id0 THEN o ELSE pending[k]
  BY TextIs
<1>2. drag' = drag /\ tangled \subseteq tangled' /\ (id0 \in HeldBy(drag) => id0 \in tangled')
  BY TextIs, NotHeldByNone
<1>3. ASSUME NEW id \in Ids \ tangled'
      PROVE  /\ GoodOf(id, ref', mirror', drag', pending'[id])
             /\ id \in HeldBy(drag) => On(ref', id) = On(ref, id)
  <2>1. /\ Once(ref, id) /\ Fine(drag, id, On(ref, id), On(mirror, id), pending[id])
        /\ id = id0 => id \notin HeldBy(drag)
    BY <1>2 DEF GoodInv, GoodOf
  <2>2. CASE id = id0
    <3>1. Fine(drag, id, Content(o), Content(o), o)
      BY <2>1, <2>2, FineFree
    <3> QED
      BY <1>1, <1>2, <2>1, <2>2, <3>1 DEF GoodOf
  <2>3. CASE id # id0
    <3>1. Fine(drag, id, On(ref, id), On(ref, id), pending[id])
      BY <2>1, FineShown
    <3> QED
      BY <1>1, <1>2, <2>1, <2>3, <3>1 DEF GoodOf
  <2> QED
    BY <2>2, <2>3
<1>4. HeldBy(drag) \subseteq Ids
  BY GestureIs DEF TypeInv
<1> QED
  BY <1>2, <1>3, <1>4 DEF GoodInv, HeldStill

LEMMA AsideGood ==
    ASSUME TypeInv, GoodInv,
           CommitStyle \/ (\E id \in Ids : BeginImport(id)) \/ \E i \in imports : FailImport(i)
    PROVE  GoodInv' /\ HeldStill
<1>1. ref' = ref /\ mirror' = mirror /\ drag' = drag /\ pending' = pending /\ tangled' = tangled
  BY DEF CommitStyle, BeginImport, FailImport, canvas, traces
<1> QED
  BY <1>1 DEF GoodInv, HeldStill

ShapeInv ==
    drag.kind = "move" =>
        \E by \in 0..Places - 1 : \A id \in HeldBy(drag) \ tangled :
            On(ref, id)[1] = Shifted(drag.origins[id], by)

LEMMA StillKeepsShape == ShapeInv /\ HeldStill => ShapeInv'
<1> SUFFICES ASSUME ShapeInv, HeldStill, drag'.kind = "move" PROVE ShapeInv'
  BY DEF ShapeInv
<1>1. drag' = drag /\ tangled \subseteq tangled' /\ \A id \in HeldBy(drag) \ tangled' : On(ref', id) = On(ref, id)
  BY DEF HeldStill
<1>2. PICK by \in 0..Places - 1 : \A id \in HeldBy(drag) \ tangled :
          On(ref, id)[1] = Shifted(drag.origins[id], by)
  BY <1>1 DEF ShapeInv
<1>3. \A id \in HeldBy(drag') \ tangled' : On(ref', id)[1] = Shifted(drag'.origins[id], by)
  BY <1>1, <1>2
<1> QED
  BY <1>3 DEF ShapeInv

LEMMA DownShape ==
    ASSUME TypeInv, GoodInv,
           \/ \E ids \in SUBSET IdsOf(ref) : DownMove(ids)
           \/ \E id \in IdsOf(ref) : DownResize(id)
           \/ DownErase
    PROVE  ShapeInv'
<1> SUFFICES ASSUME drag'.kind = "move" PROVE ShapeInv'
  BY DEF ShapeInv
<1>1. \A id \in HeldBy(drag') \ tangled' : On(ref', id)[1] = drag'.origins[id]
  BY DownGood
<1>2. drag' \in Gesture
  BY DownTypes DEF TypeInv
<1>3. 0 \in 0..Places - 1
  BY EditorConstants
<1>4. \A id \in HeldBy(drag') : Shifted(drag'.origins[id], 0) = drag'.origins[id]
  BY <1>2, <1>3, GestureIs, ShiftedIs
<1>5. \A id \in HeldBy(drag') \ tangled' : On(ref', id)[1] = Shifted(drag'.origins[id], 0)
  BY <1>1, <1>4
<1> QED
  BY <1>3, <1>5 DEF ShapeInv

LEMMA DragShape ==
    ASSUME TypeInv, GoodInv, ShapeInv,
           \/ \E by \in 0..Places - 1 : Move(by)
           \/ \E id \in IdsOf(ref) : EraseAt(id)
    PROVE  ShapeInv'
<1>1. ASSUME NEW by \in 0..Places - 1, Move(by) PROVE ShapeInv'
  <2>1. drag' = drag /\ tangled' = tangled
    BY <1>1 DEF Move, Dragging, traces
  <2>2. HeldBy(drag) \subseteq Ids
    BY GestureIs DEF TypeInv
  <2>3. ASSUME drag.kind = "move", NEW id \in HeldBy(drag) \ tangled
        PROVE  On(ref', id)[1] = Shifted(drag.origins[id], by)
    <3>1. Once(ref, id) /\ On(ref, id) # <<>>
      BY <2>2, <2>3 DEF GoodInv, GoodOf, Fine
    <3>2. id \in IdsOf(ref)
      BY <3>1 DEF On
    <3>3. On(ref', id) = <<Shifted(FoundOf(drag, id, On(ref, id))[1], by), On(ref, id)[2]>>
      BY <1>1, <2>3, <3>1, <3>2, MoveShows
    <3>4. FoundOf(drag, id, On(ref, id))[1] = drag.origins[id]
      BY <2>3 DEF FoundOf
    <3> QED
      BY <3>3, <3>4
  <2> QED
    BY <2>1, <2>3 DEF ShapeInv
<1>2. ASSUME NEW id \in IdsOf(ref), EraseAt(id) PROVE ShapeInv'
  <2>1. drag'.kind = "erase"
    BY <1>2, EraseShows
  <2> QED
    BY <2>1 DEF ShapeInv
<1> QED
  BY <1>1, <1>2

LEMMA StillNone == drag' = None => HeldStill
BY DEF HeldStill, None

LEMMA RenderStill ==
    ASSUME TypeInv, GoodInv, Render
    PROVE  HeldStill
<1>1. ref' = mirror /\ drag' = drag /\ tangled' = tangled
  BY DEF Render, traces
<1>2. HeldBy(drag) \subseteq Ids
  BY GestureIs DEF TypeInv
<1>3. \A id \in HeldBy(drag) \ tangled : On(mirror, id) = On(ref, id)
  BY <1>2 DEF GoodInv, GoodOf, Fine
<1> QED
  BY <1>1, <1>3 DEF HeldStill

LEMMA NextGood == TypeInv /\ NamesInv /\ GoodInv /\ ShapeInv /\ [Next]_vars => GoodInv' /\ ShapeInv'
<1> SUFFICES ASSUME TypeInv, NamesInv, GoodInv, ShapeInv, [Next]_vars PROVE GoodInv' /\ ShapeInv'
  OBVIOUS
<1>1. CASE UNCHANGED vars
  BY <1>1 DEF vars, canvas, history, traces, GoodInv, ShapeInv
<1>2. CASE Next
  <2>1. ASSUME NEW id \in Ids, NEW place \in 0..Places - 1, NEW text \in Texts,
               NEW revision \in 1..MaxRevision,
               RemoteUpsert([id |-> id, home |-> note, place |-> place, text |-> text, revision |-> revision])
        PROVE  GoodInv' /\ ShapeInv'
    <3>1. revision \in 0..MaxRevision /\ note \in Note
      BY EditorConstants DEF TypeInv
    <3>2. [id |-> id, home |-> note, place |-> place, text |-> text, revision |-> revision] \in Object
      BY <3>1 DEF Object
    <3> QED
      BY <2>1, <3>2, RemoteGood, StillKeepsShape
  <2>2. ASSUME NEW ids \in SUBSET IdsOf(ref), DownMove(ids) \/ DeleteSelection(ids) PROVE GoodInv' /\ ShapeInv'
    BY <2>2, DownGood, DownShape, DeleteGood, StillKeepsShape
  <2>3. ASSUME NEW id \in IdsOf(ref), DownResize(id) \/ EraseAt(id) PROVE GoodInv' /\ ShapeInv'
    BY <2>3, DownGood, DownShape, DragGood, DragShape
  <2>4. CASE OpenNote \/ Seed \/ Render
    BY <2>4, OpenGood, RenderStill, StillKeepsShape
  <2>5. CASE DownErase \/ \E by \in 0..Places - 1 : Move(by)
    BY <2>5, DownGood, DownShape, DragGood, DragShape
  <2>6. CASE Drop \/ DropEraser \/ Cancel \/ Abandon
    BY <2>6, DropGood, CancelGood, StillNone, StillKeepsShape
  <2>7. CASE Undo \/ Redo \/ CommitStyle
    BY <2>7, UndoGood, AsideGood, StillKeepsShape
  <2>8. ASSUME NEW id \in IdsOf(ref), NEW text \in Texts, Type(id, text) \/ PreviewStyle(id, text)
        PROVE  GoodInv' /\ ShapeInv'
    BY <2>8, TextGood, StillKeepsShape
  <2>9. CASE \/ \E id \in Ids : BeginImport(id) \/ RemoteDelete(id)
             \/ \E id \in Ids, place \in 0..Places - 1 : Create(id, place)
             \/ \E i \in imports : EndImport(i) \/ FailImport(i)
    BY <2>9, RemoteGood, NewGood, AsideGood, StillKeepsShape
  <2> QED
    BY <1>2, <2>1, <2>2, <2>3, <2>4, <2>5, <2>6, <2>7, <2>8, <2>9 DEF Next
<1> QED
  BY <1>1, <1>2

(* Until the server has confirmed it, an own edit is what the canvas shows *)
(* of its object: whatever broadcasts, hydrations, confirmations of earlier *)
(* edits, gestures and undos come in between, unless the object is held or  *)
(* was changed while a gesture held it.                                    *)
THEOREM EditsAreShown == Spec => []PendingIsShown
<1>1. TypeInv /\ GoodInv => PendingIsShown
  <2> SUFFICES ASSUME TypeInv, GoodInv, NEW id \in IdsOf(ref) \ (Held \cup tangled), pending[id] # None
               PROVE  Content(Find(ref, id)) = Content(pending[id])
    BY DEF PendingIsShown
  <2>1. id \in Ids \ tangled /\ id \notin HeldBy(drag)
    BY IdsAreIds, HeldIs DEF TypeInv
  <2>2. Fine(drag, id, On(ref, id), On(mirror, id), pending[id])
    BY <2>1 DEF GoodInv, GoodOf
  <2>3. On(ref, id) = Content(Find(ref, id)) /\ On(ref, id) # <<>>
    BY OnIs DEF TypeInv
  <2> QED
    BY <2>1, <2>2, <2>3, FineFree
<1>2. Init => ShapeInv
  BY DEF Init, ShapeInv, None
<1> QED
  BY <1>1, <1>2, InitTypes, InitNames, InitGood, NextTypes, NextNames, NextGood, PTL DEF Spec

(* Every object of the selection that is dragged stays on the canvas and   *)
(* keeps its distance to the others, whatever arrives during the drag.     *)
THEOREM SelectionsKeepShape == Spec => []SelectionKeepsShape
<1>1. TypeInv /\ GoodInv /\ ShapeInv => SelectionKeepsShape
  <2> SUFFICES ASSUME TypeInv, GoodInv, ShapeInv, drag.kind = "move"
               PROVE  /\ Held \ tangled \subseteq IdsOf(ref)
                      /\ \E by \in 0..Places - 1 : \A id \in Held \ tangled :
                             Find(ref, id).place = Shifted(drag.origins[id], by)
    BY DEF SelectionKeepsShape
  <2>1. HeldBy(drag) \subseteq Ids /\ Held = HeldBy(drag)
    BY GestureIs, HeldIs DEF TypeInv
  <2>2. ASSUME NEW id \in Held \ tangled
        PROVE  id \in IdsOf(ref) /\ On(ref, id)[1] = Find(ref, id).place
    <3>1. On(ref, id) # <<>>
      BY <2>1, <2>2 DEF GoodInv, GoodOf, Fine
    <3>2. id \in IdsOf(ref)
      BY <3>1 DEF On
    <3>3. Find(ref, id) \in Object /\ On(ref, id) = Content(Find(ref, id))
      BY <3>2, Finding DEF On, TypeInv
    <3> QED
      BY <3>2, <3>3, ObjectFields
  <2>3. PICK by \in 0..Places - 1 : \A id \in HeldBy(drag) \ tangled :
            On(ref, id)[1] = Shifted(drag.origins[id], by)
    BY DEF ShapeInv
  <2> QED
    BY <2>1, <2>2, <2>3
<1>2. Init => ShapeInv
  BY DEF Init, ShapeInv, None
<1> QED
  BY <1>1, <1>2, InitTypes, InitNames, InitGood, NextTypes, NextNames, NextGood, PTL DEF Spec
-----------------------------------------------------------------------------
(* Paths: of n entries those at N are about an object, entry i leads from  *)
(* its version B[i] to A[i], and the path ends in version v                *)

Path(n, N, B, A, v) ==
    /\ \A i, j \in N : i < j /\ (\A k \in i + 1..j - 1 : k \notin N) => A[i] = B[j]
    /\ \A i \in N : (\A k \in i + 1..n : k \notin N) => A[i] = v

LEMMA NoPath ==
    ASSUME NEW n, NEW B, NEW A, NEW v
    PROVE  Path(n, {}, B, A, v)
BY DEF Path

Agree(S, B, A, B2, A2) == \A i \in S : B2[i] = B[i] /\ A2[i] = A[i]

\* An entry is taken from the end.
LEMMA PathPops ==
    ASSUME NEW n \in Nat, NEW m, m = n + 1, NEW N \in SUBSET (1..m), NEW B, NEW A, NEW v, Path(m, N, B, A, v),
           NEW w, w = IF m \in N THEN B[m] ELSE v,
           NEW N2, N2 = N \cap (1..n), NEW B2, NEW A2, Agree(N2, B, A, B2, A2)
    PROVE  Path(n, N2, B2, A2, w)
<1> USE DEF Agree
<1>1. ASSUME NEW i \in N2, NEW j \in N2, i < j, \A k \in i + 1..j - 1 : k \notin N2
      PROVE  A2[i] = B2[j]
  <2>1. i \in N /\ j \in N /\ i \in 1..n /\ j \in 1..n
    BY <1>1
  <2>2. \A k \in i + 1..j - 1 : k \notin N
    BY <1>1, <2>1
  <2>3. A[i] = B[j]
    BY <1>1, <2>1, <2>2 DEF Path
  <2> QED
    BY <1>1, <2>3
<1>2. ASSUME NEW i \in N2, \A k \in i + 1..n : k \notin N2 PROVE A2[i] = w
  <2>1. i \in N /\ i \in 1..n /\ A2[i] = A[i]
    BY <1>2
  <2>2. \A k \in i + 1..n : k \notin N
    BY <1>2, <2>1
  <2>3. CASE n + 1 \in N
    <3>1. \A k \in i + 1..(n + 1) - 1 : k \notin N
      BY <2>1, <2>2
    <3>2. A[i] = B[n + 1]
      BY <2>1, <2>3, <3>1 DEF Path
    <3> QED
      BY <2>1, <2>3, <3>2
  <2>4. CASE n + 1 \notin N
    <3>1. \A k \in i + 1..n + 1 : k \notin N
      BY <2>1, <2>2, <2>4
    <3>2. A[i] = v
      BY <2>1, <3>1 DEF Path
    <3> QED
      BY <2>1, <2>4, <3>2
  <2> QED
    BY <2>3, <2>4
<1> QED
  BY <1>1, <1>2 DEF Path

\* An entry is put at the end, and k entries are taken from the front.
Moved(k, N, B, A, m, N2, B2, A2) ==
    /\ \A i \in 1..m - 1 : i \in N2 <=> i + k \in N
    /\ \A i \in N2 : i < m => B2[i] = B[i + k] /\ A2[i] = A[i + k]

LEMMA PathGrows ==
    ASSUME NEW n \in Nat, NEW N \in SUBSET (1..n), NEW B, NEW A, NEW v, Path(n, N, B, A, v),
           NEW k \in {0, 1}, NEW m \in Nat, m = n + 1 - k, m >= 1,
           NEW N2 \in SUBSET (1..m), NEW B2, NEW A2, NEW w,
           Moved(k, N, B, A, m, N2, B2, A2),
           m \in N2 => B2[m] = v /\ A2[m] = w,
           m \notin N2 => w = v
    PROVE  Path(m, N2, B2, A2, w)
<1>1. \A i \in 1..m - 1 : i \in N2 <=> i + k \in N
  BY DEF Moved
<1>2. \A i \in N2 : i < m => B2[i] = B[i + k] /\ A2[i] = A[i + k]
  BY DEF Moved
<1>3. N2 \subseteq 1..m /\ N \subseteq 1..n /\ k \in Nat
  OBVIOUS
<1>4. \A a \in 1..m : a < m \/ a = m
  OBVIOUS
<1>5. \A a, b \in 1..m : a < b => a < m
  OBVIOUS
<1>6. \A a \in 1..m : a < m => a \in 1..m - 1
  OBVIOUS
<1>7. \A a \in N2 : a < m => a + k \in N /\ B2[a] = B[a + k] /\ A2[a] = A[a + k]
  BY <1>1, <1>2, <1>3, <1>6
<1>8. ASSUME NEW i \in N2, NEW j \in N2, i < j, \A l \in i + 1..j - 1 : l \notin N2
      PROVE  A2[i] = B2[j]
  <2>1. i \in 1..m /\ j \in 1..m /\ i < m
    BY <1>3, <1>5, <1>8
  <2>2. i + k \in N /\ A2[i] = A[i + k]
    BY <1>7, <2>1
  <2>3. \A l \in (i + k) + 1..(j + k) - 1 : l \notin N
    <3> SUFFICES ASSUME NEW l \in (i + k) + 1..(j + k) - 1 PROVE l \notin N
      OBVIOUS
    <3>1. l - k \in i + 1..j - 1 /\ l - k \in 1..m - 1 /\ (l - k) + k = l
      BY <1>3, <2>1
    <3>2. l - k \notin N2
      BY <1>8, <3>1
    <3> QED
      BY <1>1, <3>1, <3>2
  <2>4. CASE j < m
    <3>1. j + k \in N /\ B2[j] = B[j + k]
      BY <1>7, <2>4
    <3>2. i + k < j + k
      BY <1>3, <1>8, <2>1
    <3>3. A[i + k] = B[j + k]
      BY <2>2, <2>3, <3>1, <3>2 DEF Path
    <3> QED
      BY <2>2, <3>1, <3>3
  <2>5. CASE j = m
    <3>1. \A l \in (i + k) + 1..n : l \notin N
      <4>1. (j + k) - 1 = n
        BY <1>3, <2>5
      <4> QED
        BY <2>3, <4>1
    <3>2. A[i + k] = v
      BY <2>2, <3>1 DEF Path
    <3>3. B2[j] = v
      BY <2>5
    <3> QED
      BY <2>2, <3>2, <3>3
  <2> QED
    BY <1>4, <2>1, <2>4, <2>5, Zenon
<1>9. ASSUME NEW i \in N2, \A l \in i + 1..m : l \notin N2 PROVE A2[i] = w
  <2>0. i \in 1..m
    BY <1>3
  <2>1. CASE i = m
    BY <2>1
  <2>2. CASE i < m
    <3>1. i + k \in N /\ A2[i] = A[i + k]
      BY <1>7, <2>2
    <3>2. m \notin N2
      <4>1. m \in i + 1..m
        BY <2>0, <2>2
      <4> QED
        BY <1>9, <4>1
    <3>3. ASSUME NEW l \in (i + k) + 1..n PROVE l \notin N
      <4>1. l - k \in i + 1..m /\ l - k \in 1..m - 1 /\ (l - k) + k = l
        BY <1>3, <2>0, <3>3
      <4>2. l - k \notin N2
        BY <1>9, <4>1
      <4> QED
        BY <1>1, <4>1, <4>2
    <3>4. A[i + k] = v
      BY <3>1, <3>3 DEF Path
    <3> QED
      BY <3>1, <3>2, <3>4
  <2> QED
    BY <1>4, <2>0, <2>1, <2>2, Zenon
<1> QED
  BY <1>8, <1>9 DEF Path

NamesAt(entries, id) == {i \in DOMAIN entries : id \in Names(entries[i])}
Befores(entries, id) == [i \in DOMAIN entries |-> VersionIn(entries[i].before, id)]
Afters(entries, id) == [i \in DOMAIN entries |-> VersionIn(entries[i].after, id)]

\* Undone from version v, the entries of u lead back; redone from it, those of r lead on.
Undoes(u, id, v) == Path(Len(u), NamesAt(u, id), Befores(u, id), Afters(u, id), v)
Redoes(r, id, v) == Path(Len(r), NamesAt(r, id), Afters(r, id), Befores(r, id), v)
Walks(u, r, id, v) == Undoes(u, id, v) /\ Redoes(r, id, v)

LEMMA UnnamedWalks ==
    ASSUME NEW u, NEW r, NEW id, NEW v,
           \A i \in DOMAIN u : id \notin Names(u[i]), \A i \in DOMAIN r : id \notin Names(r[i])
    PROVE  Walks(u, r, id, v)
<1>1. NamesAt(u, id) = {} /\ NamesAt(r, id) = {}
  BY DEF NamesAt
<1> QED
  BY <1>1, NoPath DEF Walks, Undoes, Redoes

LEMMA RecordWalks ==
    ASSUME HistoryOK(undo, redo), NEW b \in Side, NEW a \in Side, Record(b, a),
           NEW id, NEW v, NEW w, Walks(undo, redo, id, v),
           id \in DOMAIN b \cup DOMAIN a => VersionIn(b, id) = v /\ VersionIn(a, id) = w,
           id \notin DOMAIN b \cup DOMAIN a => w = v
    PROVE  Walks(undo', redo', id, w)
<1> DEFINE u2 == undo'
           m == Len(undo')
           n == Len(undo)
<1>1. PICK k \in {0, 1} :
          /\ m = n + 1 - k /\ n \in Nat /\ DOMAIN undo = 1..n /\ DOMAIN u2 = 1..m
          /\ u2[m] = [before |-> b, after |-> a] /\ m >= 1
          /\ \A i \in DOMAIN u2 : i < m => i + k \in DOMAIN undo /\ u2[i] = undo[i + k]
  BY RecordIs
<1>2. redo' = << >>
  BY RecordIs
<1>3. Path(n, NamesAt(undo, id), Befores(undo, id), Afters(undo, id), v)
  BY DEF Walks, Undoes
<1> HIDE DEF u2, m, n
<1>4. m \in Nat /\ m = n + 1 - k /\ m >= 1
  BY <1>1
<1>5. NamesAt(undo, id) \in SUBSET (1..n) /\ NamesAt(u2, id) \in SUBSET (1..m)
  BY <1>1 DEF NamesAt
<1>6. \A i \in 1..m - 1 : i \in DOMAIN u2 /\ i < m /\ i + k \in DOMAIN undo /\ u2[i] = undo[i + k]
  BY <1>1, <1>4
<1>7. \A i \in 1..m - 1 : i \in NamesAt(u2, id) <=> i + k \in NamesAt(undo, id)
  BY <1>6 DEF NamesAt
<1>8. \A i \in NamesAt(u2, id) : i < m => /\ Befores(u2, id)[i] = Befores(undo, id)[i + k]
                                          /\ Afters(u2, id)[i] = Afters(undo, id)[i + k]
  BY <1>1, <1>4, <1>5, <1>6 DEF Befores, Afters
<1>9. m \in DOMAIN u2 /\ u2[m].before = b /\ u2[m].after = a /\ Names(u2[m]) = DOMAIN b \cup DOMAIN a
  BY <1>1, <1>4 DEF Names
<1>10. m \in NamesAt(u2, id) => Befores(u2, id)[m] = v /\ Afters(u2, id)[m] = w
  BY <1>9 DEF NamesAt, Befores, Afters
<1>11. m \notin NamesAt(u2, id) => w = v
  BY <1>9 DEF NamesAt
<1>12. Path(m, NamesAt(u2, id), Befores(u2, id), Afters(u2, id), w)
  <2> DEFINE N == NamesAt(undo, id)
             B == Befores(undo, id)
             A == Afters(undo, id)
             N2 == NamesAt(u2, id)
             B2 == Befores(u2, id)
             A2 == Afters(u2, id)
  <2>1. Moved(k, N, B, A, m, N2, B2, A2)
    BY <1>7, <1>8 DEF Moved
  <2>2. /\ Path(n, N, B, A, v) /\ N \in SUBSET (1..n) /\ N2 \in SUBSET (1..m)
        /\ m \in N2 => B2[m] = v /\ A2[m] = w
        /\ m \notin N2 => w = v
    BY <1>3, <1>5, <1>10, <1>11
  <2> HIDE DEF N, B, A, N2, B2, A2
  <2>3. Path(m, N2, B2, A2, w)
    BY ZenonT(60), <1>1, <1>4, <2>1, <2>2, PathGrows
  <2> QED
    BY <2>3 DEF N2, B2, A2
<1>13. Undoes(undo', id, w)
  BY <1>12 DEF Undoes, u2, m
<1>14. Redoes(redo', id, w)
  <2>1. NamesAt(<< >>, id) = {}
    BY DEF NamesAt
  <2> QED
    BY <1>2, <2>1, NoPath DEF Redoes
<1> QED
  BY <1>13, <1>14 DEF Walks

\* The last entry of a stack is taken, or an entry is put on it.
LEMMA PopWalks ==
    ASSUME NEW from \in Seq(Entry), from # << >>, NEW id, NEW rest, rest = Front(from),
           NEW B, NEW A, NEW B2, NEW A2, NEW v, NEW w,
           Path(Len(from), NamesAt(from, id), B, A, v),
           Agree(DOMAIN rest, B, A, B2, A2),
           w = IF id \in Names(Last(from)) THEN B[Len(from)] ELSE v
    PROVE  Path(Len(rest), NamesAt(rest, id), B2, A2, w)
<1> DEFINE n == Len(from) - 1
           N == NamesAt(from, id)
           N2 == NamesAt(rest, id)
<1>1. /\ Len(from) \in Nat \ {0} /\ Last(from) = from[Len(from)] /\ rest \in Seq(Entry)
      /\ Len(rest) = Len(from) - 1
      /\ \A i \in DOMAIN rest : i \in DOMAIN from /\ rest[i] = from[i]
  <2>1. << >> \in Seq(Entry)
    OBVIOUS
  <2> QED
    BY <2>1, StackTypes
<1>2. n \in Nat /\ n + 1 = Len(from) /\ DOMAIN from = 1..n + 1 /\ DOMAIN rest = 1..n /\ Len(rest) = n
  BY <1>1
<1>3. N \in SUBSET (1..n + 1) /\ (n + 1 \in N <=> id \in Names(Last(from)))
  BY <1>1, <1>2 DEF NamesAt
<1>4. N2 = N \cap (1..n)
  BY <1>1, <1>2 DEF NamesAt
<1>5. /\ Agree(N2, B, A, B2, A2)
      /\ w = IF Len(from) \in N THEN B[Len(from)] ELSE v
      /\ Path(Len(from), N, B, A, v) /\ N \in SUBSET (1..Len(from)) /\ Len(from) = n + 1
  BY <1>2, <1>3, <1>4 DEF Agree
<1> HIDE DEF n, N, N2
<1>6. Path(n, N2, B2, A2, w)
  BY <1>2, <1>4, <1>5, PathPops
<1> QED
  BY <1>2, <1>6 DEF N2

LEMMA PushWalks ==
    ASSUME NEW to \in Seq(Entry), NEW e \in Entry, NEW id, NEW more, more = Append(to, e),
           NEW B, NEW A, NEW B2, NEW A2, NEW v, NEW w,
           Path(Len(to), NamesAt(to, id), B, A, v),
           Agree(DOMAIN to, B, A, B2, A2),
           id \in Names(e) => B2[Len(more)] = v /\ A2[Len(more)] = w,
           id \notin Names(e) => w = v
    PROVE  Path(Len(more), NamesAt(more, id), B2, A2, w)
<1> DEFINE n == Len(to)
           m == Len(more)
           N == NamesAt(to, id)
           N2 == NamesAt(more, id)
<1>0. PICK k \in {0, 1} : k = 0
  OBVIOUS
<1>1. n \in Nat /\ m = n + 1 /\ m \in Nat /\ m >= 1 /\ DOMAIN to = 1..n /\ DOMAIN more = 1..m
  OBVIOUS
<1>2. more[m] = e /\ \A i \in 1..n : more[i] = to[i]
  BY <1>1
<1>3. N \in SUBSET (1..n) /\ N2 \in SUBSET (1..m)
  BY <1>1 DEF NamesAt
<1>4. m \in N2 <=> id \in Names(e)
  BY <1>1, <1>2 DEF NamesAt
<1>5. \A i \in 1..m - 1 : i \in N2 <=> i + 0 \in N
  BY <1>1, <1>2 DEF NamesAt
<1>6. \A i \in N2 : i < m => B2[i] = B[i + 0] /\ A2[i] = A[i + 0]
  <2>1. \A i \in 1..m : i < m => i \in DOMAIN to /\ i + 0 = i
    BY <1>1
  <2> QED
    BY <1>3, <2>1 DEF Agree
<1>7. Moved(k, N, B, A, m, N2, B2, A2)
  BY <1>0, <1>5, <1>6 DEF Moved
<1>8. Path(n, N, B, A, v) /\ (m \in N2 => B2[m] = v /\ A2[m] = w) /\ (m \notin N2 => w = v)
  BY <1>4
<1> HIDE DEF n, m, N, N2
<1>9. m = n + 1 - k
  BY <1>0, <1>1
<1>10. Path(m, N2, B2, A2, w)
  BY ZenonT(60), <1>1, <1>3, <1>7, <1>8, <1>9, PathGrows
<1> QED
  BY <1>10 DEF m, N2

\* What undo and redo do to the walk of an object.
LEMMA UndoWalks ==
    ASSUME undo \in Seq(Entry), redo \in Seq(Entry), undo # << >>,
           undo' = Front(undo), redo' = Append(redo, Last(undo)),
           NEW id, NEW v, Walks(undo, redo, id, v)
    PROVE  /\ id \notin Names(Last(undo)) => Walks(undo', redo', id, v)
           /\ id \in Names(Last(undo)) => Walks(undo', redo', id, VersionIn(Last(undo).before, id))
<1> DEFINE e == Last(undo)
           w == IF id \in Names(e) THEN VersionIn(e.before, id) ELSE v
<1>1. /\ Len(undo) \in Nat \ {0} /\ e = undo[Len(undo)] /\ e \in Entry /\ Len(undo) \in DOMAIN undo
      /\ Front(undo) \in Seq(Entry) /\ Append(redo, e) \in Seq(Entry) /\ Len(redo) \in Nat
      /\ \A i \in DOMAIN Front(undo) : i \in DOMAIN undo /\ Front(undo)[i] = undo[i]
      /\ Len(Append(redo, e)) = Len(redo) + 1
  BY StackTypes
<1>2. Befores(undo, id)[Len(undo)] = VersionIn(e.before, id) /\ Afters(undo, id)[Len(undo)] = VersionIn(e.after, id)
  BY <1>1 DEF Befores, Afters
<1>3. Undoes(undo', id, w)
  <2>1. Agree(DOMAIN Front(undo), Befores(undo, id), Afters(undo, id),
              Befores(Front(undo), id), Afters(Front(undo), id))
    BY <1>1 DEF Befores, Afters, Agree
  <2>2. Path(Len(undo), NamesAt(undo, id), Befores(undo, id), Afters(undo, id), v)
    BY DEF Walks, Undoes
  <2>3. w = IF id \in Names(Last(undo)) THEN Befores(undo, id)[Len(undo)] ELSE v
    BY <1>2
  <2> HIDE DEF w, e
  <2>4. Path(Len(Front(undo)), NamesAt(Front(undo), id), Befores(Front(undo), id), Afters(Front(undo), id), w)
    BY <2>1, <2>2, <2>3, PopWalks
  <2> QED
    BY <2>4 DEF Undoes
<1>4. id \in Names(e) => VersionIn(e.after, id) = v
  <2>1. ASSUME id \in Names(e) PROVE VersionIn(e.after, id) = v
    <3>1. Len(undo) \in NamesAt(undo, id) /\ \A k \in Len(undo) + 1..Len(undo) : k \notin NamesAt(undo, id)
      BY <1>1, <2>1 DEF NamesAt
    <3>2. Afters(undo, id)[Len(undo)] = v
      BY <3>1 DEF Walks, Undoes, Path
    <3> QED
      BY <1>2, <3>2
  <2> QED
    BY <2>1
<1>5. Redoes(redo', id, w)
  <2> DEFINE more == Append(redo, e)
  <2>1. /\ \A i \in DOMAIN redo : i \in DOMAIN more /\ more[i] = redo[i]
        /\ Len(more) \in DOMAIN more /\ more[Len(more)] = e
    BY <1>1
  <2>2. more = Append(redo, e) /\ more \in Seq(Entry)
    BY <1>1
  <2> HIDE DEF more
  <2>3. Agree(DOMAIN redo, Afters(redo, id), Befores(redo, id), Afters(more, id), Befores(more, id))
    BY <2>1 DEF Befores, Afters, Agree
  <2>4. /\ Befores(more, id)[Len(more)] = VersionIn(e.before, id)
        /\ Afters(more, id)[Len(more)] = VersionIn(e.after, id)
    BY <2>1 DEF Befores, Afters
  <2>5. Path(Len(redo), NamesAt(redo, id), Afters(redo, id), Befores(redo, id), v)
    BY DEF Walks, Redoes
  <2>6. /\ id \in Names(e) => Afters(more, id)[Len(more)] = v /\ Befores(more, id)[Len(more)] = w
        /\ id \notin Names(e) => w = v
    BY <1>4, <2>4
  <2>7. e \in Entry
    BY <1>1
  <2> HIDE DEF w, e
  <2>8. Path(Len(more), NamesAt(more, id), Afters(more, id), Befores(more, id), w)
    BY <2>2, <2>3, <2>5, <2>6, <2>7, PushWalks
  <2> QED
    BY <2>2, <2>8 DEF Redoes, e
<1> QED
  BY <1>3, <1>5 DEF Walks

LEMMA RedoWalks ==
    ASSUME redo \in Seq(Entry), undo \in Seq(Entry), redo # << >>,
           redo' = Front(redo), undo' = Append(undo, Last(redo)),
           NEW id, NEW v, Walks(undo, redo, id, v)
    PROVE  /\ id \notin Names(Last(redo)) => Walks(undo', redo', id, v)
           /\ id \in Names(Last(redo)) => Walks(undo', redo', id, VersionIn(Last(redo).after, id))
<1> DEFINE e == Last(redo)
           w == IF id \in Names(e) THEN VersionIn(e.after, id) ELSE v
<1>1. /\ Len(redo) \in Nat \ {0} /\ e = redo[Len(redo)] /\ e \in Entry /\ Len(redo) \in DOMAIN redo
      /\ Front(redo) \in Seq(Entry) /\ Append(undo, e) \in Seq(Entry) /\ Len(undo) \in Nat
      /\ \A i \in DOMAIN Front(redo) : i \in DOMAIN redo /\ Front(redo)[i] = redo[i]
      /\ Len(Append(undo, e)) = Len(undo) + 1
  BY StackTypes
<1>2. Afters(redo, id)[Len(redo)] = VersionIn(e.after, id) /\ Befores(redo, id)[Len(redo)] = VersionIn(e.before, id)
  BY <1>1 DEF Afters, Befores
<1>3. Redoes(redo', id, w)
  <2>1. Agree(DOMAIN Front(redo), Afters(redo, id), Befores(redo, id),
              Afters(Front(redo), id), Befores(Front(redo), id))
    BY <1>1 DEF Afters, Befores, Agree
  <2>2. Path(Len(redo), NamesAt(redo, id), Afters(redo, id), Befores(redo, id), v)
    BY DEF Walks, Redoes
  <2>3. w = IF id \in Names(Last(redo)) THEN Afters(redo, id)[Len(redo)] ELSE v
    BY <1>2
  <2> HIDE DEF w, e
  <2>4. Path(Len(Front(redo)), NamesAt(Front(redo), id), Afters(Front(redo), id), Befores(Front(redo), id), w)
    BY <2>1, <2>2, <2>3, PopWalks
  <2> QED
    BY <2>4 DEF Redoes
<1>4. id \in Names(e) => VersionIn(e.before, id) = v
  <2>1. ASSUME id \in Names(e) PROVE VersionIn(e.before, id) = v
    <3>1. Len(redo) \in NamesAt(redo, id) /\ \A k \in Len(redo) + 1..Len(redo) : k \notin NamesAt(redo, id)
      BY <1>1, <2>1 DEF NamesAt
    <3>2. Befores(redo, id)[Len(redo)] = v
      BY <3>1 DEF Walks, Redoes, Path
    <3> QED
      BY <1>2, <3>2
  <2> QED
    BY <2>1
<1>5. Undoes(undo', id, w)
  <2> DEFINE more == Append(undo, e)
  <2>1. /\ \A i \in DOMAIN undo : i \in DOMAIN more /\ more[i] = undo[i]
        /\ Len(more) \in DOMAIN more /\ more[Len(more)] = e
    BY <1>1
  <2>2. more = Append(undo, e) /\ more \in Seq(Entry)
    BY <1>1
  <2> HIDE DEF more
  <2>3. Agree(DOMAIN undo, Befores(undo, id), Afters(undo, id), Befores(more, id), Afters(more, id))
    BY <2>1 DEF Afters, Befores, Agree
  <2>4. /\ Afters(more, id)[Len(more)] = VersionIn(e.after, id)
        /\ Befores(more, id)[Len(more)] = VersionIn(e.before, id)
    BY <2>1 DEF Afters, Befores
  <2>5. Path(Len(undo), NamesAt(undo, id), Befores(undo, id), Afters(undo, id), v)
    BY DEF Walks, Undoes
  <2>6. /\ id \in Names(e) => Befores(more, id)[Len(more)] = v /\ Afters(more, id)[Len(more)] = w
        /\ id \notin Names(e) => w = v
    BY <1>4, <2>4
  <2>7. e \in Entry
    BY <1>1
  <2> HIDE DEF w, e
  <2>8. Path(Len(more), NamesAt(more, id), Befores(more, id), Afters(more, id), w)
    BY <2>2, <2>3, <2>5, <2>6, <2>7, PushWalks
  <2> QED
    BY <2>2, <2>8 DEF Undoes, e
<1> QED
  BY <1>3, <1>5 DEF Walks

\* Of one object, shown as now and next as next: while it is in the history both are the
\* same, and the history walks through what the style or the gesture under way found.
BaseOf(id, now, d, s) == IF s # None /\ s.id = id THEN Content(s) ELSE FoundOf(d, id, now)
WalkOf(id, now, next, d, s, u, r) ==
    /\ id \in Spoken(u, r, s) => now = next
    /\ s # None /\ s.id = id => now # <<>> /\ now[1] = s.place
    /\ Walks(u, r, id, BaseOf(id, now, d, s))
PathInv ==
    \A id \in Ids \ (tangled \cup unrecorded) :
        WalkOf(id, On(ref, id), On(mirror, id), drag, styled, undo, redo)

LEMMA UnspokenWalks ==
    ASSUME NEW id \in Ids, NEW u, NEW r, NEW s, id \notin Spoken(u, r, s), NEW now, NEW next, NEW d
    PROVE  WalkOf(id, now, next, d, s, u, r)
<1>1. /\ \A i \in DOMAIN u : id \notin Names(u[i])
      /\ \A i \in DOMAIN r : id \notin Names(r[i])
      /\ ~(s # None /\ s.id = id)
  BY DEF Spoken
<1>2. Walks(u, r, id, BaseOf(id, now, d, s))
  BY <1>1, UnnamedWalks
<1> QED
  BY <1>1, <1>2 DEF WalkOf

\* Nothing but what is shown next changes.
LEMMA NextWalks ==
    ASSUME NEW id, NEW u, NEW r, NEW s, NEW now, NEW next, NEW d, WalkOf(id, now, next, d, s, u, r),
           NEW next2, id \in Spoken(u, r, s) => next2 = next
    PROVE  WalkOf(id, now, next2, d, s, u, r)
BY DEF WalkOf

\* With no style under way, the base is what the gesture found.
LEMMA FreeWalks ==
    ASSUME NEW id, NEW u, NEW r, NEW now, NEW next, NEW d
    PROVE  WalkOf(id, now, next, d, None, u, r) <=>
               /\ id \in Spoken(u, r, None) => now = next
               /\ Walks(u, r, id, FoundOf(d, id, now))
BY DEF WalkOf, BaseOf

LEMMA FoundFree == \A d, id, now : id \notin HeldBy(d) => FoundOf(d, id, now) = now
BY DEF FoundOf

LEMMA InitPath == Init => PathInv
<1> SUFFICES ASSUME Init, NEW id \in Ids
             PROVE  WalkOf(id, On(ref, id), On(mirror, id), drag, styled, undo, redo)
  BY DEF PathInv
<1>1. id \notin Spoken(undo, redo, styled)
  BY NothingAround DEF Init
<1> QED
  BY <1>1, UnspokenWalks

LEMMA OpenPath ==
    ASSUME TypeInv, GoodInv, PathInv, OpenNote \/ Seed \/ Render
    PROVE  PathInv'
<1> SUFFICES ASSUME NEW id \in Ids \ (tangled' \cup unrecorded')
             PROVE  WalkOf(id, On(ref', id), On(mirror', id), drag', styled', undo', redo')
  BY DEF PathInv
<1>1. CASE OpenNote
  <2>1. id \notin Spoken(undo', redo', styled')
    BY <1>1, NothingAround DEF OpenNote, ForgetHistory
  <2> QED
    BY <2>1, UnspokenWalks
<1>2. CASE Seed
  <2>1. /\ ref' = ref /\ drag' = drag /\ styled' = styled /\ undo' = undo /\ redo' = redo
        /\ tangled \subseteq tangled' /\ unrecorded' = unrecorded \cup (IdsOf(Rows) \cap Mentioned)
    BY <1>2 DEF Seed, Rows, history
  <2>2. /\ WalkOf(id, On(ref, id), On(mirror, id), drag, styled, undo, redo) /\ Once(mirror, id)
        /\ id \in Spoken(undo, redo, styled) => id \notin IdsOf(Rows)
    BY <2>1, MentionedIs DEF PathInv, GoodInv, GoodOf
  <2>3. id \in Spoken(undo, redo, styled) => On(mirror', id) = On(mirror, id)
    BY <1>2, <2>2, SeedShows
  <2>4. WalkOf(id, On(ref, id), On(mirror', id), drag, styled, undo, redo)
    BY <2>2, <2>3, NextWalks
  <2> QED
    BY <2>1, <2>4
<1>3. CASE Render
  <2>1. /\ ref' = mirror /\ mirror' = mirror /\ drag' = drag /\ styled' = styled /\ undo' = undo /\ redo' = redo
        /\ tangled' = tangled /\ unrecorded' = unrecorded
    BY <1>3 DEF Render, traces, history
  <2>2. WalkOf(id, On(ref, id), On(mirror, id), drag, styled, undo, redo)
    BY <2>1 DEF PathInv
  <2>3. CASE id \in Spoken(undo, redo, styled)
    <3>1. On(ref, id) = On(mirror, id)
      BY <2>2, <2>3 DEF WalkOf
    <3> QED
      BY <2>1, <2>2, <3>1
  <2>4. CASE id \notin Spoken(undo, redo, styled)
    BY <2>1, <2>4, UnspokenWalks
  <2> QED
    BY <2>3, <2>4
<1> QED
  BY <1>1, <1>2, <1>3

LEMMA RemotePath ==
    ASSUME TypeInv, GoodInv, PathInv,
           (\E remote \in Object : RemoteUpsert(remote)) \/ \E id \in Ids : RemoteDelete(id)
    PROVE  PathInv'
<1> SUFFICES ASSUME NEW id \in Ids \ (tangled' \cup unrecorded')
             PROVE  WalkOf(id, On(ref', id), On(mirror', id), drag', styled', undo', redo')
  BY DEF PathInv
<1>1. /\ ref' = ref /\ drag' = drag /\ styled' = styled /\ undo' = undo /\ redo' = redo
      /\ tangled \subseteq tangled' /\ unrecorded \subseteq unrecorded'
  BY DEF RemoteUpsert, RemoteDelete, history
<1>2. /\ WalkOf(id, On(ref, id), On(mirror, id), drag, styled, undo, redo) /\ Once(mirror, id)
      /\ Mentioned = Spoken(undo, redo, styled)
  BY <1>1, MentionedIs DEF PathInv, GoodInv, GoodOf
<1>3. ASSUME id \in Spoken(undo, redo, styled) PROVE On(mirror', id) = On(mirror, id)
  <2>1. ASSUME NEW remote \in Object, RemoteUpsert(remote) PROVE On(mirror', id) = On(mirror, id)
    <3>1. On(mirror', id) = IF id # remote.id THEN On(mirror, id)
                            ELSE IF id \in IdsOf(mirror) THEN Content(Merged(remote))
                            ELSE Content(remote)
      BY <1>2, <2>1, UpsertShows
    <3>2. CASE id # remote.id
      BY <3>1, <3>2
    <3>3. CASE id = remote.id
      <4>1. /\ id \in IdsOf(mirror)
            /\ Content(Merged(remote)) = Content(Find(Deduplicated(mirror), id))
        BY <1>2, <1>3, <2>1, <3>3 DEF RemoteUpsert, Merged
      <4>2. Find(Deduplicated(mirror), id) = Find(mirror, id)
        BY <1>2, <4>1, DeduplicatedIs DEF TypeInv
      <4> QED
        BY <3>1, <3>3, <4>1, <4>2 DEF On
    <3> QED
      BY <3>2, <3>3
  <2>2. ASSUME NEW id0 \in Ids, RemoteDelete(id0) PROVE On(mirror', id) = On(mirror, id)
    <3>1. id # id0
      BY <1>2, <1>3, <2>2 DEF RemoteDelete
    <3> QED
      BY <1>2, <2>2, <3>1, RemovalShows
  <2> QED
    BY <2>1, <2>2
<1>4. WalkOf(id, On(ref, id), On(mirror', id), drag, styled, undo, redo)
  BY <1>2, <1>3, NextWalks
<1> QED
  BY <1>1, <1>4

LEMMA GesturePath ==
    ASSUME TypeInv, GoodInv, PathInv,
           \/ \E ids \in SUBSET IdsOf(ref) : DownMove(ids)
           \/ \E id \in IdsOf(ref) : DownResize(id) \/ EraseAt(id)
           \/ \E by \in 0..Places - 1 : Move(by)
           \/ DownErase \/ Cancel \/ Abandon
    PROVE  PathInv'
<1> SUFFICES ASSUME NEW id \in Ids \ (tangled' \cup unrecorded')
             PROVE  WalkOf(id, On(ref', id), On(mirror', id), drag', styled', undo', redo')
  BY DEF PathInv
<1>1. ASSUME undo' = undo, redo' = redo, styled = None, styled' = None,
             tangled \subseteq tangled', unrecorded \subseteq unrecorded',
             FoundOf(drag', id, On(ref', id)) = FoundOf(drag, id, On(ref, id)),
             mirror' = ref' \/ (mirror' = mirror /\ ref' = ref)
      PROVE  WalkOf(id, On(ref', id), On(mirror', id), drag', styled', undo', redo')
  <2>1. WalkOf(id, On(ref, id), On(mirror, id), drag, None, undo, redo)
    BY <1>1 DEF PathInv
  <2>2. /\ id \in Spoken(undo, redo, None) => On(ref, id) = On(mirror, id)
        /\ Walks(undo, redo, id, FoundOf(drag, id, On(ref, id)))
    BY <2>1, FreeWalks
  <2>3. id \in Spoken(undo, redo, None) => On(ref', id) = On(mirror', id)
    BY <1>1, <2>2
  <2>4. WalkOf(id, On(ref', id), On(mirror', id), drag', None, undo, redo)
    BY <1>1, <2>2, <2>3, FreeWalks
  <2> QED
    BY <1>1, <2>4
<1>2. ASSUME \/ \E ids \in SUBSET IdsOf(ref) : DownMove(ids)
             \/ \E k \in IdsOf(ref) : DownResize(k)
             \/ DownErase
      PROVE  WalkOf(id, On(ref', id), On(mirror', id), drag', styled', undo', redo')
  <2>1. /\ drag = None /\ styled = None /\ styled' = None /\ ref' = ref /\ mirror' = mirror
        /\ undo' = undo /\ redo' = redo /\ unrecorded' = unrecorded /\ tangled \subseteq tangled'
    BY <1>2, DownHolds
  <2>2. FoundOf(drag', id, On(ref', id)) = On(ref, id)
    BY <1>2, DownGood
  <2>3. FoundOf(drag, id, On(ref, id)) = On(ref, id)
    BY <2>1, FoundFree, NotHeldByNone
  <2> QED
    BY <1>1, <2>1, <2>2, <2>3
<1>3. ASSUME (\E by \in 0..Places - 1 : Move(by)) \/ \E k \in IdsOf(ref) : EraseAt(k)
      PROVE  WalkOf(id, On(ref', id), On(mirror', id), drag', styled', undo', redo')
  <2>1. styled' = styled /\ undo' = undo /\ redo' = redo /\ unrecorded' = unrecorded /\ tangled' = tangled
    BY <1>3 DEF Move, EraseAt, Dragging, history, traces
  <2>2. drag # None
    <3>1. drag.kind \in {"move", "resize", "erase"}
      BY <1>3 DEF Move, EraseAt
    <3> QED
      BY <3>1 DEF None
  <2>3. styled = None
    BY <2>2 DEF TypeInv
  <2>4. mirror' = ref' /\ FoundOf(drag', id, On(ref', id)) = FoundOf(drag, id, On(ref, id))
    BY <1>3, DragGood
  <2> QED
    BY <1>1, <2>1, <2>3, <2>4
<1>4. ASSUME Cancel \/ Abandon
      PROVE  WalkOf(id, On(ref', id), On(mirror', id), drag', styled', undo', redo')
  <2>1. /\ drag # None /\ styled' = styled /\ undo' = undo /\ redo' = redo
        /\ unrecorded' = unrecorded /\ tangled \subseteq tangled'
    BY <1>4 DEF Cancel, Abandon, Dragging, history, traces
  <2>2. styled = None
    BY <2>1 DEF TypeInv
  <2>3. /\ drag' = None /\ On(ref', id) = FoundOf(drag, id, On(ref, id))
        /\ mirror' = ref' \/ (mirror' = mirror /\ ref' = ref)
    BY <1>4, CancelGood
  <2>4. FoundOf(drag', id, On(ref', id)) = FoundOf(drag, id, On(ref, id))
    BY <2>3, FoundFree, NotHeldByNone
  <2> QED
    BY <1>1, <2>1, <2>2, <2>3, <2>4
<1> QED
  BY <1>2, <1>3, <1>4

LEMMA RecordedWalks ==
    ASSUME TypeInv, NEW b \in Side, NEW a \in Side, Recorded(b, a),
           NEW id, NEW v, NEW w, Walks(undo, redo, id, v),
           id \in DOMAIN b \cup DOMAIN a => VersionIn(b, id) = v /\ VersionIn(a, id) = w,
           id \notin DOMAIN b \cup DOMAIN a => w = v,
           NEW s
    PROVE  /\ Walks(undo', redo', id, w)
           /\ Spoken(undo', redo', s) \subseteq Spoken(undo, redo, s) \cup DOMAIN b \cup DOMAIN a
<1>1. HistoryOK(undo, redo)
  BY DEF TypeInv
<1>2. CASE Record(b, a)
  BY <1>1, <1>2, RecordWalks, RecordSpeaks
<1>3. CASE undo' = undo /\ redo' = redo /\ DOMAIN b = {} /\ DOMAIN a = {}
  BY <1>3
<1> QED
  BY <1>2, <1>3 DEF Recorded

LEMMA DropPath ==
    ASSUME TypeInv, GoodInv, PathInv, Drop \/ DropEraser
    PROVE  PathInv'
<1> SUFFICES ASSUME NEW id \in Ids \ (tangled' \cup unrecorded')
             PROVE  WalkOf(id, On(ref', id), On(mirror', id), drag', styled', undo', redo')
  BY DEF PathInv
<1>1. /\ styled = None /\ drag' = None /\ styled' = None /\ ref' = ref /\ mirror' = mirror
      /\ unrecorded' = unrecorded /\ tangled' = tangled
  BY DropIs
<1>2. PICK b \in Side, a \in Side :
          /\ Recorded(b, a) /\ DOMAIN a \subseteq DOMAIN b /\ DOMAIN b \subseteq HeldBy(drag)
          /\ \A k \in DOMAIN b : Content(b[k]) = FoundOf(drag, k, On(ref, k))
          /\ \A k \in DOMAIN a : k \in IdsOf(ref) /\ a[k] = Find(ref, k)
          /\ drag.kind = "erase" => DOMAIN b = HeldBy(drag) /\ DOMAIN a = {}
          /\ drag.kind # "erase" =>
                /\ DOMAIN a = DOMAIN b
                /\ \A k \in HeldBy(drag) \cap IdsOf(ref) : k \notin DOMAIN b =>
                      FoundOf(drag, k, On(ref, k))[1] = Find(ref, k).place
  BY DropIs
<1> DEFINE v == FoundOf(drag, id, On(ref, id))
           w == On(ref, id)
<1>3. /\ id \in Spoken(undo, redo, None) => On(ref, id) = On(mirror, id)
      /\ Walks(undo, redo, id, v)
  BY <1>1, FreeWalks DEF PathInv
<1>4. Fine(drag, id, On(ref, id), On(mirror, id), pending[id])
  BY <1>1 DEF GoodInv, GoodOf
<1>5. id \in HeldBy(drag) => On(mirror, id) = On(ref, id)
  BY <1>4 DEF Fine
<1>6. id \notin DOMAIN b => w = v
  <2>1. CASE id \notin HeldBy(drag)
    BY <2>1, FoundFree
  <2>2. CASE id \in HeldBy(drag) /\ id \notin DOMAIN b
    <3>1. drag.kind # "erase" /\ (id \in IdsOf(ref) => FoundOf(drag, id, On(ref, id))[1] = Find(ref, id).place)
      BY <1>2, <2>2
    <3> QED
      BY <1>4, <2>2, <3>1, DropStill
  <2> QED
    BY <2>1, <2>2
<1>7. id \in DOMAIN b => VersionIn(b, id) = v /\ VersionIn(a, id) = w
  <2>1. ASSUME id \in DOMAIN b PROVE VersionIn(b, id) = v
    BY <1>2, <2>1 DEF VersionIn
  <2>2. ASSUME id \in DOMAIN b, drag.kind = "erase" PROVE VersionIn(a, id) = w
    BY <1>2, <1>4, <2>2 DEF Fine, VersionIn
  <2>3. ASSUME id \in DOMAIN b, drag.kind # "erase" PROVE VersionIn(a, id) = w
    BY <1>2, <2>3 DEF VersionIn, On
  <2> QED
    BY <2>1, <2>2, <2>3
<1>8. DOMAIN b \cup DOMAIN a = DOMAIN b
  BY <1>2
<1> HIDE DEF v, w
<1>9. Walks(undo', redo', id, w) /\ Spoken(undo', redo', None) \subseteq Spoken(undo, redo, None) \cup DOMAIN b
  BY <1>2, <1>3, <1>6, <1>7, <1>8, RecordedWalks
<1>10. id \in Spoken(undo', redo', None) => On(ref, id) = On(mirror, id)
  BY <1>2, <1>3, <1>5, <1>9
<1>11. FoundOf(None, id, On(ref, id)) = w
  BY FoundFree, NotHeldByNone DEF w
<1> QED
  BY <1>1, <1>9, <1>10, <1>11, FreeWalks

LEMMA NewPath ==
    ASSUME TypeInv, NamesInv, GoodInv, PathInv,
           \/ \E id \in Ids, place \in 0..Places - 1 : Create(id, place)
           \/ \E i \in imports : EndImport(i)
    PROVE  PathInv'
<1> SUFFICES ASSUME NEW id \in Ids \ (tangled' \cup unrecorded')
             PROVE  WalkOf(id, On(ref', id), On(mirror', id), drag', styled', undo', redo')
  BY DEF PathInv
<1>1. PICK o \in Object :
          /\ o.id \notin Around
          /\ drag' = drag /\ styled' = styled /\ unrecorded' = unrecorded /\ tangled' = tangled
          /\ mirror' = ref' /\ ref' = Append(ref, o) /\ Record(Nothing, Single(o))
  BY NewIs
<1>2. /\ o.id \notin IdsOf(ref) /\ o.id \notin HeldBy(drag) /\ o.id \in Ids
      /\ o.id \notin Spoken(undo, redo, styled)
  BY <1>1, AroundIs, ObjectFields
<1>3. Once(ref, id) /\ WalkOf(id, On(ref, id), On(mirror, id), drag, styled, undo, redo)
  BY <1>1 DEF GoodInv, GoodOf, PathInv
<1>4. On(ref', id) = IF id = o.id THEN Content(o) ELSE On(ref, id)
  BY <1>1, <1>2, <1>3, AppendIs DEF TypeInv
<1>5. /\ Nothing \in Side /\ Single(o) \in Side /\ DOMAIN Single(o) = {o.id} /\ Single(o)[o.id] = o
      /\ DOMAIN Nothing = {} /\ HistoryOK(undo, redo)
  BY SmallSides DEF TypeInv, Nothing
<1> DEFINE v == IF id = o.id THEN <<>> ELSE BaseOf(id, On(ref, id), drag, styled)
           w == IF id = o.id THEN Content(o) ELSE v
           S == Single(o)
<1>6. Walks(undo, redo, id, v)
  <2>1. CASE id = o.id
    <3>1. (\A i \in DOMAIN undo : id \notin Names(undo[i])) /\ (\A i \in DOMAIN redo : id \notin Names(redo[i]))
      BY <1>2, <2>1 DEF Spoken
    <3> QED
      BY <3>1, UnnamedWalks
  <2>2. CASE id # o.id
    BY <1>3, <2>2 DEF WalkOf
  <2> QED
    BY <2>1, <2>2
<1>7. /\ id \in DOMAIN Nothing \cup DOMAIN S => VersionIn(Nothing, id) = v /\ VersionIn(S, id) = w
      /\ id \notin DOMAIN Nothing \cup DOMAIN S => w = v
  BY <1>5 DEF VersionIn
<1>8. w = BaseOf(id, On(ref', id), drag', styled')
  <2>1. CASE id = o.id
    <3>1. ~(styled # None /\ styled.id = id)
      BY <1>2, <2>1 DEF Spoken
    <3>2. FoundOf(drag, id, On(ref', id)) = On(ref', id)
      BY <1>2, <2>1, FoundFree
    <3> QED
      BY <1>1, <1>4, <2>1, <3>1, <3>2 DEF BaseOf
  <2>2. CASE id # o.id
    BY <1>1, <1>4, <2>2
  <2> QED
    BY <2>1, <2>2
<1>9. styled' # None /\ styled'.id = id => On(ref', id) # <<>> /\ On(ref', id)[1] = styled'.place
  <2>1. ASSUME styled # None, styled.id = id PROVE id # o.id
    BY <1>2, <2>1 DEF Spoken
  <2> QED
    BY <1>1, <1>3, <1>4, <2>1 DEF WalkOf
<1>10. S \in Side /\ Record(Nothing, S)
  BY <1>1, <1>5
<1> HIDE DEF v, w, S
<1>11. Walks(undo', redo', id, w)
  BY <1>5, <1>6, <1>7, <1>10, RecordWalks
<1> QED
  BY <1>1, <1>8, <1>9, <1>11 DEF WalkOf

LEMMA DeletePath ==
    ASSUME TypeInv, GoodInv, PathInv, NEW ids \in SUBSET IdsOf(ref), DeleteSelection(ids)
    PROVE  PathInv'
<1> SUFFICES ASSUME NEW id \in Ids \ (tangled' \cup unrecorded')
             PROVE  WalkOf(id, On(ref', id), On(mirror', id), drag', styled', undo', redo')
  BY DEF PathInv
<1>1. PICK b \in Side :
          /\ Record(b, Nothing) /\ tangled' = tangled \cup (DOMAIN b \cap HeldBy(drag)) /\ mirror' = ref'
          /\ \A k : Once(ref, k) => On(ref', k) = IF k \in DOMAIN b THEN <<>> ELSE On(ref, k)
          /\ \A k \in DOMAIN b : k \in IdsOf(ref) /\ b[k] = Find(ref, k)
  BY DeleteIs
<1>2. styled = None /\ styled' = None /\ drag' = drag /\ unrecorded' = unrecorded
  BY DeleteIs
<1>3. Once(ref, id) /\ Walks(undo, redo, id, FoundOf(drag, id, On(ref, id)))
  BY <1>1, <1>2, FreeWalks DEF GoodInv, GoodOf, PathInv
<1>4. On(ref', id) = IF id \in DOMAIN b THEN <<>> ELSE On(ref, id)
  BY <1>1, <1>3
<1>5. Nothing \in Side /\ DOMAIN Nothing = {} /\ HistoryOK(undo, redo)
  BY SmallSides DEF TypeInv, Nothing
<1> DEFINE v == FoundOf(drag, id, On(ref, id))
           w == FoundOf(drag', id, On(ref', id))
<1>6. ASSUME id \in DOMAIN b PROVE VersionIn(b, id) = v /\ w = <<>>
  <2>1. id \notin HeldBy(drag)
    BY <1>1, <1>6
  <2>2. v = On(ref, id) /\ w = On(ref', id)
    BY <1>2, <2>1, FoundFree
  <2> QED
    BY <1>1, <1>4, <1>6, <2>2 DEF VersionIn, On
<1>7. /\ id \in DOMAIN b \cup DOMAIN Nothing => VersionIn(b, id) = v /\ VersionIn(Nothing, id) = w
      /\ id \notin DOMAIN b \cup DOMAIN Nothing => w = v
  BY <1>2, <1>4, <1>5, <1>6 DEF VersionIn
<1>8. Walks(undo, redo, id, v)
  BY <1>3
<1> HIDE DEF v, w
<1>9. Walks(undo', redo', id, w)
  BY <1>1, <1>5, <1>7, <1>8, RecordWalks
<1> QED
  BY <1>1, <1>2, <1>9, FreeWalks DEF w

\* An entry's objects are restored as the stack it is moved to starts or ends with.
LEMMA HistoryPath ==
    ASSUME TypeInv, GoodInv, PathInv, NEW e \in Entry, NEW desired \in {e.before, e.after},
           ApplyHistory(e, desired), NEW id \in Ids \ (tangled' \cup unrecorded'),
           \A v : Walks(undo, redo, id, v) =>
               Walks(undo', redo', id, IF id \in Names(e) THEN VersionIn(desired, id) ELSE v)
    PROVE  WalkOf(id, On(ref', id), On(mirror', id), drag', styled', undo', redo')
<1>1. /\ styled = None /\ styled' = None /\ drag' = drag
      /\ unrecorded' = unrecorded /\ tangled' = tangled \cup (Names(e) \cap HeldBy(drag))
      /\ mirror' = ref' /\ DOMAIN desired \subseteq Names(e)
  BY HistoryIs
<1>2. Once(ref, id) /\ Walks(undo, redo, id, FoundOf(drag, id, On(ref, id)))
  BY <1>1, FreeWalks DEF GoodInv, GoodOf, PathInv
<1>3. On(ref', id) = IF id \in DOMAIN desired THEN Content(desired[id])
                     ELSE IF id \in Names(e) THEN <<>> ELSE On(ref, id)
  BY <1>2, HistoryIs
<1>4. Walks(undo', redo', id, FoundOf(drag', id, On(ref', id)))
  <2>1. CASE id \in Names(e)
    <3>1. id \notin HeldBy(drag)
      BY <1>1, <2>1
    <3>2. FoundOf(drag', id, On(ref', id)) = VersionIn(desired, id)
      BY <1>1, <1>3, <2>1, <3>1, FoundFree DEF VersionIn
    <3> QED
      BY <1>2, <2>1, <3>2
  <2>2. CASE id \notin Names(e)
    <3>1. On(ref', id) = On(ref, id)
      BY <1>1, <1>3, <2>2
    <3> QED
      BY <1>1, <1>2, <2>2, <3>1
  <2> QED
    BY <2>1, <2>2
<1> QED
  BY <1>1, <1>4, FreeWalks

LEMMA UndoPath ==
    ASSUME TypeInv, GoodInv, PathInv, Undo \/ Redo
    PROVE  PathInv'
<1> SUFFICES ASSUME NEW id \in Ids \ (tangled' \cup unrecorded')
             PROVE  WalkOf(id, On(ref', id), On(mirror', id), drag', styled', undo', redo')
  BY DEF PathInv
<1>1. undo \in Seq(Entry) /\ redo \in Seq(Entry)
  BY DEF TypeInv, HistoryOK
<1>2. CASE Undo
  <2>1. /\ undo # << >> /\ ApplyHistory(Last(undo), Last(undo).before)
        /\ undo' = Front(undo) /\ redo' = Append(redo, Last(undo))
    BY <1>2 DEF Undo
  <2>2. Last(undo) \in Entry
    BY <1>1, <2>1, StackTypes
  <2>3. \A v : Walks(undo, redo, id, v) =>
            Walks(undo', redo', id, IF id \in Names(Last(undo)) THEN VersionIn(Last(undo).before, id) ELSE v)
    BY <1>1, <2>1, UndoWalks
  <2> QED
    BY <2>1, <2>2, <2>3, HistoryPath
<1>3. CASE Redo
  <2>1. /\ redo # << >> /\ ApplyHistory(Last(redo), Last(redo).after)
        /\ redo' = Front(redo) /\ undo' = Append(undo, Last(redo))
    BY <1>3 DEF Redo
  <2>2. Last(redo) \in Entry
    BY <1>1, <2>1, StackTypes
  <2>3. \A v : Walks(undo, redo, id, v) =>
            Walks(undo', redo', id, IF id \in Names(Last(redo)) THEN VersionIn(Last(redo).after, id) ELSE v)
    BY <1>1, <2>1, RedoWalks
  <2> QED
    BY <2>1, <2>2, <2>3, HistoryPath
<1> QED
  BY <1>2, <1>3

LEMMA TextPath ==
    ASSUME TypeInv, GoodInv, PathInv, NEW id0 \in IdsOf(ref), NEW text \in Texts,
           Type(id0, text) \/ PreviewStyle(id0, text)
    PROVE  PathInv'
<1> SUFFICES ASSUME NEW id \in Ids \ (tangled' \cup unrecorded')
             PROVE  WalkOf(id, On(ref', id), On(mirror', id), drag', styled', undo', redo')
  BY DEF PathInv
<1>1. drag' = drag /\ undo' = undo /\ redo' = redo
  BY TextIs
<1>2. PICK o \in Object :
          /\ o.id = id0 /\ o.place = Find(ref, id0).place /\ Find(ref, id0) \in Object
          /\ mirror' = ref'
          /\ \A k : Once(ref, k) => On(ref', k) = IF k = id0 THEN Content(o) ELSE On(ref, k)
  BY TextIs
<1>3. \/ /\ styled = None /\ styled' = None
         /\ unrecorded' = unrecorded \cup ({id0} \cap Mentioned) /\ tangled \subseteq tangled'
      \/ /\ drag = None /\ unrecorded' = unrecorded /\ tangled' = tangled
         /\ styled # None => styled.id = id0 /\ styled' = styled
         /\ styled = None => styled' = Find(ref, id0)
         /\ Find(ref, id0).id = id0
  BY TextIs
<1>4. unrecorded \subseteq unrecorded' /\ tangled \subseteq tangled'
  BY <1>3
<1>5. Once(ref, id) /\ WalkOf(id, On(ref, id), On(mirror, id), drag, styled, undo, redo)
  BY <1>4 DEF GoodInv, GoodOf, PathInv
<1>6. On(ref', id) = IF id = id0 THEN Content(o) ELSE On(ref, id)
  BY <1>2, <1>5
<1>7. CASE id # id0
  <2>1. styled' # None /\ styled'.id = id <=> styled # None /\ styled.id = id
    BY <1>2, <1>3, <1>7
  <2>2. styled # None /\ styled.id = id => styled' = styled
    BY <1>3, <1>7
  <2> QED
    BY <1>1, <1>2, <1>5, <1>6, <1>7, <2>1, <2>2 DEF WalkOf, BaseOf
<1>8. CASE id = id0
  <2>1. CASE styled = None /\ styled' = None /\ unrecorded' = unrecorded \cup ({id0} \cap Mentioned)
    <3>1. id \notin Mentioned /\ Mentioned = Spoken(undo, redo, styled)
      BY <1>8, <2>1, MentionedIs
    <3>2. id \notin Spoken(undo', redo', styled')
      BY <1>1, <2>1, <3>1
    <3> QED
      BY <3>2, UnspokenWalks
  <2>2. CASE /\ drag = None
             /\ styled # None => styled.id = id0 /\ styled' = styled
             /\ styled = None => styled' = Find(ref, id0)
             /\ Find(ref, id0).id = id0
    <3>1. On(ref, id) = Content(Find(ref, id0)) /\ On(ref, id) = <<Find(ref, id0).place, Find(ref, id0).text>>
      BY <1>8 DEF On, Content
    <3>2. /\ styled' # None /\ styled'.id = id /\ styled'.place = Find(ref, id0).place
      <4>1. CASE styled # None
        BY <1>5, <1>8, <2>2, <3>1, <4>1 DEF WalkOf
      <4>2. CASE styled = None
        BY <1>2, <1>8, <2>2, <4>2, ObjectIsSome
      <4> QED
        BY <4>1, <4>2
    <3>3. BaseOf(id, On(ref', id), drag', styled') = BaseOf(id, On(ref, id), drag, styled)
      <4>1. BaseOf(id, On(ref', id), drag', styled') = Content(styled')
        BY <3>2 DEF BaseOf
      <4>2. CASE styled # None
        BY <1>8, <2>2, <4>1, <4>2 DEF BaseOf
      <4>3. CASE styled = None
        <5>1. FoundOf(drag, id, On(ref, id)) = On(ref, id)
          BY <2>2, FoundFree, NotHeldByNone
        <5> QED
          BY <2>2, <3>1, <4>1, <4>3, <5>1 DEF BaseOf
      <4> QED
        BY <4>2, <4>3
    <3>4. Content(o) # <<>> /\ Content(o)[1] = o.place
      BY ObjectFields
    <3> QED
      BY <1>1, <1>2, <1>5, <1>6, <1>8, <3>2, <3>3, <3>4 DEF WalkOf
  <2> QED
    BY <1>3, <2>1, <2>2
<1> QED
  BY <1>7, <1>8

LEMMA StylePath ==
    ASSUME TypeInv, PathInv, CommitStyle
    PROVE  PathInv'
<1> SUFFICES ASSUME NEW id \in Ids \ (tangled' \cup unrecorded')
             PROVE  WalkOf(id, On(ref', id), On(mirror', id), drag', styled', undo', redo')
  BY DEF PathInv
<1>1. /\ styled \in Object /\ styled # None /\ styled' = None /\ drag = None /\ drag' = None
      /\ ref' = ref /\ mirror' = mirror /\ unrecorded' = unrecorded /\ tangled' = tangled
  BY StyleIs
<1>2. PICK b \in Side, a \in Side :
          /\ Recorded(b, a) /\ DOMAIN a = DOMAIN b /\ DOMAIN b \subseteq {styled.id}
          /\ \A k \in DOMAIN b : b[k] = styled /\ k \in IdsOf(ref) /\ a[k] = Find(ref, k)
          /\ styled.id \in IdsOf(ref) /\ styled.id \notin DOMAIN b =>
                Find(ref, styled.id).text = styled.text
  BY StyleIs
<1>3. WalkOf(id, On(ref, id), On(mirror, id), drag, styled, undo, redo)
  BY <1>1 DEF PathInv
<1>4. FoundOf(None, id, On(ref, id)) = On(ref, id)
  BY FoundFree, NotHeldByNone
<1> DEFINE v == BaseOf(id, On(ref, id), drag, styled)
           w == On(ref, id)
<1>5. id = styled.id => /\ v = Content(styled) /\ id \in IdsOf(ref) /\ w[1] = styled.place
                        /\ w = <<Find(ref, id).place, Find(ref, id).text>>
  BY <1>1, <1>3 DEF WalkOf, BaseOf, On, Content
<1>6. id # styled.id => v = w
  BY <1>1, <1>4 DEF BaseOf
<1>7. id \in DOMAIN b \cup DOMAIN a => VersionIn(b, id) = v /\ VersionIn(a, id) = w
  BY <1>2, <1>5 DEF VersionIn, On
<1>8. id \notin DOMAIN b \cup DOMAIN a => w = v
  <2>1. ASSUME id \notin DOMAIN b, id = styled.id PROVE w = v
    BY <1>2, <1>5, <2>1 DEF Content
  <2> QED
    BY <1>6, <2>1
<1>9. Walks(undo, redo, id, v)
  BY <1>3 DEF WalkOf
<1> HIDE DEF v, w
<1>10. Walks(undo', redo', id, w) /\ Spoken(undo', redo', None) \subseteq Spoken(undo, redo, None) \cup DOMAIN b \cup DOMAIN a
  BY <1>2, <1>7, <1>8, <1>9, RecordedWalks
<1>11. id \in Spoken(undo', redo', None) => On(ref, id) = On(mirror, id)
  <2>1. Spoken(undo, redo, None) \subseteq Spoken(undo, redo, styled)
    BY NothingAround
  <2>2. id = styled.id => id \in Spoken(undo, redo, styled)
    BY <1>1 DEF Spoken
  <2> QED
    BY <1>2, <1>3, <1>10, <2>1, <2>2 DEF WalkOf
<1> QED
  BY <1>1, <1>4, <1>10, <1>11, FreeWalks DEF w

LEMMA ImportPath ==
    ASSUME PathInv, (\E id \in Ids : BeginImport(id)) \/ \E i \in imports : FailImport(i)
    PROVE  PathInv'
<1>1. /\ ref' = ref /\ mirror' = mirror /\ drag' = drag /\ styled' = styled /\ undo' = undo /\ redo' = redo
      /\ tangled' = tangled /\ unrecorded' = unrecorded
  BY DEF BeginImport, FailImport, canvas, history, traces
<1> QED
  BY <1>1 DEF PathInv

LEMMA NextPath == TypeInv /\ NamesInv /\ GoodInv /\ PathInv /\ [Next]_vars => PathInv'
<1> SUFFICES ASSUME TypeInv, NamesInv, GoodInv, PathInv, [Next]_vars PROVE PathInv'
  OBVIOUS
<1>1. CASE UNCHANGED vars
  BY <1>1 DEF vars, canvas, history, traces, PathInv
<1>2. CASE Next
  <2>1. ASSUME NEW id \in Ids, NEW place \in 0..Places - 1, NEW text \in Texts,
               NEW revision \in 1..MaxRevision,
               RemoteUpsert([id |-> id, home |-> note, place |-> place, text |-> text, revision |-> revision])
        PROVE  PathInv'
    <3>1. revision \in 0..MaxRevision /\ note \in Note
      BY EditorConstants DEF TypeInv
    <3>2. [id |-> id, home |-> note, place |-> place, text |-> text, revision |-> revision] \in Object
      BY <3>1 DEF Object
    <3> QED
      BY <2>1, <3>2, RemotePath
  <2>2. ASSUME NEW ids \in SUBSET IdsOf(ref), DownMove(ids) \/ DeleteSelection(ids) PROVE PathInv'
    BY <2>2, GesturePath, DeletePath
  <2>3. ASSUME NEW id \in IdsOf(ref), DownResize(id) \/ EraseAt(id) PROVE PathInv'
    BY <2>3, GesturePath
  <2>4. CASE OpenNote \/ Seed \/ Render
    BY <2>4, OpenPath
  <2>5. CASE DownErase \/ Cancel \/ Abandon \/ \E by \in 0..Places - 1 : Move(by)
    BY <2>5, GesturePath
  <2>6. CASE Drop \/ DropEraser
    BY <2>6, DropPath
  <2>7. CASE Undo \/ Redo \/ CommitStyle
    BY <2>7, UndoPath, StylePath
  <2>8. ASSUME NEW id \in IdsOf(ref), NEW text \in Texts, Type(id, text) \/ PreviewStyle(id, text)
        PROVE  PathInv'
    BY <2>8, TextPath
  <2>9. CASE \/ \E id \in Ids : BeginImport(id) \/ RemoteDelete(id)
             \/ \E id \in Ids, place \in 0..Places - 1 : Create(id, place)
             \/ \E i \in imports : EndImport(i) \/ FailImport(i)
    BY <2>9, RemotePath, NewPath, ImportPath
  <2> QED
    BY <1>2, <2>1, <2>2, <2>3, <2>4, <2>5, <2>6, <2>7, <2>8, <2>9 DEF Next
<1> QED
  BY <1>1, <1>2

LEMMA PathHolds == PathInv => HistoryIsAPath
<1> SUFFICES ASSUME PathInv, Free, NEW id \in Ids \ (unrecorded \cup tangled)
             PROVE  LET of(e) == id \in DOMAIN e.before \cup DOMAIN e.after
                        next(stack, i, j) == /\ i < j /\ of(stack[i]) /\ of(stack[j])
                                             /\ \A k \in i + 1..j - 1 : ~of(stack[k])
                        top(stack, i) == of(stack[i]) /\ \A k \in i + 1..Len(stack) : ~of(stack[k])
                    IN /\ \A i, j \in DOMAIN undo : next(undo, i, j) =>
                              VersionIn(undo[i].after, id) = VersionIn(undo[j].before, id)
                       /\ \A i, j \in DOMAIN redo : next(redo, i, j) =>
                              VersionIn(redo[i].before, id) = VersionIn(redo[j].after, id)
                       /\ \A i \in DOMAIN undo : top(undo, i) => VersionIn(undo[i].after, id) = OnCanvas(id)
                       /\ \A i \in DOMAIN redo : top(redo, i) => VersionIn(redo[i].before, id) = OnCanvas(id)
  BY DEF HistoryIsAPath
<1>1. Walks(undo, redo, id, OnCanvas(id))
  <2>1. styled = None /\ drag = None
    BY DEF Free
  <2>2. Walks(undo, redo, id, FoundOf(None, id, On(ref, id)))
    BY <2>1, FreeWalks DEF PathInv
  <2>3. FoundOf(None, id, On(ref, id)) = On(ref, id) /\ On(ref, id) = OnCanvas(id)
    BY FoundFree, NotHeldByNone DEF On, OnCanvas
  <2> QED
    BY <2>2, <2>3
<1>2. ASSUME NEW stack, NEW i \in DOMAIN stack, NEW j,
             \A k \in i + 1..j : ~(id \in DOMAIN stack[k].before \cup DOMAIN stack[k].after)
      PROVE  \A k \in i + 1..j : k \notin NamesAt(stack, id)
  BY <1>2 DEF NamesAt, Names
<1>3. ASSUME NEW stack, NEW i \in DOMAIN stack, id \in DOMAIN stack[i].before \cup DOMAIN stack[i].after
      PROVE  i \in NamesAt(stack, id)
  BY <1>3 DEF NamesAt, Names
<1>4. ASSUME NEW stack, NEW i \in DOMAIN stack
      PROVE  /\ Befores(stack, id)[i] = VersionIn(stack[i].before, id)
             /\ Afters(stack, id)[i] = VersionIn(stack[i].after, id)
  BY DEF Befores, Afters
<1>5. /\ Path(Len(undo), NamesAt(undo, id), Befores(undo, id), Afters(undo, id), OnCanvas(id))
      /\ Path(Len(redo), NamesAt(redo, id), Afters(redo, id), Befores(redo, id), OnCanvas(id))
  BY <1>1 DEF Walks, Undoes, Redoes
<1>6. ASSUME NEW i \in DOMAIN undo, NEW j \in DOMAIN undo, i < j,
             id \in DOMAIN undo[i].before \cup DOMAIN undo[i].after,
             id \in DOMAIN undo[j].before \cup DOMAIN undo[j].after,
             \A k \in i + 1..j - 1 : ~(id \in DOMAIN undo[k].before \cup DOMAIN undo[k].after)
      PROVE  VersionIn(undo[i].after, id) = VersionIn(undo[j].before, id)
  <2>1. i \in NamesAt(undo, id) /\ j \in NamesAt(undo, id) /\ \A k \in i + 1..j - 1 : k \notin NamesAt(undo, id)
    BY <1>2, <1>3, <1>6
  <2>2. Afters(undo, id)[i] = Befores(undo, id)[j]
    BY <1>5, <1>6, <2>1 DEF Path
  <2> QED
    BY <1>4, <2>2
<1>7. ASSUME NEW i \in DOMAIN redo, NEW j \in DOMAIN redo, i < j,
             id \in DOMAIN redo[i].before \cup DOMAIN redo[i].after,
             id \in DOMAIN redo[j].before \cup DOMAIN redo[j].after,
             \A k \in i + 1..j - 1 : ~(id \in DOMAIN redo[k].before \cup DOMAIN redo[k].after)
      PROVE  VersionIn(redo[i].before, id) = VersionIn(redo[j].after, id)
  <2>1. i \in NamesAt(redo, id) /\ j \in NamesAt(redo, id) /\ \A k \in i + 1..j - 1 : k \notin NamesAt(redo, id)
    BY <1>2, <1>3, <1>7
  <2>2. Befores(redo, id)[i] = Afters(redo, id)[j]
    BY <1>5, <1>7, <2>1 DEF Path
  <2> QED
    BY <1>4, <2>2
<1>8. ASSUME NEW i \in DOMAIN undo, id \in DOMAIN undo[i].before \cup DOMAIN undo[i].after,
             \A k \in i + 1..Len(undo) : ~(id \in DOMAIN undo[k].before \cup DOMAIN undo[k].after)
      PROVE  VersionIn(undo[i].after, id) = OnCanvas(id)
  <2>1. i \in NamesAt(undo, id) /\ \A k \in i + 1..Len(undo) : k \notin NamesAt(undo, id)
    BY <1>2, <1>3, <1>8
  <2>2. Afters(undo, id)[i] = OnCanvas(id)
    BY <1>5, <2>1 DEF Path
  <2> QED
    BY <1>4, <2>2
<1>9. ASSUME NEW i \in DOMAIN redo, id \in DOMAIN redo[i].before \cup DOMAIN redo[i].after,
             \A k \in i + 1..Len(redo) : ~(id \in DOMAIN redo[k].before \cup DOMAIN redo[k].after)
      PROVE  VersionIn(redo[i].before, id) = OnCanvas(id)
  <2>1. i \in NamesAt(redo, id) /\ \A k \in i + 1..Len(redo) : k \notin NamesAt(redo, id)
    BY <1>2, <1>3, <1>9
  <2>2. Befores(redo, id)[i] = OnCanvas(id)
    BY <1>5, <2>1 DEF Path
  <2> QED
    BY <1>4, <2>2
<1> QED
  BY <1>6, <1>7, <1>8, <1>9

(* Undo and redo walk exactly the user's own steps: of every object that no *)
(* change without an entry has touched, each entry leads to the version the *)
(* next one starts from, and the last to what the canvas shows, whatever    *)
(* gestures were cancelled and objects erased, deleted or restored.         *)
THEOREM HistoriesArePaths == Spec => []HistoryIsAPath
<1>1. Init => ShapeInv
  BY DEF Init, ShapeInv, None
<1> QED
  BY <1>1, InitTypes, InitNames, InitGood, InitPath, NextTypes, NextNames, NextGood, NextPath, PathHolds,
     PTL DEF Spec
=============================================================================
