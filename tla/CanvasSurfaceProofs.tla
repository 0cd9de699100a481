------------------------ MODULE CanvasSurfaceProofs ------------------------
(***************************************************************************)
(* Theorems of CanvasSurface: its variables keep their types, objects stay *)
(* on the sheet and around their ink, a resize holds the opposite edge and *)
(* the content stays in view.                                              *)
(***************************************************************************)
EXTENDS CanvasSurface, WellFoundedInduction, SequenceTheorems, TLAPS
-----------------------------------------------------------------------------
(***************************************************************************)
(* Numbers: products, quotients and the extremes of finite families.       *)
(***************************************************************************)
LEMMA ProductIsInt == ASSUME NEW a \in Int, NEW b \in Int PROVE a * b \in Int
  OBVIOUS

LEMMA ProductIsNat == ASSUME NEW a \in Nat, NEW b \in Nat PROVE a * b \in Nat
  OBVIOUS

LEMMA QuotientIsInt == ASSUME NEW a \in Int, NEW b \in Nat \ {0} PROVE a \div b \in Int
  OBVIOUS

LEMMA SumIsInt == ASSUME NEW a \in Int, NEW b \in Int, NEW c \in Int PROVE a + b - c \in Int
  OBVIOUS

\* A set of numbers that is not empty has a least member.
LEMMA LeastOfNats ==
    ASSUME NEW S \in SUBSET Nat, S # {}
    PROVE  \E m \in S : \A n \in S : m <= n
<1> DEFINE Less == {ss \in Nat \X Nat : ss[1] < ss[2]}
<1>1. IsWellFoundedOn(Less, Nat)
  BY NatLessThanWellFounded DEF OpToRel
<1>2. \A m, n \in Nat : n < m => <<n, m>> \in Less
  OBVIOUS
<1> HIDE DEF Less
<1>3. PICK m \in S : \A n \in S : ~(<<n, m>> \in Less)
  BY <1>1, WFMin
<1>4. ASSUME NEW n \in S PROVE m <= n
  <2>1. m \in Nat /\ n \in Nat
    OBVIOUS
  <2>2. ~(n < m)
    BY <1>2, <1>3, <2>1, Zenon
  <2> QED
    BY <2>1, <2>2
<1> QED
  BY <1>4

\* Of finitely many numbers one is the greatest.
LEMMA GreatestOfMany ==
    ASSUME NEW n \in Nat \ {0}, NEW f, \A i \in 1..n : f[i] \in Int
    PROVE  \E i \in 1..n : \A j \in 1..n : f[j] <= f[i]
<1> DEFINE Has(k) == \E i \in 1..k : \A j \in 1..k : f[j] <= f[i]
<1> DEFINE Lacking == {k \in 1..n : ~Has(k)}
<1> SUFFICES ASSUME ~Has(n) PROVE FALSE
  OBVIOUS
<1>1. n \in Lacking /\ Lacking \in SUBSET Nat
  OBVIOUS
<1>2. PICK k \in Lacking : \A m \in Lacking : k <= m
  <2>1. Lacking # {}
    BY <1>1
  <2> HIDE DEF Lacking
  <2>2. QED
    BY <1>1, <2>1, LeastOfNats
<1>3. Has(1)
  <2>1. f[1] \in Int /\ 1 \in 1..1
    OBVIOUS
  <2>2. \A j \in 1..1 : f[j] <= f[1]
    BY <2>1
  <2>3. QED
    BY <2>1, <2>2
<1>4. k # 1 /\ k \in 1..n /\ ~Has(k)
  BY <1>2, <1>3
<1>5. Has(k - 1)
  <2>1. k - 1 \in 1..n /\ ~(k <= k - 1)
    BY <1>4
  <2>2. k - 1 \notin Lacking
    BY <1>2, <2>1
  <2>3. QED
    BY <2>1, <2>2
<1>6. PICK i \in 1..(k - 1) : \A j \in 1..(k - 1) : f[j] <= f[i]
  BY <1>5
<1>7. f[i] \in Int /\ f[k] \in Int /\ i \in 1..k /\ k \in 1..k
  BY <1>4, <1>6
<1>8. \A j \in 1..k : j \in 1..(k - 1) \/ j = k
  BY <1>4
<1> HIDE DEF Lacking
<1>9. CASE f[k] <= f[i]
  <2>1. \A j \in 1..k : f[j] <= f[i]
    BY <1>6, <1>8, <1>9
  <2>2. QED
    BY <2>1, <1>4, <1>7
<1>10. CASE f[i] <= f[k]
  <2>1. \A j \in 1..k : f[j] \in Int
    BY <1>4
  <2>2. \A j \in 1..k : f[j] <= f[k]
    BY <2>1, <1>6, <1>7, <1>8, <1>10
  <2>3. QED
    BY <2>2, <1>4, <1>7
<1>11. QED
  BY <1>7, <1>9, <1>10

\* And one is the least.
LEMMA LeastOfMany ==
    ASSUME NEW n \in Nat \ {0}, NEW f, \A i \in 1..n : f[i] \in Int
    PROVE  \E i \in 1..n : \A j \in 1..n : f[i] <= f[j]
<1> DEFINE g == [i \in 1..n |-> -f[i]]
<1>1. \A i \in 1..n : g[i] \in Int /\ g[i] = -f[i]
  OBVIOUS
<1> HIDE DEF g
<1>2. PICK i \in 1..n : \A j \in 1..n : g[j] <= g[i]
  BY <1>1, GreatestOfMany
<1>3. \A j \in 1..n : f[i] <= f[j]
  BY <1>1, <1>2
<1>4. QED
  BY <1>3
-----------------------------------------------------------------------------
(***************************************************************************)
(* One axis of the sheet.                                                  *)
(***************************************************************************)
\* Where a new or moved object comes to lie.
LEMMA ClampedAxis ==
    ASSUME NEW at \in Int, NEW size \in Int, NEW length \in Nat
    PROVE  /\ ClampToSheet(at, size, length) \in Int
           /\ BeginsOn(ClampToSheet(at, size, length), size, length)
           /\ \A from \in Int : StaysOn(ClampToSheet(at, size, length), size, length, from, size)
<1>1. MinSize \in Nat
  BY SheetType
<1>2. QED
  BY <1>1 DEF ClampToSheet, Within, Greater, Lesser, BeginsOn, StaysOn

\* Where a gesture finds an object.
LEMMA FoundAxis ==
    ASSUME NEW at \in Int, NEW size \in Int, NEW length \in Nat
    PROVE  StaysOn(at, size, length, at, size)
<1>1. MinSize \in Nat
  BY SheetType
<1>2. QED
  BY <1>1 DEF StaysOn, Greater, Lesser

\* The axis is limited in the modes of limits; the handles of near move its near edge.
ResizedAxis(m, limits, at, size, by, length, handle, near, far) ==
    LET free == ResizeAxis(at, size, by, handle \in near, handle \in far)
    IN IF m \in limits THEN StopAtSheet(free, at, length, handle \in near, handle \in far)
       ELSE free

\* A resize keeps the edge it does not move, the sheet's edges and the least size.
LEMMA ResizedAxisHolds ==
    ASSUME NEW m, NEW limits, NEW handle, NEW near, NEW far, near \cap far = {},
           NEW length \in Nat,
           NEW at \in Int, NEW size \in Int, NEW by \in Int, NEW r,
           r = ResizedAxis(m, limits, at, size, by, length, handle, near, far)
    PROVE  /\ r = <<r[1], r[2]>> /\ r[1] \in Int /\ r[2] \in Int
           /\ m \in limits => StaysOn(r[1], r[2], length, at, size)
           /\ size >= MinSize /\ (m \in limits => at >= 0 /\ at + size <= length) =>
                /\ IF handle \in near THEN r[1] + r[2] = at + size ELSE r[1] = at
                /\ r[2] >= MinSize
<1>1. MinSize \in Nat
  BY SheetType
<1>2. CASE handle \in near
  <2>1. PICK resized : resized = Greater(MinSize, size - by)
    OBVIOUS
  <2>2. resized \in Int /\ resized >= MinSize
    BY <2>1, <1>1 DEF Greater
  <2>3. ResizeAxis(at, size, by, handle \in near, handle \in far) = <<at + size - resized, resized>>
    BY <2>1, <1>2 DEF ResizeAxis, NearEdgeMoved
  <2>4. CASE m \in limits /\ at + size - resized < 0
    <3>1. r = <<0, resized + (at + size - resized)>>
      BY <2>3, <2>4, <1>2 DEF ResizedAxis, StopAtSheet
    <3>2. r[1] = 0 /\ r[2] = at + size /\ r = <<r[1], r[2]>>
      BY <3>1, <2>2
    <3>3. StaysOn(r[1], r[2], length, at, size)
      BY <3>2, <1>1 DEF StaysOn, Greater, Lesser
    <3>4. size >= MinSize /\ (m \in limits => at >= 0 /\ at + size <= length) => r[2] >= MinSize
      BY <3>2, <2>4, <1>1
    <3>5. r[1] + r[2] = at + size
      BY <3>2
    <3>6. r[1] \in Int /\ r[2] \in Int
      BY <3>2
    <3>7. QED
      BY <3>2, <3>3, <3>4, <3>5, <3>6, <1>2
  <2>5. CASE ~(m \in limits /\ at + size - resized < 0)
    <3>1. r = <<at + size - resized, resized>>
      <4>1. CASE m \notin limits
        BY <2>3, <4>1 DEF ResizedAxis
      <4>2. CASE m \in limits
        <5>1. ~(at + size - resized < 0)
          BY <2>5, <4>2
        <5>2. <<at + size - resized, resized>>[1] = at + size - resized
          OBVIOUS
        <5>3. r = StopAtSheet(<<at + size - resized, resized>>, at, length,
                              handle \in near, handle \in far)
          BY <2>3, <4>2 DEF ResizedAxis
        <5>4. handle \notin far
          BY <1>2
        <5>5. QED
          BY <5>1, <5>2, <5>3, <5>4, <1>2 DEF StopAtSheet
      <4>3. QED
        BY <4>1, <4>2
    <3>2. r[1] = at + size - resized /\ r[2] = resized /\ r = <<r[1], r[2]>>
      BY <3>1, <2>2
    <3>3. m \in limits => at + size - resized >= 0
      BY <2>2, <2>5
    <3>4. at + size - resized >= 0 => StaysOn(r[1], r[2], length, at, size)
      BY <3>2, <2>2, <1>1 DEF StaysOn, Greater, Lesser
    <3>5. r[1] + r[2] = at + size /\ r[2] >= MinSize /\ r[1] \in Int /\ r[2] \in Int
      BY <3>2, <2>2
    <3>6. QED
      BY <3>2, <3>3, <3>4, <3>5, <1>2
  <2>6. QED
    BY <2>4, <2>5
<1>3. CASE handle \notin near /\ handle \in far
  <2>1. PICK resized : resized = Greater(MinSize, size + by)
    OBVIOUS
  <2>2. resized \in Int /\ resized >= MinSize
    BY <2>1, <1>1 DEF Greater
  <2>3. ResizeAxis(at, size, by, handle \in near, handle \in far) = <<at, resized>>
    BY <2>1, <1>3 DEF ResizeAxis, FarEdgeMoved
  <2>4. CASE m \in limits
    <3>1. r = <<at, Lesser(resized, length - at)>>
      BY <2>3, <2>4, <1>3 DEF ResizedAxis, StopAtSheet
    <3>2. r[1] = at /\ r[2] = Lesser(resized, length - at) /\ r = <<r[1], r[2]>>
      BY <3>1
    <3>3. r[2] \in Int /\ StaysOn(r[1], r[2], length, at, size)
      BY <3>2, <2>2, <1>1 DEF StaysOn, Greater, Lesser
    <3>4. size >= MinSize /\ at + size <= length => r[2] >= MinSize
      BY <3>2, <2>2, <1>1 DEF Lesser
    <3>5. QED
      BY <3>2, <3>3, <3>4, <2>4, <1>3
  <2>5. CASE m \notin limits
    <3>1. r = <<at, resized>>
      BY <2>3, <2>5, <1>3 DEF ResizedAxis
    <3>2. r[1] = at /\ r[2] = resized /\ r = <<r[1], r[2]>>
      BY <3>1
    <3>3. QED
      BY <3>2, <2>2, <2>5, <1>3
  <2>6. QED
    BY <2>4, <2>5
<1>4. CASE handle \notin near /\ handle \notin far
  <2>1. r = <<at, Greater(MinSize, size)>>
    BY <1>4 DEF ResizedAxis, ResizeAxis, StopAtSheet
  <2>2. r[1] = at /\ r[2] = Greater(MinSize, size) /\ r = <<r[1], r[2]>>
    BY <2>1
  <2>3. r[2] \in Int /\ r[2] >= MinSize /\ StaysOn(r[1], r[2], length, at, size)
    BY <2>2, <1>1 DEF StaysOn, Greater, Lesser
  <2>4. QED
    BY <2>2, <2>3, <1>4
<1>5. QED
  BY <1>2, <1>3, <1>4
-----------------------------------------------------------------------------
(***************************************************************************)
(* Bounds on the sheet of a mode.                                          *)
(***************************************************************************)
LEMMA BoundsFields ==
    ASSUME NEW b \in Bounds
    PROVE  b.x \in Int /\ b.y \in Int /\ b.width \in Int /\ b.height \in Int
  BY DEF Bounds

LEMMA PointFields == ASSUME NEW p \in Point PROVE p.x \in Int /\ p.y \in Int
  BY DEF Point

LEMMA AtIsPoint == ASSUME NEW x \in Int, NEW y \in Int
                   PROVE  At(x, y) \in Point /\ At(x, y).x = x /\ At(x, y).y = y
  BY DEF At, Point

SheetLengths == PageWidth \in Nat /\ PageHeight \in Nat

LEMMA SheetHasLengths == SheetLengths
  BY SheetType DEF SheetLengths

LEMMA ClampedBounds ==
    ASSUME NEW b \in Bounds, NEW m, NEW c, c = ClampBoundsToMode(b, m)
    PROVE  /\ c \in Bounds /\ c.width = b.width /\ c.height = b.height
           /\ LimitedX(m) => BeginsOn(c.x, b.width, PageWidth)
           /\ LimitedY(m) => BeginsOn(c.y, b.height, PageHeight)
           /\ \A from \in Int :
                /\ LimitedX(m) => StaysOn(c.x, b.width, PageWidth, from, b.width)
                /\ LimitedY(m) => StaysOn(c.y, b.height, PageHeight, from, b.height)
<1>1. SheetLengths /\ b.x \in Int /\ b.y \in Int /\ b.width \in Int /\ b.height \in Int
  BY BoundsFields, SheetHasLengths
<1>2. /\ c = [b EXCEPT !.x = c.x, !.y = c.y]
      /\ c.x = (IF LimitedX(m) THEN ClampToSheet(b.x, b.width, PageWidth) ELSE b.x)
      /\ c.y = (IF LimitedY(m) THEN ClampToSheet(b.y, b.height, PageHeight) ELSE b.y)
  BY DEF ClampBoundsToMode, Bounds
<1>3. /\ ClampToSheet(b.x, b.width, PageWidth) \in Int
      /\ BeginsOn(ClampToSheet(b.x, b.width, PageWidth), b.width, PageWidth)
      /\ \A from \in Int : StaysOn(ClampToSheet(b.x, b.width, PageWidth), b.width, PageWidth, from, b.width)
  BY <1>1, ClampedAxis DEF SheetLengths
<1>4. /\ ClampToSheet(b.y, b.height, PageHeight) \in Int
      /\ BeginsOn(ClampToSheet(b.y, b.height, PageHeight), b.height, PageHeight)
      /\ \A from \in Int : StaysOn(ClampToSheet(b.y, b.height, PageHeight), b.height, PageHeight, from, b.height)
  BY <1>1, ClampedAxis DEF SheetLengths
<1>5. c.x \in Int /\ c.y \in Int
  BY <1>1, <1>2, <1>3, <1>4
<1>6. c \in Bounds /\ c.width = b.width /\ c.height = b.height
  BY <1>2, <1>5 DEF Bounds
<1>7. QED
  BY <1>2, <1>3, <1>4, <1>6

\* Stated of the bounds a drag found.
LEMMA TranslatedBounds ==
    ASSUME NEW b \in Bounds, NEW dx \in Int, NEW dy \in Int, NEW m, NEW c,
           c = TranslateBoundsInMode(b, dx, dy, m)
    PROVE  /\ c \in Bounds /\ c.width = b.width /\ c.height = b.height
           /\ LimitedX(m) => StaysOn(c.x, c.width, PageWidth, b.x, b.width)
           /\ LimitedY(m) => StaysOn(c.y, c.height, PageHeight, b.y, b.height)
<1>1. PICK t : t = TranslateBounds(b, dx, dy)
  OBVIOUS
<1>2. t \in Bounds /\ t.width = b.width /\ t.height = b.height
  <2>1. b.x + dx \in Int /\ b.y + dy \in Int
    BY BoundsFields
  <2>2. t = [b EXCEPT !.x = b.x + dx, !.y = b.y + dy]
    BY <1>1 DEF TranslateBounds
  <2>3. QED
    BY <2>1, <2>2 DEF Bounds
<1>3. c = ClampBoundsToMode(t, m)
  BY <1>1 DEF TranslateBoundsInMode
<1>4. b.x \in Int /\ b.y \in Int
  BY BoundsFields
<1>5. QED
  BY <1>2, <1>3, <1>4, ClampedBounds

LEMMA ResizedBounds ==
    ASSUME NEW b \in Bounds, NEW handle \in Handles, NEW start \in Point, NEW current \in Point,
           NEW m, NEW c, c = ResizeBoundsInMode(b, handle, start, current, m)
    PROVE  /\ c \in Bounds
           /\ LimitedX(m) => StaysOn(c.x, c.width, PageWidth, b.x, b.width)
           /\ LimitedY(m) => StaysOn(c.y, c.height, PageHeight, b.y, b.height)
           /\ b.width >= MinSize /\ (LimitedX(m) => b.x >= 0 /\ b.x + b.width <= PageWidth) =>
                /\ IF handle \in West THEN c.x + c.width = b.x + b.width ELSE c.x = b.x
                /\ c.width >= MinSize
           /\ b.height >= MinSize /\ (LimitedY(m) => b.y >= 0 /\ b.y + b.height <= PageHeight) =>
                /\ IF handle \in North THEN c.y + c.height = b.y + b.height ELSE c.y = b.y
                /\ c.height >= MinSize
<1>1. /\ SheetLengths /\ b.x \in Int /\ b.y \in Int /\ b.width \in Int /\ b.height \in Int
      /\ current.x - start.x \in Int /\ current.y - start.y \in Int
  BY BoundsFields, PointFields, SheetHasLengths
<1>2. PICK h : h = ResizedAxis(m, {"fixed-width", "paged"}, b.x, b.width,
                               current.x - start.x, PageWidth, handle, West, East)
  OBVIOUS
<1>3. PICK v : v = ResizedAxis(m, {"fixed-height"}, b.y, b.height,
                               current.y - start.y, PageHeight, handle, North, South)
  OBVIOUS
<1>4. c = [x |-> h[1], y |-> v[1], width |-> h[2], height |-> v[2]]
  <2>1. LimitedX(m) = (m \in {"fixed-width", "paged"}) /\ LimitedY(m) = (m \in {"fixed-height"})
    BY DEF LimitedX, LimitedY
  <2>2. QED
    BY <1>2, <1>3, <2>1 DEF ResizeBoundsInMode, ResizedAxis
<1>5. /\ LimitedX(m) <=> m \in {"fixed-width", "paged"}
      /\ LimitedY(m) <=> m \in {"fixed-height"}
      /\ West \cap East = {} /\ North \cap South = {}
  BY DEF LimitedX, LimitedY, West, East, North, South
<1>6. /\ h[1] \in Int /\ h[2] \in Int
      /\ LimitedX(m) => StaysOn(h[1], h[2], PageWidth, b.x, b.width)
      /\ b.width >= MinSize /\ (LimitedX(m) => b.x >= 0 /\ b.x + b.width <= PageWidth) =>
            /\ IF handle \in West THEN h[1] + h[2] = b.x + b.width ELSE h[1] = b.x
            /\ h[2] >= MinSize
  BY <1>1, <1>2, <1>5, ResizedAxisHolds DEF SheetLengths
<1>7. /\ v[1] \in Int /\ v[2] \in Int
      /\ LimitedY(m) => StaysOn(v[1], v[2], PageHeight, b.y, b.height)
      /\ b.height >= MinSize /\ (LimitedY(m) => b.y >= 0 /\ b.y + b.height <= PageHeight) =>
            /\ IF handle \in North THEN v[1] + v[2] = b.y + b.height ELSE v[1] = b.y
            /\ v[2] >= MinSize
  BY <1>1, <1>3, <1>5, ResizedAxisHolds DEF SheetLengths
<1>8. /\ c \in Bounds /\ c.x = h[1] /\ c.y = v[1] /\ c.width = h[2] /\ c.height = v[2]
  BY <1>4, <1>6, <1>7 DEF Bounds
<1>9. QED
  BY <1>6, <1>7, <1>8
-----------------------------------------------------------------------------
(***************************************************************************)
(* Objects.                                                                *)
(***************************************************************************)
LEMMA ObjectFields ==
    ASSUME NEW o \in Object
    PROVE  /\ o.kind \in Kinds /\ o.bounds \in Bounds /\ o.ink \in Seq(Point)
           /\ o.z \in Nat /\ o.locked \in BOOLEAN
           /\ o = [kind |-> o.kind, bounds |-> o.bounds, ink |-> o.ink,
                   z |-> o.z, locked |-> o.locked]
  BY DEF Object

\* What is drawn point by point.
LEMMA PointwiseSeq ==
    ASSUME NEW S, NEW T, NEW q \in Seq(S), NEW r, r = [i \in DOMAIN q |-> r[i]],
           \A i \in DOMAIN q : r[i] \in T
    PROVE  r \in Seq(T) /\ DOMAIN r = DOMAIN q
<1>1. DOMAIN q = 1..Len(q) /\ Len(q) \in Nat
  BY LenProperties
<1>2. DOMAIN r = 1..Len(q)
  BY <1>1
<1>3. r \in [1..Len(q) -> T]
  BY <1>1
<1>4. QED
  BY <1>1, <1>2, <1>3, SeqDef

LEMMA ShiftedInside ==
    ASSUME NEW v \in Int, NEW from \in Int, NEW to \in Int, NEW size \in Int,
           from <= v, v <= from + size
    PROVE  to <= v + to - from /\ v + to - from <= to + size /\ v + to - from \in Int
  OBVIOUS

\* An object moves with its ink.
LEMMA MovedObject ==
    ASSUME NEW o \in Object, NEW b \in Bounds, NEW n, n = MoveObjectToBounds(o, b)
    PROVE  /\ n \in Object /\ n.bounds = b
           /\ InkInside(o) /\ b.width = o.bounds.width /\ b.height = o.bounds.height => InkInside(n)
<1>1. /\ o.bounds \in Bounds /\ o.ink \in Seq(Point)
      /\ b.x \in Int /\ b.y \in Int /\ b.width \in Int /\ b.height \in Int
      /\ o.bounds.x \in Int /\ o.bounds.y \in Int
      /\ o.bounds.width \in Int /\ o.bounds.height \in Int
  BY ObjectFields, BoundsFields
<1>2. PICK ink : ink = [i \in DOMAIN o.ink |-> At(o.ink[i].x + b.x - o.bounds.x,
                                                  o.ink[i].y + b.y - o.bounds.y)]
  OBVIOUS
<1>3. n = [o EXCEPT !.bounds = b, !.ink = ink]
  BY <1>2 DEF MoveObjectToBounds, MapInk
<1>4. ASSUME NEW i \in DOMAIN o.ink
      PROVE  /\ o.ink[i].x \in Int /\ o.ink[i].y \in Int
             /\ ink[i] \in Point
             /\ ink[i].x = o.ink[i].x + b.x - o.bounds.x /\ ink[i].y = o.ink[i].y + b.y - o.bounds.y
  <2>1. o.ink[i] \in Point
    BY <1>1
  <2>2. o.ink[i].x \in Int /\ o.ink[i].y \in Int
    BY <2>1, PointFields
  <2>3. ink[i] = At(o.ink[i].x + b.x - o.bounds.x, o.ink[i].y + b.y - o.bounds.y)
    BY <1>2
  <2>4. o.ink[i].x + b.x - o.bounds.x \in Int /\ o.ink[i].y + b.y - o.bounds.y \in Int
    BY SMTT(30), <2>2, <1>1
  <2>5. QED
    BY <2>2, <2>3, <2>4, AtIsPoint
<1>5. ink \in Seq(Point) /\ DOMAIN ink = DOMAIN o.ink
  <2>1. ink = [i \in DOMAIN o.ink |-> ink[i]]
    BY <1>2
  <2>2. QED
    BY <2>1, <1>1, <1>4, PointwiseSeq
<1>6. n \in Object /\ n.bounds = b /\ n.ink = ink
  BY <1>3, <1>5 DEF Object
<1>7. ASSUME InkInside(o), b.width = o.bounds.width, b.height = o.bounds.height,
             NEW i \in DOMAIN ink
      PROVE  Contains(b, ink[i])
  <2>1. Contains(o.bounds, o.ink[i]) /\ i \in DOMAIN o.ink
    BY <1>5, <1>7 DEF InkInside
  <2>2. /\ o.ink[i].x \in Int /\ o.ink[i].y \in Int
        /\ ink[i].x = o.ink[i].x + b.x - o.bounds.x /\ ink[i].y = o.ink[i].y + b.y - o.bounds.y
    BY <2>1, <1>4
  <2>3. /\ o.bounds.x <= o.ink[i].x /\ o.ink[i].x <= o.bounds.x + b.width
        /\ o.bounds.y <= o.ink[i].y /\ o.ink[i].y <= o.bounds.y + b.height
    BY <2>1, <2>2, <1>1, <1>7 DEF Contains
  <2>4. /\ b.x <= ink[i].x /\ ink[i].x <= b.x + b.width
        /\ b.y <= ink[i].y /\ ink[i].y <= b.y + b.height
        /\ ink[i].x \in Int /\ ink[i].y \in Int
    <3>1. b.x <= ink[i].x /\ ink[i].x <= b.x + b.width /\ ink[i].x \in Int
      BY SMTT(30), <2>2, <2>3, <1>1, ShiftedInside
    <3>2. b.y <= ink[i].y /\ ink[i].y <= b.y + b.height /\ ink[i].y \in Int
      BY SMTT(30), <2>2, <2>3, <1>1, ShiftedInside
    <3>3. QED
      BY <3>1, <3>2
  <2>5. QED
    BY <2>4, <1>1 DEF Contains
<1>8. QED
  BY <1>6, <1>7 DEF InkInside

\* A resized object has the new bounds, and what its payload has become.
LEMMA ResizedObject ==
    ASSUME NEW o \in Object, NEW b \in Bounds, NEW n, n = ResizeObjectToBounds(o, b),
           \A k \in DOMAIN n.ink : n.ink[k] \in Point
    PROVE  n \in Object /\ n.bounds = b
<1>1. o.ink \in Seq(Point)
  BY ObjectFields
<1>2. PICK ink : ink = [i \in DOMAIN o.ink |->
                At(b.x + ((o.ink[i].x - o.bounds.x) * b.width) \div o.bounds.width,
                   b.y + ((o.ink[i].y - o.bounds.y) * b.height) \div o.bounds.height)]
  OBVIOUS
<1>3. n = [o EXCEPT !.bounds = b, !.ink = IF o.kind = "line" THEN ink ELSE o.ink]
  BY <1>2 DEF ResizeObjectToBounds, MapInk
<1>4. CASE o.kind = "line"
  <2>1. n = [o EXCEPT !.bounds = b, !.ink = ink]
    BY <1>3, <1>4
  <2>2. n.ink = ink
    BY <2>1 DEF Object
  <2>3. ink = [i \in DOMAIN o.ink |-> ink[i]] /\ DOMAIN ink = DOMAIN o.ink
    BY <1>2
  <2>4. ink \in Seq(Point)
    BY <2>2, <2>3, <1>1, PointwiseSeq
  <2>5. QED
    BY <2>1, <2>4 DEF Object
<1>5. CASE o.kind # "line"
  <2>1. n = [o EXCEPT !.bounds = b, !.ink = o.ink]
    BY <1>3, <1>5
  <2>2. QED
    BY <2>1, <1>1 DEF Object
<1>6. QED
  BY <1>4, <1>5

LEMMA ObjectAt ==
    ASSUME NEW q \in Seq(Object), NEW i \in DOMAIN q
    PROVE  q[i] \in Object
  OBVIOUS

\* The next z is above all others.
LEMMA NextZ ==
    ASSUME NEW q \in Seq(Object)
    PROVE  NextZIndex(q) \in Nat /\ \A i \in DOMAIN q : q[i].z < NextZIndex(q)
<1> DEFINE Above(m) == m \in {0} \cup {q[i].z : i \in DOMAIN q} /\ \A i \in DOMAIN q : q[i].z <= m
<1>1. DOMAIN q = 1..Len(q) /\ Len(q) \in Nat /\ \A i \in DOMAIN q : q[i].z \in Nat
  BY LenProperties, ObjectAt, ObjectFields
<1>2. \E m : Above(m)
  <2>1. CASE Len(q) = 0
    <3>1. Above(0)
      BY <1>1, <2>1
    <3>2. QED
      BY <3>1
  <2>2. CASE Len(q) # 0
    <3> DEFINE f == [i \in 1..Len(q) |-> q[i].z]
    <3>1. \A i \in 1..Len(q) : f[i] \in Int /\ f[i] = q[i].z
      BY <1>1
    <3> HIDE DEF f
    <3>2. PICK i \in 1..Len(q) : \A j \in 1..Len(q) : f[j] <= f[i]
      BY <3>1, <2>2, <1>1, GreatestOfMany
    <3>3. Above(q[i].z)
      BY <3>1, <3>2, <1>1
    <3>4. QED
      BY <3>3
  <2>3. QED
    BY <2>1, <2>2
<1>3. PICK m : m = (CHOOSE n \in {0} \cup {q[i].z : i \in DOMAIN q} :
                        \A i \in DOMAIN q : q[i].z <= n)
  OBVIOUS
<1>4. m \in {0} \cup {q[i].z : i \in DOMAIN q} /\ \A i \in DOMAIN q : q[i].z <= m
  BY <1>2, <1>3
<1>5. m \in Nat
  BY <1>1, <1>4
<1>6. NextZIndex(q) = 1 + m
  BY <1>3 DEF NextZIndex
<1>7. QED
  BY <1>1, <1>4, <1>5, <1>6

\* A new object: on the sheet, and what it draws with it.
LEMMA CreatedObject ==
    ASSUME objects \in Seq(Object), NEW kind \in Kinds, NEW raw \in Bounds, NEW points \in Seq(Point),
           NEW o, o = Created(kind, raw, points)
    PROVE  /\ o \in Object
           /\ LimitedX(mode) => BeginsOn(o.bounds.x, o.bounds.width, PageWidth)
           /\ LimitedY(mode) => BeginsOn(o.bounds.y, o.bounds.height, PageHeight)
           /\ (\A k \in DOMAIN points : Contains(raw, points[k])) => InkInside(o)
<1>1. PICK b : b = ClampBoundsToMode(raw, mode)
  OBVIOUS
<1>2. /\ b \in Bounds /\ b.width = raw.width /\ b.height = raw.height
      /\ LimitedX(mode) => BeginsOn(b.x, b.width, PageWidth)
      /\ LimitedY(mode) => BeginsOn(b.y, b.height, PageHeight)
  <2>1. /\ b \in Bounds /\ b.width = raw.width /\ b.height = raw.height
        /\ LimitedX(mode) => BeginsOn(b.x, raw.width, PageWidth)
        /\ LimitedY(mode) => BeginsOn(b.y, raw.height, PageHeight)
    BY <1>1, ClampedBounds
  <2>2. QED
    BY <2>1
<1>3. /\ b.x \in Int /\ b.y \in Int /\ b.width \in Int /\ b.height \in Int
      /\ raw.x \in Int /\ raw.y \in Int
  BY <1>2, BoundsFields
<1>4. PICK ink : ink = [i \in DOMAIN points |-> At(points[i].x + b.x - raw.x,
                                                   points[i].y + b.y - raw.y)]
  OBVIOUS
<1>5. o = [kind |-> kind, bounds |-> b, ink |-> ink, z |-> NextZIndex(objects), locked |-> FALSE]
  BY <1>1, <1>4 DEF Created, MapInk
<1>6. ASSUME NEW i \in DOMAIN points
      PROVE  /\ points[i].x \in Int /\ points[i].y \in Int
             /\ ink[i] \in Point
             /\ ink[i].x = points[i].x + b.x - raw.x /\ ink[i].y = points[i].y + b.y - raw.y
  <2>1. points[i] \in Point
    OBVIOUS
  <2>2. points[i].x \in Int /\ points[i].y \in Int
    BY <2>1, PointFields
  <2>3. ink[i] = At(points[i].x + b.x - raw.x, points[i].y + b.y - raw.y)
    BY <1>4
  <2>4. points[i].x + b.x - raw.x \in Int /\ points[i].y + b.y - raw.y \in Int
    BY <2>2, <1>3, SumIsInt
  <2>5. QED
    BY <2>2, <2>3, <2>4, AtIsPoint
<1>7. ink \in Seq(Point) /\ DOMAIN ink = DOMAIN points
  <2>1. ink = [i \in DOMAIN points |-> ink[i]]
    BY <1>4
  <2>2. QED
    BY <2>1, <1>6, PointwiseSeq
<1>8. o \in Object /\ o.bounds = b /\ o.ink = ink
  <2>1. NextZIndex(objects) \in Nat
    BY NextZ
  <2>2. QED
    BY <2>1, <1>2, <1>5, <1>7 DEF Object
<1>9. ASSUME \A k \in DOMAIN points : Contains(raw, points[k]), NEW i \in DOMAIN ink
      PROVE  Contains(b, ink[i])
  <2>1. i \in DOMAIN points /\ Contains(raw, points[i])
    BY <1>7, <1>9
  <2>2. /\ points[i].x \in Int /\ points[i].y \in Int
        /\ ink[i].x = points[i].x + b.x - raw.x /\ ink[i].y = points[i].y + b.y - raw.y
    BY <2>1, <1>6
  <2>3. /\ raw.x <= points[i].x /\ points[i].x <= raw.x + b.width
        /\ raw.y <= points[i].y /\ points[i].y <= raw.y + b.height
    BY <2>1, <2>2, <1>2, <1>3 DEF Contains
  <2>4. b.x <= ink[i].x /\ ink[i].x <= b.x + b.width /\ ink[i].x \in Int
    BY SMTT(30), <2>2, <2>3, <1>3, ShiftedInside
  <2>5. b.y <= ink[i].y /\ ink[i].y <= b.y + b.height /\ ink[i].y \in Int
    BY SMTT(30), <2>2, <2>3, <1>3, ShiftedInside
  <2>6. QED
    BY <2>4, <2>5, <1>3 DEF Contains
<1>10. QED
  BY <1>2, <1>8, <1>9 DEF InkInside

LEMMA FreeBounds ==
    ASSUME NEW start \in Point, NEW current \in Point
    PROVE  DragBoundsFree(start, current) \in Bounds
<1>1. start.x \in Int /\ start.y \in Int /\ current.x \in Int /\ current.y \in Int
  BY PointFields
<1>2. QED
  BY <1>1 DEF DragBoundsFree, Bounds, Lesser, Distance

\* One axis of a line's bounds, and of a stroke's of two points.
LEMMA LineAxis ==
    ASSUME NEW a \in Int, NEW b \in Int, NEW padding \in Nat, NEW at, NEW size,
           at = Lesser(a, b) - Greater(0, MinSize - Distance(a, b)) \div 2 - padding,
           size = Greater(MinSize, Distance(a, b)) + 2 * padding
    PROVE  /\ at \in Int /\ size \in Int
           /\ at <= a /\ a <= at + size /\ at <= b /\ b <= at + size
<1>1. MinSize \in Nat
  BY SheetType
<1>2. PICK slack : slack = Greater(0, MinSize - Distance(a, b)) \div 2
  OBVIOUS
<1>3. Distance(a, b) \in Nat /\ Lesser(a, b) \in Int
  BY DEF Distance, Lesser
<1>4. slack \in Nat /\ 2 * slack <= Greater(0, MinSize - Distance(a, b))
  BY <1>1, <1>2, <1>3 DEF Greater
<1>5. Lesser(a, b) <= a /\ Lesser(a, b) <= b
      /\ a <= Lesser(a, b) + Distance(a, b) /\ b <= Lesser(a, b) + Distance(a, b)
  BY DEF Lesser, Distance
<1>6. /\ Greater(MinSize, Distance(a, b)) \in Nat
      /\ Greater(MinSize, Distance(a, b)) = Distance(a, b) + Greater(0, MinSize - Distance(a, b))
  BY <1>1, <1>3 DEF Greater
<1>7. PICK extra : extra = Greater(0, MinSize - Distance(a, b))
  OBVIOUS
<1>8. extra \in Nat
  BY <1>1, <1>3, <1>7 DEF Greater
<1>9. /\ at = Lesser(a, b) - slack - padding
      /\ size = Distance(a, b) + extra + 2 * padding
      /\ 2 * slack <= extra
  BY <1>2, <1>4, <1>6, <1>7
<1> HIDE DEF Lesser, Distance, Greater
<1>10. QED
  BY <1>3, <1>4, <1>5, <1>8, <1>9

LEMMA TwoPoints ==
    ASSUME NEW start \in Point, NEW end \in Point
    PROVE  /\ <<start, end>> \in Seq(Point)
           /\ DOMAIN <<start, end>> = {1, 2}
           /\ <<start, end>>[1] = start /\ <<start, end>>[2] = end
  OBVIOUS

LEMMA LineInBounds ==
    ASSUME NEW start \in Point, NEW end \in Point, NEW padding \in Nat, NEW b,
           b = LineBounds(start, end, padding)
    PROVE  /\ b \in Bounds
           /\ \A k \in DOMAIN <<start, end>> : Contains(b, <<start, end>>[k])
<1>1. start.x \in Int /\ start.y \in Int /\ end.x \in Int /\ end.y \in Int
  BY PointFields
<1>2. b = [x |-> Lesser(start.x, end.x) - Greater(0, MinSize - Distance(start.x, end.x)) \div 2 - padding,
           y |-> Lesser(start.y, end.y) - Greater(0, MinSize - Distance(start.y, end.y)) \div 2 - padding,
           width |-> Greater(MinSize, Distance(start.x, end.x)) + 2 * padding,
           height |-> Greater(MinSize, Distance(start.y, end.y)) + 2 * padding]
  BY DEF LineBounds
<1>3. /\ b.x \in Int /\ b.width \in Int
      /\ b.x <= start.x /\ start.x <= b.x + b.width /\ b.x <= end.x /\ end.x <= b.x + b.width
  <2>1. /\ b.x = Lesser(start.x, end.x)
                - Greater(0, MinSize - Distance(start.x, end.x)) \div 2 - padding
        /\ b.width = Greater(MinSize, Distance(start.x, end.x)) + 2 * padding
    BY <1>2
  <2> HIDE <1>2
  <2>2. QED
    BY <2>1, <1>1, LineAxis
<1>4. /\ b.y \in Int /\ b.height \in Int
      /\ b.y <= start.y /\ start.y <= b.y + b.height /\ b.y <= end.y /\ end.y <= b.y + b.height
  <2>1. /\ b.y = Lesser(start.y, end.y)
                - Greater(0, MinSize - Distance(start.y, end.y)) \div 2 - padding
        /\ b.height = Greater(MinSize, Distance(start.y, end.y)) + 2 * padding
    BY <1>2
  <2> HIDE <1>2
  <2>2. QED
    BY <2>1, <1>1, LineAxis
<1>5. b \in Bounds
  BY <1>2, <1>3, <1>4 DEF Bounds
<1>6. Contains(b, start) /\ Contains(b, end)
  BY <1>1, <1>3, <1>4 DEF Contains
<1>7. QED
  BY <1>5, <1>6, TwoPoints

LEMMA ExtremesOfTwo ==
    ASSUME NEW a \in Int, NEW b \in Int, NEW S, S = {a, b}
    PROVE  (\E m \in S : \A n \in S : m <= n) /\ (\E m \in S : \A n \in S : m >= n)
<1>1. CASE a <= b
  <2>1. (\A n \in S : a <= n) /\ (\A n \in S : b >= n) /\ a \in S /\ b \in S
    BY <1>1
  <2>2. QED
    BY <2>1
<1>2. CASE b <= a
  <2>1. (\A n \in S : b <= n) /\ (\A n \in S : a >= n) /\ a \in S /\ b \in S
    BY <1>2
  <2>2. QED
    BY <2>1
<1>3. QED
  BY <1>1, <1>2

LEMMA StrokeInBounds ==
    ASSUME NEW p \in Point, NEW q \in Point, NEW padding \in Nat, NEW b,
           b = PointsToBounds(<<p, q>>, padding)
    PROVE  /\ b \in Bounds
           /\ \A k \in DOMAIN <<p, q>> : Contains(b, <<p, q>>[k])
<1>1. p.x \in Int /\ p.y \in Int /\ q.x \in Int /\ q.y \in Int
  BY PointFields
<1>2. PICK xs : xs = {<<p, q>>[i].x : i \in DOMAIN <<p, q>>}
  OBVIOUS
<1>3. PICK ys : ys = {<<p, q>>[i].y : i \in DOMAIN <<p, q>>}
  OBVIOUS
<1>4. xs = {p.x, q.x} /\ ys = {p.y, q.y}
  BY <1>2, <1>3, TwoPoints
<1>5. PICK left : left = CHOOSE m \in xs : \A n \in xs : m <= n
  OBVIOUS
<1>6. PICK right : right = CHOOSE m \in xs : \A n \in xs : m >= n
  OBVIOUS
<1>7. PICK top : top = CHOOSE m \in ys : \A n \in ys : m <= n
  OBVIOUS
<1>8. PICK bottom : bottom = CHOOSE m \in ys : \A n \in ys : m >= n
  OBVIOUS
<1>9. b = [x |-> left - padding, y |-> top - padding,
           width |-> Greater(MinSize, right - left + 2 * padding),
           height |-> Greater(MinSize, bottom - top + 2 * padding)]
  BY <1>2, <1>3, <1>5, <1>6, <1>7, <1>8 DEF PointsToBounds
<1>10. /\ b.x \in Int /\ b.width \in Int
       /\ b.x <= p.x /\ p.x <= b.x + b.width /\ b.x <= q.x /\ q.x <= b.x + b.width
  <2>1. b.x = left - padding /\ b.width = Greater(MinSize, right - left + 2 * padding)
    BY <1>9
  <2>2. (\E m \in xs : \A n \in xs : m <= n) /\ (\E m \in xs : \A n \in xs : m >= n)
    BY <1>1, <1>4, ExtremesOfTwo
  <2>3. left \in xs /\ \A n \in xs : left <= n
    BY <2>2, <1>5
  <2>4. right \in xs /\ \A n \in xs : right >= n
    BY <2>2, <1>6
  <2>5. /\ left \in Int /\ left <= p.x /\ left <= q.x
        /\ right \in Int /\ p.x <= right /\ q.x <= right
    BY <2>3, <2>4, <1>1, <1>4
  <2>6. QED
    BY <2>1, <2>5, <1>1, SheetType DEF Greater
<1>11. /\ b.y \in Int /\ b.height \in Int
       /\ b.y <= p.y /\ p.y <= b.y + b.height /\ b.y <= q.y /\ q.y <= b.y + b.height
  <2>1. b.y = top - padding /\ b.height = Greater(MinSize, bottom - top + 2 * padding)
    BY <1>9
  <2>2. (\E m \in ys : \A n \in ys : m <= n) /\ (\E m \in ys : \A n \in ys : m >= n)
    BY <1>1, <1>4, ExtremesOfTwo
  <2>3. top \in ys /\ \A n \in ys : top <= n
    BY <2>2, <1>7
  <2>4. bottom \in ys /\ \A n \in ys : bottom >= n
    BY <2>2, <1>8
  <2>5. /\ top \in Int /\ top <= p.y /\ top <= q.y
        /\ bottom \in Int /\ p.y <= bottom /\ q.y <= bottom
    BY <2>3, <2>4, <1>1, <1>4
  <2>6. QED
    BY <2>1, <2>5, <1>1, SheetType DEF Greater
<1>12. b \in Bounds
  BY <1>9, <1>10, <1>11 DEF Bounds
<1>13. Contains(b, p) /\ Contains(b, q)
  BY <1>1, <1>10, <1>11 DEF Contains
<1>14. QED
  BY <1>12, <1>13, TwoPoints

LEMMA HandleOrNone ==
    ASSUME NEW b, NEW p
    PROVE  HandleAtPoint(b, p, Reach) \in Handles \cup {"none"}
<1>1. PICK hits : hits = {i \in DOMAIN HandleOrder :
                            IsNear(HandlePosition(b, HandleOrder[i]), p, Reach)}
  OBVIOUS
<1>2. CASE hits = {}
  BY <1>1, <1>2 DEF HandleAtPoint
<1>3. CASE hits # {}
  <2>1. DOMAIN HandleOrder = 1..8 /\ \A i \in 1..8 : HandleOrder[i] \in Handles
    BY DEF HandleOrder, Handles
  <2>2. hits \in SUBSET Nat
    BY <1>1, <2>1
  <2>3. \E i \in hits : \A j \in hits : i <= j
    BY <1>3, <2>2, LeastOfNats
  <2>4. PICK first : first = CHOOSE i \in hits : \A j \in hits : i <= j
    OBVIOUS
  <2>5. first \in hits
    BY <2>3, <2>4
  <2>6. HandleAtPoint(b, p, Reach) = HandleOrder[first]
    BY <1>1, <1>3, <2>4 DEF HandleAtPoint
  <2>7. QED
    BY <1>1, <2>1, <2>5, <2>6
<1>4. QED
  BY <1>2, <1>3

\* Of the objects hit one is above the others.
LEMMA HitOrNone ==
    ASSUME NEW q \in Seq(Object), NEW p
    PROVE  HitTest(q, p, Reach) \in DOMAIN q \cup {0}
<1> DEFINE Hits == {i \in DOMAIN q : IsHit(q[i], p, Reach)}
<1> DEFINE Beats(i, j) == \/ q[i].z > q[j].z
                          \/ q[i].z = q[j].z /\ i >= j
<1>0. HitTest(q, p, Reach) = IF Hits = {} THEN 0
                             ELSE CHOOSE i \in Hits : \A j \in Hits : Beats(i, j)
  BY DEF HitTest
<1>1. PICK hits : hits = Hits /\ hits = {i \in DOMAIN q : IsHit(q[i], p, Reach)}
  OBVIOUS
<1> HIDE DEF Hits
<1>2. CASE hits = {}
  BY <1>0, <1>1, <1>2
<1>3. CASE hits # {}
  <2>1. DOMAIN q = 1..Len(q) /\ Len(q) \in Nat /\ \A i \in DOMAIN q : q[i].z \in Nat
    BY LenProperties, ObjectAt, ObjectFields
  <2>2. Len(q) \in Nat \ {0} /\ hits \in SUBSET Nat
    BY <1>1, <1>3, <2>1
  <2> DEFINE f == [i \in 1..Len(q) |-> IF i \in hits THEN q[i].z ELSE -1]
  <2>3. \A i \in 1..Len(q) : f[i] \in Int /\ f[i] = IF i \in hits THEN q[i].z ELSE -1
    BY <2>1
  <2> HIDE DEF f
  <2>4. PICK top \in 1..Len(q) : \A j \in 1..Len(q) : f[j] <= f[top]
    BY <2>2, <2>3, GreatestOfMany
  <2>5. PICK h \in hits : TRUE
    BY <1>3
  <2>6. top \in hits
    <3>1. h \in 1..Len(q) /\ f[h] = q[h].z /\ f[h] <= f[top]
      BY <1>1, <2>1, <2>3, <2>4, <2>5
    <3>2. q[h].z \in Nat
      BY <3>1, <2>1
    <3>3. CASE top \notin hits
      <4>1. f[top] = -1
        BY <3>3, <2>3, <2>4
      <4>2. QED
        BY <4>1, <3>1, <3>2
    <3>4. QED
      BY <3>3
  <2> DEFINE Last(i) == i \in hits /\ q[i].z = q[top].z
  <2> DEFINE g == [i \in 1..Len(q) |-> IF Last(i) THEN i ELSE 0]
  <2>7. \A i \in 1..Len(q) : g[i] \in Int /\ g[i] = IF Last(i) THEN i ELSE 0
    OBVIOUS
  <2> HIDE DEF g
  <2>8. PICK best \in 1..Len(q) : \A j \in 1..Len(q) : g[j] <= g[best]
    BY <2>2, <2>7, GreatestOfMany
  <2>9. Last(best)
    <3>1. Last(top) /\ top \in 1..Len(q)
      BY <2>4, <2>6
    <3>2. g[top] = top /\ g[top] <= g[best] /\ top > 0
      BY <3>1, <2>7, <2>8, <2>4
    <3>3. CASE ~Last(best)
      <4>1. g[best] = 0
        BY <3>3, <2>7, <2>8
      <4>2. QED
        BY <4>1, <3>2, <2>4
    <3>4. QED
      BY <3>3
  <2>10. ASSUME NEW j \in hits
         PROVE  Beats(best, j)
    <3>1. j \in 1..Len(q) /\ q[j].z \in Nat /\ q[top].z \in Nat /\ q[best].z = q[top].z
      BY <1>1, <2>1, <2>9, <2>4
    <3>2. q[j].z <= q[top].z
      BY <3>1, <2>3, <2>4, <2>6
    <3>3. CASE q[j].z = q[top].z
      <4>1. Last(j)
        BY <3>3
      <4>2. g[j] = j /\ g[best] = best
        BY <4>1, <3>1, <2>7, <2>8, <2>9
      <4>3. j <= best
        BY <4>2, <3>1, <2>8
      <4>4. QED
        BY <4>3, <3>1, <3>3
    <3>4. CASE q[j].z # q[top].z
      <4>1. q[j].z < q[top].z
        BY <3>1, <3>2, <3>4
      <4>2. q[best].z > q[j].z
        BY <4>1, <3>1
      <4>3. QED
        BY <4>2
    <3>5. QED
      BY <3>3, <3>4
  <2>11. \E i \in hits : \A j \in hits : Beats(i, j)
    BY <2>9, <2>10
  <2> HIDE DEF Beats
  <2>12. PICK found : found = CHOOSE i \in hits : \A j \in hits : Beats(i, j)
    OBVIOUS
  <2>13. found \in hits
    BY <2>11, <2>12
  <2>14. HitTest(q, p, Reach) = found
    BY <1>0, <1>1, <1>3, <2>12
  <2>15. QED
    BY <1>1, <2>13, <2>14
<1>4. QED
  BY <1>2, <1>3
-----------------------------------------------------------------------------
(***************************************************************************)
(* The content and the bounds of scrolling.                                *)
(***************************************************************************)
\* Among 0 and finitely many numbers there is a greatest.
LEMMA GreatestBound ==
    ASSUME NEW n \in Nat, NEW f, \A i \in 1..n : f[i] \in Int,
           NEW S, \A s : s \in S <=> s = 0 \/ \E i \in 1..n : s = f[i]
    PROVE  \E m \in S : m >= 0 /\ \A i \in 1..n : f[i] <= m
<1>1. CASE n = 0
  <2>1. 0 \in S /\ \A i \in 1..n : f[i] <= 0
    BY <1>1
  <2>2. QED
    BY <2>1
<1>2. CASE n # 0
  <2>1. PICK i \in 1..n : \A j \in 1..n : f[j] <= f[i]
    BY <1>2, GreatestOfMany
  <2>2. CASE f[i] >= 0
    BY <2>1, <2>2
  <2>3. CASE f[i] < 0
    <3>1. 0 \in S /\ \A j \in 1..n : f[j] <= 0
      BY <2>1, <2>3
    <3>2. QED
      BY <3>1
  <2>4. QED
    BY <2>1, <2>2, <2>3
<1>3. QED
  BY <1>1, <1>2

\* The farthest right and bottom edges of the objects, none of them nearer than 0.
LEMMA RightEdge ==
    ASSUME NEW q \in Seq(Object), NEW m,
           m = CHOOSE n \in {0} \cup {q[i].bounds.x + q[i].bounds.width : i \in DOMAIN q} :
                  n >= 0 /\ \A i \in DOMAIN q : q[i].bounds.x + q[i].bounds.width <= n
    PROVE  m \in Nat
<1> DEFINE f == [i \in 1..Len(q) |-> q[i].bounds.x + q[i].bounds.width]
<1>1. DOMAIN q = 1..Len(q) /\ Len(q) \in Nat
  BY LenProperties
<1>2. \A i \in 1..Len(q) : f[i] \in Int /\ f[i] = q[i].bounds.x + q[i].bounds.width
  BY <1>1, ObjectAt, ObjectFields, BoundsFields
<1>3. PICK S : S = {0} \cup {q[i].bounds.x + q[i].bounds.width : i \in DOMAIN q}
  OBVIOUS
<1>4. \A s : s \in S <=> s = 0 \/ \E i \in 1..Len(q) : s = f[i]
  BY <1>1, <1>2, <1>3
<1> HIDE DEF f
<1>5. \E n \in S : n >= 0 /\ \A i \in 1..Len(q) : f[i] <= n
  BY <1>1, <1>2, <1>4, GreatestBound
<1>6. \E n \in S : n >= 0 /\ \A i \in DOMAIN q : q[i].bounds.x + q[i].bounds.width <= n
  BY <1>1, <1>2, <1>5
<1>7. m \in S /\ m >= 0
  BY <1>3, <1>6
<1>8. QED
  BY <1>2, <1>4, <1>7

LEMMA BottomEdge ==
    ASSUME NEW q \in Seq(Object), NEW m,
           m = CHOOSE n \in {0} \cup {q[i].bounds.y + q[i].bounds.height : i \in DOMAIN q} :
                  n >= 0 /\ \A i \in DOMAIN q : q[i].bounds.y + q[i].bounds.height <= n
    PROVE  m \in Nat
<1> DEFINE f == [i \in 1..Len(q) |-> q[i].bounds.y + q[i].bounds.height]
<1>1. DOMAIN q = 1..Len(q) /\ Len(q) \in Nat
  BY LenProperties
<1>2. \A i \in 1..Len(q) : f[i] \in Int /\ f[i] = q[i].bounds.y + q[i].bounds.height
  BY <1>1, ObjectAt, ObjectFields, BoundsFields
<1>3. PICK S : S = {0} \cup {q[i].bounds.y + q[i].bounds.height : i \in DOMAIN q}
  OBVIOUS
<1>4. \A s : s \in S <=> s = 0 \/ \E i \in 1..Len(q) : s = f[i]
  BY <1>1, <1>2, <1>3
<1> HIDE DEF f
<1>5. \E n \in S : n >= 0 /\ \A i \in 1..Len(q) : f[i] <= n
  BY <1>1, <1>2, <1>4, GreatestBound
<1>6. \E n \in S : n >= 0 /\ \A i \in DOMAIN q : q[i].bounds.y + q[i].bounds.height <= n
  BY <1>1, <1>2, <1>5
<1>7. m \in S /\ m >= 0
  BY <1>3, <1>6
<1>8. QED
  BY <1>2, <1>4, <1>7

LEMMA ContentWidthIsNat ==
    ASSUME NEW q \in Seq(Object), NEW m
    PROVE  ContentWidth(q, m) \in Nat
<1>1. PICK edge : edge = CHOOSE n \in {0} \cup {q[i].bounds.x + q[i].bounds.width : i \in DOMAIN q} :
                  n >= 0 /\ \A i \in DOMAIN q : q[i].bounds.x + q[i].bounds.width <= n
  OBVIOUS
<1>2. edge \in Nat
  BY <1>1, RightEdge
<1>3. ContentWidth(q, m) = IF m = "fixed-height" THEN Greater(PageWidth, edge) ELSE PageWidth
  BY <1>1 DEF ContentWidth, FarEdge
<1>4. QED
  BY <1>2, <1>3, SheetType DEF Greater

LEMMA ContentHeightIsNat ==
    ASSUME NEW q \in Seq(Object), NEW m, NEW n \in Nat \ {0}
    PROVE  ContentHeight(q, m, n) \in Nat
<1>1. PICK edge : edge = CHOOSE k \in {0} \cup {q[i].bounds.y + q[i].bounds.height : i \in DOMAIN q} :
                  k >= 0 /\ \A i \in DOMAIN q : q[i].bounds.y + q[i].bounds.height <= k
  OBVIOUS
<1>2. edge \in Nat
  BY <1>1, BottomEdge
<1>3. PICK last : last = PageFrame(n - 1).y + PageHeight
  OBVIOUS
<1>4. last \in Nat
  <2>1. n - 1 \in Nat /\ PageHeight + PageGap \in Nat /\ PageHeight \in Nat
    BY SheetType
  <2>2. (n - 1) * (PageHeight + PageGap) \in Nat
    BY <2>1, ProductIsNat
  <2>3. last = (n - 1) * (PageHeight + PageGap) + PageHeight
    BY <1>3 DEF PageFrame
  <2>4. QED
    BY <2>1, <2>2, <2>3
<1>5. ContentHeight(q, m, n) = CASE m = "paged" -> Greater(last, edge)
                                 [] m = "fixed-width" -> Greater(PageHeight, edge)
                                 [] OTHER -> PageHeight
  BY <1>1, <1>3 DEF ContentHeight, FarEdge
<1>6. QED
  BY <1>2, <1>4, <1>5, SheetType DEF Greater

\* One axis of the layout effect: the view comes to rest in the bounds.
LEMMA ClosedAxisInView ==
    ASSUME NEW content \in Nat, NEW visible \in Nat, NEW v \in Int, NEW r,
           r = ScrollAxis(content, visible)
    PROVE  /\ r.min \in Int /\ r.max \in Int
           /\ Within(v, r.min, r.max) \in Int
           /\ InView(Within(v, r.min, r.max), visible, content)
<1>1. PICK quarter : quarter = visible \div 4
  OBVIOUS
<1>2. quarter \in Nat /\ 4 * quarter <= visible /\ visible < 4 * quarter + 4
  BY <1>1
<1>3. PICK middle : middle = (content - visible) \div 2
  OBVIOUS
<1>4. middle \in Int /\ 2 * middle <= content - visible /\ content - visible <= 2 * middle + 1
  BY <1>3
<1>5. r = IF -quarter <= content - 3 * quarter
          THEN [min |-> -quarter, max |-> content - 3 * quarter]
          ELSE [min |-> middle, max |-> middle]
  BY <1>1, <1>3 DEF ScrollAxis
<1>6. CASE -quarter <= content - 3 * quarter
  <2>1. r.min = -quarter /\ r.max = content - 3 * quarter
    BY <1>5, <1>6
  <2>2. PICK at : at = Within(v, r.min, r.max)
    OBVIOUS
  <2>3. at \in Int /\ -quarter <= at /\ at <= content - 3 * quarter
    BY <2>1, <2>2, <1>2, <1>6 DEF Within, Greater, Lesser
  <2>4. InView(at, visible, content)
    BY <2>3, <1>1, <1>2 DEF InView, Greater, Lesser
  <2>5. QED
    BY <2>1, <2>2, <2>3, <2>4, <1>2
<1>7. CASE ~(-quarter <= content - 3 * quarter)
  <2>1. r.min = middle /\ r.max = middle
    BY <1>5, <1>7
  <2>2. Within(v, r.min, r.max) = middle
    BY <2>1, <1>4 DEF Within, Greater, Lesser
  <2>3. InView(middle, visible, content)
    BY <1>1, <1>2, <1>4, <1>7 DEF InView, Greater, Lesser
  <2>4. QED
    BY <2>1, <2>2, <2>3, <1>4
<1>8. QED
  BY <1>6, <1>7

LEMMA OpenAxisInView ==
    ASSUME NEW content \in Nat, NEW visible \in Nat, NEW v \in Int, NEW r,
           r = OpenAxis(content, visible)
    PROVE  /\ r.min \in Int /\ r.max \in Int
           /\ Within(v, r.min, r.max) \in Int
           /\ InOpenView(Within(v, r.min, r.max), visible, content)
<1>1. PICK quarter : quarter = visible \div 4
  OBVIOUS
<1>2. quarter \in Nat /\ 4 * quarter <= visible /\ visible < 4 * quarter + 4
  BY <1>1
<1>3. PICK middle : middle = (content - visible) \div 2
  OBVIOUS
<1>4. middle \in Int /\ 2 * middle <= content - visible /\ content - visible <= 2 * middle + 1
  BY <1>3
<1>5. PICK low : low = IF -quarter <= content - 3 * quarter THEN -quarter ELSE middle
  OBVIOUS
<1>6. PICK closed : closed = ScrollAxis(content, visible)
  OBVIOUS
<1>7. closed.min = low /\ closed = [min |-> low, max |-> closed.max]
  BY <1>1, <1>3, <1>5, <1>6 DEF ScrollAxis
<1>8. r = [closed EXCEPT !.max = Greater(low, content + quarter)]
  BY <1>1, <1>6, <1>7 DEF OpenAxis
<1>9. r.min = low /\ r.max = Greater(low, content + quarter)
  BY <1>7, <1>8
<1>10. low \in Int
  BY <1>2, <1>4, <1>5
<1>11. PICK at : at = Within(v, r.min, r.max)
  OBVIOUS
<1>12. at \in Int /\ low <= at /\ at <= Greater(low, content + quarter)
  BY <1>2, <1>9, <1>10, <1>11 DEF Within, Greater, Lesser
<1>13. at <= Greater(content + quarter, middle)
  BY <1>2, <1>4, <1>5, <1>10, <1>12 DEF Greater
<1>14. at < 0 => InView(at, visible, content)
  <2>1. CASE -quarter <= content - 3 * quarter
    BY <2>1, <1>1, <1>2, <1>5, <1>12 DEF InView, Greater, Lesser
  <2>2. CASE ~(-quarter <= content - 3 * quarter)
    BY <2>2, <1>1, <1>2, <1>4, <1>5, <1>12 DEF InView, Greater, Lesser
  <2>3. QED
    BY <2>1, <2>2
<1>15. InOpenView(at, visible, content)
  BY <1>1, <1>3, <1>13, <1>14 DEF InOpenView
<1>16. r.max \in Int
  BY <1>2, <1>9, <1>10 DEF Greater
<1>17. QED
  BY <1>9, <1>10, <1>11, <1>12, <1>15, <1>16

View == [x : Int, y : Int, scale : MinScale..MaxScale]
Screen == [width : Nat, height : Nat]

ShowsContent(m, v, s, q, n) ==
    m # "infinite" =>
        LET shown == Visible(v, s)
            width == ContentWidth(q, m)
            height == ContentHeight(q, m, n)
        IN /\ IF LimitedX(m) THEN InView(v.x, shown.width, width)
                             ELSE InOpenView(v.x, shown.width, width)
           /\ IF LimitedY(m) THEN InView(v.y, shown.height, height)
                             ELSE InOpenView(v.y, shown.height, height)

LEMMA ViewFields ==
    ASSUME NEW v \in View
    PROVE  v.x \in Int /\ v.y \in Int /\ v.scale \in Nat /\ v.scale \in MinScale..MaxScale
  BY ScalesType DEF View

LEMMA VisibleIsNat ==
    ASSUME NEW v, v.scale \in Nat, NEW s \in Screen
    PROVE  Visible(v, s).width \in Nat /\ Visible(v, s).height \in Nat
<1>1. s.width \in Nat /\ s.height \in Nat
  BY DEF Screen
<1>2. s.width * v.scale \in Nat /\ s.height * v.scale \in Nat
  BY <1>1, ProductIsNat
<1>3. QED
  BY <1>2 DEF Visible

LEMMA ScrollBounds ==
    ASSUME NEW m \in Modes, NEW q \in Seq(Object), NEW n \in Nat \ {0}, NEW visible \in Nat
    PROVE  /\ HorizontalScroll(q, m, visible).min \in Int
           /\ HorizontalScroll(q, m, visible).max \in Int
           /\ VerticalScroll(q, m, n, visible).min \in Int
           /\ VerticalScroll(q, m, n, visible).max \in Int
<1>1. ContentWidth(q, m) \in Nat /\ ContentHeight(q, m, n) \in Nat /\ 0 \in Int
  BY ContentWidthIsNat, ContentHeightIsNat
<1>2. /\ ScrollAxis(ContentWidth(q, m), visible).min \in Int
      /\ ScrollAxis(ContentWidth(q, m), visible).max \in Int
      /\ ScrollAxis(ContentHeight(q, m, n), visible).min \in Int
      /\ ScrollAxis(ContentHeight(q, m, n), visible).max \in Int
  BY <1>1, ClosedAxisInView
<1>3. /\ OpenAxis(ContentWidth(q, m), visible).min \in Int
      /\ OpenAxis(ContentWidth(q, m), visible).max \in Int
      /\ OpenAxis(ContentHeight(q, m, n), visible).min \in Int
      /\ OpenAxis(ContentHeight(q, m, n), visible).max \in Int
  BY <1>1, OpenAxisInView
<1>4. QED
  BY <1>2, <1>3 DEF HorizontalScroll, VerticalScroll

\* After the layout effect the content is in view.
LEMMA SettledShowsContent ==
    ASSUME mode \in Modes, NEW v \in View, NEW s \in Screen, NEW q \in Seq(Object),
           NEW n \in Nat \ {0}, NEW w, w = Settled(v, s, q, n)
    PROVE  w \in View /\ ShowsContent(mode, w, s, q, n)
<1>1. v.x \in Int /\ v.y \in Int /\ v.scale \in Nat
  BY ViewFields
<1>2. CASE mode = "infinite"
  <2>1. w = v
    BY <1>2 DEF Settled
  <2>2. QED
    BY <2>1, <1>2 DEF ShowsContent
<1>3. CASE mode # "infinite"
  <2>1. PICK width : width = Visible(v, s).width
    OBVIOUS
  <2>2. PICK height : height = Visible(v, s).height
    OBVIOUS
  <2>3. width \in Nat /\ height \in Nat
    BY <2>1, <2>2, <1>1, VisibleIsNat
  <2>4. PICK h : h = HorizontalScroll(q, mode, width)
    OBVIOUS
  <2>5. PICK u : u = VerticalScroll(q, mode, n, height)
    OBVIOUS
  <2>6. w = [v EXCEPT !.x = Within(v.x, h.min, h.max), !.y = Within(v.y, u.min, u.max)]
    BY <2>1, <2>2, <2>4, <2>5, <1>3 DEF Settled
  <2>7. ContentWidth(q, mode) \in Nat /\ ContentHeight(q, mode, n) \in Nat
    BY ContentWidthIsNat, ContentHeightIsNat
  <2>8. /\ Within(v.x, h.min, h.max) \in Int
        /\ IF mode = "fixed-height" THEN InOpenView(Within(v.x, h.min, h.max), width, ContentWidth(q, mode))
                                    ELSE InView(Within(v.x, h.min, h.max), width, ContentWidth(q, mode))
    <3>1. CASE mode = "fixed-height"
      <4>1. h = OpenAxis(ContentWidth(q, mode), width)
        BY <2>4, <3>1 DEF HorizontalScroll
      <4>2. QED
        BY <4>1, <3>1, <2>3, <2>7, <1>1, OpenAxisInView
    <3>2. CASE mode # "fixed-height"
      <4>1. h = ScrollAxis(ContentWidth(q, mode), width)
        BY <2>4, <3>2 DEF HorizontalScroll
      <4>2. QED
        BY <4>1, <3>2, <2>3, <2>7, <1>1, ClosedAxisInView
    <3>3. QED
      BY <3>1, <3>2
  <2>9. /\ Within(v.y, u.min, u.max) \in Int
        /\ IF LimitedX(mode)
           THEN InOpenView(Within(v.y, u.min, u.max), height, ContentHeight(q, mode, n))
           ELSE InView(Within(v.y, u.min, u.max), height, ContentHeight(q, mode, n))
    <3>1. CASE LimitedX(mode)
      <4>1. u = OpenAxis(ContentHeight(q, mode, n), height)
        BY <2>5, <3>1 DEF VerticalScroll
      <4>2. QED
        BY <4>1, <3>1, <2>3, <2>7, <1>1, OpenAxisInView
    <3>2. CASE ~LimitedX(mode)
      <4>1. u = ScrollAxis(ContentHeight(q, mode, n), height)
        BY <2>5, <3>2 DEF VerticalScroll
      <4>2. QED
        BY <4>1, <3>2, <2>3, <2>7, <1>1, ClosedAxisInView
    <3>3. QED
      BY <3>1, <3>2
  <2>10. /\ w \in View /\ w.x = Within(v.x, h.min, h.max) /\ w.y = Within(v.y, u.min, u.max)
         /\ w.scale = v.scale
    BY <2>6, <2>8, <2>9 DEF View
  <2>11. Visible(w, s).width = width /\ Visible(w, s).height = height
    BY <2>1, <2>2, <2>10 DEF Visible
  <2>12. (LimitedX(mode) <=> mode # "fixed-height") /\ (LimitedY(mode) <=> ~LimitedX(mode))
    BY <1>3 DEF LimitedX, LimitedY, Modes
  <2>13. QED
    BY <2>8, <2>9, <2>10, <2>11, <2>12 DEF ShowsContent
<1>4. QED
  BY <1>2, <1>3

\* The first layout, before its own effect.
LEMMA CenteredIsAView ==
    ASSUME mode \in Modes, NEW s \in Screen, NEW q \in Seq(Object), NEW v, v = Centered(s, q)
    PROVE  v \in View
<1>1. PICK start : start = [x |-> Home.x, y |-> Home.y, scale |-> PlainScale]
  OBVIOUS
<1>2. start \in View /\ start.scale \in Nat
  BY <1>1, PointsType, ScalesType DEF View, Point
<1>3. Visible(start, s).width \in Nat /\ Visible(start, s).height \in Nat
  BY <1>2, VisibleIsNat
<1>4. VerticalScroll(q, mode, 1, Visible(start, s).height).min \in Int
  <2>1. 1 \in Nat \ {0}
    OBVIOUS
  <2>2. QED
    BY <2>1, <1>3, ScrollBounds
<1>5. TopMargin * PlainScale \in Int
  <2>1. TopMargin \in Int /\ PlainScale \in Int
    BY BoundType, ScalesType
  <2>2. QED
    BY <2>1, ProductIsInt
<1>6. PICK top : top = Greater(VerticalScroll(q, mode, 1, Visible(start, s).height).min,
                               -(TopMargin * PlainScale))
  OBVIOUS
<1>7. top \in Int
  BY <1>4, <1>5, <1>6 DEF Greater
<1>8. PICK left : left = (ContentWidth(q, mode) - Visible(start, s).width) \div 2
  OBVIOUS
<1>9. left \in Int
  <2>1. ContentWidth(q, mode) \in Nat
    BY ContentWidthIsNat
  <2>2. QED
    BY <2>1, <1>3, <1>8
<1>10. v = IF mode = "infinite" THEN start ELSE [start EXCEPT !.x = left, !.y = top]
  BY <1>1, <1>6, <1>8 DEF Centered
<1>11. QED
  BY <1>2, <1>7, <1>9, <1>10 DEF View
-----------------------------------------------------------------------------
(***************************************************************************)
(* The inductive invariant.  A gesture works on what it found (GestureInv):*)
(* the origins of a move are the bounds the objects had when it began, a   *)
(* move keeps their size, and a resize holds the object it found.          *)
(***************************************************************************)
GestureInv ==
    /\ DOMAIN before \subseteq DOMAIN objects
    /\ ~Idle => DOMAIN objects = DOMAIN before
    /\ drag.kind = "move" => \A i \in DOMAIN drag.origins :
            /\ drag.origins[i] = before[i].bounds
            /\ objects[i].bounds.width = before[i].bounds.width
            /\ objects[i].bounds.height = before[i].bounds.height
    /\ drag.kind = "resize" => drag.object = before[drag.of] /\ drag.of \in stretched

SceneOK ==
    /\ mode \in Modes
    /\ objects \in Seq(Object) /\ before \in Seq(Object)
    /\ DragOK
    /\ stretched \subseteq DOMAIN objects

SceneInv == SceneOK /\ GestureInv /\ OnSheet /\ InkFollowsBounds /\ ResizeHolds

WindowInv ==
    /\ view \in View /\ screen \in Screen
    /\ locks \subseteq {"x", "y"} /\ pages \in Nat \ {0}
    /\ ShowsContent(mode, view, screen, objects, pages)

Inv == SceneInv /\ WindowInv /\ steps \in 0..MaxSteps

\* What each kind of gesture holds.
LEMMA DragKinds ==
    ASSUME DragOK
    PROVE  /\ drag.kind = "none" => drag = NoDrag
           /\ drag.kind = "resize" =>
                drag \in [kind : {"resize"}, of : DOMAIN objects, handle : Handles, start : Point,
                          object : Object, pulls : 0..MaxPulls]
           /\ drag.kind = "move" =>
                \E K \in SUBSET DOMAIN objects :
                    drag \in [kind : {"move"}, start : Point, origins : [K -> Bounds]]
           /\ drag.kind = "create" =>
                drag \in [kind : {"create"}, what : Kinds, start : Point, current : Point]
           /\ drag.kind \in {"none", "resize", "move", "create"}
<1>1. CASE drag = NoDrag
  BY <1>1 DEF NoDrag
<1>2. CASE drag \in [kind : {"resize"}, of : DOMAIN objects, handle : Handles, start : Point,
                     object : Object, pulls : 0..MaxPulls]
  <2>1. drag.kind = "resize"
    BY <1>2
  <2>2. QED
    BY <1>2, <2>1
<1>3. CASE \E K \in SUBSET DOMAIN objects :
              drag \in [kind : {"move"}, start : Point, origins : [K -> Bounds]]
  <2>1. drag.kind = "move"
    BY <1>3
  <2>2. QED
    BY <1>3, <2>1
<1>4. CASE drag \in [kind : {"create"}, what : Kinds, start : Point, current : Point]
  <2>1. drag.kind = "create"
    BY <1>4
  <2>2. QED
    BY <1>4, <2>1
<1>5. QED
  BY <1>1, <1>2, <1>3, <1>4 DEF DragOK

LEMMA InvIsAll == ASSUME Inv
                  PROVE  TypeOK /\ OnSheet /\ InkFollowsBounds /\ ResizeHolds /\ ContentStaysInView
<1>1. TypeOK
  BY DEF Inv, SceneInv, SceneOK, WindowInv, TypeOK, View, Screen
<1>2. ContentStaysInView
  BY DEF Inv, WindowInv, ShowsContent, ContentStaysInView
<1>3. QED
  BY <1>1, <1>2 DEF Inv, SceneInv

\* A gesture finds every object where it finds it.
LEMMA FoundOnSheet ==
    ASSUME NEW q \in Seq(Object), NEW i \in DOMAIN q
    PROVE  /\ StaysOn(q[i].bounds.x, q[i].bounds.width, PageWidth, q[i].bounds.x, q[i].bounds.width)
           /\ StaysOn(q[i].bounds.y, q[i].bounds.height, PageHeight, q[i].bounds.y, q[i].bounds.height)
<1>1. q[i].bounds \in Bounds
  BY ObjectAt, ObjectFields
<1>2. /\ q[i].bounds.x \in Int /\ q[i].bounds.width \in Int
      /\ q[i].bounds.y \in Int /\ q[i].bounds.height \in Int
  BY <1>1, BoundsFields
<1>3. QED
  BY <1>2, FoundAxis, SheetHasLengths DEF SheetLengths

LEMMA InitInv == Init => Inv
<1> SUFFICES ASSUME Init PROVE Inv
  OBVIOUS
<1>1. /\ mode \in Modes /\ objects \in Seq(Object) /\ before = objects /\ drag = NoDrag
      /\ stretched = {} /\ screen \in Screen /\ locks = {} /\ pages = 1 /\ steps = 0
      /\ \A i \in DOMAIN objects : InkInside(objects[i])
  BY ScenesAreDrawn, ScreensType DEF Init, Screen
<1>2. drag.kind = "none"
  BY <1>1 DEF NoDrag
<1>3. SceneOK
  BY <1>1 DEF SceneOK, DragOK
<1>4. GestureInv
  BY <1>1, <1>2 DEF GestureInv, Idle
<1>5. OnSheet
  BY <1>1, FoundOnSheet DEF OnSheet
<1>6. InkFollowsBounds /\ ResizeHolds
  BY <1>1, <1>2 DEF InkFollowsBounds, ResizeHolds
<1>7. WindowInv
  <2>1. Centered(screen, objects) \in View
    BY <1>1, CenteredIsAView
  <2>2. view = Settled(Centered(screen, objects), screen, objects, 1) /\ 1 \in Nat \ {0}
    BY DEF Init
  <2>3. view \in View /\ ShowsContent(mode, view, screen, objects, 1)
    BY <2>1, <2>2, <1>1, SettledShowsContent
  <2>4. QED
    BY <2>2, <2>3, <1>1 DEF WindowInv
<1>8. steps \in 0..MaxSteps
  BY <1>1, BoundType
<1>9. QED
  BY <1>3, <1>4, <1>5, <1>6, <1>7, <1>8 DEF Inv, SceneInv
-----------------------------------------------------------------------------
(***************************************************************************)
(* Gestures that begin.                                                    *)
(***************************************************************************)
LEMMA BeginKeeps ==
    ASSUME SceneInv, NEW g, Begin(g), stretched \subseteq stretched', stretched' \subseteq DOMAIN objects,
           DragOK',
           g.kind = "move" => \A i \in DOMAIN g.origins : g.origins[i] = objects[i].bounds,
           g.kind = "resize" => g.object = objects[g.of] /\ g.of \in stretched'
    PROVE  SceneInv'
<1>1. drag' = g /\ before' = objects /\ objects' = objects /\ mode' = mode
  BY DEF Begin
<1>2. mode \in Modes /\ objects \in Seq(Object)
  BY DEF SceneInv, SceneOK
<1>3. SceneOK'
  BY <1>1, <1>2 DEF SceneOK
<1>4. GestureInv'
  <2>1. (drag.kind = "move" => \A i \in DOMAIN drag.origins :
            /\ drag.origins[i] = before[i].bounds
            /\ objects[i].bounds.width = before[i].bounds.width
            /\ objects[i].bounds.height = before[i].bounds.height)'
    BY <1>1
  <2>2. (drag.kind = "resize" => drag.object = before[drag.of] /\ drag.of \in stretched)'
    BY <1>1
  <2>3. QED
    BY <1>1, <2>1, <2>2 DEF GestureInv
<1>5. OnSheet'
  BY <1>1, <1>2, FoundOnSheet DEF OnSheet
<1>6. InkFollowsBounds'
  BY <1>1 DEF SceneInv, InkFollowsBounds
<1>7. ResizeHolds'
  BY <1>1 DEF ResizeHolds
<1>8. QED
  BY <1>3, <1>4, <1>5, <1>6, <1>7 DEF SceneInv

LEMMA BeginWindow ==
    ASSUME Inv, NEW g, Begin(g)
    PROVE  WindowInv' /\ steps' \in 0..MaxSteps
<1>1. /\ objects' = objects /\ mode' = mode /\ UNCHANGED window
      /\ steps < MaxSteps /\ steps' = steps + 1
  BY DEF Begin
<1>2. WindowInv'
  BY <1>1 DEF Inv, WindowInv, window
<1>3. QED
  BY <1>1, <1>2, BoundType DEF Inv

LEMMA DownOnHandleKeeps ==
    ASSUME Inv, NEW i \in DOMAIN objects, NEW p \in Pointers, DownOnHandle(i, p)
    PROVE  Inv'
<1>1. PICK handle : handle = HandleAtPoint(objects[i].bounds, p, Reach)
  OBVIOUS
<1>2. PICK g : g = [kind |-> "resize", of |-> i, handle |-> handle, start |-> p,
                    object |-> objects[i], pulls |-> 0]
  OBVIOUS
<1>3. Begin(g) /\ handle # "none" /\ stretched' = stretched \cup {i}
  BY <1>1, <1>2 DEF DownOnHandle
<1>4. SceneInv /\ objects \in Seq(Object) /\ stretched \subseteq DOMAIN objects /\ p \in Point
  BY PointsType DEF Inv, SceneInv, SceneOK
<1>5. handle \in Handles /\ objects[i] \in Object
  BY <1>1, <1>3, <1>4, HandleOrNone, ObjectAt
<1>6. DragOK'
  <2>1. drag' = g /\ objects' = objects
    BY <1>3 DEF Begin
  <2>2. 0 \in 0..MaxPulls
    BY BoundType
  <2>3. g \in [kind : {"resize"}, of : DOMAIN objects, handle : Handles, start : Point,
               object : Object, pulls : 0..MaxPulls]
    BY <1>2, <1>4, <1>5, <2>2
  <2>4. QED
    BY <2>1, <2>3 DEF DragOK
<1>7. SceneInv'
  <2>1. g.kind = "resize" /\ g.object = objects[g.of] /\ g.of \in stretched'
    BY <1>2, <1>3
  <2>2. QED
    BY <2>1, <1>3, <1>4, <1>6, BeginKeeps
<1>8. QED
  BY <1>3, <1>7, BeginWindow DEF Inv

LEMMA DownOnObjectKeeps ==
    ASSUME Inv, NEW p \in Pointers, NEW selected \in SUBSET DOMAIN objects, DownOnObject(p, selected)
    PROVE  Inv'
<1>1. PICK hit : hit = HitTest(objects, p, Reach)
  OBVIOUS
<1>2. PICK movable : movable = {k \in selected \cup {hit} : ~objects[k].locked}
  OBVIOUS
<1>3. PICK origins : origins = [k \in movable |-> objects[k].bounds]
  OBVIOUS
<1>4. PICK g : g = [kind |-> "move", start |-> p, origins |-> origins]
  OBVIOUS
<1>5. Begin(g) /\ hit # 0 /\ stretched' = stretched
  BY <1>1, <1>2, <1>3, <1>4 DEF DownOnObject
<1>6. SceneInv /\ objects \in Seq(Object) /\ stretched \subseteq DOMAIN objects /\ p \in Point
  BY PointsType DEF Inv, SceneInv, SceneOK
<1>7. hit \in DOMAIN objects
  BY <1>1, <1>5, <1>6, HitOrNone
<1>8. movable \in SUBSET DOMAIN objects
  BY <1>2, <1>7
<1>9. origins \in [movable -> Bounds]
  BY <1>3, <1>6, <1>8, ObjectAt, ObjectFields
<1>10. DragOK'
  <2>1. drag' = g /\ objects' = objects
    BY <1>5 DEF Begin
  <2>2. g \in [kind : {"move"}, start : Point, origins : [movable -> Bounds]]
    BY <1>4, <1>6, <1>9
  <2>3. QED
    BY <2>1, <2>2, <1>8 DEF DragOK
<1>11. SceneInv'
  <2>1. g.kind = "move" /\ \A i \in DOMAIN g.origins : g.origins[i] = objects[i].bounds
    BY <1>3, <1>4
  <2>2. QED
    BY <2>1, <1>5, <1>6, <1>10, BeginKeeps
<1>12. QED
  BY <1>5, <1>11, BeginWindow DEF Inv

LEMMA DownOnSheetKeeps ==
    ASSUME Inv, NEW p \in Pointers, NEW kind \in {"line", "text"}, DownOnSheet(p, kind)
    PROVE  Inv'
<1>1. PICK g : g = [kind |-> "create", what |-> kind, start |-> p, current |-> p]
  OBVIOUS
<1>2. Begin(g) /\ stretched' = stretched
  BY <1>1 DEF DownOnSheet
<1>3. SceneInv /\ stretched \subseteq DOMAIN objects /\ p \in Point
  BY PointsType DEF Inv, SceneInv, SceneOK
<1>4. DragOK'
  <2>1. drag' = g
    BY <1>2 DEF Begin
  <2>2. g \in [kind : {"create"}, what : Kinds, start : Point, current : Point]
    BY <1>1, <1>3 DEF Kinds
  <2>3. QED
    BY <2>1, <2>2 DEF DragOK
<1>5. SceneInv'
  <2>1. g.kind = "create"
    BY <1>1
  <2>2. QED
    BY <2>1, <1>2, <1>3, <1>4, BeginKeeps
<1>6. QED
  BY <1>2, <1>5, BeginWindow DEF Inv
-----------------------------------------------------------------------------
(***************************************************************************)
(* Gestures that go on.                                                    *)
(***************************************************************************)
LEMMA RearrangedKeeps ==
    ASSUME Inv, NEW next \in Seq(Object), Rearranged(next), mode' = mode
    PROVE  WindowInv'
<1>1. /\ mode \in Modes /\ view \in View /\ screen \in Screen /\ pages \in Nat \ {0}
      /\ locks \subseteq {"x", "y"}
  BY DEF Inv, SceneInv, SceneOK, WindowInv
<1>2. /\ objects' = next /\ view' = Settled(view, screen, next, pages)
      /\ screen' = screen /\ locks' = locks /\ pages' = pages
  BY DEF Rearranged
<1>3. view' \in View /\ ShowsContent(mode, view', screen, next, pages)
  BY <1>1, <1>2, SettledShowsContent
<1>4. QED
  BY <1>1, <1>2, <1>3 DEF WindowInv

LEMMA MoveKeeps ==
    ASSUME Inv, NEW p \in Pointers, drag.kind = "move", Rearranged(MovedTo(p)), UNCHANGED drag,
           UNCHANGED <<mode, before, stretched, steps>>
    PROVE  Inv'
<1>1. /\ SceneOK /\ GestureInv /\ OnSheet /\ InkFollowsBounds
      /\ objects \in Seq(Object) /\ before \in Seq(Object) /\ DragOK /\ mode \in Modes
      /\ stretched \subseteq DOMAIN objects /\ p \in Point
  BY PointsType DEF Inv, SceneInv, SceneOK
<1>2. PICK K \in SUBSET DOMAIN objects :
          drag \in [kind : {"move"}, start : Point, origins : [K -> Bounds]]
  BY <1>1, DragKinds
<1>3. drag.start \in Point /\ drag.origins \in [K -> Bounds] /\ DOMAIN drag.origins = K
  BY <1>2
<1>4. PICK dx, dy \in Int : dx = p.x - drag.start.x /\ dy = p.y - drag.start.y
  BY <1>1, <1>3, PointFields
<1>5. PICK to : to = [i \in K |-> TranslateBoundsInMode(drag.origins[i], dx, dy, mode)]
  OBVIOUS
<1>6. PICK next : next = MovedTo(p)
  OBVIOUS
<1>7. next = [i \in DOMAIN objects |-> IF i \in K THEN MoveObjectToBounds(objects[i], to[i])
                                                  ELSE objects[i]]
  BY <1>3, <1>4, <1>5, <1>6 DEF MovedTo
<1>8. DOMAIN objects = DOMAIN before
  BY <1>1, <1>2 DEF GestureInv, Idle
<1>9. ASSUME NEW i \in K
      PROVE  /\ next[i] \in Object /\ next[i].bounds = to[i]
             /\ to[i].width = before[i].bounds.width /\ to[i].height = before[i].bounds.height
             /\ LimitedX(mode) => StaysOn(to[i].x, to[i].width, PageWidth,
                                          before[i].bounds.x, before[i].bounds.width)
             /\ LimitedY(mode) => StaysOn(to[i].y, to[i].height, PageHeight,
                                          before[i].bounds.y, before[i].bounds.height)
             /\ InkInside(objects[i]) => InkInside(next[i])
  <2>1. /\ drag.origins[i] \in Bounds /\ drag.origins[i] = before[i].bounds
        /\ objects[i].bounds.width = before[i].bounds.width
        /\ objects[i].bounds.height = before[i].bounds.height
    BY <1>1, <1>2, <1>3 DEF GestureInv
  <2>2. to[i] = TranslateBoundsInMode(before[i].bounds, dx, dy, mode)
    BY <1>5, <2>1
  <2>3. /\ to[i] \in Bounds
        /\ to[i].width = before[i].bounds.width /\ to[i].height = before[i].bounds.height
        /\ LimitedX(mode) => StaysOn(to[i].x, to[i].width, PageWidth,
                                     before[i].bounds.x, before[i].bounds.width)
        /\ LimitedY(mode) => StaysOn(to[i].y, to[i].height, PageHeight,
                                     before[i].bounds.y, before[i].bounds.height)
    BY <2>1, <2>2, TranslatedBounds
  <2>4. objects[i] \in Object /\ next[i] = MoveObjectToBounds(objects[i], to[i])
    BY <1>1, <1>7, ObjectAt
  <2>5. /\ next[i] \in Object /\ next[i].bounds = to[i]
        /\ InkInside(objects[i]) => InkInside(next[i])
    BY <2>1, <2>3, <2>4, MovedObject
  <2>6. QED
    BY <2>3, <2>5
<1>10. ASSUME NEW i \in DOMAIN objects \ K PROVE next[i] = objects[i]
  BY <1>7
<1>11. next \in Seq(Object) /\ DOMAIN next = DOMAIN objects
  <2>1. next = [i \in DOMAIN objects |-> next[i]]
    BY <1>7
  <2>2. \A i \in DOMAIN objects : next[i] \in Object
    BY <1>1, <1>9, <1>10, ObjectAt
  <2>3. QED
    BY <2>1, <2>2, <1>1, PointwiseSeq
<1>12. objects' = next
  BY <1>6 DEF Rearranged
<1>13. SceneOK'
  BY <1>1, <1>2, <1>11, <1>12 DEF SceneOK, DragOK
<1>14. GestureInv'
  <2>1. (\A i \in DOMAIN drag.origins :
            /\ drag.origins[i] = before[i].bounds
            /\ objects[i].bounds.width = before[i].bounds.width
            /\ objects[i].bounds.height = before[i].bounds.height)'
    BY <1>1, <1>3, <1>9, <1>12 DEF GestureInv
  <2>2. QED
    BY <2>1, <1>8, <1>11, <1>12 DEF GestureInv
<1>15. OnSheet'
  <2>1. ASSUME NEW i \in DOMAIN objects
        PROVE  /\ LimitedX(mode) => StaysOn(next[i].bounds.x, next[i].bounds.width, PageWidth,
                                            before[i].bounds.x, before[i].bounds.width)
               /\ LimitedY(mode) => StaysOn(next[i].bounds.y, next[i].bounds.height, PageHeight,
                                            before[i].bounds.y, before[i].bounds.height)
    <3>1. CASE i \in K
      BY <3>1, <1>9
    <3>2. CASE i \notin K
      BY <3>2, <1>1, <1>8, <1>10 DEF OnSheet
    <3>3. QED
      BY <3>1, <3>2
  <2>2. QED
    BY <2>1, <1>8, <1>11, <1>12 DEF OnSheet
<1>16. InkFollowsBounds'
  <2>1. ASSUME NEW i \in DOMAIN objects \ stretched PROVE InkInside(next[i])
    BY <1>1, <1>9, <1>10 DEF InkFollowsBounds
  <2>2. QED
    BY <2>1, <1>11, <1>12 DEF InkFollowsBounds
<1>17. ResizeHolds'
  BY DEF ResizeHolds
<1>18. WindowInv'
  BY <1>6, <1>11, RearrangedKeeps
<1>19. QED
  BY <1>13, <1>14, <1>15, <1>16, <1>17, <1>18 DEF Inv, SceneInv

LEMMA OneReplaced ==
    ASSUME NEW S, NEW q \in Seq(S), NEW i \in DOMAIN q, NEW e \in S, NEW r, r = [q EXCEPT ![i] = e]
    PROVE  /\ r \in Seq(S) /\ DOMAIN r = DOMAIN q /\ r[i] = e
           /\ \A j \in DOMAIN q \ {i} : r[j] = q[j]
  BY ExceptSeq, LenProperties

LEMMA ResizeKeeps ==
    ASSUME Inv, NEW p \in Pointers, drag.kind = "resize",
           \A k \in DOMAIN ResizedTo(p)[drag.of].ink :
               ResizedTo(p)[drag.of].ink[k] \in [x : -Far..Far, y : -Far..Far],
           drag.pulls < MaxPulls, drag' = [drag EXCEPT !.pulls = @ + 1],
           Rearranged(ResizedTo(p)), UNCHANGED <<mode, before, stretched, steps>>
    PROVE  Inv'
<1>1. /\ SceneOK /\ GestureInv /\ OnSheet /\ InkFollowsBounds
      /\ objects \in Seq(Object) /\ before \in Seq(Object) /\ DragOK /\ mode \in Modes
      /\ stretched \subseteq DOMAIN objects /\ p \in Point
  BY PointsType DEF Inv, SceneInv, SceneOK
<1>2. drag \in [kind : {"resize"}, of : DOMAIN objects, handle : Handles, start : Point,
                object : Object, pulls : 0..MaxPulls]
  BY <1>1, DragKinds
<1>3. PICK of, found, handle, start : of = drag.of /\ found = drag.object /\ handle = drag.handle
                                      /\ start = drag.start
  OBVIOUS
<1>4. /\ of \in DOMAIN objects /\ found \in Object /\ handle \in Handles /\ start \in Point
      /\ drag.pulls \in 0..MaxPulls
      /\ found = before[of] /\ of \in stretched /\ DOMAIN objects = DOMAIN before
  BY <1>1, <1>2, <1>3 DEF GestureInv, Idle
<1>5. drag' \in [kind : {"resize"}, of : DOMAIN objects, handle : Handles, start : Point,
                 object : Object, pulls : 0..MaxPulls]
      /\ drag'.of = of /\ drag'.object = found /\ drag'.handle = handle /\ drag'.kind = "resize"
  <2>1. drag.pulls + 1 \in 0..MaxPulls
    BY <1>4, BoundType
  <2>2. PICK pulls : pulls = drag.pulls + 1
    OBVIOUS
  <2>3. drag' = [drag EXCEPT !.pulls = pulls]
    BY <2>2
  <2>4. QED
    BY <1>2, <1>3, <2>1, <2>2, <2>3
<1>6. PICK b : b = ResizeBoundsInMode(found.bounds, handle, start, p, mode)
  OBVIOUS
<1>7. PICK held : held = [found EXCEPT !.ink = objects[of].ink]
  OBVIOUS
<1>8. PICK n : n = ResizeObjectToBounds(held, b)
  OBVIOUS
<1>9. ResizedTo(p) = [objects EXCEPT ![of] = n]
  BY <1>3, <1>6, <1>7, <1>8 DEF ResizedTo
<1>10. held \in Object /\ found.bounds \in Bounds
  <2>1. objects[of] \in Object
    BY <1>1, <1>4, ObjectAt
  <2>2. objects[of].ink \in Seq(Point)
    BY <2>1, ObjectFields
  <2>3. QED
    BY <2>2, <1>4, <1>7 DEF Object
<1>11. b \in Bounds
  BY <1>1, <1>4, <1>6, <1>10, ResizedBounds
<1>12. n \in Object /\ n.bounds = b
  <2>1. ResizedTo(p)[of] = n
    BY <1>4, <1>9
  <2>2. \A k \in DOMAIN n.ink : n.ink[k] \in [x : -Far..Far, y : -Far..Far]
    BY <2>1, <1>3
  <2>3. \A k \in DOMAIN n.ink : n.ink[k] \in Point
    BY <2>2, BoundType DEF Point
  <2>4. QED
    BY <2>3, <1>8, <1>10, <1>11, ResizedObject
<1>13. PICK next : next = [objects EXCEPT ![of] = n]
  OBVIOUS
<1>14. /\ next \in Seq(Object) /\ DOMAIN next = DOMAIN objects /\ next[of] = n
       /\ \A i \in DOMAIN objects \ {of} : next[i] = objects[i]
  BY <1>1, <1>4, <1>12, <1>13, OneReplaced
<1>15. objects' = next
  BY <1>9, <1>13 DEF Rearranged
<1>16. SceneOK'
  BY <1>1, <1>5, <1>14, <1>15 DEF SceneOK, DragOK
<1>17. GestureInv'
  BY <1>4, <1>5, <1>14, <1>15 DEF GestureInv
<1>18. OnSheet'
  <2>1. ASSUME NEW i \in DOMAIN objects
        PROVE  /\ LimitedX(mode) => StaysOn(next[i].bounds.x, next[i].bounds.width, PageWidth,
                                            before[i].bounds.x, before[i].bounds.width)
               /\ LimitedY(mode) => StaysOn(next[i].bounds.y, next[i].bounds.height, PageHeight,
                                            before[i].bounds.y, before[i].bounds.height)
    <3>1. CASE i = of
      BY <3>1, <1>1, <1>4, <1>6, <1>10, <1>12, <1>14, ResizedBounds
    <3>2. CASE i # of
      BY <3>2, <1>1, <1>4, <1>14 DEF OnSheet
    <3>3. QED
      BY <3>1, <3>2
  <2>2. QED
    BY <2>1, <1>4, <1>14, <1>15 DEF OnSheet
<1>19. InkFollowsBounds'
  <2>1. ASSUME NEW i \in DOMAIN objects \ stretched PROVE InkInside(next[i])
    BY <1>1, <1>4, <1>14 DEF InkFollowsBounds
  <2>2. QED
    BY <2>1, <1>14, <1>15 DEF InkFollowsBounds
<1>20. ResizeHolds'
  <2>1. objects'[drag'.of].bounds = b /\ mode' = mode
    BY <1>5, <1>12, <1>14, <1>15
  <2>2. /\ found.bounds.width >= MinSize
              /\ (LimitedX(mode) => found.bounds.x >= 0
                                    /\ found.bounds.x + found.bounds.width <= PageWidth) =>
                /\ IF handle \in West THEN b.x + b.width = found.bounds.x + found.bounds.width
                                      ELSE b.x = found.bounds.x
                /\ b.width >= MinSize
        /\ found.bounds.height >= MinSize
              /\ (LimitedY(mode) => found.bounds.y >= 0
                                    /\ found.bounds.y + found.bounds.height <= PageHeight) =>
                /\ IF handle \in North THEN b.y + b.height = found.bounds.y + found.bounds.height
                                       ELSE b.y = found.bounds.y
                /\ b.height >= MinSize
    BY <1>1, <1>4, <1>6, <1>10, ResizedBounds
  <2>3. QED
    BY <1>5, <2>1, <2>2 DEF ResizeHolds
<1>21. WindowInv'
  BY <1>9, <1>13, <1>14, RearrangedKeeps
<1>22. QED
  BY <1>16, <1>17, <1>18, <1>19, <1>20, <1>21 DEF Inv, SceneInv

LEMMA DragKeeps ==
    ASSUME Inv, NEW p \in Pointers, Drag(p)
    PROVE  Inv'
<1>1. SceneOK /\ DragOK
  BY DEF Inv, SceneInv, SceneOK
<1>2. UNCHANGED <<mode, before, stretched, steps>>
  BY DEF Drag
<1>3. CASE drag.kind = "move"
  <2>1. Rearranged(MovedTo(p)) /\ UNCHANGED drag
    BY <1>3 DEF Drag
  <2>2. QED
    BY <2>1, <1>2, <1>3, MoveKeeps
<1>4. CASE drag.kind = "resize"
  <2>1. /\ \A k \in DOMAIN ResizedTo(p)[drag.of].ink :
               ResizedTo(p)[drag.of].ink[k] \in [x : -Far..Far, y : -Far..Far]
        /\ drag.pulls < MaxPulls /\ drag' = [drag EXCEPT !.pulls = @ + 1]
        /\ Rearranged(ResizedTo(p))
    BY <1>4 DEF Drag
  <2>2. QED
    BY <2>1, <1>2, <1>4, ResizeKeeps
<1>5. CASE drag.kind = "create"
  <2>1. drag' = [drag EXCEPT !.current = p] /\ UNCHANGED <<objects, window>>
    BY <1>5 DEF Drag
  <2>2. drag \in [kind : {"create"}, what : Kinds, start : Point, current : Point] /\ p \in Point
    BY <1>1, <1>5, DragKinds, PointsType
  <2>3. drag' \in [kind : {"create"}, what : Kinds, start : Point, current : Point]
        /\ drag'.kind = "create"
    BY <2>1, <2>2
  <2>4. SceneOK'
    BY <2>1, <2>3, <1>1, <1>2 DEF SceneOK, DragOK
  <2>5. GestureInv'
    BY <2>1, <2>3, <1>2, <1>5 DEF Inv, SceneInv, GestureInv, Idle
  <2>6. OnSheet' /\ InkFollowsBounds'
    BY <2>1, <1>2 DEF Inv, SceneInv, OnSheet, InkFollowsBounds
  <2>7. ResizeHolds'
    BY <2>3 DEF ResizeHolds
  <2>8. WindowInv'
    BY <2>1, <1>2 DEF Inv, WindowInv, window
  <2>9. QED
    BY <2>4, <2>5, <2>6, <2>7, <2>8, <1>2 DEF Inv, SceneInv
<1>6. CASE drag.kind = "none"
  BY <1>6 DEF Drag
<1>7. QED
  BY <1>1, <1>3, <1>4, <1>5, <1>6, DragKinds
-----------------------------------------------------------------------------
(***************************************************************************)
(* Gestures that end, and strokes.                                         *)
(***************************************************************************)
LEMMA NoDragKind == NoDrag.kind = "none"
  BY DEF NoDrag

LEMMA AppendedKeeps ==
    ASSUME Inv, NEW o \in Object,
           LimitedX(mode) => BeginsOn(o.bounds.x, o.bounds.width, PageWidth),
           LimitedY(mode) => BeginsOn(o.bounds.y, o.bounds.height, PageHeight),
           InkInside(o), Rearranged(Append(objects, o)), drag' = NoDrag,
           before' = before \/ before' = objects,
           UNCHANGED <<mode, stretched>>, steps' \in 0..MaxSteps
    PROVE  Inv'
<1>1. /\ SceneOK /\ GestureInv /\ OnSheet /\ InkFollowsBounds
      /\ objects \in Seq(Object) /\ before \in Seq(Object) /\ mode \in Modes
      /\ stretched \subseteq DOMAIN objects /\ DOMAIN before \subseteq DOMAIN objects
  BY DEF Inv, SceneInv, SceneOK, GestureInv
<1>2. PICK next : next = Append(objects, o)
  OBVIOUS
<1>3. /\ next \in Seq(Object) /\ DOMAIN objects \subseteq DOMAIN next
      /\ \A i \in DOMAIN objects : next[i] = objects[i]
      /\ \A i \in DOMAIN next \ DOMAIN objects : next[i] = o
  <2>1. next \in Seq(Object) /\ Len(next) = Len(objects) + 1
        /\ (\A i \in 1..Len(objects) : next[i] = objects[i]) /\ next[Len(objects) + 1] = o
    BY <1>1, <1>2, AppendProperties
  <2>2. DOMAIN objects = 1..Len(objects) /\ DOMAIN next = 1..Len(next) /\ Len(objects) \in Nat
    BY <1>1, <2>1, LenProperties
  <2>3. QED
    BY <2>1, <2>2
<1>4. objects' = next /\ drag'.kind = "none"
  BY <1>2, NoDragKind DEF Rearranged
<1>5. SceneOK'
  BY <1>1, <1>3, <1>4 DEF SceneOK, DragOK
<1>6. GestureInv'
  BY <1>1, <1>3, <1>4 DEF GestureInv, Idle
<1>7. OnSheet'
  <2>1. ASSUME NEW i \in DOMAIN next
        PROVE  IF i \in DOMAIN before'
               THEN /\ LimitedX(mode) => StaysOn(next[i].bounds.x, next[i].bounds.width, PageWidth,
                                                 before'[i].bounds.x, before'[i].bounds.width)
                    /\ LimitedY(mode) => StaysOn(next[i].bounds.y, next[i].bounds.height, PageHeight,
                                                 before'[i].bounds.y, before'[i].bounds.height)
               ELSE /\ LimitedX(mode) => BeginsOn(next[i].bounds.x, next[i].bounds.width, PageWidth)
                    /\ LimitedY(mode) => BeginsOn(next[i].bounds.y, next[i].bounds.height, PageHeight)
    <3>1. CASE i \notin DOMAIN objects
      BY <3>1, <1>1, <1>3
    <3>2. CASE i \in DOMAIN objects /\ before' = before
      BY <3>2, <1>1, <1>3 DEF OnSheet
    <3>3. CASE i \in DOMAIN objects /\ before' = objects
      BY <3>3, <1>1, <1>3, FoundOnSheet
    <3>4. QED
      BY <3>1, <3>2, <3>3
  <2>2. QED
    BY <2>1, <1>4 DEF OnSheet
<1>8. InkFollowsBounds'
  <2>1. ASSUME NEW i \in DOMAIN next \ stretched PROVE InkInside(next[i])
    BY <1>1, <1>3 DEF InkFollowsBounds
  <2>2. QED
    BY <2>1, <1>4 DEF InkFollowsBounds
<1>9. ResizeHolds'
  BY <1>4 DEF ResizeHolds
<1>10. WindowInv'
  BY <1>2, <1>3, RearrangedKeeps
<1>11. QED
  BY <1>5, <1>6, <1>7, <1>8, <1>9, <1>10 DEF Inv, SceneInv

LEMMA DropKeeps == ASSUME Inv, Drop PROVE Inv'
<1>1. /\ SceneOK /\ DragOK /\ objects \in Seq(Object) /\ mode \in Modes
      /\ drag' = NoDrag /\ UNCHANGED <<mode, before, stretched, steps>> /\ steps \in 0..MaxSteps
  BY DEF Inv, SceneInv, SceneOK, Drop
<1>2. CASE UNCHANGED <<objects, window>>
  <2>1. drag'.kind = "none"
    BY <1>1, NoDragKind
  <2>2. SceneOK'
    BY <1>1, <1>2 DEF SceneOK, DragOK
  <2>3. GestureInv'
    BY <2>1, <1>1, <1>2 DEF Inv, SceneInv, GestureInv, Idle
  <2>4. OnSheet' /\ InkFollowsBounds'
    BY <1>1, <1>2 DEF Inv, SceneInv, OnSheet, InkFollowsBounds
  <2>5. ResizeHolds'
    BY <2>1 DEF ResizeHolds
  <2>6. WindowInv'
    BY <1>1, <1>2 DEF Inv, WindowInv, window
  <2>7. QED
    BY <2>2, <2>3, <2>4, <2>5, <2>6, <1>1 DEF Inv, SceneInv
<1>3. CASE drag.kind = "create" /\ ~UNCHANGED <<objects, window>>
  <2>1. drag \in [kind : {"create"}, what : Kinds, start : Point, current : Point]
    BY <1>1, <1>3, DragKinds
  <2>2. PICK start, current \in Point : start = drag.start /\ current = drag.current
    BY <2>1
  <2>3. PICK o : o = IF drag.what = "line"
                     THEN Created("line", LineBounds(start, current, Padding), <<start, current>>)
                     ELSE Created(drag.what, DragBoundsFree(start, current), << >>)
    OBVIOUS
  <2>4. Rearranged(Append(objects, o))
    BY <2>2, <2>3, <1>3 DEF Drop
  <2>5. /\ o \in Object /\ InkInside(o)
        /\ LimitedX(mode) => BeginsOn(o.bounds.x, o.bounds.width, PageWidth)
        /\ LimitedY(mode) => BeginsOn(o.bounds.y, o.bounds.height, PageHeight)
    <3>1. CASE drag.what = "line"
      <4>1. o = Created("line", LineBounds(start, current, Padding), <<start, current>>)
        BY <2>3, <3>1
      <4>2. Padding \in Nat /\ "line" \in Kinds /\ <<start, current>> \in Seq(Point)
        BY <2>2, BoundType, TwoPoints DEF Kinds
      <4>3. /\ LineBounds(start, current, Padding) \in Bounds
            /\ \A k \in DOMAIN <<start, current>> :
                   Contains(LineBounds(start, current, Padding), <<start, current>>[k])
        BY <4>2, LineInBounds
      <4>4. QED
        BY <4>1, <4>2, <4>3, <1>1, CreatedObject
    <3>2. CASE drag.what # "line"
      <4>1. o = Created(drag.what, DragBoundsFree(start, current), << >>)
        BY <2>3, <3>2
      <4>2. drag.what \in Kinds /\ << >> \in Seq(Point)
            /\ DragBoundsFree(start, current) \in Bounds /\ DOMAIN << >> = {}
        BY <2>1, <2>2, FreeBounds
      <4>3. \A k \in DOMAIN << >> : Contains(DragBoundsFree(start, current), << >>[k])
        BY <4>2
      <4>4. QED
        BY <4>1, <4>2, <4>3, <1>1, CreatedObject
    <3>3. QED
      BY <3>1, <3>2
  <2>6. QED
    BY <2>4, <2>5, <1>1, AppendedKeeps
<1>4. drag.kind = "create" \/ UNCHANGED <<objects, window>>
  BY DEF Drop
<1>5. QED
  BY <1>2, <1>3, <1>4

LEMMA DrawStrokeKeeps ==
    ASSUME Inv, NEW p \in Pointers, NEW q \in Pointers, DrawStroke(<<p, q>>)
    PROVE  Inv'
<1>1. PICK o : o = Created("stroke", PointsToBounds(<<p, q>>, Padding), <<p, q>>)
  OBVIOUS
<1>2. /\ objects \in Seq(Object) /\ DragOK /\ Idle /\ steps < MaxSteps /\ steps' = steps + 1
      /\ Rearranged(Append(objects, o)) /\ before' = objects /\ UNCHANGED <<mode, drag, stretched>>
  BY <1>1 DEF Inv, SceneInv, SceneOK, DrawStroke
<1>3. drag' = NoDrag
  BY <1>2, DragKinds DEF Idle
<1>4. p \in Point /\ q \in Point /\ Padding \in Nat /\ "stroke" \in Kinds
  BY PointsType, BoundType DEF Kinds
<1>5. /\ PointsToBounds(<<p, q>>, Padding) \in Bounds /\ <<p, q>> \in Seq(Point)
      /\ \A k \in DOMAIN <<p, q>> : Contains(PointsToBounds(<<p, q>>, Padding), <<p, q>>[k])
  BY <1>4, StrokeInBounds, TwoPoints
<1>6. /\ o \in Object /\ InkInside(o)
      /\ LimitedX(mode) => BeginsOn(o.bounds.x, o.bounds.width, PageWidth)
      /\ LimitedY(mode) => BeginsOn(o.bounds.y, o.bounds.height, PageHeight)
  BY <1>1, <1>2, <1>4, <1>5, CreatedObject
<1>7. steps' \in 0..MaxSteps
  BY <1>2, BoundType DEF Inv
<1>8. QED
  BY <1>2, <1>3, <1>6, <1>7, AppendedKeeps

LEMMA CancelKeeps == ASSUME Inv, Cancel PROVE Inv'
<1>1. /\ SceneOK /\ GestureInv /\ OnSheet /\ InkFollowsBounds
      /\ objects \in Seq(Object) /\ before \in Seq(Object) /\ DragOK /\ mode \in Modes
      /\ stretched \subseteq DOMAIN objects /\ ~Idle /\ drag' = NoDrag
      /\ UNCHANGED <<mode, before, stretched, steps>> /\ steps \in 0..MaxSteps
  BY DEF Inv, SceneInv, SceneOK, Cancel
<1>2. DOMAIN objects = DOMAIN before
  BY <1>1 DEF GestureInv
<1>3. PICK next : next = [i \in DOMAIN objects |->
                            IF drag.kind = "move" /\ i \in DOMAIN drag.origins
                            THEN MoveObjectToBounds(objects[i], drag.origins[i])
                            ELSE IF drag.kind = "resize" /\ i = drag.of THEN drag.object
                            ELSE objects[i]]
  OBVIOUS
<1>4. Rearranged(next)
  BY <1>3 DEF Cancel
<1>5. ASSUME NEW i \in DOMAIN objects
      PROVE  /\ next[i] \in Object
             /\ next[i] = objects[i] \/ next[i].bounds = before[i].bounds
             /\ i \notin stretched => InkInside(next[i])
  <2>1. objects[i] \in Object /\ before[i] \in Object
    BY <1>1, <1>2, ObjectAt
  <2>2. CASE drag.kind = "move" /\ i \in DOMAIN drag.origins
    <3>1. PICK K \in SUBSET DOMAIN objects :
              drag \in [kind : {"move"}, start : Point, origins : [K -> Bounds]]
      BY <2>2, <1>1, DragKinds
    <3>2. /\ drag.origins[i] \in Bounds /\ drag.origins[i] = before[i].bounds
          /\ objects[i].bounds.width = before[i].bounds.width
          /\ objects[i].bounds.height = before[i].bounds.height
      BY <2>2, <3>1, <1>1 DEF GestureInv
    <3>3. next[i] = MoveObjectToBounds(objects[i], before[i].bounds)
      BY <2>2, <3>2, <1>3
    <3>4. /\ next[i] \in Object /\ next[i].bounds = before[i].bounds
          /\ InkInside(objects[i]) => InkInside(next[i])
      BY <2>1, <3>2, <3>3, MovedObject
    <3>5. QED
      BY <3>4, <1>1 DEF InkFollowsBounds
  <2>3. CASE drag.kind = "resize" /\ i = drag.of
    <3>1. next[i] = before[i] /\ i \in stretched
      BY <2>3, <1>1, <1>3 DEF GestureInv
    <3>2. QED
      BY <3>1, <2>1
  <2>4. CASE ~(drag.kind = "move" /\ i \in DOMAIN drag.origins) /\ ~(drag.kind = "resize" /\ i = drag.of)
    <3>1. next[i] = objects[i]
      BY <2>4, <1>3
    <3>2. QED
      BY <3>1, <2>1, <1>1 DEF InkFollowsBounds
  <2>5. QED
    BY <2>2, <2>3, <2>4
<1>6. next \in Seq(Object) /\ DOMAIN next = DOMAIN objects
  <2>1. next = [i \in DOMAIN objects |-> next[i]]
    BY <1>3
  <2>2. QED
    BY <2>1, <1>1, <1>5, PointwiseSeq
<1>7. objects' = next /\ drag'.kind = "none"
  BY <1>1, <1>4, NoDragKind DEF Rearranged
<1>8. SceneOK'
  BY <1>1, <1>6, <1>7 DEF SceneOK, DragOK
<1>9. GestureInv'
  BY <1>1, <1>2, <1>6, <1>7 DEF GestureInv, Idle
<1>10. OnSheet'
  <2>1. ASSUME NEW i \in DOMAIN objects
        PROVE  /\ LimitedX(mode) => StaysOn(next[i].bounds.x, next[i].bounds.width, PageWidth,
                                            before[i].bounds.x, before[i].bounds.width)
               /\ LimitedY(mode) => StaysOn(next[i].bounds.y, next[i].bounds.height, PageHeight,
                                            before[i].bounds.y, before[i].bounds.height)
    <3>1. CASE next[i] = objects[i]
      BY <3>1, <1>1, <1>2 DEF OnSheet
    <3>2. CASE next[i].bounds = before[i].bounds
      BY <3>2, <1>1, <1>2, FoundOnSheet
    <3>3. QED
      BY <3>1, <3>2, <1>5
  <2>2. QED
    BY <2>1, <1>1, <1>2, <1>6, <1>7 DEF OnSheet
<1>11. InkFollowsBounds'
  BY <1>1, <1>5, <1>6, <1>7 DEF InkFollowsBounds
<1>12. ResizeHolds'
  BY <1>7 DEF ResizeHolds
<1>13. WindowInv'
  BY <1>1, <1>4, <1>6, RearrangedKeeps
<1>14. QED
  BY <1>1, <1>8, <1>9, <1>10, <1>11, <1>12, <1>13 DEF Inv, SceneInv
-----------------------------------------------------------------------------
(***************************************************************************)
(* The view.                                                               *)
(***************************************************************************)
LEMMA LookKeeps ==
    ASSUME Inv, NEW v \in View, NEW s \in Screen, NEW l \in SUBSET {"x", "y"}, NEW n \in Nat \ {0},
           Look(v, s, l, n)
    PROVE  Inv'
<1>1. /\ mode \in Modes /\ objects \in Seq(Object) /\ UNCHANGED scene
      /\ steps < MaxSteps /\ steps' = steps + 1
      /\ view' = Settled(v, s, objects, n) /\ screen' = s /\ locks' = l /\ pages' = n
  BY DEF Inv, SceneInv, SceneOK, Look
<1>2. /\ mode' = mode /\ objects' = objects /\ drag' = drag /\ before' = before
      /\ stretched' = stretched
  BY <1>1 DEF scene
<1>3. SceneOK'
  BY <1>2 DEF Inv, SceneInv, SceneOK, DragOK
<1>4. GestureInv'
  BY <1>2 DEF Inv, SceneInv, GestureInv, Idle
<1>5. OnSheet' /\ InkFollowsBounds' /\ ResizeHolds'
  BY <1>2 DEF Inv, SceneInv, OnSheet, InkFollowsBounds, ResizeHolds
<1>6. WindowInv'
  <2>1. view' \in View /\ ShowsContent(mode, view', s, objects, n)
    BY <1>1, SettledShowsContent
  <2>2. QED
    BY <2>1, <1>1, <1>2 DEF WindowInv
<1>7. steps' \in 0..MaxSteps
  BY <1>1, BoundType DEF Inv
<1>8. QED
  BY <1>3, <1>4, <1>5, <1>6, <1>7 DEF Inv, SceneInv

LEMMA ClampedScale == ASSUME NEW asked \in Int PROVE ClampScale(asked) \in MinScale..MaxScale
  BY ScalesType DEF ClampScale, Within, Greater, Lesser

LEMMA PannedView ==
    ASSUME NEW v \in View, NEW dx \in Int, NEW dy \in Int
    PROVE  Panned(v, dx, dy) \in View
<1>1. PICK ex, ey \in Int : /\ ex = (IF "x" \in locks THEN 0 ELSE dx)
                            /\ ey = (IF "y" \in locks THEN 0 ELSE dy)
  OBVIOUS
<1>2. v.x \in Int /\ v.y \in Int /\ v.scale \in Int
  BY ViewFields
<1>3. PICK x, y : x = v.x - ex * v.scale /\ y = v.y - ey * v.scale
  OBVIOUS
<1>4. ex * v.scale \in Int /\ ey * v.scale \in Int
  BY <1>1, <1>2, ProductIsInt
<1>5. x \in Int /\ y \in Int
  BY <1>2, <1>3, <1>4
<1>6. Panned(v, dx, dy) = [v EXCEPT !.x = x, !.y = y]
  BY <1>1, <1>3 DEF Panned, PanViewport, View
<1>7. QED
  BY <1>5, <1>6 DEF View

LEMMA ZoomedView ==
    ASSUME NEW v \in View, NEW anchor \in Pointers, NEW asked \in Scales
    PROVE  Zoomed(v, anchor, asked) \in View
<1>1. v.x \in Int /\ v.y \in Int /\ v.scale \in Int /\ anchor.x \in Int /\ anchor.y \in Int
      /\ asked \in Int
  BY ViewFields, PointFields, PointsType, ScalesType
<1>2. PICK scale \in MinScale..MaxScale : scale = ClampScale(asked)
  BY <1>1, ClampedScale
<1>3. scale \in Int
  BY <1>2, ScalesType
<1>4. /\ anchor.x * v.scale \in Int /\ anchor.x * scale \in Int
      /\ anchor.y * v.scale \in Int /\ anchor.y * scale \in Int
  BY <1>1, <1>3, ProductIsInt
<1>5. PICK x, y : /\ x = v.x + anchor.x * v.scale - anchor.x * scale
                  /\ y = v.y + anchor.y * v.scale - anchor.y * scale
  OBVIOUS
<1>6. x \in Int /\ y \in Int
  BY <1>1, <1>4, <1>5, SumIsInt
<1>7. PICK next : next = [x |-> x, y |-> y, scale |-> scale]
  OBVIOUS
<1>8. Zoomed(v, anchor, asked) = IF "x" \in locks THEN v
                                 ELSE IF "y" \in locks THEN [next EXCEPT !.y = v.y] ELSE next
  BY <1>2, <1>5, <1>7 DEF Zoomed, ZoomViewportAround
<1>9. next \in View /\ [next EXCEPT !.y = v.y] \in View
  BY <1>1, <1>6, <1>7 DEF View
<1>10. QED
  BY <1>8, <1>9

LEMMA WindowTypes ==
    ASSUME Inv
    PROVE  /\ view \in View /\ screen \in Screen /\ locks \in SUBSET {"x", "y"}
           /\ pages \in Nat \ {0} /\ mode \in Modes /\ objects \in Seq(Object)
           /\ view.x \in Int /\ view.y \in Int /\ view.scale \in Nat
           /\ Visible(view, screen).width \in Nat /\ Visible(view, screen).height \in Nat
  BY ViewFields, VisibleIsNat DEF Inv, SceneInv, SceneOK, WindowInv

LEMMA ScrollKeeps ==
    ASSUME Inv, NEW axis \in {"x", "y"}, NEW quarters \in 0..4, Scroll(axis, quarters)
    PROVE  Inv'
<1>1. PICK h : h = HorizontalScroll(objects, mode, Visible(view, screen).width)
  OBVIOUS
<1>2. PICK v : v = VerticalScroll(objects, mode, pages, Visible(view, screen).height)
  OBVIOUS
<1>3. h.min \in Int /\ h.max \in Int /\ v.min \in Int /\ v.max \in Int
  BY <1>1, <1>2, WindowTypes, ScrollBounds
<1>4. PICK x : x = h.min + (quarters * (h.max - h.min)) \div 4
  OBVIOUS
<1>5. PICK y : y = v.min + (quarters * (v.max - v.min)) \div 4
  OBVIOUS
<1>6. x \in Int /\ y \in Int
  <2>1. quarters \in Int /\ h.max - h.min \in Int /\ v.max - v.min \in Int
    BY <1>3
  <2>2. quarters * (h.max - h.min) \in Int /\ quarters * (v.max - v.min) \in Int
    BY <2>1, ProductIsInt
  <2>3. (quarters * (h.max - h.min)) \div 4 \in Int /\ (quarters * (v.max - v.min)) \div 4 \in Int
    BY <2>2, QuotientIsInt
  <2>4. QED
    BY <2>3, <1>3, <1>4, <1>5
<1>7. \/ Look([view EXCEPT !.x = x], screen, locks, pages)
      \/ Look([view EXCEPT !.y = y], screen, locks, pages)
  BY <1>1, <1>2, <1>4, <1>5 DEF Scroll
<1>8. [view EXCEPT !.x = x] \in View /\ [view EXCEPT !.y = y] \in View
  BY <1>6, WindowTypes DEF View
<1>9. QED
  BY <1>7, <1>8, WindowTypes, LookKeeps

LEMMA ToggleLockKeeps ==
    ASSUME Inv, NEW axis \in {"x", "y"}, ToggleLock(axis)
    PROVE  Inv'
<1>1. PICK l : l = IF axis \in locks THEN locks \ {axis} ELSE locks \cup {axis}
  OBVIOUS
<1>2. l \in SUBSET {"x", "y"}
  BY <1>1, WindowTypes
<1>3. Look(view, screen, l, pages)
  BY <1>1 DEF ToggleLock
<1>4. QED
  BY <1>2, <1>3, WindowTypes, LookKeeps

LEMMA AddPageKeeps == ASSUME Inv, AddPage PROVE Inv'
<1>1. PICK middle : middle = view.y + Visible(view, screen).height \div 2
  OBVIOUS
<1>2. middle \in Int
  BY <1>1, WindowTypes
<1>3. PICK sheet : sheet = (middle + PageGap) \div (PageHeight + PageGap)
  OBVIOUS
<1>4. sheet \in Int
  <2>1. PageGap \in Nat /\ PageHeight + PageGap \in Nat \ {0}
    BY SheetType
  <2>2. middle + PageGap \in Int
    BY <2>1, <1>2
  <2>3. QED
    BY <2>1, <2>2, <1>3, QuotientIsInt
<1>5. PICK current : current = Within(sheet, 0, pages - 1)
  OBVIOUS
<1>6. current \in Int
  BY <1>4, <1>5, WindowTypes DEF Within, Greater, Lesser
<1>7. PICK y : y = PageFrame(current + 1).y - PageMargin * view.scale
  OBVIOUS
<1>8. y \in Int
  <2>1. PageMargin \in Int /\ view.scale \in Int /\ PageHeight + PageGap \in Int /\ current + 1 \in Int
    BY SMTT(30), <1>6, WindowTypes, BoundType, SheetType
  <2>2. (current + 1) * (PageHeight + PageGap) \in Int /\ PageMargin * view.scale \in Int
    BY <2>1, ProductIsInt
  <2>3. PageFrame(current + 1).y = (current + 1) * (PageHeight + PageGap)
    BY DEF PageFrame
  <2>4. QED
    BY <2>2, <2>3, <1>7
<1>9. Look([view EXCEPT !.y = y], screen, locks, pages + 1)
  BY <1>1, <1>3, <1>5, <1>7 DEF AddPage
<1>10. [view EXCEPT !.y = y] \in View /\ pages + 1 \in Nat \ {0}
  BY <1>8, WindowTypes DEF View
<1>11. QED
  BY <1>9, <1>10, WindowTypes, LookKeeps
-----------------------------------------------------------------------------
LEMMA StutterKeeps == ASSUME Inv, UNCHANGED vars PROVE Inv'
<1>1. /\ mode' = mode /\ objects' = objects /\ drag' = drag /\ before' = before
      /\ stretched' = stretched /\ view' = view /\ screen' = screen /\ locks' = locks
      /\ pages' = pages /\ steps' = steps
  BY DEF vars
<1>2. SceneInv'
  BY <1>1 DEF Inv, SceneInv, SceneOK, DragOK, GestureInv, Idle, OnSheet, InkFollowsBounds, ResizeHolds
<1>3. WindowInv' /\ steps' \in 0..MaxSteps
  BY <1>1 DEF Inv, WindowInv
<1>4. QED
  BY <1>2, <1>3 DEF Inv

LEMMA NextKeeps == Inv /\ [Next]_vars => Inv'
<1> SUFFICES ASSUME Inv, [Next]_vars PROVE Inv'
  OBVIOUS
<1>1. ASSUME NEW i \in DOMAIN objects, NEW p \in Pointers, DownOnHandle(i, p) PROVE Inv'
  BY <1>1, DownOnHandleKeeps
<1>2. ASSUME NEW p \in Pointers, NEW selected \in SUBSET DOMAIN objects, DownOnObject(p, selected)
      PROVE Inv'
  BY <1>2, DownOnObjectKeeps
<1>3. ASSUME NEW p \in Pointers, NEW kind \in {"line", "text"}, DownOnSheet(p, kind) PROVE Inv'
  BY <1>3, DownOnSheetKeeps
<1>4. ASSUME NEW p \in Pointers, Drag(p) PROVE Inv'
  BY <1>4, DragKeeps
<1>5. ASSUME NEW p \in Pointers, NEW q \in Pointers, DrawStroke(<<p, q>>) PROVE Inv'
  BY <1>5, DrawStrokeKeeps
<1>6. ASSUME NEW dx \in Pans, NEW dy \in Pans, Pan(dx, dy) PROVE Inv'
  <2>1. Panned(view, dx, dy) \in View
    BY PannedView, WindowTypes, PointsType
  <2>2. QED
    BY <2>1, <1>6, LookKeeps, WindowTypes DEF Pan
<1>7. ASSUME NEW scale \in Scales, NEW anchor \in Pointers, Zoom(anchor, scale) PROVE Inv'
  <2>1. Zoomed(view, anchor, scale) \in View
    BY ZoomedView, WindowTypes
  <2>2. QED
    BY <2>1, <1>7, LookKeeps, WindowTypes DEF Zoom
<1>8. ASSUME NEW scale \in Scales, NEW anchor \in Pointers, NEW d \in Pans, Pinch(anchor, scale, d, d)
      PROVE Inv'
  <2>1. PICK zoomed \in View : zoomed = Zoomed(view, anchor, scale)
    BY ZoomedView, WindowTypes
  <2>2. Panned(zoomed, d, d) \in View
    BY PannedView, PointsType
  <2>3. QED
    BY <2>1, <2>2, <1>8, LookKeeps, WindowTypes DEF Pinch
<1>9. ASSUME NEW axis \in {"x", "y"}, NEW quarters \in 0..4, Scroll(axis, quarters) PROVE Inv'
  BY <1>9, ScrollKeeps
<1>10. ASSUME NEW axis \in {"x", "y"}, ToggleLock(axis) PROVE Inv'
  BY <1>10, ToggleLockKeeps
<1>11. ASSUME NEW s \in Screens, ResizeScreen(s) PROVE Inv'
  <2>1. s \in Screen /\ Look(view, s, locks, pages)
    BY <1>11, ScreensType DEF ResizeScreen, Screen
  <2>2. QED
    BY <2>1, LookKeeps, WindowTypes
<1>12. QED
  BY <1>1, <1>2, <1>3, <1>4, <1>5, <1>6, <1>7, <1>8, <1>9, <1>10, <1>11, DropKeeps, CancelKeeps,
     AddPageKeeps, StutterKeeps DEF Next

LEMMA InvHolds == Spec => []Inv
  BY InitInv, NextKeeps, PTL DEF Spec

(***************************************************************************)
(* The refs and states of the canvas keep their types: among them a zoom   *)
(* within its limits, at least one page, and gestures that name objects of *)
(* the note.                                                               *)
(***************************************************************************)
THEOREM SurfaceTypes == Spec => []TypeOK
  BY InvHolds, InvIsAll, PTL

(***************************************************************************)
(* No gesture takes an object further over an edge of the sheet than it    *)
(* found it, and new objects lie on the sheet.                             *)
(***************************************************************************)
THEOREM ObjectsStayOnSheet == Spec => []OnSheet
  BY InvHolds, InvIsAll, PTL

(***************************************************************************)
(* What an object draws stays inside its bounds until it is resized.       *)
(***************************************************************************)
THEOREM InkStaysInBounds == Spec => []InkFollowsBounds
  BY InvHolds, InvIsAll, PTL

(***************************************************************************)
(* A resize holds the opposite edge, the other axis and the least size.    *)
(***************************************************************************)
THEOREM ResizesHold == Spec => []ResizeHolds
  BY InvHolds, InvIsAll, PTL

(***************************************************************************)
(* Nothing the wheel, the scrollbars, zooms, windows and edits do takes    *)
(* the content of a note out of view.                                      *)
(***************************************************************************)
THEOREM ContentInView == Spec => []ContentStaysInView
  BY InvHolds, InvIsAll, PTL
=============================================================================
