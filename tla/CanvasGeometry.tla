--------------------------- MODULE CanvasGeometry ---------------------------
(***************************************************************************)
(* The arithmetic of the canvas: bounds, the sheet of a canvas mode, drags,*)
(* resize handles, scroll bounds, pages and hit tests.                     *)
(*                                                                         *)
(* The program computes with IEEE doubles, this module with integers, as   *)
(* if one unit were the finest step of any of them; where the program      *)
(* divides, the quotient is rounded down.                                  *)
(***************************************************************************)
EXTENDS Integers, Sequences

CONSTANTS
    PageWidth,
    PageHeight,
    PageGap,     \* between the sheets of a paged note
    MinSize      \* MIN_BOUNDS_SIZE

ASSUME SheetType == /\ {PageWidth, PageHeight, MinSize} \subseteq Nat \ {0}
                    /\ PageGap \in Nat
ASSUME SheetIsRoomy == MinSize <= PageWidth /\ MinSize <= PageHeight

Modes == {"infinite", "fixed-width", "fixed-height", "paged"}
Handles == {"nw", "n", "ne", "e", "se", "s", "sw", "w"}
West == {"nw", "w", "sw"}
East == {"ne", "e", "se"}
North == {"nw", "n", "ne"}
South == {"sw", "s", "se"}

Point == [x : Int, y : Int]
Bounds == [x : Int, y : Int, width : Int, height : Int]

At(x, y) == [x |-> x, y |-> y]
Lesser(a, b) == IF a <= b THEN a ELSE b
Greater(a, b) == IF a >= b THEN a ELSE b
Distance(a, b) == IF a <= b THEN b - a ELSE a - b
\* math.min/max of a value into [low, high]; low wins when they cross.
Within(v, low, high) == Greater(low, Lesser(v, high))
-----------------------------------------------------------------------------
(***************************************************************************)
(* The sheet.  A mode limits the horizontal axis, the vertical one or none.*)
(***************************************************************************)
LimitedX(mode) == mode \in {"fixed-width", "paged"}
LimitedY(mode) == mode = "fixed-height"

\* Content as long as the sheet or longer is anchored at its edge.
ClampToSheet(at, size, length) ==
    IF size >= length THEN 0 ELSE Within(at, 0, length - size)

ClampBoundsToMode(b, mode) ==
    [b EXCEPT !.x = IF LimitedX(mode) THEN ClampToSheet(b.x, b.width, PageWidth) ELSE b.x,
              !.y = IF LimitedY(mode) THEN ClampToSheet(b.y, b.height, PageHeight) ELSE b.y]

TranslateBounds(b, dx, dy) == [b EXCEPT !.x = b.x + dx, !.y = b.y + dy]

TranslateBoundsInMode(b, dx, dy, mode) ==
    ClampBoundsToMode(TranslateBounds(b, dx, dy), mode)

DragBoundsFree(start, current) ==
    [x |-> Lesser(start.x, current.x), y |-> Lesser(start.y, current.y),
     width |-> Distance(start.x, current.x), height |-> Distance(start.y, current.y)]

\* Mutant: the smallest size is kept by pushing the far edge.
NearEdgeSlides(at, size, by) == <<at + by, Greater(MinSize, size - by)>>

(***************************************************************************)
(* One axis of a resize: the near edge moves (w or n), or the far one (e or*)
(* s), or neither; the size stays at least MinSize.                        *)
(***************************************************************************)
NearEdgeMoved(at, size, by) ==
    LET resized == Greater(MinSize, size - by) IN <<at + size - resized, resized>>

FarEdgeMoved(at, size, by) == <<at, Greater(MinSize, size + by)>>

ResizeAxis(at, size, by, near, far) ==
    IF near THEN NearEdgeMoved(at, size, by)
    ELSE IF far THEN FarEdgeMoved(at, size, by)
    ELSE <<at, Greater(MinSize, size)>>

\* The moving edge stops at the sheet's edge; the opposite one does not slide.
StopAtSheet(axis, start, length, near, far) ==
    IF near /\ axis[1] < 0 THEN <<0, axis[2] + axis[1]>>
    ELSE IF far THEN <<axis[1], Lesser(axis[2], length - start)>>
    ELSE axis

ResizeBoundsInMode(b, handle, start, current, mode) ==
    LET dx == current.x - start.x
        dy == current.y - start.y
        freeX == ResizeAxis(b.x, b.width, dx, handle \in West, handle \in East)
        freeY == ResizeAxis(b.y, b.height, dy, handle \in North, handle \in South)
        horizontal == IF LimitedX(mode)
                      THEN StopAtSheet(freeX, b.x, PageWidth, handle \in West, handle \in East)
                      ELSE freeX
        vertical == IF LimitedY(mode)
                    THEN StopAtSheet(freeY, b.y, PageHeight, handle \in North, handle \in South)
                    ELSE freeY
    IN [x |-> horizontal[1], y |-> vertical[1],
        width |-> horizontal[2], height |-> vertical[2]]

HandlePosition(b, handle) ==
    At(IF handle \in West THEN b.x
       ELSE IF handle \in East THEN b.x + b.width ELSE b.x + b.width \div 2,
       IF handle \in North THEN b.y
       ELSE IF handle \in South THEN b.y + b.height ELSE b.y + b.height \div 2)

IsNear(p, q, tolerance) ==
    Distance(p.x, q.x) <= tolerance /\ Distance(p.y, q.y) <= tolerance

\* The order in which the handles are tried.
HandleOrder == <<"nw", "n", "ne", "e", "se", "s", "sw", "w">>

\* A handle at the point, or "none".
HandleAtPoint(b, p, tolerance) ==
    LET hits == {i \in DOMAIN HandleOrder :
                    IsNear(HandlePosition(b, HandleOrder[i]), p, tolerance)}
    IN IF hits = {} THEN "none"
       ELSE HandleOrder[CHOOSE i \in hits : \A j \in hits : i <= j]
-----------------------------------------------------------------------------
(***************************************************************************)
(* Objects.  ink is what the payload draws by coordinates: the points of a *)
(* stroke, the two ends of a line, nothing for the other kinds and for a   *)
(* line stored before lines had ends.                                      *)
(***************************************************************************)
Kinds == {"image", "stroke", "line", "text"}
Object == [kind : Kinds, bounds : Bounds, ink : Seq(Point), z : Nat, locked : BOOLEAN]

MapInk(Image(_), ink) == [i \in DOMAIN ink |-> Image(ink[i])]

MoveObjectToBounds(o, b) ==
    LET moved(p) == At(p.x + b.x - o.bounds.x, p.y + b.y - o.bounds.y)
    IN [o EXCEPT !.bounds = b, !.ink = MapInk(moved, o.ink)]

ResizeObjectToBounds(o, b) ==
    LET scaled(p) == At(b.x + ((p.x - o.bounds.x) * b.width) \div o.bounds.width,
                        b.y + ((p.y - o.bounds.y) * b.height) \div o.bounds.height)
    IN [o EXCEPT !.bounds = b, !.ink = IF o.kind = "line" THEN MapInk(scaled, o.ink) ELSE o.ink]

NextZIndex(objects) ==
    1 + CHOOSE m \in {0} \cup {objects[i].z : i \in DOMAIN objects} :
            \A i \in DOMAIN objects : objects[i].z <= m

\* The ends of a line and the bounds around them, MinSize long at least.
LineBounds(start, end, padding) ==
    LET axis(a, b) ==
            LET raw == Distance(a, b)
            IN <<Lesser(a, b) - Greater(0, MinSize - raw) \div 2 - padding,
                 Greater(MinSize, raw) + 2 * padding>>
        h == axis(start.x, end.x)
        v == axis(start.y, end.y)
    IN [x |-> h[1], y |-> v[1], width |-> h[2], height |-> v[2]]

\* The bounds of a stroke: its points with half the ink's width around them.
PointsToBounds(points, padding) ==
    LET xs == {points[i].x : i \in DOMAIN points}
        ys == {points[i].y : i \in DOMAIN points}
        least(S) == CHOOSE m \in S : \A n \in S : m <= n
        most(S) == CHOOSE m \in S : \A n \in S : m >= n
    IN [x |-> least(xs) - padding, y |-> least(ys) - padding,
        width |-> Greater(MinSize, most(xs) - least(xs) + 2 * padding),
        height |-> Greater(MinSize, most(ys) - least(ys) + 2 * padding)]
-----------------------------------------------------------------------------
(***************************************************************************)
(* Hit tests.                                                              *)
(***************************************************************************)
Contains(b, p) == p.x \in b.x..b.x + b.width /\ p.y \in b.y..b.y + b.height

Square(n) == n * n
Apart2(p, q) == Square(p.x - q.x) + Square(p.y - q.y)

\* Whether p is within reach of the segment from s to e.  The distance from its
\* line is across / length; the first bound only keeps TLC's squares small.
IsNearSegment(p, s, e, reach) ==
    LET length2 == Apart2(s, e)
        along == (p.x - s.x) * (e.x - s.x) + (p.y - s.y) * (e.y - s.y)
        across == (p.x - s.x) * (e.y - s.y) - (p.y - s.y) * (e.x - s.x)
    IN IF along <= 0 THEN Apart2(p, s) <= Square(reach)
       ELSE IF along >= length2 THEN Apart2(p, e) <= Square(reach)
       ELSE /\ Distance(across, 0) <= reach * (Distance(s.x, e.x) + Distance(s.y, e.y))
            /\ Square(across) <= Square(reach) * length2

\* The first point of a stroke counts by itself, the others with their segment.
TouchesInk(ink, p, reach) ==
    \/ ink # << >> /\ Apart2(p, ink[1]) <= Square(reach)
    \/ \E i \in DOMAIN ink : i > 1 /\ IsNearSegment(p, ink[i - 1], ink[i], reach)

\* A line without stored ends runs across the middle of its bounds.
LineEnds(o) ==
    LET b == o.bounds
        middle == b.y + b.height \div 2
    IN IF o.ink # << >> THEN o.ink ELSE <<At(b.x, middle), At(b.x + b.width, middle)>>

IsHit(o, p, reach) ==
    /\ ~o.locked
    /\ Contains(o.bounds, p)
    /\ o.kind = "stroke" => TouchesInk(o.ink, p, reach)
    /\ o.kind = "line" => IsNearSegment(p, LineEnds(o)[1], LineEnds(o)[2], reach)

\* The later of two objects with one z wins.  0 when nothing is hit.
HitTest(objects, p, reach) ==
    LET hits == {i \in DOMAIN objects : IsHit(objects[i], p, reach)}
        beats(i, j) == \/ objects[i].z > objects[j].z
                       \/ objects[i].z = objects[j].z /\ i >= j
    IN IF hits = {} THEN 0 ELSE CHOOSE i \in hits : \A j \in hits : beats(i, j)
-----------------------------------------------------------------------------
(***************************************************************************)
(* Scrolling.  An axis shows `visible` units of `content` ones; a quarter  *)
(* of a screen may lie beyond either end, and a whole screen and a quarter *)
(* beyond the far end of the axis that is open.                            *)
(***************************************************************************)
ScrollAxis(content, visible) ==
    LET low == -(visible \div 4)
        high == content - 3 * (visible \div 4)
        centered == (content - visible) \div 2
    IN IF low <= high THEN [min |-> low, max |-> high] ELSE [min |-> centered, max |-> centered]

OpenAxis(content, visible) ==
    LET closed == ScrollAxis(content, visible)
    IN [closed EXCEPT !.max = Greater(closed.min, content + visible \div 4)]

PanViewport(v, dx, dy) == [v EXCEPT !.x = @ - dx * v.scale, !.y = @ - dy * v.scale]

\* The canvas point under the anchor, a point of the screen, stays there.
ZoomViewportAround(v, anchor, scale) ==
    [x |-> v.x + anchor.x * v.scale - anchor.x * scale,
     y |-> v.y + anchor.y * v.scale - anchor.y * scale,
     scale |-> scale]

FarEdge(objects, Edge(_)) ==
    CHOOSE m \in {0} \cup {Edge(objects[i].bounds) : i \in DOMAIN objects} :
        m >= 0 /\ \A i \in DOMAIN objects : Edge(objects[i].bounds) <= m

PageFrame(index) ==
    [x |-> 0, y |-> index * (PageHeight + PageGap), width |-> PageWidth, height |-> PageHeight]

ContentWidth(objects, mode) ==
    LET right(b) == b.x + b.width
    IN IF mode = "fixed-height" THEN Greater(PageWidth, FarEdge(objects, right)) ELSE PageWidth

\* Imported PDF pages reach below the last sheet of a paged note.
ContentHeight(objects, mode, pages) ==
    LET bottom(b) == b.y + b.height
    IN CASE mode = "paged" ->
                Greater(PageFrame(pages - 1).y + PageHeight, FarEdge(objects, bottom))
         [] mode = "fixed-width" -> Greater(PageHeight, FarEdge(objects, bottom))
         [] OTHER -> PageHeight

HorizontalScroll(objects, mode, visible) ==
    IF mode = "fixed-height" THEN OpenAxis(ContentWidth(objects, mode), visible)
                             ELSE ScrollAxis(ContentWidth(objects, mode), visible)

VerticalScroll(objects, mode, pages, visible) ==
    IF LimitedX(mode) THEN OpenAxis(ContentHeight(objects, mode, pages), visible)
                      ELSE ScrollAxis(ContentHeight(objects, mode, pages), visible)
=============================================================================
