---------------------------- MODULE CanvasSurface ----------------------------
(***************************************************************************)
(* The pointer on the canvas and the view of it: drags that move, resize   *)
(* and create objects on the sheet of the note's mode, and the viewport    *)
(* that pans, zooms, scrolls and follows its content.                      *)
(*                                                                         *)
(* A zoom z is written as its scale, the canvas units per screen unit 1/z. *)
(* The layout effect that brings the viewport back into the scroll bounds  *)
(* runs before the next event, so it ends every action.  How the drags     *)
(* commit, and what becomes of the objects between them, is CanvasEditor's.*)
(***************************************************************************)
EXTENDS CanvasGeometry, FiniteSets

CONSTANTS
    Scenes,        \* the lists of objects a note may start with
    Pointers,      \* the canvas points the pointer is seen at
    Scales,        \* the scales a zoom may ask for
    Screens,       \* the sizes the canvas's element may have, [width, height]
    Pans,          \* the distances of one pan, in screen units
    MinScale,      \* 1 / MAX_ZOOM
    PlainScale,    \* of a zoom of 1
    MaxScale,      \* 1 / MIN_ZOOM
    Reach,         \* the tolerance of hit tests, in canvas units
    Padding,       \* of the bounds of lines and strokes around their ink
    MinDrag,       \* the shortest drag that creates an object
    Home,          \* where a note without a stored position begins, [x, y]
    TopMargin,     \* what is then left above the sheet, in screen units
    PageMargin,    \* what is left above a new sheet, in screen units
    MaxSteps,      \* bound: gestures that edit and changes of the view
    MaxPulls,      \* bound: moves of the pointer in one resize
    Far            \* bound: how far off the view is panned and a line's ends driven

ASSUME ScalesType == /\ MinScale \in Nat \ {0} /\ MaxScale \in Nat
                     /\ PlainScale \in MinScale..MaxScale
                     /\ Scales \subseteq Int
ASSUME PointsType == Pointers \subseteq Point /\ Home \in Point /\ Pans \subseteq Int
ASSUME ScreensType == Screens \subseteq [width : Nat, height : Nat]
ASSUME BoundType == {Reach, Padding, MinDrag, TopMargin, PageMargin, MaxSteps, MaxPulls, Far} \subseteq Nat

InkInside(o) == \A k \in DOMAIN o.ink : Contains(o.bounds, o.ink[k])

\* The scenes are as they were drawn: no line in them was resized before.
ASSUME ScenesAreDrawn ==
    \A found \in Scenes : found \in Seq(Object) /\ \A i \in DOMAIN found : InkInside(found[i])
-----------------------------------------------------------------------------
VARIABLES
    mode,      \* activeMode
    objects,   \* objectsRef and mirror
    drag,      \* gestureRef
    before,    \* history: the objects as the last gesture found them
    stretched, \* history: the objects a resize has been begun on
    view,      \* viewport
    screen,    \* containerSize
    locks,     \* axisLocks, as far as the mode has the lock
    pages,     \* pageCount
    steps      \* gestures and changes of the view so far

vars == <<mode, objects, drag, before, stretched, view, screen, locks, pages, steps>>
scene == <<mode, objects, drag, before, stretched>>
window == <<view, screen, locks, pages>>

NoDrag == [kind |-> "none"]
Idle == drag.kind = "none"

Visible(v, s) == [width |-> s.width * v.scale, height |-> s.height * v.scale]

\* Mutant: the screen is not divided by the zoom.
SettledByWidth(v, s, content, pageCount) ==
    LET h == HorizontalScroll(content, mode, s.width)
        w == VerticalScroll(content, mode, pageCount, s.height)
    IN IF mode = "infinite" THEN v
       ELSE [v EXCEPT !.x = Within(v.x, h.min, h.max), !.y = Within(v.y, w.min, w.max)]

(***************************************************************************)
(* The viewport after the layout effect: inside the scroll bounds of the   *)
(* present content.  The infinite canvas has none.                         *)
(***************************************************************************)
Settled(v, s, content, pageCount) ==
    LET h == HorizontalScroll(content, mode, Visible(v, s).width)
        w == VerticalScroll(content, mode, pageCount, Visible(v, s).height)
    IN IF mode = "infinite" THEN v
       ELSE [v EXCEPT !.x = Within(v.x, h.min, h.max), !.y = Within(v.y, w.min, w.max)]

\* Mutant: any zoom that is asked for.
ClampScaleNot(scale) == scale

ClampScale(scale) == Within(scale, MinScale, MaxScale)

\* The first layout of a note without a stored position.
Centered(s, content) ==
    LET start == [x |-> Home.x, y |-> Home.y, scale |-> PlainScale]
        shown == Visible(start, s)
        top == Greater(VerticalScroll(content, mode, 1, shown.height).min, -(TopMargin * PlainScale))
    IN IF mode = "infinite" THEN start
       ELSE [start EXCEPT !.x = (ContentWidth(content, mode) - shown.width) \div 2, !.y = top]

Init ==
    /\ mode \in Modes
    /\ objects \in Scenes
    /\ drag = NoDrag /\ before = objects /\ stretched = {}
    /\ screen \in Screens
    /\ locks = {} /\ pages = 1
    /\ view = Settled(Centered(screen, objects), screen, objects, 1)
    /\ steps = 0

(***************************************************************************)
(* Drags.  The pointer goes down on a handle of the selected object, on an *)
(* object, or on the sheet; what moves is computed from what the gesture   *)
(* found, not from its last step.                                          *)
(***************************************************************************)
Begin(gesture) ==
    /\ steps < MaxSteps /\ steps' = steps + 1
    /\ drag' = gesture /\ before' = objects
    /\ UNCHANGED <<mode, objects, window>>

\* A stroke has no handles.
DownOnHandle(i, p) ==
    LET o == objects[i]
        handle == HandleAtPoint(o.bounds, p, Reach)
    IN /\ Idle /\ ~o.locked /\ o.kind # "stroke"
       /\ handle # "none"
       /\ Begin([kind |-> "resize", of |-> i, handle |-> handle, start |-> p, object |-> o, pulls |-> 0])
       /\ stretched' = stretched \cup {i}

\* The object hit moves, and with it the rest of the selection; locked ones stay.
DownOnObject(p, selected) ==
    LET i == HitTest(objects, p, Reach)
        movable == {k \in selected \cup {i} : ~objects[k].locked}
    IN /\ Idle /\ i # 0
       /\ Begin([kind |-> "move", start |-> p,
                 origins |-> [k \in movable |-> objects[k].bounds]])
       /\ UNCHANGED stretched

DownOnSheet(p, kind) ==
    /\ Idle
    /\ Begin([kind |-> "create", what |-> kind, start |-> p, current |-> p])
    /\ UNCHANGED stretched

\* Mutant: a move without the sheet's clamp.
MovedUnclamped(p) ==
    [i \in DOMAIN objects |->
        IF i \in DOMAIN drag.origins
        THEN MoveObjectToBounds(objects[i],
                TranslateBounds(drag.origins[i], p.x - drag.start.x, p.y - drag.start.y))
        ELSE objects[i]]

MovedTo(p) ==
    [i \in DOMAIN objects |->
        IF i \in DOMAIN drag.origins
        THEN MoveObjectToBounds(objects[i],
                TranslateBoundsInMode(drag.origins[i], p.x - drag.start.x, p.y - drag.start.y, mode))
        ELSE objects[i]]

\* The object the gesture found, with the payload it has now.
ResizedTo(p) ==
    LET b == ResizeBoundsInMode(drag.object.bounds, drag.handle, drag.start, p, mode)
    IN [objects EXCEPT ![drag.of] =
            ResizeObjectToBounds([drag.object EXCEPT !.ink = objects[drag.of].ink], b)]

\* The content has changed: so may the scroll bounds.
Rearranged(next) ==
    /\ objects' = next
    /\ view' = Settled(view, screen, next, pages)
    /\ UNCHANGED <<screen, locks, pages>>

Drag(p) ==
    /\ CASE drag.kind = "move" -> Rearranged(MovedTo(p)) /\ UNCHANGED drag
         [] drag.kind = "resize" ->
                /\ \A k \in DOMAIN ResizedTo(p)[drag.of].ink :
                       ResizedTo(p)[drag.of].ink[k] \in [x : -Far..Far, y : -Far..Far]
                /\ drag.pulls < MaxPulls /\ drag' = [drag EXCEPT !.pulls = @ + 1]
                /\ Rearranged(ResizedTo(p))
         [] drag.kind = "create" -> /\ drag' = [drag EXCEPT !.current = p]
                                    /\ UNCHANGED <<objects, window>>
         [] OTHER -> FALSE
    /\ UNCHANGED <<mode, before, stretched, steps>>

\* Mutant: the clamped object keeps the ends the drag gave it.
CreatedUnshifted(kind, raw, ink) ==
    [kind |-> kind, bounds |-> ClampBoundsToMode(raw, mode), ink |-> ink,
     z |-> NextZIndex(objects), locked |-> FALSE]

\* A new object: clamped onto the sheet, a line's ends with it, above all others.
Created(kind, raw, ink) ==
    LET b == ClampBoundsToMode(raw, mode)
        shifted(p) == At(p.x + b.x - raw.x, p.y + b.y - raw.y)
    IN [kind |-> kind, bounds |-> b, ink |-> MapInk(shifted, ink),
        z |-> NextZIndex(objects), locked |-> FALSE]

\* Too short a drag creates nothing.
Drop ==
    LET raw == DragBoundsFree(drag.start, drag.current)
        ends == <<drag.start, drag.current>>
        o == IF drag.what = "line"
             THEN Created("line", LineBounds(drag.start, drag.current, Padding), ends)
             ELSE Created(drag.what, raw, << >>)
        longEnough == IF drag.what = "line" THEN Apart2(drag.start, drag.current) >= Square(MinDrag)
                                            ELSE raw.width >= MinDrag \/ raw.height >= MinDrag
    IN /\ ~Idle
       /\ IF drag.kind = "create" /\ longEnough THEN Rearranged(Append(objects, o))
                                                ELSE UNCHANGED <<objects, window>>
       /\ drag' = NoDrag
       /\ UNCHANGED <<mode, before, stretched, steps>>

\* The browser takes the pointer away: nothing was committed, all goes back.
Cancel ==
    LET restored(i) == IF drag.kind = "move" /\ i \in DOMAIN drag.origins
                       THEN MoveObjectToBounds(objects[i], drag.origins[i])
                       ELSE IF drag.kind = "resize" /\ i = drag.of THEN drag.object
                       ELSE objects[i]
    IN /\ ~Idle
       /\ Rearranged([i \in DOMAIN objects |-> restored(i)])
       /\ drag' = NoDrag
       /\ UNCHANGED <<mode, before, stretched, steps>>

\* A pen stroke is captured beside the gestures and appended when it ends.
DrawStroke(points) ==
    LET raw == PointsToBounds(points, Padding)
    IN /\ Idle /\ steps < MaxSteps /\ steps' = steps + 1
       /\ Rearranged(Append(objects, Created("stroke", raw, points)))
       /\ before' = objects
       /\ UNCHANGED <<mode, drag, stretched>>

(***************************************************************************)
(* The view.                                                               *)
(***************************************************************************)
Look(v, s, l, n) ==
    /\ steps < MaxSteps /\ steps' = steps + 1
    /\ mode = "infinite" => v.x \in -Far..Far /\ v.y \in -Far..Far
    /\ view' = Settled(v, s, objects, n)
    /\ screen' = s /\ locks' = l /\ pages' = n
    /\ UNCHANGED scene

\* panBy and zoomAt: a lock keeps its axis, a horizontal one stops all zooming.
Panned(v, dx, dy) ==
    PanViewport(v, IF "x" \in locks THEN 0 ELSE dx, IF "y" \in locks THEN 0 ELSE dy)

Zoomed(v, anchor, asked) ==
    LET next == ZoomViewportAround(v, anchor, ClampScale(asked))
    IN IF "x" \in locks THEN v ELSE IF "y" \in locks THEN [next EXCEPT !.y = v.y] ELSE next

\* The wheel, a drag with the pan tool or one finger, its momentum.
Pan(dx, dy) == Look(Panned(view, dx, dy), screen, locks, pages)

\* The wheel with the control key.
Zoom(anchor, asked) == Look(Zoomed(view, anchor, asked), screen, locks, pages)

\* Two fingers zoom around the middle between them and take it along.
Pinch(anchor, asked, dx, dy) ==
    Look(Panned(Zoomed(view, anchor, asked), dx, dy), screen, locks, pages)

\* A scrollbar is dragged to a quarter of its track; it is shown where there is room.
Scroll(axis, quarters) ==
    LET h == HorizontalScroll(objects, mode, Visible(view, screen).width)
        v == VerticalScroll(objects, mode, pages, Visible(view, screen).height)
        to(bounds) == bounds.min + (quarters * (bounds.max - bounds.min)) \div 4
    IN /\ mode # "infinite" /\ axis \notin locks
       /\ IF axis = "x" THEN h.max > h.min /\ Look([view EXCEPT !.x = to(h)], screen, locks, pages)
                        ELSE v.max > v.min /\ Look([view EXCEPT !.y = to(v)], screen, locks, pages)

\* Sheets of limited width can be locked sideways, those of limited height up and down.
ToggleLock(axis) ==
    /\ IF axis = "x" THEN LimitedX(mode) ELSE LimitedY(mode)
    /\ Look(view, screen, IF axis \in locks THEN locks \ {axis} ELSE locks \cup {axis}, pages)

ResizeScreen(s) == s # screen /\ Look(view, s, locks, pages)

\* The sheet in the middle of the view gets a new one below it, and the view goes there.
AddPage ==
    LET middle == view.y + Visible(view, screen).height \div 2
        current == Within((middle + PageGap) \div (PageHeight + PageGap), 0, pages - 1)
        next == [view EXCEPT !.y = PageFrame(current + 1).y - PageMargin * view.scale]
    IN mode = "paged" /\ Look(next, screen, locks, pages + 1)

Next ==
    \/ \E i \in DOMAIN objects, p \in Pointers : DownOnHandle(i, p)
    \/ \E p \in Pointers, selected \in SUBSET DOMAIN objects : DownOnObject(p, selected)
    \/ \E p \in Pointers, kind \in {"line", "text"} : DownOnSheet(p, kind)
    \/ \E p \in Pointers : Drag(p)
    \/ Drop
    \/ Cancel
    \/ \E p, q \in Pointers : DrawStroke(<<p, q>>)
    \/ \E dx, dy \in Pans : Pan(dx, dy)
    \/ \E scale \in Scales, anchor \in Pointers :
           Zoom(anchor, scale) \/ \E d \in Pans : Pinch(anchor, scale, d, d)
    \/ \E axis \in {"x", "y"}, quarters \in 0..4 : Scroll(axis, quarters)
    \/ \E axis \in {"x", "y"} : ToggleLock(axis)
    \/ \E s \in Screens : ResizeScreen(s)
    \/ AddPage

Spec == Init /\ [][Next]_vars
-----------------------------------------------------------------------------
(***************************************************************************)
(* The variables hold what the program's refs and states can hold.         *)
(***************************************************************************)
DragOK ==
    \/ drag = NoDrag
    \/ drag \in [kind : {"resize"}, of : DOMAIN objects, handle : Handles, start : Point,
                  object : Object, pulls : 0..MaxPulls]
    \/ \E K \in SUBSET DOMAIN objects :
           drag \in [kind : {"move"}, start : Point, origins : [K -> Bounds]]
    \/ drag \in [kind : {"create"}, what : Kinds, start : Point, current : Point]

TypeOK ==
    /\ mode \in Modes
    /\ objects \in Seq(Object) /\ before \in Seq(Object)
    /\ DragOK
    /\ view \in [x : Int, y : Int, scale : MinScale..MaxScale]
    /\ screen \in [width : Nat, height : Nat]
    /\ locks \subseteq {"x", "y"}
    /\ pages \in Nat \ {0}
    /\ stretched \subseteq DOMAIN objects
    /\ steps \in 0..MaxSteps

(***************************************************************************)
(* However objects are created, dragged and resized, and whatever the      *)
(* pointer does outside the sheet, none crosses an edge of a limited axis  *)
(* further than the gesture found it (one thinner than MinSize found as    *)
(* wide as that: a handle of the other axis widens it); a new one lies on  *)
(* the sheet or, when it is longer, begins at its edge.                    *)
(***************************************************************************)
StaysOn(at, size, length, foundAt, foundSize) ==
    /\ at >= Lesser(0, foundAt)
    /\ at + size <= Greater(length, Greater(0, foundAt) + Greater(MinSize, foundSize))

BeginsOn(at, size, length) == at >= 0 /\ at + size <= Greater(length, size)

OnSheet ==
    \A i \in DOMAIN objects :
        LET b == objects[i].bounds
            found == before[i].bounds
        IN IF i \in DOMAIN before
           THEN /\ LimitedX(mode) => StaysOn(b.x, b.width, PageWidth, found.x, found.width)
                /\ LimitedY(mode) => StaysOn(b.y, b.height, PageHeight, found.y, found.height)
           ELSE /\ LimitedX(mode) => BeginsOn(b.x, b.width, PageWidth)
                /\ LimitedY(mode) => BeginsOn(b.y, b.height, PageHeight)

(***************************************************************************)
(* What an object draws by coordinates stays inside its bounds, through    *)
(* clamping at creation, moves of a selection and their cancellation:      *)
(* culling, hit tests, selection and the server's regional query go by the *)
(* bounds alone.  A resize is left out here, see ResizedInkFollows.        *)
(***************************************************************************)
InkFollowsBounds == \A i \in DOMAIN objects \ stretched : InkInside(objects[i])

(***************************************************************************)
(* "Resizes vector endpoint payloads with their selection bounds", says    *)
(* resizeObjectToBounds.  Each move of the pointer scales the ends the     *)
(* previous one has already scaled by the whole factor of the gesture, so  *)
(* a line leaves its bounds at the second move.                            *)
(***************************************************************************)
ResizedInkFollows == \A i \in stretched : InkInside(objects[i])

(***************************************************************************)
(* A resize never slides the edge opposite to the handle, nor an edge of   *)
(* the other axis, however far the pointer goes, and leaves an object that *)
(* lay on the sheet at least MinSize long.                                 *)
(***************************************************************************)
ResizeHolds ==
    drag.kind = "resize" =>
        LET b == objects[drag.of].bounds
            found == drag.object.bounds
            onSheet == /\ found.width >= MinSize /\ found.height >= MinSize
                       /\ LimitedX(mode) => found.x >= 0 /\ found.x + found.width <= PageWidth
                       /\ LimitedY(mode) => found.y >= 0 /\ found.y + found.height <= PageHeight
        IN onSheet =>
            /\ IF drag.handle \in West THEN b.x + b.width = found.x + found.width ELSE b.x = found.x
            /\ IF drag.handle \in North THEN b.y + b.height = found.y + found.height ELSE b.y = found.y
            /\ b.width >= MinSize /\ b.height >= MinSize

(***************************************************************************)
(* Whatever the wheel, the scrollbars, zooms, new sizes of the window and  *)
(* changes of the content do, three quarters of the screen or the whole    *)
(* content stay in view along a closed axis; along the open one the view   *)
(* never begins further than a quarter of a screen behind the content, and *)
(* a screen of blank sheet can always be reached.                          *)
(***************************************************************************)
InView(from, visible, content) ==
    Lesser(content, from + visible) - Greater(0, from) >= Lesser(content, 3 * (visible \div 4))

InOpenView(from, visible, content) ==
    /\ from <= Greater(content + visible \div 4, (content - visible) \div 2)
    /\ from < 0 => InView(from, visible, content)

ContentStaysInView ==
    mode # "infinite" =>
        LET shown == Visible(view, screen)
            width == ContentWidth(objects, mode)
            height == ContentHeight(objects, mode, pages)
        IN /\ IF LimitedX(mode) THEN InView(view.x, shown.width, width)
                                ELSE InOpenView(view.x, shown.width, width)
           /\ IF LimitedY(mode) THEN InView(view.y, shown.height, height)
                                ELSE InOpenView(view.y, shown.height, height)

(***************************************************************************)
(* The contract asks every object for a positive width and height          *)
(* (packages/shared/src/contracts.ts, boundsSchema), and the server        *)
(* refuses the whole batch of operations otherwise.  A drag along an axis  *)
(* creates a flat object.                                                  *)
(***************************************************************************)
ObjectsHaveExtent ==
    \A i \in DOMAIN objects : objects[i].bounds.width > 0 /\ objects[i].bounds.height > 0
=============================================================================
