--------------------------- MODULE MCCanvasSurface ---------------------------
(* A Letter sheet in units of 8 pixels, two objects, a few places for the pointer. *)
EXTENDS CanvasSurface

Shape(kind, x, y, width, height, ink, z, locked) ==
    [kind |-> kind, bounds |-> [x |-> x, y |-> y, width |-> width, height |-> height],
     ink |-> ink, z |-> z, locked |-> locked]

\* A line at the right edge over a text of the same z; two strokes of one z over an
\* image; a locked page of a PDF that reaches below the sheet, under a line without ends.
MCScenes ==
    {<<Shape("text", 84, 4, 14, 8, << >>, 1, FALSE),
       Shape("line", 86, 4, 12, 4, <<At(87, 5), At(97, 7)>>, 1, FALSE)>>,
     <<Shape("image", 0, 0, 50, 40, << >>, 2, FALSE),
       Shape("stroke", 2, 3, 14, 8, <<At(3, 4), At(15, 10)>>, 1, FALSE),
       Shape("stroke", 2, 3, 14, 8, <<At(3, 4), At(15, 10)>>, 1, FALSE)>>,
     <<Shape("image", 0, 0, 90, 250, << >>, 1, TRUE),
       Shape("line", 0, 4, 16, 2, << >>, 2, FALSE)>>}

\* On the corner of the text and inside it, on the strokes, off two sides of the sheet.
MCPointers == {At(84, 4), At(92, 6), At(3, 4), At(-8, 4), At(108, 90)}

MCPans == {-60, 0, 40}
MCScreens == {[width |-> 48, height |-> 40], [width |-> 148, height |-> 100]}
MCHome == [x |-> -8, y |-> -12]
=============================================================================
