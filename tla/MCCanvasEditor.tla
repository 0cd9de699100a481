---------------------------- MODULE MCCanvasEditor ----------------------------
(* Two notes: a shape in the first one's cache, a stroke and a page of a PDF to be made. *)
EXTENDS CanvasEditor

MCIds == {"shape", "drawn", "page"}
MCKindOf == [id \in MCIds |-> CASE id = "drawn" -> "stroke"
                                [] id = "shape" -> "shape"
                                [] id = "page" -> "page"]
Stored(id) == [id |-> id, home |-> 1, place |-> 0, text |-> 0, revision |-> 0]
MCCached == <<<<Stored("shape")>>, << >>>>
=============================================================================
