------------------------------ MODULE MCLibrary ------------------------------
\* A project with a folder in a folder and a paged note in it, beside an empty
\* project; and a library with nothing in it.
EXTENDS Library, TLC
row(p, f) == [project |-> p, folder |-> f, name |-> "old"]
Shelf == [projects |-> ("p" :> "old" @@ "q" :> "old"),
          folders |-> ("f" :> row("p", None) @@ "g" :> row("p", "f")),
          notes |-> ("n" :> [project |-> "p", folder |-> "g", name |-> "old", flags |-> {}, paged |-> TRUE, pages |-> <<0>>]),
          links |-> {}, snapshots |-> {}]
Bare == [projects |-> << >>, folders |-> << >>, notes |-> << >>, links |-> {}, snapshots |-> {}]
TheShelves == {Shelf, Bare}
=============================================================================
