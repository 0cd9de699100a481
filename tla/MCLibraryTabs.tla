---------------------------- MODULE MCLibraryTabs ----------------------------
\* A project with a note in a folder.
EXTENDS LibraryTabs, TLC
row(p, f) == [project |-> p, folder |-> f, name |-> "old"]
Shelf == [projects |-> ("p" :> "old"),
          folders |-> ("f" :> row("p", None)),
          notes |-> ("n" :> [project |-> "p", folder |-> "f", name |-> "old", flags |-> {}, paged |-> TRUE, pages |-> <<0>>]),
          links |-> {}, snapshots |-> {}]
TheShelves == {Shelf}
=============================================================================
