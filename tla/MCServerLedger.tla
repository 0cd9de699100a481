--------------------------- MODULE MCServerLedger ---------------------------
(***************************************************************************)
(* Small instances of ServerLedger: the placement of objects in notes and  *)
(* of operation ids on objects, and the symmetry of interchangeable values.*)
(***************************************************************************)
EXTENDS ServerLedger, TLC

\* All objects in one note and all operation ids on one object: the instance
\* in which every pair of requests interferes.
OneNote == [o \in Objects |-> CHOOSE n \in Notes : TRUE]
OneObject == [id \in OpIds |-> CHOOSE o \in Objects : TRUE]

\* None of these values occurs in the specification by name.
Interchangeable == Permutations(Handlers) \cup Permutations(OpIds) \cup Permutations(ConflictIds)
=============================================================================
