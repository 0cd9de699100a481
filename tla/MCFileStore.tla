---------------------------- MODULE MCFileStore ----------------------------
(***************************************************************************)
(* Small instances of FileStore.                                           *)
(***************************************************************************)
EXTENDS FileStore, TLC

CONSTANTS o1, o2, x1, x2

\* Each owner has an object.
OneEach == [x \in Objects |-> IF x = x1 THEN o1 ELSE o2]

\* None of these values occurs in the specification by name; the owners change
\* places together with their objects.
SwapOwners == (o1 :> o2) @@ (o2 :> o1) @@ (x1 :> x2) @@ (x2 :> x1)
Interchangeable == Permutations(Uploads) \cup Permutations(Cleaners) \cup {SwapOwners}
=============================================================================
