---------------------------- MODULE MCChatTurns ----------------------------
(***************************************************************************)
(* Small instances of ChatTurns.                                           *)
(***************************************************************************)
EXTENDS ChatTurns, TLC

Interchangeable == Permutations(Turns) \cup Permutations(Tabs)
=============================================================================
