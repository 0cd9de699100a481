---------------------------- MODULE MCSyncSystem ----------------------------
(***************************************************************************)
(* Small instances of SyncSystem.                                          *)
(***************************************************************************)
EXTENDS SyncSystem, TLC

\* An object every device has, at revision 1; no edit made its content.
Existing == [revision |-> 1, content |-> 0]

DeviceSymmetry == Permutations(Devices)
=============================================================================
