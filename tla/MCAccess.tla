------------------------------- MODULE MCAccess -------------------------------
(***************************************************************************)
(* Three beginnings.  Nobody has enrolled, and servers start and reset the *)
(* account, two processes at a time; the same with a configured token,     *)
(* while connections break and the server crashes; and two browsers that   *)
(* are signed in edit the palette, while connections break.                *)
(***************************************************************************)
EXTENDS Access, TLC

MCSlots == 1..2
Begun(holds, signedIn, token, failures, edits, ran) ==
    [holder |-> holds, signedIn |-> signedIn, preset |-> token,
     spent |-> [failures |-> failures, edits |-> edits, commands |-> ran]]

Nobody == [k \in Keys |-> None]
Unenrolled == {Begun(Nobody, << >>, token, IF token = None THEN MaxFailures ELSE 0, MaxEdits, 0) :
                   token \in Presets}
SignedIn == {Begun(holds, <<d, e>>, None, 0, 0, MaxCommands) :
                 holds \in Bijection(Keys, Devices), d \in Devices, e \in Devices}
MCStarts == Unenrolled \cup {start \in SignedIn : start.signedIn[1] # start.signedIn[2]}
MCSymmetry == Permutations(Keys) \cup Permutations(Devices)
===============================================================================
