------------------------- MODULE OperationOutcomes --------------------------
(***************************************************************************)
(* What the synchronization service promises about the operations clients  *)
(* send, whatever the number of concurrent deliveries: an operation is     *)
(* decided at most once while the service remembers it.  Either it takes   *)
(* effect on its own object and on no other, or it is parked as a conflict *)
(* and touches no object.  The other ways an object changes (an owner's    *)
(* resolution of a conflict, the restore of a snapshot, the insertion of a *)
(* page) decide no operation, and forgetting operations changes no object  *)
(* unless the note that held both is purged.                               *)
(***************************************************************************)
CONSTANTS
    Objects,
    OpIds,
    ObjectOf,       \* [OpIds -> Objects]: the object an operation is about
    MaybeVersion,   \* the states an object may be in
    Absent          \* the one that says the object does not exist

VARIABLES
    outcome,   \* outcome[id] is "none", "applied" or "conflict"
    value      \* value[o] is the authoritative state of o

vars == <<outcome, value>>

Init ==
    /\ outcome = [id \in OpIds |-> "none"]
    /\ value \in [Objects -> MaybeVersion]

\* The operation takes effect; only its own object may change.
Apply(id) ==
    /\ outcome[id] = "none"
    /\ outcome' = [outcome EXCEPT ![id] = "applied"]
    /\ value' \in [Objects -> MaybeVersion]
    /\ \A o \in Objects \ {ObjectOf[id]} : value'[o] = value[o]

\* The operation is kept for its owner to resolve; no object changes.
Park(id) ==
    /\ outcome[id] = "none"
    /\ outcome' = [outcome EXCEPT ![id] = "conflict"]
    /\ UNCHANGED value

\* A change that comes from no client operation.
OwnerChange ==
    /\ value' \in [Objects -> MaybeVersion]
    /\ UNCHANGED outcome

\* Retention forgets some decided operations.
Forget ==
    /\ \E gone \in SUBSET OpIds :
           outcome' = [id \in OpIds |-> IF id \in gone THEN "none" ELSE outcome[id]]
    /\ UNCHANGED value

\* A purged note takes its objects and its operations with it.
Purge(objs) ==
    /\ outcome' = [id \in OpIds |-> IF ObjectOf[id] \in objs THEN "none" ELSE outcome[id]]
    /\ value' = [o \in Objects |-> IF o \in objs THEN Absent ELSE value[o]]

Next ==
    \/ \E id \in OpIds : Apply(id) \/ Park(id)
    \/ OwnerChange
    \/ Forget
    \/ \E objs \in SUBSET Objects : Purge(objs)

Spec == Init /\ [][Next]_vars
=============================================================================
