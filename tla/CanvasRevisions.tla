-------------------------- MODULE CanvasRevisions ---------------------------
(***************************************************************************)
(* The revision rules of Aurora's canvas objects, shared by the server and *)
(* client modules: how the server classifies an operation against the      *)
(* authoritative object and which revision each kind of mutation assigns.  *)
(* A version of an object is its revision and its content; the content is  *)
(* an opaque value, since no rule looks inside the bounds or the payload.  *)
(***************************************************************************)
EXTENDS Integers

CONSTANTS
    Contents,   \* what an upsert may write
    Absent,     \* stands for "no row in canvas_objects"
    Deleted     \* the mutation of a delete operation

ASSUME AbsentIsNoVersion == Absent \notin [revision : Nat, content : Contents]
ASSUME AbsentIsNoContent == Absent \notin Contents
ASSUME DeletedIsNoContent == Deleted \notin Contents

Version == [revision : Nat, content : Contents]
MaybeVersion == Version \cup {Absent}

\* An upsert carries the whole object, a delete only its marker.
Mutation == Contents \cup {Deleted}

Larger(a, b) == IF a >= b THEN a ELSE b

\* classifyOperation: TRUE for "apply", FALSE for "conflict".
Applies(current, base) ==
    IF current = Absent THEN base = 0 ELSE current.revision = base

\* The revision an applied or resolved upsert receives.
NextRevision(current) == IF current = Absent THEN 0 ELSE current.revision + 1

\* nextRestoredObjectRevision, with the object's live row if it still has one.
RestoredRevision(previous, noteRevision) ==
    Larger(IF previous = Absent THEN -1 ELSE previous.revision, noteRevision) + 1
=============================================================================
