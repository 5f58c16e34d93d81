------------------------------ MODULE FieldStates ------------------------------
(***************************************************************************)
(* Conflict resolution on a device (sync/conflict.ts): the provenance kept *)
(* per object and field, and which of two operations a field follows.      *)
(*                                                                         *)
(* An operation is a record with its ordering key (lam, dev, id), its kind *)
(* and the values it carries: title (title and url) and move (parent and   *)
(* position, one compound field).  Device ids are numbers, in the order of *)
(* the UUIDs they stand for.  A field state is the operation that last won *)
(* the field.                                                              *)
(***************************************************************************)
EXTENDS Naturals, Sequences

CONSTANT NoState   \* no record for this field

Fields == {"liveness", "title", "move"}

\* compareOrderingKey(a, b) > 0
Beats(a, b) ==
  \/ a.lam > b.lam
  \/ a.lam = b.lam /\ a.dev > b.dev
  \/ a.lam = b.lam /\ a.dev = b.dev /\ a.id > b.id

\* What an operation says of an object's liveness.
Deletes(op) == op.kind = "delete"

TakesByKey(field, current, op) == current = NoState \/ Beats(op, current)

(***************************************************************************)
(* arbitrateField: does op take the field from the operation that holds    *)
(* it?  The higher key does, except that a delete beats a move whatever    *)
(* their keys and a move never revives.                                    *)
(***************************************************************************)
Takes(field, current, op) ==
  \/ current = NoState
  \/ field = "liveness" /\ Deletes(op) /\ current.kind = "move"
  \/ /\ ~(field = "liveness" /\ op.kind = "move" /\ Deletes(current))
     /\ Beats(op, current)

(***************************************************************************)
(* The fields a remote operation resolves.                                 *)
(***************************************************************************)
FieldsOf(op) ==
  CASE op.kind \in {"create", "restore"} -> Fields
    [] op.kind = "update"                -> {"liveness", "title"}
    [] op.kind = "move"                  -> {"liveness", "move"}
    [] op.kind = "delete"                -> {"liveness"}
    [] OTHER                             -> {}

\* The fields op wins against the states of its object.
Wins(states, op) == {f \in FieldsOf(op) : Takes(f, states[f], op)}

\* putFieldState(s): op holds the fields fs from now on.
Put(states, fs, op) == [f \in Fields |-> IF f \in fs THEN op ELSE states[f]]

\* resolveFields: the states of one object after op, in one transaction.
Resolved(states, op) == Put(states, Wins(states, op), op)

(***************************************************************************)
(* The fields a local operation records, without arbitration: a local      *)
(* update or move says nothing of liveness.                                *)
(***************************************************************************)
LocalFieldsOf(op) ==
  CASE op.kind = "update" -> {"title"}
    [] op.kind = "move"   -> {"move"}
    [] OTHER              -> FieldsOf(op)

\* recordLocalFieldState(s)
Recorded(states, op) == Put(states, LocalFieldsOf(op), op)

Blank == [f \in Fields |-> NoState]

IsLive(states) == states["liveness"] # NoState /\ ~Deletes(states["liveness"])
===============================================================================
