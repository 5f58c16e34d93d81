------------------------------ MODULE Convergence ------------------------------
(***************************************************************************)
(* One bookmark on several devices of an account: local changes are        *)
(* captured, uploaded, delivered in the order of the server's log, and     *)
(* arbitrated field by field, while a device may come back from a snapshot *)
(* and a restore may bring the bookmark back.                              *)
(*                                                                         *)
(* What the browser shows (node) and what the device recorded (states) are *)
(* apart: the user changes the first at once and the capture flush the     *)
(* second later; a remote operation changes the second in a transaction    *)
(* and the first in a chrome.bookmarks call after it.  Payloads are        *)
(* encrypted, so the server merges whole objects.  Sequences, retries and  *)
(* crashes are in UploadProtocol, DownloadProtocol and BookmarkApply.      *)
(***************************************************************************)
EXTENDS FieldStates, SequencesExt

CONSTANTS
  Devices,      \* device ids, as numbers above 0 (SNAPSHOT_DEVICE_ID is 0)
  Kinds,        \* what users do: update, move, delete
  NoOp,
  MaxChanges,   \* bound on user changes
  MaxRestores,  \* bound on restores
  MaxFolds      \* bound on compactions

\* An operation, or what stands for one in a snapshot.
OpRecord ==
  [id : Nat, dev : Nat, lam : Nat,
   kind : {"create", "update", "move", "delete", "restore"}]

ASSUME MarkersAssumption == {NoOp, NoState} \cap OpRecord = {}

ASSUME DevicesAssumption ==
  /\ Devices \subseteq Nat \ {0} /\ 1 \in Devices
  /\ Kinds \subseteq {"update", "move", "delete"}
  /\ {MaxChanges, MaxRestores, MaxFolds} \subseteq Nat

VARIABLES
  clock,    \* sync_state.lamportClock
  states,   \* field_state, of the one object
  node,     \* the bookmark in the browser: there or not, its title and place
  mapped,   \* object_mappings has the object
  queued,   \* the capture queue
  made,     \* operations created whose field states are not recorded yet
  outbox,   \* pending_operations
  at,       \* sync_state.cursor
  todo,     \* the resolved operation whose browser change is due
  log,      \* sync_operations
  folded,   \* the log up to here is in the stored snapshot
  base,     \* the object in the stored snapshot
  tomb,     \* its tombstone: the delete, and whether it is active
  changes, restores, folds,
  mixed     \* <<device, field>> where a local change and a remote one crossed, a
            \* restore met a newer change or a bookmark still there, or which came
            \* back from a snapshot

device == <<clock, states, node, mapped, queued, made, outbox, at, todo>>
server == <<log, folded, base, tomb>>
vars   == <<device, server, changes, restores, folds, mixed>>

Op(d, n, l, k) == [id |-> n, dev |-> d, lam |-> l, kind |-> k]

\* A create or restore carries every field.
Opens(op) == op.kind \in {"create", "restore"}

First == Op(1, 0, 1, "create")

Larger(a, b) == IF a > b THEN a ELSE b

Idle == [op |-> NoOp, wins |-> {}, next |-> 0]

\* The bookmark was made on device 1 and everyone has it.
Init ==
  /\ clock  = [d \in Devices |-> IF d = 1 THEN 1 ELSE 2]
  /\ states = [d \in Devices |-> Resolved(Blank, First)]
  /\ node   = [d \in Devices |-> [in |-> TRUE, title |-> 0, move |-> 0]]
  /\ mapped = [d \in Devices |-> TRUE]
  /\ queued = [d \in Devices |-> << >>]
  /\ made   = [d \in Devices |-> {}]
  /\ outbox = [d \in Devices |-> << >>]
  /\ at     = [d \in Devices |-> 1]
  /\ todo   = [d \in Devices |-> Idle]
  /\ log    = <<First>>
  /\ folded = 0 /\ base = NoOp /\ tomb = [op |-> NoOp, active |-> FALSE]
  /\ changes = 0 /\ restores = 0 /\ folds = 0 /\ mixed = {}
-------------------------------------------------------------------------------
\* The fields of op that other local changes, queued or not recorded yet, are
\* about too.
Crossed(d, op) ==
  FieldsOf(op) \cap UNION {LocalFieldsOf(c) : c \in Range(queued[d]) \union (made[d] \ {op})}

Mixes(d, fs) == mixed' = mixed \union ({d} \X fs)

(***************************************************************************)
(* Local changes.  A change is known by its number, which is the value it  *)
(* writes and later the id of its operation.                               *)
(***************************************************************************)
UserChange(d, k) ==
  /\ changes < MaxChanges /\ node[d].in
  /\ changes' = changes + 1
  /\ node' = [node EXCEPT ![d] =
       CASE k = "update" -> [@ EXCEPT !.title = changes']
         [] k = "move"   -> [@ EXCEPT !.move = changes']
         [] k = "delete" -> [@ EXCEPT !.in = FALSE]]
  /\ queued' = [queued EXCEPT ![d] = Append(@, [kind |-> k, val |-> changes'])]
  /\ Mixes(d, IF todo[d].op = NoOp THEN {}
              ELSE LocalFieldsOf([kind |-> k]) \cap FieldsOf(todo[d].op))
  /\ UNCHANGED <<clock, states, mapped, made, outbox, at, todo, server, restores, folds>>

(***************************************************************************)
(* flushBookmarkEvents for the next event: a change of a node without a    *)
(* mapping, or an update or move of a node that is gone, is dropped; a     *)
(* removal forgets the mapping; the operation is stamped and enqueued.     *)
(***************************************************************************)
Capture(d) ==
  /\ queued[d] # << >>
  /\ queued' = [queued EXCEPT ![d] = Tail(@)]
  /\ LET ev == Head(queued[d])
         op == Op(d, ev.val, clock[d] + 1, ev.kind)
     IN IF mapped[d] /\ (ev.kind = "delete" \/ node[d].in)
          THEN /\ clock'  = [clock EXCEPT ![d] = @ + 1]
               /\ mapped' = [mapped EXCEPT ![d] = ev.kind # "delete"]
               /\ outbox' = [outbox EXCEPT ![d] = Append(@, op)]
               /\ made'   = [made EXCEPT ![d] = @ \union {op}]
          ELSE UNCHANGED <<clock, mapped, outbox, made>>
  /\ UNCHANGED <<states, node, at, todo, server, changes, restores, folds, mixed>>

\* recordLocalFieldStatesBatch, after the await.
Record(d) ==
  \E op \in made[d] :
    /\ states' = [states EXCEPT ![d] = Recorded(@, op)]
    /\ made' = [made EXCEPT ![d] = @ \ {op}]
    /\ Mixes(d, {f \in LocalFieldsOf(op) : states[d][f] # NoState /\ Beats(states[d][f], op)})
    /\ UNCHANGED <<clock, node, mapped, queued, outbox, at, todo, server,
                   changes, restores, folds>>

(***************************************************************************)
(* A restore point brings the bookmark back: the operation is created and  *)
(* then applied like a remote one (applyRestoreOperations), with the sync  *)
(* slot held and the capture queue drained.                                *)
(***************************************************************************)
Restore(d) ==
  /\ restores < MaxRestores /\ ~node[d].in
  /\ queued[d] = << >> /\ made[d] = {} /\ todo[d] = Idle
  /\ restores' = restores + 1
  /\ LET op == Op(d, MaxChanges + restores', clock[d] + 1, "restore")
     IN /\ clock'  = [clock EXCEPT ![d] = @ + 1]
        /\ outbox' = [outbox EXCEPT ![d] = Append(@, op)]
        /\ states' = [states EXCEPT ![d] = Resolved(@, op)]
        /\ todo'   = [todo EXCEPT ![d] =
                        [op |-> op, wins |-> Wins(states[d], op), next |-> at[d]]]
  /\ UNCHANGED <<node, mapped, queued, made, at, server, changes, folds, mixed>>
-------------------------------------------------------------------------------
(***************************************************************************)
(* The server: the log, the tombstone of the object, and the snapshot.     *)
(***************************************************************************)
Upload(d) ==
  /\ outbox[d] # << >>
  /\ outbox' = [outbox EXCEPT ![d] = Tail(@)]
  /\ log' = Append(log, Head(outbox[d]))
  /\ tomb' = LET op == Head(outbox[d])
             IN IF Deletes(op) THEN [op |-> op, active |-> TRUE]
                ELSE IF op.kind = "restore" THEN [tomb EXCEPT !.active = FALSE]
                ELSE tomb
  /\ UNCHANGED <<clock, states, node, mapped, queued, made, at, todo, folded,
                 base, changes, restores, folds, mixed>>

\* The highest key of a set of operations.
Top(S) == CHOOSE o \in S : \A p \in S \ {o} : Beats(o, p)

\* combine_object on encrypted payloads: the newest of the rows after the
\* snapshot replaces what the snapshot had.
Combined ==
  IF folded = Len(log) THEN base
  ELSE Top({log[i] : i \in (folded + 1)..Len(log)})

ListedUnfiltered ==
  IF Combined = NoOp \/ (Combined # NoOp /\ Deletes(Combined)) THEN NoOp ELSE Combined

\* filter_tombstoned: a closing operation is no object, and an active
\* tombstone hides one with a lower key.
Listed ==
  IF Combined = NoOp \/ (Combined # NoOp /\ Deletes(Combined)) THEN NoOp
  ELSE IF tomb.active /\ ~Beats(Combined, tomb.op) THEN NoOp
  ELSE Combined

\* compact_user: the snapshot stores the listed object, the rows go.
Compact ==
  /\ folds < MaxFolds /\ folded < Len(log)
  /\ folds' = folds + 1
  /\ base' = Listed
  /\ folded' = Len(log)
  /\ UNCHANGED <<device, log, tomb, changes, restores, mixed>>
-------------------------------------------------------------------------------
(***************************************************************************)
(* Remote operations.                                                      *)
(***************************************************************************)
\* The next row after the cursor, the device's own ones included: the clock
\* moves past it and its fields are resolved in one transaction.
Receive(d) ==
  /\ todo[d] = Idle /\ at[d] >= folded /\ at[d] < Len(log)
  /\ LET i    == at[d] + 1
         op   == log[i]
         wins == Wins(states[d], op)
     IN /\ clock'  = [clock EXCEPT ![d] = Larger(@, op.lam) + 1]
        /\ states' = [states EXCEPT ![d] = Resolved(@, op)]
        /\ todo'   = [todo EXCEPT ![d] = [op |-> op, wins |-> wins, next |-> i]]
        /\ Mixes(d, IF Opens(op) /\ wins # {} /\ (wins # Fields \/ node[d].in)
                    THEN Fields ELSE Crossed(d, op))
  /\ UNCHANGED <<node, mapped, queued, made, outbox, at, server, changes,
                 restores, folds>>

\* syntheticSnapshotOp: a listed object keeps the key of its operation, a
\* tombstone becomes a delete under a key of this device's making.
SyntheticSnapshotOp(lam) ==
  IF Listed # NoOp THEN Listed
  ELSE IF tomb.active THEN Op(0, 0, lam, "delete")
  ELSE NoOp

(***************************************************************************)
(* applySnapshot when the cursor is below the floor: the field states are  *)
(* cleared and what the snapshot says of the object lands unconditionally. *)
(***************************************************************************)
Resync(d) ==
  /\ todo[d] = Idle /\ at[d] < folded
  /\ LET lam == Larger(clock[d], IF Listed = NoOp THEN 0 ELSE Listed.lam) + 1
         op  == SyntheticSnapshotOp(lam)
     IN /\ clock'  = [clock EXCEPT ![d] = lam]
        /\ states' = [states EXCEPT ![d] =
                        IF op = NoOp THEN Blank ELSE Resolved(Blank, op)]
        /\ todo'   = [todo EXCEPT ![d] =
                        [op |-> op, wins |-> IF op = NoOp THEN {} ELSE FieldsOf(op),
                         next |-> Len(log)]]
  /\ Mixes(d, Fields)
  /\ UNCHANGED <<node, mapped, queued, made, outbox, at, server, changes, restores, folds>>

\* The browser change an operation is due after its fields were resolved
\* (applyRemote): materialize, applyTitle, applyMove, applyDelete.
Shown(d, op, wins) ==
  IF op = NoOp THEN node[d] ELSE
  CASE Opens(op) /\ "liveness" \in wins ->
         IF mapped[d] /\ node[d].in
           THEN IF op.kind = "restore" THEN [node[d] EXCEPT !.move = op.id] ELSE node[d]
           ELSE [in |-> TRUE, title |-> op.id, move |-> op.id]
    [] op.kind = "update" /\ "title" \in wins /\ mapped[d] ->
         [node[d] EXCEPT !.title = op.id]
    [] op.kind = "move" /\ "move" \in wins /\ IsLive(states[d]) /\ mapped[d] ->
         [node[d] EXCEPT !.move = op.id]
    [] op.kind = "delete" /\ "liveness" \in wins ->
         [node[d] EXCEPT !.in = FALSE]
    [] OTHER -> node[d]

Mutate(d) ==
  /\ todo[d] # Idle
  /\ LET op == todo[d].op
         wins == todo[d].wins
     IN /\ node' = [node EXCEPT ![d] = Shown(d, op, wins)]
        /\ mapped' = [mapped EXCEPT ![d] =
             IF "liveness" \in wins /\ Opens(op) THEN TRUE
             ELSE IF "liveness" \in wins /\ Deletes(op) THEN FALSE
             ELSE @]
  /\ at' = [at EXCEPT ![d] = todo[d].next]
  /\ todo' = [todo EXCEPT ![d] = Idle]
  /\ UNCHANGED <<clock, states, queued, made, outbox, server, changes, restores, folds, mixed>>
-------------------------------------------------------------------------------
Next ==
  \/ \E d \in Devices :
       \/ \E k \in Kinds : UserChange(d, k)
       \/ Capture(d) \/ Record(d) \/ Restore(d)
       \/ Upload(d) \/ Receive(d) \/ Resync(d) \/ Mutate(d)
  \/ Compact

Spec == Init /\ [][Next]_vars

Quiet ==
  \A d \in Devices :
    /\ queued[d] = << >> /\ made[d] = {} /\ outbox[d] = << >>
    /\ todo[d] = Idle /\ at[d] = Len(log)

Rows == {log[i] : i \in DOMAIN log}

(***************************************************************************)
(* When everything is delivered, every device holds, for title and move,   *)
(* the operation with the highest key of all that wrote the field, and     *)
(* shows its value, whatever the order of uploads and deliveries and       *)
(* whatever local changes waited meanwhile (arbitrateField).  Excepted is  *)
(* a field of which a local and a remote change crossed on the device: it  *)
(* takes neither the device's other fields nor the other devices with it,  *)
(* but where liveness is in doubt only what is recorded is right.          *)
(***************************************************************************)
WinnerEverywhere ==
  Quiet =>
    \A d \in Devices : \A f \in {g \in {"title", "move"} : <<d, g>> \notin mixed} :
      LET winner == Top({op \in Rows : f \in LocalFieldsOf(op)})
      IN /\ states[d][f] = winner
         /\ node[d].in /\ <<d, "liveness">> \notin mixed => node[d][f] = winner.id

(***************************************************************************)
(* A delete that only moves have overtaken removes the bookmark from every *)
(* device, although moves with higher keys arrive before it on some and    *)
(* after it on others (the liveness exception of arbitrateField).          *)
(***************************************************************************)
DeleteWins ==
  Quiet /\ (\E del \in Rows : /\ Deletes(del)
                              /\ \A op \in Rows \ {del} :
                                   op.kind = "move" \/ Beats(del, op))
  => \A d \in Devices : <<d, "liveness">> \in mixed \/ ~node[d].in

(***************************************************************************)
(* Devices agree: on the winner of every field, and on what is deleted.    *)
(***************************************************************************)
Converges == WinnerEverywhere /\ DeleteWins

(***************************************************************************)
(* The snapshot does not list a bookmark whose newest operation is a       *)
(* delete, even when the delete's row has been compacted away and older    *)
(* updates are uploaded after it, as long as no later row deleted or       *)
(* restored it again (tombstone upsert, combine_object, filter_tombstoned).*)
(***************************************************************************)
SnapshotHonoursDelete ==
  \A i \in DOMAIN log :
    /\ Deletes(log[i]) /\ log[i] = Top(Rows)
    /\ \A j \in DOMAIN log : j > i => log[j].kind \notin {"delete", "restore"}
    => Listed = NoOp
===============================================================================
