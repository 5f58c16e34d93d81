----------------------------- MODULE RestorePoints -----------------------------
(***************************************************************************)
(* The life of a restore point on one device and on the server: captured    *)
(* from the live tree by the user or by a trigger (restore-points/          *)
(* service.ts, triggers.ts, create.ts), queued in the outbox (outbox.ts),   *)
(* uploaded, evicted, pinned, deleted and retired (server/src/              *)
(* restore_points/routes.rs, housekeeping.rs).                              *)
(*                                                                         *)
(* Every point has the same size, so the server's limit is on their number, *)
(* and time is abstracted: a stored daily point may or may not be recent.   *)
(***************************************************************************)
EXTENDS RestorePlan

CONSTANTS
  Starts,            \* the trees, stored points and budgets a behaviour starts from
  MaxPerAccount,     \* RESTORE_POINT_MAX_PER_ACCOUNT
  MaxPinned,         \* RESTORE_POINT_MAX_PINNED
  MaxAttempts,       \* MAX_ATTEMPTS of the outbox
  MassDelete,        \* MASS_DELETE_THRESHOLD
  NoNodes            \* no tree hash recorded yet

ASSUME PointConstants ==
  /\ MaxPerAccount \in Nat \ {0} /\ MaxPinned \in 0 .. MaxPerAccount
  /\ MaxAttempts \in Nat \ {0} /\ MassDelete \in Nat \ {0}
  /\ \A s \in Starts : IsTree(s.tree) /\ ValidPoint(s.nodes)

VARIABLES
  tree,       \* the browser's bookmarks
  removed,    \* removed subtrees whose capture events are not flushed yet
  store,      \* the server's points, oldest first
  automatic,  \* the account's restorePointsAutomatic setting
  outbox,     \* restore_point_outbox, oldest first
  lastTree,   \* restorePointLastTreeHash
  nextId,     \* the next point id
  budget      \* what may still happen: edits, points made, faults, management

pointVars == <<tree, removed, store, automatic, outbox, lastTree, nextId, budget>>

NoneRemoved == [o \in {} |-> Root]

PointsInit ==
  \E s \in Starts :
    /\ tree = s.tree
    /\ store = <<[id |-> 1, kind |-> "manual", pinned |-> FALSE, nodes |-> s.nodes]>>
    /\ budget = s.budget
    /\ removed = NoneRemoved /\ automatic = TRUE /\ outbox = <<>>
    /\ lastTree = NoNodes /\ nextId = 2

Spend(what) == budget[what] > 0 /\ budget' = [budget EXCEPT ![what] = @ - 1]

-----------------------------------------------------------------------------
(* The server. *)

Ids(points) == {points[i].id : i \in DOMAIN points}
Automatic(kind) == kind # "manual"

\* Oldest unpinned first, automatic kinds before manual ones, never the new
\* point, which is the last of points.
Victims(points) ==
  LET open == {i \in 1 .. Len(points) - 1 : ~points[i].pinned}
      auto == {i \in open : Automatic(points[i].kind)}
      first == IF auto # {} THEN auto ELSE open
  IN {i \in first : \A j \in first : i <= j}

\* upload: the answer to point p and the points stored after it.  recent says
\* whether a stored daily point is recent.
Upload(p, recent) ==
  LET points == Append(store, [id |-> p.id, kind |-> p.kind, pinned |-> FALSE, nodes |-> p.nodes])
  IN CASE p.id \in Ids(store) -> [answer |-> "ok", points |-> store]
       [] p.id \notin Ids(store) /\ Automatic(p.kind) /\ ~automatic ->
            [answer |-> "restore_points_disabled", points |-> store]
       [] p.id \notin Ids(store) /\ p.kind = "scheduled" /\ automatic /\ recent ->
            [answer |-> "restore_point_recent", points |-> store]
       [] OTHER ->
            IF Len(points) <= MaxPerAccount THEN [answer |-> "ok", points |-> points]
            ELSE IF Victims(points) = {} THEN [answer |-> "restore_point_limit", points |-> store]
            ELSE [answer |-> "ok",
                  points |-> RemoveAt(points, CHOOSE i \in Victims(points) : TRUE)]

\* A daily point can only be refused as recent if another one is stored.
MayBeRecent == {FALSE} \cup {\E i \in DOMAIN store : store[i].kind = "scheduled"}

SetPinned(i, pinned) ==
  /\ Spend("manage")
  /\ store[i].pinned # pinned
  /\ pinned => Cardinality({j \in DOMAIN store : store[j].pinned}) < MaxPinned
  /\ store' = [store EXCEPT ![i].pinned = pinned]
  /\ UNCHANGED automatic

DeletePoint(i) ==
  /\ Spend("manage")
  /\ store' = RemoveAt(store, i)
  /\ UNCHANGED automatic

\* prune_restore_points: an old unpinned point, never the newest.
PrunePoint(i) ==
  /\ Spend("manage")
  /\ ~store[i].pinned /\ i < Len(store)
  /\ store' = RemoveAt(store, i)
  /\ UNCHANGED automatic

SetAutomatic(on) ==
  /\ Spend("manage")
  /\ automatic # on
  /\ automatic' = on
  /\ UNCHANGED store

-----------------------------------------------------------------------------
(* Making points. *)

\* readLiveBookmarks keeps the mapped nodes whose ancestors are mapped too.
ReadLiveBookmarks(mapped) ==
  [o \in {o \in mapped : \A a \in DOMAIN tree \ mapped : o \notin Below(tree, a)} |-> tree[o]]

\* captureNodes.  A full capture while a node is unmapped makes nothing, which
\* is the action not happening.
Full == [kind |-> "full"]
MappedOnly(mapped) == [kind |-> "mapped-only", mapped |-> mapped]
PlusRemoved(gone) == [kind |-> "plus-removed", gone |-> gone]

CaptureNodes(mode) ==
  BuildPointNodes(IF mode.kind = "mapped-only" THEN ReadLiveBookmarks(mode.mapped) ELSE tree,
                  IF mode.kind = "plus-removed" THEN mode.gone ELSE NoneRemoved)

\* createQueuedRestorePoint.
Enqueue(kind, mode) ==
  /\ outbox' = Append(outbox, [id |-> nextId, kind |-> kind, nodes |-> CaptureNodes(mode),
                               attempts |-> 0, old |-> FALSE])
  /\ nextId' = nextId + 1

\* createManual.
CreateManual ==
  /\ Spend("points")
  /\ Enqueue("manual", Full)
  /\ UNCHANGED <<tree, removed, store, automatic, lastTree>>

\* makeAutomaticPoint: whether automatic points are on is looked up in settings
\* that may be old, so the server's refusal is what decides; a trigger that makes
\* nothing is the action not happening.
MakeAutomaticPoint(kind, mode) ==
  /\ Spend("points")
  /\ Enqueue(kind, mode)
  /\ UNCHANGED <<tree, removed, store, automatic>>

CreatePreResyncPoint == MakeAutomaticPoint("pre_resync", Full) /\ UNCHANGED lastTree

\* runScheduledRestorePoint: nothing while the tree is the one of the last
\* daily point this device queued.
RunScheduledRestorePoint ==
  /\ MakeAutomaticPoint("scheduled", Full)
  /\ CaptureNodes(Full) # lastTree
  /\ lastTree' = CaptureNodes(Full)

\* createPreImportPoint: some nodes are not mapped yet, and the point holds the
\* others.
CreatePreImportPoint(mapped) ==
  /\ MakeAutomaticPoint("pre_import", MappedOnly(mapped))
  /\ ReadLiveBookmarks(mapped) # NoneRemoved /\ mapped # DOMAIN tree
  /\ UNCHANGED lastTree

\* handleMassDelete: skipped while a restore runs, and within ten minutes of the
\* last such point, while automatic points are off or if it cannot be made.
HandleMassDelete(mode, restoring) ==
  \/ ~restoring /\ Enqueue("mass_delete", mode)
  \/ UNCHANGED <<outbox, nextId>>

\* The flush that captures the removals: detectLocalMassDelete.
FlushRemovals(restoring) ==
  /\ removed # NoneRemoved
  /\ removed' = NoneRemoved
  /\ IF Cardinality(DOMAIN removed) >= MassDelete
     THEN HandleMassDelete(PlusRemoved(removed), restoring)
     ELSE UNCHANGED <<outbox, nextId>>
  /\ UNCHANGED <<tree, store, automatic, lastTree, budget>>

\* countRemoteDeletes: a remote batch is about to remove o with what is below
\* it; the point is made of the tree as it is, before the batch is applied.
RemoteRemoval(o, restoring) ==
  LET gone == {o} \cup Below(tree, o)
  IN /\ Spend("edits")
     /\ IF Cardinality(gone) >= MassDelete
        THEN HandleMassDelete(Full, restoring)
        ELSE UNCHANGED <<outbox, nextId>>
     /\ tree' = Without(tree, gone)
     /\ UNCHANGED <<removed, store, automatic, lastTree>>

-----------------------------------------------------------------------------
(* The user edits the tree: removes a subtree, moves a node or adds one.      *)

UserRemoves(o) ==
  LET gone == {o} \cup Below(tree, o)
  IN /\ Spend("edits")
     /\ o \notin Managed
     /\ tree' = Without(tree, gone)
     /\ removed' = Merged([g \in gone |-> tree[g]], removed)
     /\ UNCHANGED <<store, automatic, outbox, lastTree, nextId>>

UserPlaces(o, node) ==
  LET op == [kind |-> "restore", o |-> o, p |-> node.par, v |-> node.val]
  IN /\ Spend("edits")
     /\ o \notin Managed \cup DOMAIN removed
     /\ node.par \in {Root} \cup DOMAIN tree
     /\ ~Refused(tree, [op EXCEPT !.kind = "move"])
     /\ tree' = Applied(tree, op)
     /\ UNCHANGED <<removed, store, automatic, outbox, lastTree, nextId>>

-----------------------------------------------------------------------------
(* The outbox. *)

\* MAX_AGE_MS passes.
Ages(i) ==
  /\ ~outbox[i].old
  /\ outbox' = [outbox EXCEPT ![i].old = TRUE]
  /\ UNCHANGED <<tree, removed, store, automatic, lastTree, nextId, budget>>

\* Mutant: a record never expires.
ExpiresNever(record) == FALSE

Expires(record) == record.old

\* drainOutbox works on the oldest record: a failure stops the drain, so the
\* next one starts with the same record again.
DrainExpired ==
  /\ Expires(Head(outbox))
  /\ outbox' = Tail(outbox)
  /\ UNCHANGED <<tree, removed, store, automatic, lastTree, nextId, budget>>

\* isPermanent: the answers that say the point will never be stored.  The last
\* one stands for a refused body (validation_error, encryption_required, any
\* 400 or 413), which the server may find in every point.
Discarding == {"restore_point_recent", "restore_points_disabled", "restore_point_limit", "rejected"}

Rejected == [answer |-> "rejected", points |-> store]

\* The server answers.
DrainAnswered ==
  LET record == Head(outbox)
  IN /\ ~Expires(record)
     /\ \E reply \in {Upload(record, recent) : recent \in MayBeRecent} \cup {Rejected} :
          /\ reply.answer \in {"ok"} \cup Discarding
          /\ store' = reply.points
     /\ outbox' = Tail(outbox)
     /\ UNCHANGED <<tree, removed, automatic, lastTree, nextId, budget>>

\* The upload or its answer is lost: the attempt is counted, and the last one
\* drops the record.
DrainFails(arrived) ==
  LET record == Head(outbox)
  IN /\ ~Expires(record)
     /\ IF arrived THEN \E recent \in MayBeRecent : store' = Upload(record, recent).points
        ELSE UNCHANGED store
     /\ outbox' = IF record.attempts + 1 >= MaxAttempts THEN Tail(outbox)
                  ELSE [outbox EXCEPT ![1].attempts = @ + 1]
     /\ UNCHANGED <<tree, removed, automatic, lastTree, nextId, budget>>

\* The session has to be renewed, or the worker stops between the answer and
\* the delete: the record stays as it is.
DrainInterrupted ==
  LET record == Head(outbox)
  IN /\ ~Expires(record)
     /\ \E recent \in MayBeRecent : store' \in {store, Upload(record, recent).points}
     /\ UNCHANGED <<tree, removed, automatic, outbox, lastTree, nextId, budget>>

Drain ==
  /\ outbox # <<>>
  /\ DrainExpired \/ DrainAnswered \/ DrainInterrupted
     \/ \E arrived \in BOOLEAN : DrainFails(arrived)

Manage ==
  /\ \/ \E i \in DOMAIN store :
          DeletePoint(i) \/ PrunePoint(i) \/ \E pinned \in BOOLEAN : SetPinned(i, pinned)
     \/ \E on \in BOOLEAN : SetAutomatic(on)
  /\ UNCHANGED <<tree, removed, outbox, lastTree, nextId>>
===============================================================================
