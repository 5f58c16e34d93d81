------------------------------ MODULE RestoreJob ------------------------------
(***************************************************************************)
(* The restore job (restore-points/restore.ts, docs/protocol.md 16.5) on     *)
(* the device whose points RestorePoints describes: load the point, sync,    *)
(* read the live tree, store a safety copy, plan, write the job, then create *)
(* and apply the planned operations slice by slice.  The worker may stop at  *)
(* any step; a restarted worker finds the job and runs it again.             *)
(***************************************************************************)
EXTENDS RestorePoints

CONSTANTS
  ChunkSize,  \* RESTORE_CHUNK_SIZE
  Modes, Scopes

ASSUME ChunkAssumption == ChunkSize \in Nat \ {0}

VARIABLES
  run,     \* the run in the worker's memory: where it is and what it works on
  cache,   \* loadedCache
  job,     \* the durable restore_jobs record, or NoJob
  waking,  \* the worker has started and has not looked for a job yet
  owed,    \* operations of a restore that are created and not applied here yet
  ghost    \* what happened since the tree was read, and since the safety copy

vars == <<pointVars, run, cache, job, waking, owed, ghost>>

NoJob == [point |-> 0]
Uncached == [id |-> 0, nodes |-> <<>>]
NotRunning(phase) == [phase |-> phase]

Init ==
  /\ PointsInit
  /\ run = NotRunning("idle") /\ cache = Uncached /\ job = NoJob
  /\ waking = FALSE /\ owed = <<>>
  /\ ghost = [touched |-> FALSE, edited |-> FALSE, before |-> NoneRemoved, copy |-> <<>>,
              refused |-> FALSE]

\* isRestoreRunning, and the promise startRestore keeps.
Running == run.phase \notin {"idle", "done", "error"}

AtPhase(phase) == [run EXCEPT !.phase = phase]

-----------------------------------------------------------------------------
(* Starting. *)

Request(id, mode, scope, resumed) ==
  [phase |-> "load", point |-> id, mode |-> mode, scope |-> scope, resumed |-> resumed,
   nodes |-> <<>>, live |-> NoneRemoved, plan |-> <<>>]

\* startRestore, for a listed point and all of it or one of its folders.
StartRestore(i, mode, scope) ==
  /\ Spend("restores")
  /\ ~Running
  /\ scope = Root \/ scope \in PointIds(store[i].nodes) \cap Folders
  /\ run' = Request(store[i].id, mode, scope, FALSE)
  /\ UNCHANGED <<tree, removed, store, automatic, outbox, lastTree, nextId, cache, job, waking, owed, ghost>>

\* resumeInterruptedRestore, once per worker.
Resume ==
  /\ waking
  /\ waking' = FALSE
  /\ run' = IF Running \/ job = NoJob THEN run ELSE Request(job.point, job.mode, job.scope, TRUE)
  /\ UNCHANGED <<pointVars, cache, job, owed, ghost>>

\* Mutant: the job of a failed run is kept.
JobAfterFailureKept == job

\* The catch of runRestore: a failed run is reported, not resumed.
JobAfterFailure == NoJob

Fails ==
  /\ job' = JobAfterFailure
  /\ run' = NotRunning("error")

-----------------------------------------------------------------------------
(* The steps of a run. *)

\* decodePoint: a stored point is used only if what it decrypts to is a tree.
Readable(point) == ValidPoint(point.nodes)

\* loadRestorePoint: from the cache, or downloaded and validated.
Load ==
  LET found == {i \in DOMAIN store : store[i].id = run.point}
      Use(nodes) ==
        /\ run' = [run EXCEPT !.phase = "sync", !.nodes = nodes]
        /\ cache' = [id |-> run.point, nodes |-> nodes]
        /\ UNCHANGED job
  IN /\ run.phase = "load"
     /\ \/ cache.id = run.point /\ Use(cache.nodes)
        \/ \E i \in found :
             /\ cache.id # run.point
             /\ IF Readable(store[i]) THEN Use(store[i].nodes) ELSE Fails /\ UNCHANGED cache
        \/ cache.id # run.point /\ found = {} /\ Fails /\ UNCHANGED cache
     /\ UNCHANGED <<pointVars, waking, owed, ghost>>

\* uploadPending and downloadAndApply under the sync slot, each called once:
\* what a restore created here and did not apply comes back from the server,
\* as far as one call uploads it.
SyncFirst ==
  /\ run.phase = "sync"
  /\ \E back \in 0 .. Len(owed) :
       /\ tree' = AppliedAll(tree, SubSeq(owed, 1, back))
       /\ owed' = SubSeq(owed, back + 1, Len(owed))
  /\ run' = AtPhase("read")
  /\ UNCHANGED <<removed, store, automatic, outbox, lastTree, nextId, budget, cache, job, waking, ghost>>

\* readLiveBookmarks.
ReadLive ==
  /\ run.phase = "read"
  /\ run' = [run EXCEPT !.live = tree, !.phase = IF run.resumed THEN "plan" ELSE "copy"]
  /\ ghost' = [ghost EXCEPT !.touched = FALSE]
  /\ UNCHANGED <<pointVars, cache, job, waking, owed>>

\* Mutant: the restore goes on without its copy.
CopyFailedIgnored == run' = AtPhase("plan") /\ UNCHANGED job

CopyFailed == Fails

\* createUploadedRestorePoint: a point built now, and the server's answer to it.
CreateUploadedRestorePoint(kind) ==
  Upload([id |-> nextId, kind |-> kind, nodes |-> CaptureNodes(Full)], FALSE)

\* uploadPreRestorePoint: the tree is captured again and uploaded at once, as a
\* manual point if automatic ones are off.
SafetyCopy ==
  LET first == CreateUploadedRestorePoint("pre_restore")
      reply == IF first.answer = "restore_points_disabled" THEN CreateUploadedRestorePoint("manual") ELSE first
  IN /\ run.phase = "copy"
     /\ nextId' = nextId + 1
     /\ store' = reply.points
     /\ IF reply.answer = "ok"
        THEN run' = AtPhase("plan") /\ UNCHANGED job
        ELSE CopyFailed
     /\ ghost' = [ghost EXCEPT !.edited = FALSE, !.before = tree,
                    !.copy = IF reply.answer = "ok" THEN Last(reply.points).nodes ELSE <<>>]
     /\ UNCHANGED <<tree, removed, automatic, outbox, lastTree, budget, cache, waking, owed>>

\* planRestore over the tree that was read, and the job record.
PlanAndRecord ==
  /\ run.phase = "plan"
  /\ run' = [run EXCEPT !.plan = PlanRestore(run.nodes, run.live, run.mode, run.scope),
                        !.phase = "create"]
  /\ job' = [point |-> run.point, mode |-> run.mode, scope |-> run.scope]
  /\ UNCHANGED <<pointVars, cache, waking, owed, ghost>>

Slice == SubSeq(run.plan, 1, IF Len(run.plan) < ChunkSize THEN Len(run.plan) ELSE ChunkSize)

\* createLocalOperationsBatch: the slice's operations are durable and will be
\* uploaded whatever happens to the run.
CreateSlice ==
  /\ run.phase = "create" /\ run.plan # <<>>
  /\ owed' = owed \o Slice
  /\ run' = AtPhase("apply")
  /\ UNCHANGED <<pointVars, cache, job, waking, ghost>>

FirstRefused(ops) ==
  {i \in DOMAIN ops : Refused(AppliedAll(tree, SubSeq(ops, 1, i - 1)), ops[i])}

\* applyRestoreOperations, and the job's progress.
ApplySlice ==
  /\ run.phase = "apply"
  /\ FirstRefused(Slice) = {}
  /\ tree' = AppliedAll(tree, Slice)
  /\ owed' = SubSeq(owed, 1, Len(owed) - Len(Slice))
  /\ run' = [run EXCEPT !.phase = "create", !.plan = SubSeq(@, Len(Slice) + 1, Len(@))]
  /\ UNCHANGED <<removed, store, automatic, outbox, lastTree, nextId, budget, cache, job, waking, ghost>>

\* Part of the slice is applied; of the rest, some operations are resolved and
\* never tried again, the others come back with a later sync.
PartOfSlice(done) ==
  /\ tree' = AppliedAll(tree, SubSeq(Slice, 1, done))
  /\ \E again \in done + 1 .. Len(Slice) + 1 :
       owed' = SubSeq(owed, 1, Len(owed) - Len(Slice)) \o SubSeq(Slice, again, Len(Slice))

\* The browser refuses a move, and the run fails with it.
ApplyRefused ==
  /\ run.phase = "apply"
  /\ FirstRefused(Slice) # {}
  /\ PartOfSlice((CHOOSE i \in FirstRefused(Slice) : \A j \in FirstRefused(Slice) : i <= j) - 1)
  /\ Fails
  /\ ghost' = [ghost EXCEPT !.refused = run.scope = Root /\ ~ghost.touched]
  /\ UNCHANGED <<removed, store, automatic, outbox, lastTree, nextId, budget, cache, waking>>

\* reportRestoreApplied, whose failure is ignored, and deleteRestoreJob.
Finish ==
  /\ run.phase = "create" /\ run.plan = <<>>
  /\ job' = NoJob
  /\ run' = AtPhase("done")
  /\ UNCHANGED <<pointVars, cache, waking, owed, ghost>>

\* A step that waits for the server, the database or the browser fails: the
\* download, the sync, bookmarks not mapped yet, the copy (whose answer may be
\* lost), the job record, a slice of which part is applied.
StepFails ==
  /\ Spend("faults")
  /\ Running
  /\ Fails
  /\ IF run.phase = "apply" THEN \E done \in 0 .. Len(Slice) : PartOfSlice(done)
     ELSE UNCHANGED <<tree, owed>>
  /\ IF run.phase = "copy"
     THEN /\ nextId' = nextId + 1
          /\ store' \in {store, CreateUploadedRestorePoint("pre_restore").points}
     ELSE UNCHANGED <<store, nextId>>
  /\ UNCHANGED <<removed, automatic, outbox, lastTree, cache, waking, ghost>>

\* The worker stops: what it kept in memory is gone.
Crash ==
  /\ Spend("faults")
  /\ run' = NotRunning("idle") /\ cache' = Uncached /\ waking' = TRUE
  /\ IF run.phase = "apply" THEN \E done \in 0 .. Len(Slice) : PartOfSlice(done)
     ELSE UNCHANGED <<tree, owed>>
  /\ UNCHANGED <<removed, store, automatic, outbox, lastTree, nextId, job, ghost>>

\* An ordinary sync cycle; the slot is taken while a restore is under way.
OrdinarySync ==
  /\ ~Running \/ run.phase = "load"
  /\ owed # <<>>
  /\ tree' = AppliedAll(tree, owed)
  /\ owed' = <<>>
  /\ ghost' = [ghost EXCEPT !.touched = TRUE, !.edited = TRUE]
  /\ UNCHANGED <<removed, store, automatic, outbox, lastTree, nextId, budget, run, cache, job, waking>>

-----------------------------------------------------------------------------
(* The rest of the device and of the account, at any moment. *)

jobVars == <<run, cache, job, waking, owed>>

Edit ==
  /\ \/ \E o \in DOMAIN tree : UserRemoves(o)
     \/ \E o \in Objects : \E node \in Node(o) : UserPlaces(o, node) /\ tree' # tree
     \/ /\ ~Running \/ run.phase \in {"load", "sync"}
        /\ \E o \in DOMAIN tree \ Managed : RemoteRemoval(o, Running)
  /\ ghost' = [ghost EXCEPT !.touched = TRUE, !.edited = TRUE]
  /\ UNCHANGED jobVars

MakePoints ==
  /\ \/ CreateManual \/ CreatePreResyncPoint \/ RunScheduledRestorePoint
     \/ \E mapped \in SUBSET DOMAIN tree : CreatePreImportPoint(mapped)
     \/ FlushRemovals(Running)
  /\ UNCHANGED <<jobVars, ghost>>

Deliver ==
  /\ Drain \/ \E i \in DOMAIN outbox : Ages(i)
  /\ UNCHANGED <<jobVars, ghost>>

\* The popup's remove also empties the cache of the loaded point.
ManagePoints ==
  /\ Manage
  /\ cache' \in {cache} \cup (IF Len(store') < Len(store) THEN {Uncached} ELSE {})
  /\ UNCHANGED <<run, job, waking, owed, ghost>>

RunStep ==
  Resume \/ Load \/ SyncFirst \/ ReadLive \/ SafetyCopy \/ PlanAndRecord
  \/ CreateSlice \/ ApplySlice \/ ApplyRefused \/ Finish

Next ==
  \/ RunStep \/ StepFails \/ Crash \/ OrdinarySync
  \/ \E i \in DOMAIN store : \E mode \in Modes : \E scope \in Scopes : StartRestore(i, mode, scope)
  \/ Edit \/ MakePoints \/ Deliver \/ ManagePoints

\* The worker goes on with what it has begun, and wakes after a crash (an alarm
\* or an event starts it); time passes, and every periodic sync drains the outbox.
\* RunStep is enabled exactly while Running \/ waking, so the first conjunct is
\* its weak fairness.
Fairness ==
  /\ []<>~(Running \/ waking) \/ []<><<RunStep>>_vars
  /\ WF_vars(\E i \in DOMAIN outbox : Ages(i) /\ UNCHANGED <<jobVars, ghost>>)
  /\ WF_vars(outbox # <<>> /\ DrainExpired /\ UNCHANGED <<jobVars, ghost>>)

Spec == Init /\ [][Next]_vars /\ Fairness

-----------------------------------------------------------------------------
(* Properties. *)

\* Every node in scope is there, where the point has it and with its value,
\* except what the browser may not be given; exact mode leaves nothing else of
\* what was in scope, merge removes nothing, and managed nodes stay.
Reached(nodes, was, mode, scope) ==
  LET wanted == PointTree(nodes)
  IN /\ \A o \in Covered(nodes, scope) \ Managed :
          IF o \in DOMAIN tree
          THEN tree[o].par = wanted[o].par /\ (tree[o].val = wanted[o].val \/ wanted[o].val \in Unsyncable)
          ELSE wanted[o].val \in Unsyncable
     /\ mode = "exact" => Below(was, scope) \cap DOMAIN tree \subseteq PointIds(nodes) \cup Managed
     /\ mode = "merge" => DOMAIN was \subseteq DOMAIN tree
     /\ \A o \in DOMAIN was \cap Managed : o \in DOMAIN tree /\ tree[o] = was[o]

\* A restore that reports success has restored: planned against the tree the
\* run read, in slices, after any number of interrupted runs whose operations
\* were half applied (docs/protocol.md 16.4, 16.5).
RestoreReached ==
  run.phase = "done" /\ ~ghost.touched => Reached(run.nodes, run.live, run.mode, run.scope)

\* planner.ts and docs/protocol.md 16.4: "a node the point keeps is moved out of
\* a folder that is about to go".
PointKeeps ==
  run.phase = "done" /\ ~ghost.touched =>
    DOMAIN run.live \cap PointIds(run.nodes) \subseteq DOMAIN tree

\* A restore of all bookmarks is never stopped by the browser refusing one of
\* its moves, although folders of the point may be nested the other way round
\* in the live tree (planner.ts orders moves parents first).
NeverRefused == ~ghost.refused

\* The safety copy undoes the restore, also one that was interrupted: an exact
\* restore of the tree captured before the first slice gives back every
\* bookmark the browser can be given.
Undoable ==
  LET undone == AppliedAll(tree, PlanRestore(ghost.copy, tree, "exact", Root))
      Syncable(t) == {o \in DOMAIN t : t[o].val \notin Unsyncable}
  IN run.phase = "done" /\ ~ghost.edited =>
       /\ Syncable(ghost.before) \subseteq DOMAIN undone
       /\ \A o \in Syncable(ghost.before) : undone[o] = ghost.before[o]
       /\ DOMAIN undone \subseteq DOMAIN ghost.before

\* Whatever is captured can be restored later: a point is a tree even if nodes
\* were unmapped or already removed when it was made, and a mass-delete point
\* is one that still holds its parents (format.ts refuses any other point).
PointsValid ==
  /\ \A i \in DOMAIN store : ValidPoint(store[i].nodes)
  /\ \A i \in DOMAIN outbox : ValidPoint(outbox[i].nodes)

\* An interrupted restore does not haunt the device: its job is finished or
\* given up once the worker stays up.
JobSettles == job # NoJob ~> job = NoJob

\* A queued point leaves the outbox, stored or given up, even if the session is
\* never renewed.
OutboxDrains == outbox # <<>> ~> outbox = <<>>
===============================================================================
