# HelixSync: a verification of its sync core

HelixSync synchronises bookmarks, history, tabs and tab groups between browsers.
A Rust server (`server/`, axum, SQLx, PostgreSQL) keeps an append-only log of
operations per account; a browser extension (`extension/`, TypeScript, MV3
service worker) captures local changes as operations, uploads them, downloads
and applies those of other devices; a web dashboard (`web/`) manages the account.
`docs/protocol.md` is the normative description of the protocol.

This directory holds TLA+ models of the parts that carry the protocol, TLC
configurations that check them on small instances, and TLAPS proofs of their
main invariants. `PROJECT.json` is the machine-readable index: components, runs,
source map, hazards, findings and theorems.

## Inventory

| Part | State it keeps | Operations | Hard behaviour | What makes it correct |
|---|---|---|---|---|
| Upload handler (`server/src/sync/routes.rs`) | `sync_operations`, cursor allocator, `devices.last_device_sequence`, `sync_objects`, `tombstones`, `sync_stats` | `upload` / `process_batch` | uploads of several devices, retries, replays of pruned rows, quota | gap-free cursors, each operation once and in order, ledger and counters agree with the log |
| Download handler (same file) | acknowledged cursor of each device | `download` in three statements | delayed requests, pruning between the statements | acknowledgements never move back; a page misses nothing |
| Compaction (`compaction.rs`, `snapshot.rs`) | `sync_snapshots`, the log's lower end | boundary, fold, commit, prune in chunks | runs next to uploads and downloads; stops anywhere | nothing is deleted before it is covered and acknowledged; no object is lost |
| Pending queue (`extension/src/storage/db.ts`, `sync/engine.ts`) | `pending_operations`, `sync_state.deviceSequence` | reserve, enqueue, `uploadPending`, requeue, reset on start | producers and two uploaders interleave; timeouts; worker kills | an operation leaves only when stored; nothing stays in flight with no owner; the queue drains |
| Bulk history import (`history/bulk.ts`) | import checkpoints | drain, reserve, send a chunk past the queue | races the cycle; retries under a new sequence | a chunk is stored once, and neither it nor its neighbours are lost |
| Sync slot and cycle (`sync/engine.ts`) | `syncInFlight`, waiters, `rerunRequested`, cooldown, skip window | `runSyncCycle`, `downloadEverything`, `runExclusive` | awaits between test and use; lost pushes; failures | slot never lost, nobody forgotten, changes arrive, a restore runs alone |
| Download and apply (`sync/engine.ts`, `storage/db.ts`) | cursor, `applied_operations`, Lamport clock | `downloadAndApply`, `applySnapshot` | a kill between apply and mark; snapshot races compaction | every operation applied, none skipped |
| Conflict resolution (`sync/conflict.ts`, `snapshot.rs`) | `field_state` | `arbitrateField`, `combine_object` | operations in different orders on each device | devices and snapshot agree |
| Bookmarks (`bookmarks/`, `util/fractional-index.ts`, `sync/suppress.ts`, `sync/mapping.ts`, `sync/micro-batch.ts`) | id mappings, positions, the capture queue, deferred children, the suppression guard | capture flush, the import's walk of the tree, remote batches, materialize, move, delete, sweep | browser events echo remote applies; children before parents; calls that throw; kills between two transactions; flush against walk; concurrent inserts at one place | every bookmark announced once, none echoed; nothing of a batch left out but a slice per fault; no twins; a folder's order follows its positions |
| Tabs and groups (`tabs/`, `util/keyed-lock.ts`) | mappings, title timers and stash, `remote_objects`, restore tasks | listeners, flush and coalescing, remote batches, restoring tabs | old copies of a tab handed over late; tabs opened for remote ones fire events; concurrent restores of one group | what is open is what the account has; a restored tab stays the remote one; one local group |
| History (`history/`) | boundary, import scope and checkpoints, replay windows | live capture, bulk import and older passes, replay | resume by count after a crash; the live and bulk paths meet at a boundary; replays come back as visits | each visit uploaded once; no feedback, no pile-up; the import completes |
| Restore points (`restore-points/`, `server/src/restore_points/`) | outbox, restore job, stored points | capture, triggers, upload with eviction, plan, apply, resume | interrupted restore; folders nested the other way round; limits and sessions that end | a restore that succeeds has restored and can be undone; points can be read back; job and outbox settle |
| Push channel (`server/src/websocket/`, `api/websocket.ts`) | connections, backoff | connect, push, reconnect | missed pushes, backoff across restarts | a push only saves time |
| Authentication and devices (`server/src/auth/`, `devices/`) | sessions, tokens, requests | login, approve, refresh, revoke | token rotation races | a used or revoked token is never accepted again |
| Rate limits, housekeeping (`middleware/`, `housekeeping.rs`) | windows, retention | check, sweep | limits and sweeps at their boundary | bounded memory, no early deletion |
| Configuration, crypto, popup, web | - | - | none of the kind these models are about | - |

`PROJECT.json` lists each part with what is and is not modelled, and the hazards
with the line where each one bites.

## Modules

| Module | Models | EXTENDS / uses |
|---|---|---|
| `Vocabulary` | object and operation types, terminal / restore / origination operations, ordering key | |
| `DurableLog` | abstract: what the protocol promises about the log | |
| `SyncServer` | upload, download, compaction of one account | `Vocabulary`; instantiates `DurableLog` |
| `UploadQueue` | the client's queue, producers, `uploadPending`, import chunks | `Vocabulary` |
| `UploadProtocol` | client and server together over unreliable requests | `SyncServer`; instantiates `UploadQueue` |
| `DownloadProtocol` | one device's `downloadAndApply` and `applySnapshot` against the server | `SyncServer` |
| `SyncCycle` | the sync slot and the functions that work under it | |
| `FieldStates` | `field_state`: ordering keys, `arbitrateField`, local records | |
| `Convergence` | one bookmark on several devices, the log, tombstone and snapshot | `FieldStates` |
| `BookmarkApply` | remote bookmark batches on one device | `FieldStates` |
| `BookmarkCapture` | local bookmarks becoming objects: flushes and the import's walk | |
| `FractionalIndex` | `keyBetween` as a recursive operator | |
| `BookmarkOrder` | positions and places of the bookmarks of one folder | `FieldStates`, `FractionalIndex` |
| `TabCapture` | local tabs and groups becoming objects | |
| `TabRestore` | remote tabs and groups, with the capture listening | `TabCapture` |
| `History` | live capture, bulk import, replay | |
| `RestorePlan` | what a point holds, the planner, what an operation does to a tree | |
| `RestorePoints` | points on the device, in the outbox and on the server | `RestorePlan` |
| `RestoreJob` | the restore job | `RestorePoints` |
| `MCSyncServer`, `MCUploadProtocol`, `MCDownloadProtocol`, `MCBookmarkOrder`, `MCTabs`, `MCHistory`, `MCRestore` | instances for TLC | |
| `SyncServerProofs` | proofs about `SyncServer` | `SyncServer` |
| `UploadProofs` | proofs about `UploadProtocol` | `UploadProtocol`, `SyncServerProofs` |
| `DownloadProofs` | proofs about `DownloadProtocol` | `DownloadProtocol`, `SyncServerProofs` |
| `SyncCycleProofs` | proofs about `SyncCycle` | `SyncCycle` |
| `ConvergenceProofs` | proofs about `Convergence` | `Convergence` |
| `HistoryProofs` | proofs about `History` | `History` |
| `BookmarkProofs` | proofs about `BookmarkCapture` | `BookmarkCapture` |
| `TabProofs` | proofs about `TabRestore` | `TabRestore` |

**SyncServer.** `log` holds every row ever inserted, by cursor, and `stored` the
cursors whose row still exists: pruning removes from `stored` only, so properties
can speak of deleted rows. `ValidateBatch` is `process_batch` up to the end of its
validation loop, `Verdict` being one round of it with the checks in the code's
order; `CommitBatch` is everything from the cursor block to COMMIT, which the code
does under the allocator row's lock; `AbortBatch` is a rollback. One upload per
device is open at a time (the per-device advisory lock). `DownloadBounds`,
`SizePage` and `FetchRows` are the statements of `download`. `BeginCompaction`,
`BuildSnapshot`, `CommitSnapshot` and `PruneChunk` are `compact_user` and
`prune_compacted_operations`, cut where other transactions can commit; `Restart`
ends whatever is open. A device that stays away longer than a grace period is
`lapsed`; only devices in `Lapsable` ever do. Cursors sent by a device are any
number up to one past the allocator: old ones for delayed requests, one too
large for a database restored from a backup. Payloads weigh one byte. Objects are
folded whole-object (the path of encrypted payloads); the field merge of plaintext
bookmarks is left out.

**UploadQueue / UploadProtocol.** `Reserve` and `Enqueue` are the two transactions
of `createLocalOperationsBatch`. An upload call goes through `PickBatch` (rows and
their attempts are read), `StartUpload` (stuck rows dropped, the rest marked in
flight and sent), `ReceiveAnswer`, `SettleRejected`, or `FailCall`; it writes back
the rows it read, as the code does. `Callers` are the sync cycle and the import,
whose loop over `uploadPending` sets `drained` when it ends and lets `SendChunk`
send. `GiveUp` leaves the request behind as a `stray` that the server may still
process or never see. `Crash` is a killed and restarted worker. Compaction and downloads
are left out: an upload reads the ledger and the stored rows only, and `SyncServer` has both
next to repeated uploads. `ran` and `refused` are history variables: the devices on which
another than capture and cycle took sequences or uploaded, and the operations that were
answered `object_not_found`.

**DownloadProtocol.** `Ask`, `AnswerSized` and `Receive` are a request of one device,
`Reader`, going through the server's three statements. A page is scanned row by row
(`Scan`) into the buffers of `downloadAndApply`: `group`, one per object type, and
`buf`, the ids that are applied and not yet in `applied_operations`. Each full buffer
is applied and then marked in two steps, because a kill can fall between them;
`MarkRest` and `SaveCursor` end the page. A row of the log stands for its operation
id. `FetchSnapshot` and `ApplySnapshot` are the resync; `applySnapshot` is one
step, since until it saves the cursor a kill makes all of it happen again.
`arrived` and `raced` are history variables for the properties: rows the device has
dealt with, and rows deleted while its request was being answered. `Newer`
operations cannot be read until `UpdateExtension`; `LeftOver` is a cursor the device
kept from before its server's database was restored from a backup (0 otherwise).

**SyncCycle.** A step is a stretch of a call between two awaits. The microtask
queue is explicit, because which of two resumed calls runs first decides who gets
the slot. Time, the state of the push channel and the length of the local queue
are choices.

**FieldStates / Convergence.** One bookmark with the fields title, move and liveness.
What the browser shows (`node`) and what the device recorded (`states`) are apart: the
user changes the first at once and the capture flush (`Capture`, then `Record` after an
await) the second; `Receive` resolves a remote operation in a transaction and `Mutate`
makes its chrome.bookmarks call later. `Compact` folds the log as `compact_user` does
with encrypted payloads, and `Resync` is a device whose cursor fell below the floor.
`mixed` is a history variable: the fields of a device on which a local and a remote
change crossed, or which came back from a snapshot. They are where the code is known to
diverge (see Findings), and `Converges` says that nothing else does.

**BookmarkApply.** A page of the log is taken by `StartPage`, put into one buffer per object
type (`PushToGroup`, `BatchesOf`) and applied a buffer at a time, so folders and bookmarks
do not keep the log's order among each other; `EndBatch` marks a buffer's operations and
`EndPage` saves the cursor. `StartBatch`, `ResolveSlice`, `NextItem` and `FlushPending` are
`applyRemoteBatch`; `Materialize`, `CreateNode`, `Link` and `Retry` are
`materialize` and `retryDeferredParent` cut at their awaits; `ApplyMove`,
`ApplyMovesBatch`, `ApplyTitle`, `ApplyDelete` and `Forget` the other calls. `UserMove`
and `UserRemove` come between any two of them, `Throw` is the browser refusing a call,
`Crash` a killed worker. `phase` is `runInitialImport`: existing bookmarks are linked during
its download, and `StampImport` ends it after the backfills; `Sweep` is the sweep of stale
mappings after that. `barred` holds bookmarks whose url has a scheme that is not synced. The
other devices are one peer whose operations may also arrive late and out of order
(`PeerLate`). `dropped` (lost with their folder), `revived` (deleted, then updated) and
`raced` (placed by another operation than the winning move) are history variables for what
`LossBoundedBySlice` does not count, and `budget` is what the faults so far may have cost.

**BookmarkCapture.** `FlushTimer` takes the micro-batch queue; `Stage`, `PutMappings`,
`DeleteMappings`, `CreateOperations` and `RecordStates` are the transactions of
`flushBookmarkEvents`, two flushes at a time. `WalkDrain`, `WalkRead`, `WalkCommit` and
`WalkEnd` are `backfillExisting`; `walk.owed` are the nodes whose creation was queued when it
drained the queue, and for which it waits. `ApplyCreate` and `ApplyLink` are a remote create under
the guard. `unheard` and `twice` are history variables: nodes no event was queued for or
whose events a kill took, and nodes two captures worked on at the same time, the owed ones
not among them. A node created after the drain is listed by the walk and heard by the
capture: it is announced twice, under one id, and the other devices find the second create done already.

**FractionalIndex / BookmarkOrder.** A position is a sequence of digits; the base is a
constant (62 in the code). `BookmarkOrder` has one folder on several devices: what the
browser shows (`children`) and what is recorded (`states`) are apart, an event carries the
index it had, and `StageEvent` computes the position at the flush from the neighbours of
that moment, as `computePosition` does. `Import` is `flattenForBackfill` on the folder,
`ApplyMovesBatch` places the movers of a batch with the code's two lists (`sorted`, the
live order) and its index arithmetic, `NormalizePositions` and `PlanRestore` are a point's
side of it. A flush and a batch are one step each, since the two modules before have what
comes in between; the user may add, move and remove bookmarks before the import, so it finds
the browser's own anywhere among the account's; a batch waits for
removals that are not flushed (the call that moves a removed bookmark would throw).
`refused` holds the bookmarks of which a change found no position.

**TabCapture / TabRestore.** The listeners are the `Hear` operators, one per event, with the
title debounce (`HearTitle`, `TitleTimer`), the stash of background titles and
`Suspend`. `Stage` is a flush up to its first transaction, `StageEvent` and `Coalesce` what
it does with the burst. `ApplyBatch` resolves a remote batch; `Lookup`, `Create`, `Link`,
`Update`, `TakeLock`, `Join` and `LinkGroup` are `materializeTab` and `syncTabGroup`
between awaits, for several tabs at a time, those of a batch and those of the popup's Restore;
one that throws ends the batch and not the others' calls (`BatchOver`); `Loads` is the page of a restored tab
loading
after the guard is gone. A page stands for url and title, and there is one window. `raced`,
`unheard` and `freed` (tabs whose mapping went when their object was closed remotely) are
history variables for the exceptions the properties name, `made` and `grouped` for the
local groups made for the remote one.

**History.** A visit is its place in `hist`, which is also its time. `Search`, `Resolve`,
`Upload`, `Checkpoint`, `Finish` and `Stamp` are the import, `BeginOlder` the older passes,
with bounds and a checkpoint of their own; `Hear` is the listener and its flush;
`BeginReplay`, `CheckKnown` (with the sweep of old echo windows), `AddUrl`, `ReturnAdd` and
`SkipUrl` the replay. `PutBoundary`
is the write of the live/bulk boundary, by startup or by the replay. `early`, `moved`,
`disturbed` and `orphans` are history variables for the exceptions the properties name.

**RestorePlan / RestorePoints / RestoreJob.** A tree maps an object to its parent and
value; `BuildPointNodes` and `PlanRestore` are the capture and the planner as functions.
`Upload` is the server's handler with its eviction, `Drain` one attempt of the outbox,
`HandleMassDelete` and the other triggers make points. `StartRestore`, `Load`,
`SyncFirst`, `ReadLive`, `SafetyCopy`, `PlanAndRecord`, `CreateSlice`, `ApplySlice` and
`Finish` are the job; `SyncFirst` brings in any part of what is owed, as one upload and one
download do; `StepFails` (in every phase), `Crash` and `Resume` are its interruptions. Points have one
size, so the byte limit is a limit on their number.

## Runs

| Run | Expect | Instance | Shows |
|---|---|---|---|
| `server` | pass | 2 devices, 5 operations, 2 requests open, quota 1, pages and chunks of 1 | the tables agree with each other and with the abstract log through compaction and restarts; the quota is overshot by at most a batch per device |
| `upload` | pass | 1 device, 2 changes and a history chunk, cycle and import, refused operations, re-sent restores, batches of 2, 1 fault | while the cycle uploads alone only a refused operation can be lost; no row stays in flight without an owner; the queue drains |
| `upload_retry` | violation | 1 device, no faults | an operation is reported `duplicate` and dropped though it was never stored |
| `sync_cycle` | pass | 2 calls, 2 peer changes, 2 faults | slot never lost, nobody forgotten, changes arrive |
| `download` | pass | 1 device (its own rows come back like a peer's), 4 operations of 3 types, one in a newer envelope, one unreadable, pages of up to 4, mark chunks of 2, 1 fault, compaction | no row is passed over, what a kill makes the device apply again is bounded, every row arrives |
| `convergence` | pass | 2 devices, 2 changes, 1 restore, 1 compaction | one winner per field everywhere; deletes win over moves; snapshots honour deletes |
| `bookmark_apply` | pass | a folder and a bookmark, 3 peer operations, slices of 1, marks of 2, 1 change of the user or restart | every bookmark in its folder but for what faults may have cost; no twins; every batch completes |
| `bookmark_capture` | pass | 1 bookmark before, 2 nodes, 2 changes, 1 restart or remote create | every bookmark announced, under one id; a remote one not at all |
| `bookmark_order` | pass | 2 devices with a bookmark each and one more to add, before or after the import, base 3, 2 changes, a point and a restore on the first | `keyBetween` finds a key that leaves room; points have ascending positions; the import keeps the browser's order; a bookmark moved or restored alone lands where its position says |
| `tabs` | pass | 3 tabs, 2 changes or remote operations, 1 rearm, 1 restart | the account shows what is open; objects are created before they are updated; a restored tab is not taken for a new one unless it was closed remotely meanwhile; one local group |
| `history` | pass | 2 pages, 4 visits, search pages of 1, chunks of 2, 1 fault | no visit twice, the import's all there; no feedback; no pile-up; the import completes |
| `restore_points` | pass | 2 folders, a bookmark, a managed bookmark; every tree against every point, and busier starts | restores reach the point, are never refused, can be undone; points valid; job and outbox settle |

*Bounds.* The server properties are about pairs of rows and pairs of devices: two
devices, an object touched by both, a delete, and a chunk with two sequences give every
pair its interesting case, and chunk and page sizes of 1 put a boundary between any two
rows. Batches of 2 are in the upload run, and the proofs hold for any size. The client
run needs two or three operations to get sequences into conflict and `MaxAttempts` 2 to
reach the drop. `download` needs a page that fills a buffer and leaves a rest: with
chunks of 2 and two types in the page three rows are applied and unmarked at once, which
makes the bound `2 * MarkChunk - 1` of `ReapplyWindow` tight (in the code 99 rows, not
the 50 that `MARK_APPLIED_CHUNK` suggests). `sync_cycle` needs a holder and a competitor;
triggers need no call of their own. `convergence` has a change on each side or two on
one, next to a restore, which is what it takes for a delete, a move and a restore to
meet. `bookmark_apply` has a parent and a child, in both orders, with slices of 1 so that
a fault falls between any two operations; the browser was empty or has all that the account
may bring. `BookmarkSlices.cfg` has a second bookmark in the folder, 2 operations and no
liveness, and `LossBoundedBySlice` holds there too. `bookmark_capture` a node the import finds and
one that comes while it walks. `bookmark_order` has base 3 so that
a few inserts at one place run through all cases of `keyBetween`, and three bookmarks, which
an import between two of the account's needs, and a move that goes past one and stops before
another. `tabs` has two remote tabs of one group to race for it and
a tab of the user's. In `history` search pages of 1 and chunks of 2 put the borders of
pages and chunks at different visits, and both cutoffs give an older pass. In
`restore_points` two folders nested either way round are what orders moves.

*Deadlock* is checked for the server and the cycle; the upload run ends when every
operation was produced and the queue is empty, and the runs of the extension's parts when
the bounded changes are used up, so these say `CHECK_DEADLOCK FALSE`.

*Fairness.* The client's liveness assumes that the alarm keeps starting cycles,
that the calls' own steps are not put off forever (a request ends by an answer or
by `fetchWithTimeout`), and that a request repeated again and again is taken up by
the server at some time (strong fairness of `TakeRequest`; faults are bounded). In
`DownloadProtocol` the same alarm and timeouts justify weak fairness of the client's
steps, and the user is assumed to update the extension one day. In
`SyncCycle` fairness is strong because an event that is due stays in the browser's
queue while microtasks run before it. `BookmarkApply`
assumes that a page that failed is downloaded again (the next cycle) and that the calls of a
batch go on; `History` that startup and the import's own steps go on, since a
stopped worker is started again by the next alarm; `RestoreJob` that a started worker
goes on with the run and looks for an interrupted one, that time passes, and that every
periodic sync drains the outbox. Peers' changes, local changes, crashes and failures have
no fairness.

## Findings

1. **A retried operation can be dropped** (run `upload_retry`). An operation refused
   with `object_not_found` keeps its sequence. If later operations of its batch
   are accepted, its retry is below `last_device_sequence` and answered
   `duplicate`; the client takes that for stored. `docs/protocol.md` section 15 says that
   it is "only removed from the local pending queue after durable server acceptance".

The following have a configuration of their own that shows the behaviour, outside the list
of runs (`tlc -config <cfg> <module>`):

2. **A move out of a folder can come too late** (`BookmarkTypes.cfg`, `BookmarkApply`).
   `downloadAndApply` applies a page's operations type by type (`sync/engine.ts:591`, `:601`). When the page
   holds a move of a bookmark out of a folder and the folder's delete, and the folders'
   buffer is applied first, the bookmark's node and mapping go with the folder and the move
   finds nothing to move. `docs/protocol.md:1213` orders the operations of a restore "so a
   node the point keeps is moved out of a folder that is about to be deleted", and `:767`
   says that no synchronization operation "may silently destroy unrelated user data".
3. **A restore's placement undoes a later move** (`BookmarkPlaces.cfg`, `BookmarkApply`).
   `applyRemoteBatch` places restored bookmarks after all moves of the batch
   (`bookmarks/index.ts:1572`), the newer moves of the same bookmark included, while the
   record keeps the newer one. `docs/protocol.md:521` says that "the winning move's
   `(parent, position)` pair applies atomically".
4. **Import and cycle** (`MCUploadImport.cfg`, `MCUploadProtocol`). Draining the queue
   before a history chunk does not see rows another call has in flight, or that the drain
   itself requeued; the lower sequence of the two is answered `duplicate`.
5. **Two producers** (`MCUploadProducers.cfg`). Sequences are reserved in one
   transaction and enqueued in another; a cycle in between uploads the higher one
   first. Re-sending a restore as a create takes a sequence of its own and can pass a
   change that is being captured in the same way. `LossExplained` says that nothing else
   loses an operation: it speaks of devices with one producer, before an import or a
   re-sent restore, and excepts the refused ones. `MCUploadClean.cfg` has three faults and
   nothing to refuse, and there `NoLostOperation` and `NeverOutOfOrder` hold as they are.
6. **A restore is not alone** (`SyncCycleRestore.cfg`, `SyncCycle`). `runSyncCycle` tests
   the slot before an await and takes it after it, against the comment on `runExclusive`.
7. **A page can have a hole** (`MCDownloadRace.cfg`, `MCDownloadProtocol`). `download`
   compares the cursor with the floor in one statement and reads the rows in later ones.
   For a device that compaction no longer waits for, rows can be deleted in between, and
   the next cursor lies beyond them. `NothingSkipped` shows that this is the only hole.
8. **`cursor_invalid` is not handled** (`MCDownloadInvalid.cfg`). Only `cursor_too_old`
   makes the client resync; after a restored backup every cycle fails alike.
9. **An exact restore of one folder can delete what the point holds**
   (`MCRestoreOneFolder.cfg`, `MCRestore`). A bookmark that the point has outside the
   folder and that was since moved into a folder the point does not know goes with that
   folder (`planner.ts:188`). The planner's comment and section 16.4 say that "a node the
   point keeps is moved out of a folder that is about to go"; for a restore of all
   bookmarks it is.
10. **A change can find no position** (`MCBookmarkRoom.cfg`, `MCBookmarkOrder`).
   `computePosition` gives `keyBetween` the recorded positions of the two neighbours in the
   browser, and `keyBetween` throws unless the first is below the second. Two devices that
   insert at the same place compute equal positions, and a remote create is appended to its
   folder whatever its position (`bookmarks/index.ts:1020`), so a bookmark put between two
   such neighbours is logged, dropped by `flushBookmarkEvents` (`:573`) and never sent.
   `fractional-index.ts:3` says that "concurrent inserts never require renumbering siblings".
11. **Neighbours restored together come back in the wrong place** (`MCBookmarkRestored.cfg`,
   `MCBookmarkOrder`). `applyMovesBatch` sorts a folder by the positions the whole batch
   gives its children (`bookmarks/index.ts:1240`), while later movers still stand at the end
   of the folder: a mover is put before one of them, and stays there when that one moves
   away. A folder 1, 2, 3 from which 1 and 2 were deleted is restored as 2, 3, 1. The
   comment at `:1396` says "put it where the point had it"; the test of it
   (`restore-support.test.ts:162`) restores one bookmark. `OneMoveKeepsOrder` says that one
   is placed right.

Modelling also met behaviours that the properties except, each named in the comment of the
property or by a history variable:

- *Convergence.* A local update or move records no liveness, but its echo and remote
  updates do, so a delete and a newer update end differently on the device that made the
  update; a local record overwrites a remote winner applied during its await
  (`conflict.ts:190`); a restore that reaches a device where the bookmark still is only
  moves it; a delete or restore that arrives late takes the tombstone over, whatever its key
  (`routes.rs:850`); tombstones carry no key in a snapshot; a late row with a lower key replaces
  the base of a fold (`snapshot.rs:57`).
- *Bookmarks.* What a slice had resolved when a call threw is not applied on the retry; an
  update that revives a deleted bookmark creates nothing, and what went with a removed folder
  comes back only when it is moved or made again; a create that wins the liveness only goes to
  its own folder; a bookmark whose url has a scheme that is not synced is not shown; a flush
  under way when the import begins mints a second id for a node; the guard
  swallows the user's events during an awaited call; a bookmark moved since it was made is
  looked for in its first folder when it is linked, and gets a twin; a removal between the
  sweep's drain and its read of the tree is never sent.
- *Tabs.* A batch with a create and an update of a tab opens it twice, and so may a batch and
  the popup; what fires while the applier awaits a call is not heard; `onSuspend`
  hands over a stash that may be older than what is queued; a restart between a mapping
  and its operation makes every later event an update of an object nobody created, which the server refuses; a
  restart
  between `tabs.group` and its mapping makes a second group.
- *History.* Capture is registered before the boundary is written, so a visit can go up
  both ways; two setters may write the boundary over each other; deleting history
  between a crash and the resume makes the count skip visits; an echo that comes half an hour
  late finds its window swept; switching sync off before
  the resume stamps the import done.
- *Restore points.* A resumed exact restore plans anew, without a new safety copy, and
  deletes what was added since; at the limit the safety copy can evict the very point
  being restored; the move of a folder into its own descendant, possible only in a restore
  of one folder, ends the run.

## Proofs

All theorems hold for every set of devices, operations and every bound that
satisfies the named assumptions of the modules (`OpsAssumption`,
`BulkAssumption`, `BoundsAssumption`, `LapsableAssumption`, `ReaderAssumption`,
`CycleAssumption`, `DevicesAssumption`, `MarkersAssumption`, `ProtocolAssumption`,
`SizesAssumption`, `RetentionAssumption`, `CaptureAssumption`, `TabAssumption`,
`TheirsAssumption`): a batch may hold at least
one operation, the devices are finitely many and their ids are totally ordered.
`RetentionAssumption` says that the import begins within the days the retention setting
keeps (at least seven, `util/retention.ts`), so what it asks for is no later than the
boundary; a device connected and then left unused for longer would ask for visits
captured live.
`BulkAssumption` states that a chunk's id contains its device
(`deterministicBulkIds`).

- `SyncServerProofs`: `TypeCorrect` and `NoGaps`. Type correctness already needs
  `DOMAIN log = 1 .. alloc`: only then do an upload's block of cursors and the log
  make a sequence again. `DeviceOrderHolds`, `ServerImplementsDurableLog`. `OrderInv`
  adds that every row's sequence is at most its device's `lastSeq` (`SeqBelow`)
  and that the accepted operations of an open upload ascend and lie above it
  (`TxOrdered`), which is stable because a device has one upload open. Pruning
  cannot disturb it: it speaks of `lastSeq`, not of stored rows. `LedgerCompleteHolds`, `BulkCountedOnceHolds`,
  `PrunedCoveredHolds`, `PrunedAcknowledgedHolds` and both together as
  `PruningSafeHolds`, `BytesMatchLogHolds`, `OnlyForwardHolds`. `TxOwned` and `TxFresh` carry what validation read about the
  ledger to the commit (the ledger only grows, and a chunk's id belongs to one
  device); `JobCovered` and `AckCovered` carry the boundary that compaction read
  to the last chunk it deletes.
  `NeverDeletedSurvivesHolds`. The snapshot being built must have the
  property before it is committed (`JobSurvives`), the objects of a snapshot are rows of the
  log (`SnapSurvives`), and a tombstone is active only where the log has a delete
  (`TombFromLog`): so neither the winner of a fold nor a tombstone can hide an object that
  was never deleted. `QuotaOvershootBoundedHolds`: `Reserved` counts a batch for every
  open upload that has passed the check, next to the bytes stored; validation adds a batch
  only while the bytes are below the quota, and a commit turns its reservation into bytes.
- `UploadProofs`: `InFlightOwnedHolds`, `NeverOutOfOrderHolds`, `LossExplainedHolds`.
  `UploadInv` ties the two ends together: every request is a batch of one device in
  ascending sequence (`CallsOk`, `StraysOk`), the transaction the server has open is that of
  the call that waits for it or of the request nobody waits for (`ServingOk`), and its
  verdicts are those the batch can get (`TxOk`). `LossInv` is about a device on which only
  the capture and the cycle ran: sequences are handed out, drafted and queued in order
  (`Alone`, `Numbered`); what a request passes over was refused, also for the one nobody waits
  for (`Fronts`), so an operation below the server's `lastSeq` was stored or refused
  (`Passed`), and an answer `duplicate` is explained (`TxRests`, `Answered`). `LossExplainedHolds` has `MaxProducers = 1` as a
  hypothesis since with two producers the property is false (finding 5).
- `DownloadProofs`: `DownloadImplementsServer`, `NothingSkippedHolds`,
  `ReapplyWindowHolds`, for a device that starts from cursor 0 (`LeftOver = 0`; with a
  left-over cursor the rows up to it are lost at once, see finding 8). Every step of the
  protocol is a step of `SyncServer`, so `CoverInv` can be used: with it, a cursor that
  passes the floor check has all later rows still stored (`Asked`). From there the rows of
  a page are followed through `todo`, the buffers and the marks (`Paged`, `Held`) to the
  saved cursor (`Saving`). `Window` says that a buffer is full only while it is flushed.
- `SyncCycleProofs`: `SlotHasOwnerHolds`, `NoForgottenWaiterHolds`, and both as
  `SlotNeverLostHolds`. `SlotInv` adds
  that a parked call is in the waiters' list that the next release resolves.
- `ConvergenceProofs`: `DevicesConsistent`, `ConvergesHolds`, `SnapshotHonoursDeleteHolds`.
  `Converges` speaks of quiet states only, so the invariant has to say what a device holds
  on the way there. `Seen(d)` is what the device knows: the rows it has resolved and its own
  operations already recorded. Its title and move states are the highest keys of these
  (`Winning`), which needs that a new operation's clock is above all the device knows
  (`Clocked`) and that ids tell operations apart (`Numbered`). For the liveness the keys are
  no order, since a delete beats every move: `Deleting` says that each delete seen holds it
  or lost to an operation other than a move. What is shown follows the last queued change,
  else the newest operation not recorded yet, else the state, unless the browser change of
  the winner is still due (`Showing`, `Due`, `Living`). For the snapshot, the tombstone is
  the last delete unless a restore follows (`Tombed`), and the base of a fold is a row.
- `HistoryProofs`: `HistoryConsistent`, `ReplayHarmlessHolds`, `CapturedNotImported`,
  `ScopesConsistent`, `ImportsExactlyOnceHolds`. A
  replayed visit that is uploaded need not be the one whose window was lost: its echo may
  have taken an older window of its page. So `Accounted` counts, page by page: the replays
  uploaded and the echoes on their way without a window of their own are at most the orphans.
  The sweep makes orphans of the replays whose windows it drops (`SweptAccounted`). Counting
  needs that a window belongs to one replay, which is not yet an orphan, and covers it
  (`WindowsOk`); that events are heard oldest first makes an echo take its own window or an
  older one. `PlayOk` keeps the pages still to be replayed apart from those the browser has
  (`KeptOnce`). `BoundaryOk` puts every chunk, read or sent, before the boundary and every replay
  and live visit after it, as long as the boundary was not written over; it rests on everyone
  who goes by the boundary coming after it (`Bounded`). `ScopesConsistent` and
  `ImportsExactlyOnceHolds` (`ScopeInv`, as long as the boundary was not written over): the
  browser's pages, whatever their size, list the visits of a scope in one order, page by page
  latest first and a page's visits oldest first; a visit's place in it is its `Rank`. A chunk
  holds no visit of a rank beyond its end and, if nothing disturbed the scope, all those of
  its ranks (`ChunksOk`); a checkpoint counts full chunks, but for the last (`Resumable`); a
  walk, resumed by count or not, has its next visits at their ranks (`Counts`, `Places`); the
  pages it has not found yet come after those it has, below the next cursor (`Order`,
  `Paging`). Deleting a page only lowers ranks, and all the walk says is an upper bound or
  conditional on no disturbance (`LosesWalk`), so even then no visit goes up in two chunks of
  a scope; the chunks of two scopes are apart because an older scope ends where the import
  began (`Filed`).
- `BookmarkProofs`: `NoEchoHolds`. The invariant (`EchoInv`) follows a "create" back to where
  it comes from: the events queued or in a flush are of nodes the user made, what a flush
  stages are their creations and the mappings of nodes that are gone (`StagedOk`, one
  accumulator per event through `FoldSteps`), what the applier made is linked with its
  "move" record or still under the guard (`LinkedOk`), and so the import lists of it only
  what it was busy with (`WalkOk`). `AnnouncedExactlyOnceHolds`, from `OnceInv`. A node that
  was announced and is still in the browser, or has its "created" event still to be staged,
  has the announced id in the mappings, with a "move" record or a flush about to write one
  (`ToldOk`): so neither the import (`TodoOk`) nor a flush (`SameOk`, `AgreeOk`) gives it
  another. What was queued when the import began is in the flush it waits for, and
  announced and out of its list, or nobody else's, once it has read the tree (`OwedInv`). The
  rest comes from a "created" event being the first about its node (`OrderOk`), from two
  flushes sharing no node outside `twice` (`ApartOk`), and from what one fold stages for it
  (`StagedIs`: one creation for each "created" event, under the id the node has in the
  mappings or gets). A node not announced is under the guard, awaited, staged, or in the list
  of an import that is not over (`CoveredOk`); the import may pass over a node because an id
  with a "move" record is the node's own (`OwnOk`: no id belongs to two nodes) and was
  announced (`MovedOk`, `StatesOk`).
- `TabProofs`: `OneLocalGroupHolds`, `NotTakenForNewHolds`, both from `TabInvHolds`, and
  `CreatedBeforeUpdatedHolds`, for any number of tabs, for bursts and batches of any length, and
  for calls of a batch and of the popup at the same time.
  A burst is followed event by event (`Chain`; `Staged` is what one event may do to the
  mappings and the operations). *Groups:* only the holder of the lock is between the look-up
  and the mapping (`LockOk`), what it read is still true of the groups that exist
  (`HolderOk`), at most one local group is mapped to the remote one (`GroupsOk`), and a group
  that was made is mapped or about to be (`MadeOk`); a removal still queued cannot name a
  group made later, because the numbers are not used again (`EventIn`). *Restored tabs:*
  until its mapping is stored a tab is in `materializingTabIds` (`LinkingOk`) and staging
  passes over it; one that has lost its mapping was closed, and no title, queued event or
  flush still to be staged has an update of it (`UnmappedOk`), since updates never follow a
  removal (`ClosedOk`) and two flushes share no tab outside `raced` (`ApartOk`).
  *Creations:* a tab's object was announced or is in a flush that is about to
  (`AnnouncedOk`), which the flush that updates it cannot overtake by `ApartOk`; for a group
  a recorded state stands for the announcement (`StatesOk`), which holds because the objects
  of tabs and of groups are different ones (`IdsOk`) and staging sees what it staged before
  (`SeenIn`); coalescing drops no creation (`CoalesceFacts`).

*Only model-checked:* the properties of `BookmarkApply` and `RestoreJob`, where
the outcome is that of a whole plan or batch over a tree (and `RestoreJob` sorts with
`SortSeq`, of which the prover knows nothing); of `TabRestore`, that the account mirrors the
open tabs at rest (`TabsMirrored`: it follows every page of a tab through the titles, the
stash, the queue, the flushes and the last payload of each object); of `BookmarkOrder`, whose keys are
made by recursion; and the liveness
properties (`QueueDrains`, `ChangesArrive`, `CatchesUp`, `EveryBatchCompletes`,
`ImportCompletes`, `JobSettles`, `OutboxDrains`), which need fairness and are out of the
prover's reach.

## Not modelled

- *Stand-in roots* (`bookmarks/roots.ts`): folders that take the place of a built-in root a
  browser lacks, and their repair. They would add a second tree of ids to every bookmark
  module for one folder that is never moved.
- *Windows*, a tab's index in one, and the eviction of stashed titles in `tabs/index.ts`: one window, few tabs.
- *The byte limit of a history chunk* (`bulk.ts:513`): a chunk is full by its count of visits;
  and *token refresh*, which writes the same device record as the import's checkpoint, here
  one step.
- *The plaintext field merge* in `combine_object`: encryption is required by default, and
  then objects are merged whole.
- *Garbage collection of field states* (`gcFieldStates`, `runMaintenanceIfDue`) and the
  housekeeping passes other than that of restore points: they delete by age, and the models
  have no clock that separates months from minutes.
- *Authentication, device registration and revocation, rate limits, the push channel*: in
  the models a request may fail and a push may be lost at any time, which is all that
  sync sees of them. Their own correctness is a matter of its own.
- *Cryptography and payload contents* (the models only tell encrypted from plain), HTTP and
  SQL as such, configuration, translations, the popup and the web pages.
