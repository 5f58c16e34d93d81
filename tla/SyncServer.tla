------------------------------ MODULE SyncServer ------------------------------
(***************************************************************************)
(* The server side of sync for one account: upload (process_batch),        *)
(* download, and the compaction job, over the tables they share.           *)
(*                                                                         *)
(* A step is one stretch between points where another transaction can      *)
(* commit.  An upload is two steps: its reads and in-memory validation,    *)
(* then its writes up to COMMIT (the allocator row and the stats lock are  *)
(* held from the first write on).  A download is its three statements.     *)
(* Compaction is the boundary reads, the fold with the tombstone read, the *)
(* commit, and one step per deleted chunk.                                 *)
(*                                                                         *)
(* Abstracted: payloads (one byte each), wall-clock time (a device lapses, *)
(* rows age: nondeterministic choices), authentication and rate limits.    *)
(* Objects are folded by whole-object last-writer-wins, the path of every  *)
(* encrypted object.                                                       *)
(***************************************************************************)
EXTENDS Vocabulary, Sequences, FiniteSets

CONSTANTS
  Ops,               \* every operation a device of the account may upload
  NoOp,              \* "no operation": an absent object or tombstone key
  RequireEncryption, \* config.require_encryption or the user's own setting
  Quota,             \* config.max_storage_bytes, in payloads
  MaxBatch,          \* MAX_OPERATIONS_PER_BATCH
  PageLimit,         \* the download page limit
  MinNewOps,         \* MIN_NEW_OPERATIONS_TO_COMPACT
  ChunkSize,         \* DELETE_CHUNK_SIZE
  MaxPruned,         \* MAX_PRUNED_PER_PASS
  Lapsable,          \* devices that may stay away past a compaction grace period
  MaxOpen            \* bound on the requests the server works on at a time

OpRecord ==
  [ dev : Devices, seq : Nat, lam : Nat, type : STRING, obj : STRING,
    kind : STRING, enc : Nat, fits : BOOLEAN ]

ASSUME OpsAssumption == Ops \subseteq OpRecord /\ IsFiniteSet(Ops) /\ NoOp \notin Ops
\* deterministicBulkIds: the device id is part of a bulk chunk's object id.
ASSUME BulkAssumption ==
  \A o, p \in Ops :
    IsBulkHistoryImport(o) /\ IsBulkHistoryImport(p) /\ Key(o) = Key(p) => o.dev = p.dev
ASSUME BoundsAssumption ==
  /\ {Quota, MaxBatch, PageLimit, MinNewOps, ChunkSize, MaxPruned,
      MaxOpen} \subseteq Nat
  /\ MinNewOps > 0 /\ ChunkSize > 0 /\ PageLimit > 0 /\ MaxBatch > 0
ASSUME LapsableAssumption == Lapsable \subseteq Devices
\* The account has devices, and their ids (UUIDs) are totally ordered.
ASSUME DevicesAssumption ==
  /\ IsFiniteSet(Devices) /\ Devices # {}
  /\ DevRank \in [Devices -> Nat]
  /\ \A d, e \in Devices : DevRank[d] = DevRank[e] => d = e

Keys == {Key(op) : op \in Ops}

VARIABLES
  log,      \* every row ever inserted into sync_operations, by server_cursor
  stored,   \* the cursors whose row is still in sync_operations
  alloc,    \* the account's cursor allocator (sync_cursors, device_id NULL)
  lastSeq,  \* devices.last_device_sequence
  ledger,   \* sync_objects: the objects ever originated, never pruned
  tomb,     \* tombstones: per object, the delete's operation and `active`
  stats,    \* sync_stats and history_visit_hours
  ack,      \* the cursor each device last acknowledged (sync_cursors)
  lapsed,   \* devices the compaction boundary leaves out
  snap,     \* sync_snapshots: cursor and objects of the latest snapshot
  tx,       \* per device, the upload validated and not yet committed
  req,      \* per device, the download being answered
  job       \* the compaction job

logVars   == <<log, stored, alloc, lastSeq, ledger, tomb, stats>>
otherVars == <<ack, lapsed, snap, req, job>>
vars      == <<log, stored, alloc, lastSeq, ledger, tomb, stats, ack, lapsed,
               snap, tx, req, job>>

NoTx    == [batch |-> << >>, out |-> << >>]
NoReq   == [pc |-> "idle", from |-> 0, next |-> 0, more |-> FALSE]
NoJob   == [pc |-> "idle", upto |-> 0, objs |-> [k \in Keys |-> NoOp],
            keep |-> {}, total |-> 0]
NoStats == [bookmarks |-> 0, tabs |-> 0, bytes |-> 0, visits |-> 0]

Init ==
  /\ log = << >>
  /\ stored = {}
  /\ alloc = 0
  /\ lastSeq = [d \in Devices |-> 0]
  /\ ledger = {}
  /\ tomb = [k \in Keys |-> [active |-> FALSE, op |-> NoOp]]
  /\ stats = NoStats
  /\ ack = [d \in Devices |-> 0]
  /\ lapsed = {}
  /\ snap = [cursor |-> 0, objs |-> [k \in Keys |-> NoOp]]
  /\ tx = [d \in Devices |-> NoTx]
  /\ req = [d \in Devices |-> NoReq]
  /\ job = NoJob
-------------------------------------------------------------------------------
(***************************************************************************)
(* Upload, first part: process_batch's reads and its validation loop.      *)
(***************************************************************************)
Verdicts == {"accept", "duplicate", "malformed", "invalid_device_sequence",
             "sequence_out_of_order", "object_not_found", "storage_quota_exceeded"}

\* check_op_shape: vocabulary, encryption, payload and visit-count checks.
ShapeOk(op) ==
  /\ op.type \in KnownObjectTypes
  /\ op.kind \in AllowedOperationTypes[op.type]
  /\ ~(op.enc = 0 /\ RequireEncryption)
  /\ op.fits

\* An earlier operation of the same batch that was accepted and originated k.
OriginatedBefore(b, out, i, k) ==
  \E j \in 1 .. (i - 1) : out[j] = "accept" /\ IsOrigination(b[j]) /\ Key(b[j]) = k

\* Neither the ledger nor an earlier operation of the batch knows the object.
AlwaysOwned(b, out, i) == FALSE
NotOwned(b, out, i) ==
  /\ ~IsOrigination(b[i])
  /\ Key(b[i]) \notin ledger
  /\ ~OriginatedBefore(b, out, i, Key(b[i]))

\* devices.last_device_sequence (the variant reads it from the stored rows).
StoredSequence(d) ==
  LET seqs == {0} \cup {log[c].seq : c \in {x \in stored : log[x].dev = d}}
  IN  CHOOSE n \in seqs : \A m \in seqs : m <= n
PersistedSequence(d) == lastSeq[d]

\* storage_bytes_before >= max_account_storage_bytes (the variant: off by one).
QuotaPassed   == stats.bytes > Quota
QuotaExceeded == stats.bytes >= Quota

\* The loop body for the i-th operation, given the verdicts before it.  The
\* checks and their order are those of the `continue`s.
Verdict(d, b, out, i) ==
  LET op == b[i]
      acceptedBefore == {j \in 1 .. (i - 1) : out[j] = "accept"}
      \* device_sequence <= last_seq, which the loop raises at each accept
      notAfter == \/ op.seq <= PersistedSequence(d)
                  \/ \E j \in acceptedBefore : op.seq <= b[j].seq
  IN  IF \E c \in stored : log[c] = op THEN "duplicate"
      ELSE IF /\ IsBulkHistoryImport(op)
              /\ Key(op) \in ledger \/ OriginatedBefore(b, out, i, Key(op))
        THEN "duplicate"
      ELSE IF ~ShapeOk(op) THEN "malformed"
      ELSE IF op.seq < 1 THEN "invalid_device_sequence"
      ELSE IF notAfter
        THEN IF op.seq <= PersistedSequence(d) THEN "duplicate" ELSE "sequence_out_of_order"
      ELSE IF NotOwned(b, out, i) THEN "object_not_found"
      ELSE IF QuotaExceeded THEN "storage_quota_exceeded"
      ELSE "accept"

\* One upload at a time per device (the upload semaphore and advisory lock).
\* `out` is the only vector of verdicts that satisfies the loop.
ValidateBatch(d, b) ==
  /\ tx[d] = NoTx
  /\ Len(b) \in 1 .. MaxBatch
  /\ \E out \in [1 .. Len(b) -> Verdicts] :
       /\ \A i \in 1 .. Len(b) : out[i] = Verdict(d, b, out, i)
       /\ tx' = [tx EXCEPT ![d] = [batch |-> b, out |-> out]]
  /\ UNCHANGED <<logVars, otherVars>>

(***************************************************************************)
(* Upload, second part: the writes and COMMIT.                             *)
(***************************************************************************)
\* v is the vector accepted_indices: the accepted positions, in order.
IsAcceptedIndices(v, out) ==
  /\ \A k \in 1 .. Len(v) : out[v[k]] = "accept"
  /\ \A i \in DOMAIN out : out[i] = "accept" => \E k \in 1 .. Len(v) : v[k] = i
  /\ \A k \in 1 .. Len(v), l \in 1 .. Len(v) : k < l => v[k] < v[l]

\* The block of n cursors reserved by one update of the allocator row.
EndCursor(n)   == alloc + n
StartCursor(n) == EndCursor(n) - n + 1

\* The log after the accepted operations a took the cursors of their block.
LogWith(a) ==
  [ c \in DOMAIN log \cup (StartCursor(Len(a)) .. EndCursor(Len(a))) |->
      IF c >= StartCursor(Len(a)) THEN a[c - StartCursor(Len(a)) + 1] ELSE log[c] ]

\* Objects that get a ledger row: single visits never do, bulk imports do (in
\* the variant they do not either).
RowsWithoutBulk(a) ==
  { Key(a[k]) : k \in {j \in DOMAIN a : IsOrigination(a[j]) /\ a[j].type # "historyVisit"} }
LedgerRows(a) ==
  { Key(a[k]) : k \in { j \in DOMAIN a :
      IsOrigination(a[j]) /\ (a[j].type # "historyVisit" \/ IsBulkHistoryImport(a[j])) } }

Deleted(a)  == { Key(a[k]) : k \in {j \in DOMAIN a : IsTerminal(a[j])} }
Restored(a) == { Key(a[k]) : k \in {j \in DOMAIN a : IsRestore(a[j])} }

\* The last (highest-cursor) delete of object k in the batch.
LastDelete(a, k) ==
  LET P == {j \in DOMAIN a : IsTerminal(a[j]) /\ Key(a[j]) = k}
  IN  a[CHOOSE j \in P : \A i \in P : i <= j]

\* Tombstones are upserted unconditionally; restores clear `active` after it.
TombWith(a) ==
  [ k \in Keys |->
      [ active |-> IF k \in Restored(a) THEN FALSE
                   ELSE k \in Deleted(a) \/ tomb[k].active,
        op     |-> IF k \in Deleted(a) THEN LastDelete(a, k) ELSE tomb[k].op ] ]

\* GREATEST(0, n - minus) (the variant forgets to subtract).
Uncredited(n, minus)  == n
AtLeastZero(n, minus) == IF minus > n THEN 0 ELSE n - minus

\* Objects of the given types that the batch makes live, and that it buries.
Born(a, types)   == { k \in LedgerRows(a) \ ledger : k[1] \in types }
Buried(a, types) == { k \in Deleted(a) \ Restored(a) : k[1] \in types /\ ~tomb[k].active }
Raised(a, types) == { k \in Restored(a) : k[1] \in types /\ tomb[k].active }

CountWith(n, a, types) ==
  AtLeastZero(n + Cardinality(Born(a, types)) + Cardinality(Raised(a, types)),
              Cardinality(Buried(a, types)))

StatsWith(a) ==
  [ bookmarks |-> CountWith(stats.bookmarks, a, {"bookmark", "bookmarkFolder"}),
    tabs      |-> CountWith(stats.tabs, a, {"tab"}),
    bytes     |-> stats.bytes + Len(a),
    visits    |-> stats.visits + Cardinality({k \in DOMAIN a : a[k].type = "historyVisit"}) ]

CommitBatch(d) ==
  /\ tx[d] # NoTx
  /\ \E n \in 0 .. Len(tx[d].batch) : \E v \in [1 .. n -> 1 .. Len(tx[d].batch)] :
       /\ IsAcceptedIndices(v, tx[d].out)
       /\ LET a == [k \in 1 .. n |-> tx[d].batch[v[k]]]
          IN  IF n = 0
                THEN UNCHANGED logVars
                ELSE /\ alloc' = EndCursor(n)
                     /\ log' = LogWith(a)
                     /\ stored' = stored \cup (StartCursor(n) .. EndCursor(n))
                     /\ ledger' = ledger \cup LedgerRows(a)
                     /\ tomb' = TombWith(a)
                     /\ stats' = StatsWith(a)
                     /\ lastSeq' = [lastSeq EXCEPT ![d] = a[n].seq]
  /\ tx' = [tx EXCEPT ![d] = NoTx]
  /\ UNCHANGED otherVars

\* The handler is dropped (client gone, statement failed): ROLLBACK.
AbortBatch(d) ==
  /\ tx[d] # NoTx
  /\ tx' = [tx EXCEPT ![d] = NoTx]
  /\ UNCHANGED <<logVars, otherVars>>
-------------------------------------------------------------------------------
(***************************************************************************)
(* Download.                                                               *)
(***************************************************************************)
\* cursor < floor, the floor being the larger of the latest snapshot's cursor
\* and the cursor before the oldest stored row.
TooOld(c) == c < snap.cursor \/ (stored # {} /\ \A x \in stored : c < x - 1)

\* One statement reads the bounds and records the acknowledged cursor, capped
\* at the allocator and only ever forward.
AckWith(d, c) ==
  LET capped == IF c < alloc THEN c ELSE alloc
  IN  [ack EXCEPT ![d] = IF @ < capped THEN capped ELSE @]

\* The rows of the answer start after the cursor (in the variant, with it).
FromCursor(c)  == [NoReq EXCEPT !.pc = "bounded", !.from = c - 1]
AfterCursor(c) == [NoReq EXCEPT !.pc = "bounded", !.from = c]

DownloadBounds(d, c) ==
  /\ req[d] = NoReq
  /\ ack' = AckWith(d, c)
  /\ req' = [req EXCEPT ![d] = IF TooOld(c) \/ c > alloc
                                 THEN NoReq
                                 ELSE AfterCursor(c)]
  /\ UNCHANGED <<logVars, lapsed, snap, tx, job>>

\* The page is cut by row count and by bytes; it holds at least one row when
\* there is one.
SizePage(d) ==
  LET newer == {x \in stored : x > req[d].from}
  IN  /\ req[d].pc = "bounded"
      /\ \/ /\ newer = {}
            /\ req' = [req EXCEPT ![d].pc = "sized", ![d].next = req[d].from]
         \/ \E x \in newer :
              /\ Cardinality({y \in newer : y <= x}) <= PageLimit
              /\ req' = [req EXCEPT ![d] =
                           [pc |-> "sized", from |-> req[d].from, next |-> x,
                            more |-> \E y \in newer : y > x]]
      /\ UNCHANGED <<logVars, ack, lapsed, snap, tx, job>>

\* The rows of the answer, read by a statement of their own.
PageRows(d) == {x \in stored : req[d].from < x /\ x <= req[d].next}

FetchRows(d) ==
  /\ req[d].pc = "sized"
  /\ req' = [req EXCEPT ![d] = NoReq]
  /\ UNCHANGED <<logVars, ack, lapsed, snap, tx, job>>

\* The request is dropped before it is answered.
DropRequest(d) ==
  /\ req[d] # NoReq
  /\ req' = [req EXCEPT ![d] = NoReq]
  /\ UNCHANGED <<logVars, ack, lapsed, snap, tx, job>>

\* touch_last_seen_background: a request brings the device back in view, at
\* some time after it arrived.
Touch(d) ==
  /\ d \in lapsed
  /\ req[d] # NoReq \/ tx[d] # NoTx
  /\ lapsed' = lapsed \ {d}
  /\ UNCHANGED <<logVars, ack, snap, tx, req, job>>

\* A device stays away longer than a grace period.
Lapse(d) ==
  /\ d \in Lapsable \ lapsed
  /\ req[d] = NoReq /\ tx[d] = NoTx
  /\ lapsed' = lapsed \cup {d}
  /\ UNCHANGED <<logVars, ack, snap, tx, req, job>>
-------------------------------------------------------------------------------
(***************************************************************************)
(* Snapshots.  An object is the operation that won it.                     *)
(***************************************************************************)
Latest(S) == CHOOSE o \in S : \A p \in S : p = o \/ KeyLess(p, o)

\* compute_objects: the rows after the base snapshot, up to cursor `upto`,
\* folded into its objects: the latest new row of an object replaces the base.
\* History older than cursor h is past the user's retention and left out.
FoldForgetsBase(base, upto, h) ==
  [ k \in Keys |->
      LET rows == {x \in stored : base.cursor < x /\ x <= upto /\ Key(log[x]) = k}
      IN  IF rows # {} THEN Latest({log[x] : x \in rows}) ELSE NoOp ]
Fold(base, upto, h) ==
  [ k \in Keys |->
      LET rows == { x \in stored : /\ base.cursor < x /\ x <= upto
                                   /\ Key(log[x]) = k
                                   /\ ~(k[1] = "historyVisit" /\ x <= h) }
          old  == /\ k[1] = "historyVisit"
                  /\ \E x \in DOMAIN log : x <= h /\ log[x] = base.objs[k]
      IN  IF rows # {} THEN Latest({log[x] : x \in rows})
          ELSE IF old THEN NoOp ELSE base.objs[k] ]

\* filter_tombstoned: a winning delete hides the object, and so does an active
\* tombstone unless the object's key beats it.
Live(objs) ==
  [ k \in Keys |->
      IF /\ objs[k] # NoOp
         /\ \/ IsTerminal(objs[k])
            \/ tomb[k].active /\ ~KeyLess(tomb[k].op, objs[k])
        THEN NoOp ELSE objs[k] ]

CountOf(objs, types) == Cardinality({k \in Keys : k[1] \in types /\ objs[k] # NoOp})
-------------------------------------------------------------------------------
(***************************************************************************)
(* Compaction.                                                             *)
(***************************************************************************)
\* The largest stored cursor, 0 when the log is empty.
IsMaxOpCursor(m) == m \in stored \cup {0} /\ \A x \in stored : x <= m

\* The least cursor acknowledged by the devices in view, capped by the log.
IsBoundary(b, m) ==
  LET cursors == {ack[d] : d \in Devices \ lapsed} \cup {m}
  IN  b \in cursors /\ \A e \in cursors : b <= e

\* Deletes with a cursor above r are within the tombstone retention window.
Survivors(upto, r) == {x \in stored : x <= upto /\ x > r /\ IsTerminal(log[x])}

\* The reads of compact_user.  With too few new operations it only prunes up
\* to the snapshot that exists.
BeginCompaction ==
  /\ job = NoJob
  /\ \E m \in stored \cup {0} : \E b \in 0 .. m :
       /\ IsMaxOpCursor(m) /\ IsBoundary(b, m) /\ b > 0
       /\ IF snap.cursor > 0 /\ b < snap.cursor + MinNewOps
            THEN \E r \in 0 .. snap.cursor :
                   job' = [NoJob EXCEPT !.pc = "prune", !.upto = snap.cursor,
                                        !.keep = Survivors(snap.cursor, r)]
            ELSE job' = [NoJob EXCEPT !.pc = "build", !.upto = b]
  /\ UNCHANGED <<logVars, ack, lapsed, snap, tx, req>>

\* The fold up to the boundary, hidden by the tombstones active at this time
\* (the variant starts pruning before the snapshot is committed).
PruneUncommitted ==
  /\ job.pc = "build"
  /\ job' = [job EXCEPT !.pc = "prune"]
  /\ UNCHANGED <<logVars, ack, lapsed, snap, tx, req>>
BuildSnapshot ==
  /\ job.pc = "build"
  /\ \E h \in 0 .. alloc :
       job' = [job EXCEPT !.pc = "built", !.objs = Live(Fold(snap, job.upto, h))]
  /\ UNCHANGED <<logVars, ack, lapsed, snap, tx, req>>

\* Ledger self-heal, recount under the stats lock, COMMIT; then the rows the
\* prune will keep are read.
CommitSnapshot ==
  LET new == [cursor |-> job.upto, objs |-> job.objs]
      now == Live(Fold(new, alloc, 0))
  IN  /\ job.pc = "built"
      /\ snap' = new
      /\ ledger' = ledger \cup { k \in Keys : job.objs[k] # NoOp
                                              /\ IsBulkHistoryImport(job.objs[k]) }
      /\ stats' = [stats EXCEPT
                     !.bookmarks = CountOf(now, {"bookmark", "bookmarkFolder"}),
                     !.tabs = CountOf(now, {"tab"})]
      /\ \E r \in 0 .. job.upto :
           job' = [NoJob EXCEPT !.pc = "prune", !.upto = job.upto,
                                !.keep = Survivors(job.upto, r)]
      /\ UNCHANGED <<log, stored, alloc, lastSeq, tomb, ack, lapsed, tx, req>>

\* The oldest rows first, at most ChunkSize of them.
IsChunk(del, rows) ==
  /\ del \subseteq rows
  /\ \A x \in del, y \in rows \ del : x < y
  /\ Cardinality(del) = ChunkSize \/ (del = rows /\ Cardinality(del) < ChunkSize)

\* One chunk of prune_compacted_operations: delete, credit the bytes, COMMIT.
PruneChunk ==
  /\ job.pc = "prune"
  /\ \E del \in SUBSET {x \in stored : x <= job.upto /\ x \notin job.keep} :
       /\ IsChunk(del, {x \in stored : x <= job.upto /\ x \notin job.keep})
       /\ stored' = stored \ del
       /\ stats' = [stats EXCEPT !.bytes = AtLeastZero(@, Cardinality(del))]
       /\ job' = IF \/ Cardinality(del) < ChunkSize
                    \/ job.total + Cardinality(del) >= MaxPruned
                   THEN NoJob
                   ELSE [job EXCEPT !.total = @ + Cardinality(del)]
  /\ UNCHANGED <<log, alloc, lastSeq, ledger, tomb, ack, lapsed, snap, tx, req>>

\* The process stops: open transactions roll back, requests and the job end.
Restart ==
  /\ tx' = [d \in Devices |-> NoTx]
  /\ req' = [d \in Devices |-> NoReq]
  /\ job' = NoJob
  /\ UNCHANGED <<logVars, ack, lapsed, snap>>
-------------------------------------------------------------------------------
\* What a device may send: operations of its own, in any order.
BatchesOf(d) == UNION {[1 .. n -> {op \in Ops : op.dev = d}] : n \in 1 .. MaxBatch}

\* Any cursor that was handed out (a delayed request carries an old one); one
\* above the allocator is left over from before the database was restored.
CursorsOf == 0 .. (alloc + 1)

Open == Cardinality({d \in Devices : tx[d] # NoTx}) + Cardinality({d \in Devices : req[d] # NoReq})

Next ==
  \/ Open < MaxOpen /\ \E d \in Devices : \E b \in BatchesOf(d) : ValidateBatch(d, b)
  \/ \E d \in Devices : CommitBatch(d)
  \/ \E d \in Devices : AbortBatch(d)
  \/ Open < MaxOpen /\ \E d \in Devices : \E c \in CursorsOf : DownloadBounds(d, c)
  \/ \E d \in Devices : SizePage(d)
  \/ \E d \in Devices : FetchRows(d)
  \/ \E d \in Devices : DropRequest(d)
  \/ \E d \in Devices : Touch(d)
  \/ \E d \in Devices : Lapse(d)
  \/ BeginCompaction
  \/ BuildSnapshot
  \/ CommitSnapshot
  \/ PruneChunk
  \/ Restart

Spec == Init /\ [][Next]_vars
-------------------------------------------------------------------------------
(***************************************************************************)
(* Properties.                                                             *)
(***************************************************************************)
OpOrNone == Ops \cup {NoOp}

\* Every variable has its type: the log is a sequence of operations whatever
\* cursors the uploads reserved, the stored rows are rows of the log, and an open
\* upload holds operations of its own device with one verdict each.
TypeOK ==
  /\ alloc \in Nat
  /\ log \in Seq(Ops)
  /\ stored \subseteq DOMAIN log
  /\ lastSeq \in [Devices -> Nat]
  /\ ledger \subseteq Keys
  /\ tomb \in [Keys -> [active : BOOLEAN, op : OpOrNone]]
  /\ stats \in [bookmarks : Nat, tabs : Nat, bytes : Nat, visits : Nat]
  /\ ack \in [Devices -> Nat]
  /\ lapsed \subseteq Lapsable
  /\ snap \in [cursor : Nat, objs : {snap.objs}] /\ DOMAIN snap.objs = Keys
  /\ tx \in [Devices -> [batch : Seq(Ops), out : Seq(Verdicts)]]
  /\ \A d \in Devices : /\ Len(tx[d].out) = Len(tx[d].batch)
                       /\ \A i \in 1 .. Len(tx[d].batch) : tx[d].batch[i].dev = d
  /\ req \in [Devices -> [pc : {"idle", "bounded", "sized"}, from : Nat,
                          next : Nat, more : BOOLEAN]]
  /\ job \in [pc : {"idle", "build", "built", "prune"}, upto : Nat,
              objs : {job.objs}, keep : SUBSET Nat, total : Nat]
  /\ DOMAIN job.objs = Keys

\* The cursors handed out are exactly 1 .. alloc (docs/protocol.md 4.3:
\* "strictly increasing, per-user, gap-free"), whatever uploads interleave.
LogGapFree == DOMAIN log = 1 .. alloc

\* A device's operations are stored once each and in the order of their
\* sequences, also when a retry arrives after its row was pruned: the replay
\* check rests on last_device_sequence alone then.
DeviceOrder ==
  \A c, e \in DOMAIN log :
    c < e /\ log[c].dev = log[e].dev => log[c].seq < log[e].seq

\* A bulk history chunk is counted once, even if its row was pruned and the
\* client retries it under a new device sequence.
BulkCountedOnce ==
  \A c, e \in DOMAIN log :
    /\ IsBulkHistoryImport(log[c]) /\ IsBulkHistoryImport(log[e])
    /\ Key(log[c]) = Key(log[e])
    => c = e

\* Every stored operation but a single visit is about an object the ledger
\* knows, so compaction can never make a later update read object_not_found.
LedgerComplete ==
  \A c \in DOMAIN log :
    Key(log[c]) \in ledger \/ (log[c].type = "historyVisit" /\ log[c].kind = "visit")

\* A row is only ever deleted under a committed snapshot that covers it
\* (docs/protocol.md 11, rule 2), across chunks, restarts and later passes.
PrunedCovered == \A c \in DOMAIN log \ stored : c <= snap.cursor

\* sync_stats.storage_bytes is the size of the rows really stored, however
\* uploads and prune chunks interleave.
BytesMatchLog == stats.bytes = Cardinality(stored)

\* Each device can overshoot the quota by at most the batch it had validated
\* when the account was still below it.
QuotaOvershootBounded ==
  stats.bytes < Quota + MaxBatch * Cardinality(Devices)

\* Compaction waits for every device that is not gone (docs/protocol.md 11,
\* rule 1): a pruned row was acknowledged by each of them, although the boundary
\* is read long before the last chunk is deleted.
PrunedAcknowledged ==
  \A d \in Devices \ Lapsable : \A c \in DOMAIN log \ stored : c <= ack[d]

\* Nothing is lost to compaction: what is deleted is in the snapshot and was
\* seen by every device that still comes (docs/protocol.md 11, rules 1 and 2).
PruningSafe == PrunedCovered /\ PrunedAcknowledged

\* Compaction never loses an object: one that was touched at or before the
\* snapshot's cursor and never deleted is in the snapshot.
NeverDeletedSurvives ==
  \A c \in DOMAIN log :
    /\ c <= snap.cursor
    /\ log[c].type # "historyVisit"
    /\ \A e \in DOMAIN log : Key(log[e]) = Key(log[c]) => ~IsTerminal(log[e])
    => snap.objs[Key(log[c])] # NoOp

\* No step rewrites a stored operation, takes back a cursor, an
\* acknowledgement or a device's sequence, or goes back to an older snapshot.
Forward ==
  /\ \A c \in DOMAIN log : c \in DOMAIN log' /\ log'[c] = log[c]
  /\ alloc <= alloc'
  /\ \A d \in Devices : ack[d] <= ack'[d] /\ lastSeq[d] <= lastSeq'[d]
  /\ snap.cursor <= snap'.cursor
  /\ ledger \subseteq ledger'
\* Every step is forward.
OnlyForward == [][Forward]_vars

\* The server implements the abstract log.
AbstractLog == INSTANCE DurableLog WITH committed <- log, Operations <- Ops
ImplementsDurableLog == AbstractLog!Spec
===============================================================================
