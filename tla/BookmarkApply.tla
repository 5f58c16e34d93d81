----------------------------- MODULE BookmarkApply -----------------------------
(***************************************************************************)
(* Remote bookmark operations on one device (sync/engine.ts,               *)
(* bookmarks/index.ts): the operations of a page are applied in batches of *)
(* folders and batches of bookmarks.  A batch is resolved a slice at a     *)
(* time, each slice in one transaction, and only then made visible, one    *)
(* chrome.bookmarks call after another.  Between two calls the user may    *)
(* change the tree, a call may throw, or the worker may be killed; the     *)
(* page is then downloaded again, and what had been resolved is not        *)
(* applied a second time.                                                  *)
(*                                                                         *)
(* A node is known by its Chromium id, which is never used again.  The     *)
(* other devices are one peer with a tree of its own.  The order of        *)
(* siblings and what a title says are not modelled; the local capture and  *)
(* the import of what the browser had are in BookmarkCapture.              *)
(***************************************************************************)
EXTENDS FieldStates, SequencesExt

CONSTANTS
  Objects,     \* the account's bookmarks and folders
  Folders,     \* those that are folders
  Root,        \* the object id of the one root folder
  Stray,       \* an object id minted for a folder that has none
  Slice,       \* REMOTE_RESOLVE_SLICE
  Chunk,       \* MARK_APPLIED_CHUNK
  MaxFeed,     \* bound on the peer's operations
  MaxDisturb   \* bound on the changes of the user and restarts, together

ASSUME ApplyAssumption ==
  /\ Root # Stray /\ {Root, Stray} \cap Objects = {}
  /\ Folders \subseteq Objects
  /\ {Slice, Chunk} \subseteq Nat \ {0}
  /\ {MaxFeed, MaxDisturb} \subseteq Nat

VARIABLES
  peer,      \* the peer's tree: object -> parent object
  feed,      \* the server's log
  held,      \* an operation of the peer's that was rejected and goes up later
  at,        \* sync_state.cursor
  tree,      \* the browser's tree: node -> parent node
  looks,     \* node -> the object whose title and url it shows
  map,       \* object_mappings: node -> object
  states,    \* field_state
  deferred,  \* deferred_materializations: object -> the parent it waits for
  clock,     \* sync_state.lamportClock
  later,     \* batches of the page that have not begun
  done,      \* operations of the running batch, by id
  marks,     \* appliedBuffer
  marked,    \* applied_operations of the page
  batch,     \* operations of the running batch not resolved yet
  slice,     \* resolved operations whose browser changes are due
  pre,       \* prefetched: object -> node, read when the batch began
  moves,     \* pendingMoves
  titles,    \* pendingTitleUrl
  places,    \* restorePlacements
  work,      \* calls under way, the next one first
  upto,      \* the cursor the page ends at, 0 when none is applied
  phase,     \* how far the first import has come
  barred,    \* bookmarks whose url has a scheme that is not synced
  events,    \* captured changes not flushed yet
  user, crashes, fresh,
  dropped,   \* objects that lost their node with the folder they were in
  revived,   \* deleted objects that an update brought back
  raced,     \* objects placed by another operation than the winning move
  budget,    \* what the faults so far may have cost
  swept      \* bookmarkMappingSweepDone

remote == <<peer, feed, held>>
local  == <<tree, looks, map, fresh, dropped>>
record == <<states, clock, revived, raced>>
page   == <<later, done, marks, marked, upto>>
queue  == <<page, batch, slice, pre, moves, titles, places>>
stage  == <<at, phase, swept, barred>>
bounds == <<events, user, crashes>>
vars   == <<remote, local, record, deferred, queue, work, stage, bounds, budget>>

\* linkExistingBookmarks; "again" is a download after one that failed, or whose
\* import did not end.
Linking == phase \in {"download", "again"}

RootNode == 0

Ids == Objects \union {Root}

\* Nodes 1 and up that were in the browser before it was connected.
Own == {n \in DOMAIN looks : n > 0 /\ n <= Cardinality(Objects)}
-------------------------------------------------------------------------------
\* mapping.ts and the by-object-id index, which returns the lowest node.
NodesOf(o) == {n \in DOMAIN map : map[n] = o}
Linked(o)  == o = Root \/ NodesOf(o) # {}
NodeOf(o)  == IF o = Root THEN RootNode ELSE Min(NodesOf(o))

Exists(n) == n = RootNode \/ n \in DOMAIN tree

\* n and everything under it: descendantIds, getSubTree, removeTree.
Subtree(n) ==
  LET reach[k \in Nat] ==
        IF k = 0 THEN {n}
        ELSE reach[k-1] \union {m \in DOMAIN tree : tree[m] \in reach[k-1]}
  IN reach[Cardinality(DOMAIN tree)]

Without(f, S) == [x \in DOMAIN f \ S |-> f[x]]
With(f, x, v) == [y \in DOMAIN f \union {x} |-> IF y = x THEN v ELSE f[y]]

\* mappedNodeExists
Shown(o) == Linked(o) /\ Exists(NodeOf(o))

Waiting(p) == {o \in DOMAIN deferred : deferred[o] = p}

DeferUntilParentMaterializes(o, p) == deferred' = With(deferred, o, p)

DeleteDeferred(S) == deferred' = Without(deferred, S)

\* The browser was empty, or has all that the account may bring.
Init ==
  /\ peer = [o \in {} |-> Root] /\ feed = << >> /\ held = << >>
  /\ \E S \in {{}, 1..Cardinality(Objects)} :
       /\ tree = [n \in S |-> Min({n - 1, Cardinality(Folders)})]
       /\ looks = [n \in S |-> (SetToSeq(Folders) \o SetToSeq(Objects \ Folders))[n]]
  /\ map = [n \in {} |-> Root] /\ deferred = [o \in {} |-> Root]
  /\ fresh = Cardinality(Objects) + 1 /\ dropped = {} /\ revived = {} /\ raced = {}
  /\ barred = {}
  /\ later = << >> /\ done = << >> /\ marks = << >> /\ marked = {}
  /\ states = [o \in Objects |-> Blank] /\ clock = 0
  /\ batch = << >> /\ slice = << >> /\ pre = [o \in {} |-> RootNode]
  /\ moves = << >> /\ titles = << >> /\ places = << >> /\ upto = 0
  /\ work = << >> /\ at = 0 /\ phase = "download" /\ swept = FALSE
  /\ events = << >> /\ user = 0 /\ crashes = 0 /\ budget = 0
-------------------------------------------------------------------------------
(***************************************************************************)
(* The other devices.  Their operations reach the log in the order they    *)
(* were made, but for a create that the server rejected and that is issued *)
(* again later.  A batch only sees what was in the log when it began.      *)
(***************************************************************************)
PeerUnder(o) ==
  LET reach[k \in Nat] ==
        IF k = 0 THEN {o}
        ELSE reach[k-1] \union {x \in DOMAIN peer : peer[x] \in reach[k-1]}
  IN reach[Cardinality(Objects)]

Held == {held[i].obj : i \in DOMAIN held}
Made == {feed[i].obj : i \in DOMAIN feed} \union Held

PeerOp(kind, o, p) ==
  LET n == Len(feed) + Len(held) + 1
  IN [id |-> n, lam |-> n, dev |-> 1, kind |-> kind, obj |-> o, parent |-> p]

Sends(op) ==
  \/ feed' = Append(feed, op) /\ held' = held
  \/ held = << >> /\ op.kind = "create" /\ held' = <<op>> /\ feed' = feed

\* The url of a new bookmark may have a scheme that is not synced; one that the
\* browser has already does not.
Barrings(o) ==
  IF o \in Folders \union Made \union {looks[n] : n \in DOMAIN looks} THEN {barred}
  ELSE {barred, barred \union {o}}

Peer ==
  /\ upto = 0 /\ Len(feed) + Len(held) < MaxFeed
  /\ \E o \in Objects \ Held : \E p \in ((DOMAIN peer \cap Folders) \union {Root}) \ {o} :
       \/ o \notin DOMAIN peer /\ peer' = With(peer, o, p)
          /\ Sends(PeerOp(IF o \in Made THEN "restore" ELSE "create", o, p))
          /\ barred' \in Barrings(o)
       \/ /\ o \in DOMAIN peer /\ p \notin PeerUnder(o) \union {peer[o]}
          /\ peer' = With(peer, o, p) /\ Sends(PeerOp("move", o, p))
          /\ UNCHANGED barred
       \/ /\ o \in DOMAIN peer /\ p = peer[o] /\ peer' = peer
          /\ Sends(PeerOp("update", o, p)) /\ UNCHANGED barred
       \/ /\ o \in DOMAIN peer /\ p = peer[o] /\ peer' = Without(peer, PeerUnder(o))
          /\ Sends(PeerOp("delete", o, p)) /\ UNCHANGED barred
  /\ UNCHANGED <<local, record, deferred, queue, work, at, phase, swept, bounds, budget>>

PeerLate ==
  /\ upto = 0 /\ held # << >>
  /\ feed' = Append(feed, held[1]) /\ held' = << >>
  /\ UNCHANGED <<peer, local, record, deferred, queue, work, stage, bounds, budget>>
-------------------------------------------------------------------------------
(***************************************************************************)
(* The user changes the tree; the capture flush follows later.             *)
(***************************************************************************)
UserRemove(n) ==
  /\ user + crashes < MaxDisturb /\ n \in DOMAIN tree
  /\ user' = user + 1
  /\ tree' = Without(tree, Subtree(n))
  /\ events' = Append(events, [kind |-> "delete", n |-> n, in |-> Subtree(n)])
  /\ UNCHANGED <<remote, looks, map, fresh, dropped, record, deferred, queue, work,
                 stage, crashes, budget>>

UserMove(n, m) ==
  /\ user + crashes < MaxDisturb /\ n \in DOMAIN tree
  /\ m # RootNode => looks[m] \in Folders
  /\ m \notin Subtree(n) \union {tree[n]}
  /\ user' = user + 1
  /\ tree' = [tree EXCEPT ![n] = m]
  /\ events' = Append(events, [kind |-> "move", n |-> n, in |-> {m}])
  /\ UNCHANGED <<remote, looks, map, fresh, dropped, record, deferred, queue, work,
                 stage, crashes, budget>>

LocalOp(kind, o, p) ==
  [id |-> user, lam |-> clock + 1, dev |-> 2, kind |-> kind, obj |-> o, parent |-> p]

\* The object id of a folder; one without is given a new one.
ObjectIdFor(m) == IF m = RootNode THEN Root ELSE IF m \in DOMAIN map THEN map[m] ELSE Stray

(***************************************************************************)
(* flushBookmarkEvents, an event at a time: a change of a node that is not *)
(* mapped is nobody's, a move of one that is gone is dropped, and with a   *)
(* removed folder go the mappings of all that was in it.  The removal or   *)
(* move of a node the applier has created and not mapped yet is lost.      *)
(***************************************************************************)
\* The budget after a fault that may cost n more, up to all objects.
Spent(n) == Min({budget + n, Cardinality(Objects)})

Unmapped == IF work # << >> /\ Head(work).do = "link" THEN {Head(work).nodes[1]} ELSE {}

\* Objects that a resolved operation has still to place.
Unplaced ==
  {slice[i].op.obj : i \in DOMAIN slice} \union {moves[i].obj : i \in DOMAIN moves}
  \union {places[i].obj : i \in DOMAIN places} \union {work[i].o : i \in DOMAIN work}

\* The nodes a change is about.
Touched(e) == IF e.kind = "delete" THEN e.in ELSE {e.n}

Flush ==
  /\ events # << >>
  /\ events' = Tail(events)
  /\ LET e == Head(events)
         o == map[e.n]
         m == CHOOSE x \in e.in : TRUE
         op == LocalOp(e.kind, o, IF e.kind = "move" THEN ObjectIdFor(m) ELSE Root)
     IN /\ IF e.n \notin DOMAIN map \/ (e.kind = "move" /\ ~Exists(e.n))
          THEN UNCHANGED <<map, states, clock, dropped>>
          ELSE /\ map' = IF e.kind = "delete" THEN Without(map, e.in)
                         ELSE IF m \in DOMAIN map \union {RootNode} THEN map
                         ELSE With(map, m, Stray)
               /\ dropped' = IF e.kind = "delete"
                               THEN dropped \union {map[x] : x \in (e.in \cap DOMAIN map) \ {e.n}}
                               ELSE dropped
               /\ states' = IF o = Stray THEN states
                            ELSE [states EXCEPT ![o] = Recorded(@, op)]
               /\ clock' = clock + 1
        /\ budget' = Spent(Cardinality(Touched(e) \cap Unmapped))
        /\ raced' = IF e.kind = "move" /\ e.n \in DOMAIN map /\ o \in Unplaced
                      THEN raced \union {o} ELSE raced
  /\ UNCHANGED <<remote, revived, tree, looks, fresh, deferred, queue, work, stage, user, crashes>>
-------------------------------------------------------------------------------
(***************************************************************************)
(* downloadAndApply: the page is everything after the cursor.  Operations  *)
(* are put in one buffer per object type; a full one is applied at once,   *)
(* the others when the page ends, in the order of their first operations.  *)
(***************************************************************************)
TypeOf(op) == IF op.obj \in Folders THEN "bookmarkFolder" ELSE "bookmark"

\* pushToGroup: what the i-th operation finds of its type, and itself.
PushToGroup(ops, i) ==
  SelectSeq(SubSeq(ops, 1, i), LAMBDA op : TypeOf(op) = TypeOf(ops[i]))

\* The calls of the batch appliers: flushBatchBuffer when the i-th operation
\* fills its buffer, then flushAllBatchBuffers.
BatchesOf(ops) ==
  LET full(i) == LET n == Len(PushToGroup(ops, i))
                 IN IF n % Chunk # 0 THEN << >>
                    ELSE <<SubSeq(PushToGroup(ops, i), n - Chunk + 1, n)>>
      all(i)  == SelectSeq(ops, LAMBDA op : TypeOf(op) = TypeOf(ops[i]))
      rest(i) == LET n == Len(all(i))
                 IN IF Len(PushToGroup(ops, i)) > 1 \/ n % Chunk = 0 THEN << >>
                    ELSE <<SubSeq(all(i), n - (n % Chunk) + 1, n)>>
  IN FlattenSeq([i \in DOMAIN ops |-> full(i)]) \o FlattenSeq([i \in DOMAIN ops |-> rest(i)])

\* The clock moves past everything received before any of it is applied.
StartPage ==
  /\ upto = 0 /\ at < Len(feed)
  /\ LET ops == SubSeq(feed, at + 1, Len(feed))
     IN /\ later' = BatchesOf(SelectSeq(ops, LAMBDA op : op.id \notin marked))
        /\ clock' = Max({clock} \union {op.lam : op \in ToSet(ops)}) + 1
  /\ upto' = Len(feed)
  /\ UNCHANGED <<remote, local, states, revived, raced, deferred, done, marks, marked, batch, slice,
                 pre, moves, titles, places, work, stage, bounds, budget>>

\* chromiumIdsFor
Lookup(S) == [o \in {x \in S : Linked(x)} |-> NodeOf(o)]

Involved(ops) == {ops[i].obj : i \in DOMAIN ops} \union {ops[i].parent : i \in DOMAIN ops}

Idle == batch = << >> /\ slice = << >> /\ work = << >> /\ titles = << >> /\ moves = << >> /\ places = << >>

\* applyRemoteBatch is called with one buffer.
StartBatch ==
  /\ upto # 0 /\ Idle /\ done = << >> /\ later # << >>
  /\ batch' = Head(later) /\ later' = Tail(later)
  /\ done' = [i \in DOMAIN batch' |-> batch'[i].id]
  /\ pre' = Lookup(Involved(batch'))
  /\ UNCHANGED <<remote, local, record, deferred, marks, marked, upto, slice, moves, titles,
                 places, work, stage, bounds, budget>>

Opens(op) == op.kind \in {"create", "restore"}

\* One operation of a slice: the states after it, and what it won.
ResolveOne(acc, op) ==
  LET st == [acc.st EXCEPT ![op.obj] = Resolved(@, op)]
  IN [st  |-> st,
      out |-> Append(acc.out, [op |-> op, wins |-> Wins(acc.st[op.obj], op),
                               live |-> IsLive(st[op.obj]), was |-> IsLive(acc.st[op.obj])])]

\* An update that wins the liveness of a deleted object; nothing is created for it.
Revived(out) ==
  {r.op.obj : r \in {x \in ToSet(out) : x.op.kind = "update" /\ x.live /\ ~x.was}}

\* What ends in another folder than the recorded one: a create or restore that
\* wins the liveness only goes to its own folder all the same, and a restore is
\* placed again after the batch's moves, the later ones of the same object too.
Misplaced(out) ==
  LET placed(i) == {places[j].obj : j \in DOMAIN places}
                   \union {out[j].op.obj : j \in {k \in 1..(i - 1) : out[k].op.kind = "restore"}}
  IN {out[i].op.obj : i \in {k \in DOMAIN out :
        IF Opens(out[k].op) THEN "liveness" \in out[k].wins /\ "move" \notin out[k].wins
        ELSE out[k].op.kind = "move" /\ out[k].op.obj \in placed(k)}}

SliceLengthAll == Len(batch)

SliceLength == IF Len(batch) < Slice THEN Len(batch) ELSE Slice

\* resolveRemoteSlice, once the slice before has been applied.
ResolveSlice ==
  /\ upto # 0 /\ work = << >> /\ slice = << >> /\ titles = << >> /\ batch # << >>
  /\ LET res == FoldLeft(ResolveOne, [st |-> states, out |-> << >>],
                         SubSeq(batch, 1, SliceLength))
     IN states' = res.st /\ slice' = res.out
  /\ LET dead == {o \in Objects : ~IsLive(states'[o])}
     IN /\ raced' = (raced \union Misplaced(slice')) \ dead
        /\ revived' = (revived \union Revived(slice')) \ dead
  /\ batch' = SubSeq(batch, SliceLength + 1, Len(batch))
  /\ UNCHANGED <<remote, local, clock, deferred, page, pre, moves, titles, places, work,
                 stage, bounds, budget>>

\* A call about object o and parent p, with the nodes looked up for it; again
\* when it comes from retryDeferredParent.
Task(do, o, p, nodes, again) ==
  [do |-> do, o |-> o, p |-> p, nodes |-> nodes, again |-> again]

NoNode == -1
NodeOrNone(o) == IF Linked(o) THEN NodeOf(o) ELSE NoNode

\* applyMovesBatch looks all the nodes up before the first move.
MoveTasks(ms) ==
  [i \in DOMAIN ms |-> Task("mv", ms[i].obj, ms[i].parent,
     <<NodeOrNone(ms[i].obj), NodeOrNone(ms[i].parent)>>, FALSE)]

TitleTasks == [i \in DOMAIN titles |-> Task("title", titles[i], Root, << >>, FALSE)]

(***************************************************************************)
(* The next operation of the slice.  Updates and moves are collected; a    *)
(* create or a delete first flushes them.                                  *)
(***************************************************************************)
NextItem ==
  /\ work = << >> /\ slice # << >>
  /\ slice' = Tail(slice)
  /\ LET r  == Head(slice)
         op == r.op
         due == IF "liveness" \notin r.wins THEN << >>
                ELSE IF Opens(op) THEN <<Task("mat", op.obj, op.parent, << >>, FALSE)>>
                ELSE <<Task("delete", op.obj, Root, << >>, FALSE)>>
     IN \/ /\ Opens(op) \/ Deletes(op)
           /\ work' = MoveTasks(moves) \o TitleTasks \o due
           /\ moves' = << >> /\ titles' = << >>
           /\ places' = IF op.kind = "restore" /\ due # << >> THEN Append(places, op) ELSE places
        \/ /\ op.kind = "update"
           /\ titles' = IF "title" \in r.wins THEN Append(titles, op.obj) ELSE titles
           /\ UNCHANGED <<work, moves, places>>
        \/ /\ op.kind = "move"
           /\ moves' = IF "move" \in r.wins /\ r.live THEN Append(moves, op) ELSE moves
           /\ UNCHANGED <<work, titles, places>>
  /\ UNCHANGED <<remote, local, record, deferred, page, batch, pre, stage, bounds, budget>>

FlushPendingMoves ==
  /\ upto # 0 /\ work = << >> /\ slice = << >>
  /\ batch = << >> /\ moves # << >> /\ work' = MoveTasks(moves) /\ moves' = << >>
  /\ UNCHANGED <<remote, local, record, deferred, page, batch, slice, pre, titles, places,
                 stage, bounds, budget>>

\* Titles before the next slice, moves and placements at the end.
FlushPending ==
  /\ upto # 0 /\ work = << >> /\ slice = << >>
  /\ \/ /\ titles # << >> /\ work' = TitleTasks
        /\ titles' = << >> /\ UNCHANGED <<moves, places>>
     \/ /\ titles = << >> /\ batch = << >> /\ moves # << >>
        /\ work' = MoveTasks(moves) /\ moves' = << >> /\ UNCHANGED <<titles, places>>
     \/ /\ titles = << >> /\ batch = << >> /\ moves = << >> /\ places # << >>
        /\ work' = MoveTasks(places) /\ places' = << >> /\ UNCHANGED <<titles, moves>>
  /\ UNCHANGED <<remote, local, record, deferred, page, batch, slice, pre, stage,
                 bounds, budget>>

\* The batch returns and its operations are marked, a full buffer at a time.
EndBatch ==
  /\ upto # 0 /\ Idle /\ done # << >>
  /\ LET all  == marks \o done
         full == Len(all) - (Len(all) % Chunk)
     IN /\ marked' = marked \union ToSet(SubSeq(all, 1, full))
        /\ marks' = SubSeq(all, full + 1, Len(all))
  /\ done' = << >>
  /\ pre' = [o \in {} |-> RootNode]
  /\ UNCHANGED <<remote, local, record, deferred, later, upto, batch, slice, moves, titles,
                 places, work, stage, bounds, budget>>

\* downloadEverything returns; the import goes on with what the browser had.
Downloaded(to) == phase' = IF Linking /\ to = Len(feed) THEN "backfill" ELSE phase

\* All is marked and the cursor is saved.
EndPage ==
  /\ upto # 0 /\ Idle /\ done = << >> /\ later = << >>
  /\ at' = upto /\ upto' = 0 /\ marks' = << >> /\ marked' = {}
  /\ Downloaded(upto)
  /\ UNCHANGED <<remote, local, record, deferred, later, done, batch, slice, pre, moves, titles,
                 places, work, swept, barred, bounds, budget>>

\* The account has nothing for this device.
EmptyPage ==
  /\ upto = 0 /\ Linking /\ at = Len(feed)
  /\ Downloaded(at)
  /\ UNCHANGED <<remote, local, record, deferred, queue, work, at, swept, barred, bounds, budget>>

\* runInitialImport stamps initialImportCompletedAt after its backfills.
StampImport ==
  /\ phase = "backfill"
  /\ phase' = "done"
  /\ UNCHANGED <<remote, local, record, deferred, queue, work, at, swept, barred, bounds, budget>>

(***************************************************************************)
(* A call throws, and the page with it: nothing of it is kept but the      *)
(* marks.  What it may cost is the rest of the slice, the moves and the    *)
(* placements put off until the batch ends, the deferred bookmarks whose   *)
(* record was removed before their turn, and the ones whose parent has     *)
(* just been linked.  A restart also loses the removals not flushed yet.   *)
(***************************************************************************)
AtRisk ==
  IF upto = 0 THEN 0
  ELSE Slice + Len(moves) + Len(places)
     + Cardinality({i \in DOMAIN work : work[i].again \/ work[i].do = "mv"})
     + Cardinality(UNION {Waiting(work[i].o) : i \in {j \in DOMAIN work : work[j].do = "retry"}})

Abandoned ==
  /\ batch' = << >> /\ slice' = << >> /\ pre' = [o \in {} |-> RootNode]
  /\ moves' = << >> /\ titles' = << >> /\ places' = << >> /\ upto' = 0
  /\ later' = << >> /\ done' = << >> /\ marks' = << >>
  /\ work' = << >>

Crash ==
  /\ user + crashes < MaxDisturb
  /\ crashes' = crashes + 1
  /\ Abandoned
  /\ budget' = Spent(AtRisk + Cardinality(UNION {Touched(events[i]) : i \in DOMAIN events}))
  /\ events' = << >>
  /\ phase' = IF phase \in {"done", "download"} THEN phase ELSE "again"
  /\ UNCHANGED <<remote, local, record, deferred, marked, at, swept, barred, user>>

(***************************************************************************)
(* sweepStaleBookmarkMappingsOnce, at a start of the worker after the      *)
(* import: mappings to nodes that are gone are dropped.  The removal of a  *)
(* node that is not flushed by then is lost.  One that finds nothing is as *)
(* one that never comes.                                                   *)
(***************************************************************************)
Sweep ==
  /\ ~swept /\ phase = "done"
  /\ swept' = TRUE
  /\ LET stale == DOMAIN map \ DOMAIN tree
         going == IF work = << >> \/ Head(work).do # "forget" THEN {}
                  ELSE {map[x] : x \in stale \cap ToSet(Head(work).nodes)} \ {Head(work).o}
     IN /\ stale # {}
        /\ map' = Without(map, stale)
        /\ dropped' = dropped \union going
        /\ budget' = Spent(Cardinality(stale \cap UNION {events[i].in : i \in DOMAIN events}))
  /\ UNCHANGED <<remote, tree, looks, fresh, record, deferred, queue, work,
                 at, phase, barred, bounds>>
-------------------------------------------------------------------------------
(***************************************************************************)
(* The calls a batch makes, one await at a time.  Done goes on with what   *)
(* is left of the work, Then puts more calls before it.                    *)
(***************************************************************************)
Next1(do) == upto # 0 /\ work # << >> /\ Head(work).do = do

Then(tasks) == work' = tasks \o Tail(work) /\ UNCHANGED <<budget, phase>>

\* runInitialImport gives up until the worker starts again.
Throw ==
  /\ Abandoned /\ UNCHANGED marked /\ budget' = Spent(AtRisk)
  /\ phase' = IF Linking THEN "failed" ELSE phase

Kept == UNCHANGED <<page, batch, slice, moves, titles, places>>

UnlinkedByFolder(m, o) == {x \in DOMAIN tree : tree[x] = m /\ looks[x] = o /\ m \in DOMAIN map}

\* findUnlinkedMatch
Unlinked(m, o) == {x \in DOMAIN tree : tree[x] = m /\ looks[x] = o /\ x \notin DOMAIN map}

(***************************************************************************)
(* materialize: an object whose node is there needs nothing; a mapping to  *)
(* a node that is gone is forgotten; without its parent it is deferred,    *)
(* and nothing is made for a url whose scheme is not synced.               *)
(***************************************************************************)
Materialize ==
  /\ Next1("mat")
  /\ LET t == Head(work)
         cached == ~t.again /\ {t.o, t.p} \subseteq DOMAIN pre
         ids == IF cached THEN pre ELSE Lookup({t.o, t.p})
         here == t.o \in DOMAIN ids /\ Exists(ids[t.o])
         m == ids[t.p]
     IN /\ map' = IF t.o \in DOMAIN ids /\ ~here THEN Without(map, {ids[t.o]}) ELSE map
        /\ \/ /\ here
              /\ DeleteDeferred({t.o})
              /\ Then(<< >>) /\ UNCHANGED pre /\ Kept
           \/ /\ ~here /\ t.p \notin DOMAIN ids
              /\ DeferUntilParentMaterializes(t.o, t.p)
              /\ Then(<< >>) /\ pre' = (IF t.again THEN pre ELSE Without(pre, {t.o})) /\ Kept
           \/ /\ ~here /\ t.p \in DOMAIN ids /\ t.o \in barred
              /\ Then(<< >>) /\ pre' = (IF t.again THEN pre ELSE Without(pre, {t.o})) /\ Kept
              /\ UNCHANGED deferred
           \/ /\ ~here /\ t.p \in DOMAIN ids /\ t.o \notin barred /\ Linking /\ ~Exists(m)
              /\ Throw /\ UNCHANGED deferred
           \/ /\ ~here /\ t.p \in DOMAIN ids /\ t.o \notin barred /\ ~(Linking /\ ~Exists(m))
              /\ pre' = (IF t.again THEN pre ELSE Without(pre, {t.o}))
              /\ LET found == IF Linking THEN Unlinked(m, t.o) ELSE {}
                 IN Then(IF found # {}
                           THEN <<[t EXCEPT !.do = "link", !.nodes = <<Min(found)>>],
                                  [t EXCEPT !.do = "move"]>>
                           ELSE <<[t EXCEPT !.do = "create", !.nodes = <<m>>]>>)
              /\ UNCHANGED deferred /\ Kept
  /\ UNCHANGED <<remote, tree, looks, fresh, dropped, record, at, swept, barred, bounds>>

\* chrome.bookmarks.create
CreateNode ==
  /\ Next1("create")
  /\ LET t == Head(work)
     IN IF Exists(t.nodes[1])
          THEN /\ tree' = With(tree, fresh, t.nodes[1]) /\ looks' = With(looks, fresh, t.o)
               /\ fresh' = fresh + 1
               /\ Then(<<[t EXCEPT !.do = "link", !.nodes = <<fresh>>]>>) /\ UNCHANGED pre /\ Kept
          ELSE Throw /\ UNCHANGED <<tree, looks, fresh>>
  /\ UNCHANGED <<remote, map, dropped, record, deferred, at, swept, barred, bounds>>

\* establishMapping and deleteDeferredMaterialization, then the deferred ones.
Link ==
  /\ Next1("link")
  /\ LET t == Head(work)
         moved == Len(work) > 1 /\ work[2].do = "move" /\ work[2].o = t.o
         retry == [t EXCEPT !.do = "retry"]
     IN /\ map' = With(map, t.nodes[1], t.o)
        /\ pre' = IF t.again THEN pre ELSE With(pre, t.o, t.nodes[1])
        /\ DeleteDeferred({t.o})
        /\ dropped' = dropped \ {t.o} /\ revived' = revived \ {t.o}
        /\ work' = IF moved THEN <<work[2], retry>> \o SubSeq(work, 3, Len(work))
                   ELSE <<retry>> \o Tail(work)
  /\ Kept
  /\ UNCHANGED <<remote, tree, looks, fresh, states, clock, raced, stage, bounds, budget>>

RetryPlacements ==
  /\ Next1("retry")
  /\ LET p == Head(work).o
         live == SetToSeq({o \in Waiting(p) : IsLive(states[o]) /\ Linked(o)})
     IN /\ DeleteDeferred(Waiting(p))
        /\ Then([i \in DOMAIN live |->
             Task("move", live[i], states[live[i]]["move"].parent, << >>, TRUE)])
  /\ Kept
  /\ UNCHANGED <<remote, local, record, pre, at, swept, barred, bounds>>

\* retryDeferredParent
Retry ==
  /\ Next1("retry")
  /\ LET p == Head(work).o
         live == SetToSeq({o \in Waiting(p) : IsLive(states[o])})
     IN /\ DeleteDeferred(Waiting(p))
        /\ Then([i \in DOMAIN live |->
             Task(IF Linked(live[i]) THEN "move" ELSE "mat", live[i],
                  states[live[i]]["move"].parent, << >>, TRUE)])
  /\ Kept
  /\ UNCHANGED <<remote, local, record, pre, at, swept, barred, bounds>>

\* chrome.bookmarks.move of node n under m: refused when one is gone or m is
\* inside n.
Moves(n, m) ==
  IF n \in DOMAIN tree /\ Exists(m) /\ m \notin Subtree(n)
    THEN tree' = [tree EXCEPT ![n] = m] /\ Then(<< >>) /\ UNCHANGED pre /\ Kept
    ELSE Throw /\ UNCHANGED tree

\* applyMove, and one move of applyMovesBatch, for nodes n and m.
Place(o, p, n, m) ==
  /\ raced' = IF \E i \in DOMAIN events : events[i].kind = "move" /\ events[i].n = n
                THEN raced \union {o} ELSE raced
  /\ \/ n = NoNode /\ Then(<< >>) /\ UNCHANGED <<tree, deferred, pre>> /\ Kept
     \/ /\ n # NoNode /\ m = NoNode
        /\ DeferUntilParentMaterializes(o, p)
        /\ Then(<< >>) /\ UNCHANGED <<tree, pre>> /\ Kept
     \/ /\ n # NoNode /\ m # NoNode
        /\ DeleteDeferred({o})
        /\ Moves(n, m)
  /\ UNCHANGED <<remote, looks, map, fresh, dropped, states, clock, revived, at, swept, barred,
                 bounds>>

ApplyMove ==
  /\ Next1("move")
  /\ LET t == Head(work) IN Place(t.o, t.p, NodeOrNone(t.o), NodeOrNone(t.p))

ApplyMovesBatch ==
  /\ Next1("mv")
  /\ LET t == Head(work) IN Place(t.o, t.p, t.nodes[1], t.nodes[2])

\* The node by the batch's own map, else by the database.
Cached(o) == IF o \in DOMAIN pre THEN pre[o] ELSE NodeOrNone(o)

ApplyTitle ==
  /\ Next1("title")
  /\ LET n == Cached(Head(work).o)
     IN IF n = NoNode \/ Exists(n) THEN Then(<< >>) /\ UNCHANGED pre /\ Kept ELSE Throw
  /\ UNCHANGED <<remote, local, record, deferred, at, swept, barred, bounds>>

(***************************************************************************)
(* applyDelete: the subtree goes, then its mappings.                       *)
(***************************************************************************)
ApplyDelete ==
  /\ Next1("delete")
  /\ LET t == Head(work)
         n == Cached(t.o)
     IN /\ DeleteDeferred({t.o})
        /\ tree' = IF n = NoNode THEN tree ELSE Without(tree, Subtree(n))
        /\ Then(IF n = NoNode THEN << >>
                ELSE <<[t EXCEPT !.do = "forget", !.nodes = SetToSeq(Subtree(n))]>>)
  /\ Kept
  /\ UNCHANGED <<remote, looks, map, fresh, dropped, record, pre, at, swept, barred, bounds>>

Forget ==
  /\ Next1("forget")
  /\ LET t == Head(work)
         gone == {map[x] : x \in ToSet(t.nodes) \cap DOMAIN map}
     IN /\ map' = Without(map, ToSet(t.nodes))
        /\ pre' = Without(pre, gone \union {t.o})
        /\ dropped' = dropped \union (gone \ {t.o})
        /\ Then(<< >>)
  /\ Kept
  /\ UNCHANGED <<remote, tree, looks, fresh, record, deferred, at, swept, barred, bounds>>
-------------------------------------------------------------------------------
Step ==
  \/ StartPage \/ StartBatch \/ ResolveSlice \/ NextItem \/ FlushPending \/ EndBatch
  \/ EndPage \/ EmptyPage
  \/ Materialize \/ CreateNode \/ Link \/ Retry \/ ApplyMove \/ ApplyMovesBatch
  \/ ApplyTitle \/ ApplyDelete \/ Forget

Next ==
  \/ Peer \/ PeerLate \/ Crash \/ StampImport \/ Sweep \/ Flush \/ Step
  \/ \E n \in DOMAIN tree :
       \/ UserRemove(n)
       \/ \E m \in DOMAIN tree \union {RootNode} : UserMove(n, m)

Spec == Init /\ [][Next]_vars /\ WF_vars(Step)

AtRest == upto = 0 /\ events = << >> /\ at = Len(feed)

Home(o) == states[o]["move"].parent

\* Open in the account, as this device has recorded it, in a folder it shows,
\* with a url it may show.
Due(o) ==
  /\ o \notin barred \union revived /\ IsLive(states[o])
  /\ states[o]["move"] # NoState /\ Shown(Home(o))

InPlace(o) == tree[NodeOf(o)] = NodeOf(Home(o))

Astray ==
  {o \in Objects \ dropped :
     Due(o) /\ IF Shown(o) THEN o \notin raced /\ ~InPlace(o)
               ELSE o \in DOMAIN deferred => Shown(deferred[o])}
  \union {o \in Objects : states[o]["liveness"] # NoState /\ ~IsLive(states[o]) /\ Shown(o)}

(***************************************************************************)
(* When a device has applied the log, every bookmark the account has in a  *)
(* folder the device shows is in that folder and no deleted one is left,   *)
(* but for as many as its faults may have cost, in whatever order parents  *)
(* and children arrived: a call that throws or a restart costs a slice of  *)
(* operations, the moves and placements put off and the deferred bookmarks *)
(* of one folder (REMOTE_RESOLVE_SLICE, retryDeferredParent), and the user *)
(* loses a change of a node that is not mapped yet.  Not counted: what     *)
(* went with its folder and was not moved or made again since (dropped),   *)
(* what waits for a folder that is not there, a deleted object that an     *)
(* update revived, a url whose scheme is not synced, and the place of what *)
(* a restore or the user moved meanwhile (raced).  Titles are not          *)
(* modelled.                                                               *)
(***************************************************************************)
LossBoundedBySlice == AtRest => Cardinality(Astray) <= budget

(***************************************************************************)
(* protocol.md:1213: moves come before deletes, "so a node the point keeps *)
(* is moved out of a folder that is about to be deleted": what has been    *)
(* moved to a folder that is still there is not lost with the one it was   *)
(* in.  The buffers of engine.ts apply all the folders' operations of a    *)
(* page before the bookmarks' ones, or after them.                         *)
(***************************************************************************)
MovedOutFirst ==
  AtRest /\ held = << >> /\ budget = 0 => \A o \in Objects : Due(o) => Shown(o)

(***************************************************************************)
(* protocol.md:521: "the winning move's `(parent, position)` pair applies  *)
(* atomically": a bookmark is in the folder of the winning move.           *)
(* applyRemoteBatch makes the placements of restores after all its moves.  *)
(***************************************************************************)
WinningMoveApplies ==
  AtRest /\ budget = 0 => \A o \in Objects : Due(o) /\ Shown(o) => InPlace(o)

(***************************************************************************)
(* During the import no bookmark of the account is created next to a       *)
(* matching one the browser already had (findUnlinkedMatch, with the       *)
(* cascade of retryDeferredParent through folders that were linked).  One  *)
(* that was moved since it was made is looked for in the first folder and  *)
(* may become a twin in the second.                                        *)
(***************************************************************************)
NoTwins ==
  phase = "download" /\ user = 0 => \A n \in DOMAIN map \ Own : \A m \in Own :
    ~(/\ {n, m} \subseteq DOMAIN tree /\ m \notin DOMAIN map
      /\ tree[n] = tree[m] /\ looks[n] = looks[m]
      /\ states[map[n]]["move"].kind = "create")

(***************************************************************************)
(* A batch that throws is tried again, and every try gets past the slice   *)
(* that threw, so the device catches up in the end even when a call is     *)
(* refused every time (equal keys are not applied again).                  *)
(***************************************************************************)
EveryBatchCompletes == <>[](at = Len(feed))
===============================================================================
