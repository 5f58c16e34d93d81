---------------------------- MODULE BookmarkCapture ----------------------------
(***************************************************************************)
(* Local bookmarks becoming objects of the account (bookmarks/index.ts,    *)
(* sync/micro-batch.ts, sync/suppress.ts): browser events are queued and   *)
(* flushed in bursts, each flush in several transactions, and the import   *)
(* of what the browser already had walks the tree at the same time.  A     *)
(* flush takes as long as its awaits, so the next one may start before it  *)
(* ends, and the worker may be killed between any two transactions.        *)
(*                                                                         *)
(* An object id is a number: 0 the root, above 0 minted here, below 0 from *)
(* another device.  Positions are not modelled.                            *)
(***************************************************************************)
EXTENDS Integers, SequencesExt

CONSTANTS
  Before,      \* how many bookmarks the browser has when it is connected
  MaxNodes,    \* bound on nodes, from 1 up
  MaxUser,     \* bound on the user's changes
  MaxDisturb   \* bound on worker restarts and bookmarks the applier creates

ASSUME CaptureAssumption ==
  {Before, MaxNodes, MaxUser, MaxDisturb} \subseteq Nat

VARIABLES
  tree,      \* the browser's tree: node -> parent node, 0 the root
  map,       \* object_mappings: node -> object
  moved,     \* objects with a "move" record in field_state
  outbox,    \* operations created, each with the node it is about
  queue,     \* the micro-batch queue
  flush,     \* flushBookmarkEvents calls under way
  walk,      \* backfillExisting
  imported,  \* initialImportCompletedAt is set
  guard,     \* the node whose creation the applier is awaiting, or 0
  minted,    \* uuidv7
  used,      \* nodes made so far
  applied,   \* nodes the applier made
  user, crashes,
  unheard,   \* nodes whose creation no capture will announce
  twice      \* nodes two overlapping captures worked on

vars == <<tree, map, moved, outbox, queue, flush, walk, imported, guard, minted,
          used, applied, user, crashes, unheard, twice>>

Slots == {1, 2}   \* flushes at a time

Over(f, g)    == [x \in DOMAIN f \union DOMAIN g |-> IF x \in DOMAIN f THEN f[x] ELSE g[x]]
Without(f, S) == [x \in DOMAIN f \ S |-> f[x]]
None          == [x \in {} |-> 0]

Free == [at |-> "free", events |-> << >>, news |-> None, dels |-> {}, ops |-> << >>]
Idle == [at |-> "idle", slot |-> 0, owed |-> {}, todo |-> {}, ids |-> None, place |-> None,
         seen |-> 0, busy |-> {}]

Nodes(events) == UNION {e.in : e \in Range(events)}

Exists(n) == n = 0 \/ n \in DOMAIN tree

\* The least set that has n and the children of all it has.
Subtree(n) ==
  {m \in DOMAIN tree : \A S \in SUBSET (DOMAIN tree) :
     n \in S /\ (\A k \in DOMAIN tree : tree[k] \in S => k \in S) => m \in S}

\* A folder with the other bookmarks in it.
Init ==
  /\ tree = [n \in 1..Before |-> IF n = 1 THEN 0 ELSE 1]
  /\ map = None /\ moved = {} /\ outbox = << >>
  /\ queue = << >> /\ flush = [i \in Slots |-> Free] /\ walk = Idle
  /\ imported = FALSE /\ guard = 0 /\ minted = 0 /\ used = Before
  /\ applied = {} /\ user = 0 /\ crashes = 0
  /\ unheard = {} /\ twice = {}
-------------------------------------------------------------------------------
(***************************************************************************)
(* The user, and the listeners of registerCapture: an event is queued      *)
(* unless the guard is up when it fires.                                   *)
(***************************************************************************)
SuppressedNever(g) == FALSE
Suppressed(g) == g # 0

Fires(e) ==
  IF Suppressed(guard) THEN unheard' = unheard \union e.in /\ UNCHANGED queue
                ELSE queue' = Append(queue, e) /\ UNCHANGED unheard

User ==
  /\ user < MaxUser
  /\ user' = user + 1
  /\ \/ \E p \in DOMAIN tree \union {0} :
          /\ used < MaxNodes
          /\ used' = used + 1
          /\ tree' = Over([n \in {used'} |-> p], tree)
          /\ Fires([kind |-> "created", n |-> used', p |-> p, in |-> {used'}])
     \/ \E n \in DOMAIN tree :
          /\ used' = used
          /\ \/ /\ tree' = Without(tree, Subtree(n))
                /\ Fires([kind |-> "removed", n |-> n, p |-> 0, in |-> Subtree(n)])
             \/ \E p \in (DOMAIN tree \union {0}) \ (Subtree(n) \union {tree[n]}) :
                  /\ tree' = [tree EXCEPT ![n] = p]
                  /\ Fires([kind |-> "moved", n |-> n, p |-> p, in |-> {n}])
             \/ /\ tree' = tree
                /\ Fires([kind |-> "changed", n |-> n, p |-> 0, in |-> {n}])
  /\ UNCHANGED <<map, moved, outbox, flush, walk, imported, guard, minted, applied,
                 crashes, twice>>

\* materialize: chrome.bookmarks.create inside guard.run.  The browser's event
\* fires before the call returns.
ApplyCreate ==
  /\ guard = 0 /\ used < MaxNodes /\ crashes + Cardinality(applied) < MaxDisturb
  /\ used' = used + 1 /\ guard' = used' /\ applied' = applied \union {used'}
  /\ \E p \in DOMAIN tree \union {0} :
       /\ tree' = Over([n \in {used'} |-> p], tree)
       /\ queue' = IF Suppressed(guard') THEN queue
                   ELSE Append(queue, [kind |-> "created", n |-> used', p |-> p, in |-> {used'}])
  /\ UNCHANGED <<map, moved, outbox, flush, walk, imported, minted, user,
                 crashes, unheard, twice>>

\* The call returns and the mapping is written.
ApplyLink ==
  /\ guard # 0
  /\ map' = Over([n \in {guard} |-> -guard], map)
  /\ moved' = moved \union {-guard}
  /\ guard' = 0
  /\ UNCHANGED <<tree, outbox, queue, flush, walk, imported, minted, used, applied,
                 user, crashes, unheard, twice>>
-------------------------------------------------------------------------------
(***************************************************************************)
(* flushBookmarkEvents.                                                    *)
(***************************************************************************)
\* createMicroBatchQueue: the timer fires, or a caller drains the queue.
TakesQueue(i) ==
  /\ flush[i].at = "free" /\ queue # << >> /\ \A j \in Slots : j < i => flush[j].at # "free"
  /\ flush' = [flush EXCEPT ![i] = [Free EXCEPT !.at = "stage", !.events = queue]]
  /\ queue' = << >>
  /\ twice' = twice \union (Nodes(queue) \cap UNION {Nodes(flush[j].events) : j \in Slots})

FlushTimer ==
  /\ \E i \in Slots : TakesQueue(i)
  /\ UNCHANGED <<tree, map, moved, outbox, walk, imported, guard, minted, used,
                 applied, user, crashes, unheard>>

\* objectIdFor: the id in the flush's cache, else a new one.
Mints(acc, S) ==
  LET new  == SetToSeq(S \ (DOMAIN acc.cache \union {0}))
      ids  == [n \in Range(new) |-> acc.next + (CHOOSE k \in DOMAIN new : new[k] = n)]
  IN [acc EXCEPT !.cache = Over(ids, @), !.news = Over(ids, @),
                 !.next = @ + Len(new)]

IdOf(acc, n) == IF n = 0 THEN 0 ELSE acc.cache[n]

Does(acc, kind, e, p) ==
  [acc EXCEPT !.ops = Append(@, [kind |-> kind, node |-> e.n, obj |-> IdOf(acc, e.n),
                                 parent |-> p])]

(***************************************************************************)
(* stageCreated, stageRemoved, stageChanged and stageMoved.  near are the  *)
(* nodes that happen to be next to one, which computePosition gives ids.   *)
(* An event about a node without a mapping, or whose calls throw because   *)
(* the node or its folder is gone, makes no operation.                     *)
(***************************************************************************)
StageOne(acc, e, near) ==
  LET sib == {n \in near \cap DOMAIN tree : tree[n] = e.p} \ {e.n}
      ids == Mints(acc, {e.n, e.p} \union (IF Exists(e.p) THEN sib ELSE {}))
      to  == Mints(acc, {e.p} \union sib)
      known == e.n \in DOMAIN acc.cache
  IN CASE e.kind = "created" /\ Exists(e.p) -> Does(ids, "create", e, IdOf(ids, e.p))
       [] e.kind = "created" /\ ~Exists(e.p) -> ids
       [] e.kind = "removed" /\ known ->
            [Does(acc, "delete", e, 0) EXCEPT
               !.cache = Without(@, e.in), !.dels = @ \union e.in]
       [] e.kind = "changed" /\ known /\ Exists(e.n) -> Does(acc, "update", e, 0)
       [] e.kind = "moved" /\ known /\ Exists(e.n) /\ Exists(e.p) -> Does(to, "move", e, IdOf(to, e.p))
       [] e.kind = "moved" /\ known /\ Exists(e.n) /\ ~Exists(e.p) -> Mints(acc, {e.p})
       [] OTHER -> acc

\* prefetchFlushCaches: the mappings as they are when the flush starts.
FlushCaches == [cache |-> map, news |-> None, dels |-> {}, ops |-> << >>, next |-> minted]

\* The events in the order they came.
Staged(events, near) == FoldLeft(LAMBDA acc, e : StageOne(acc, e, near), FlushCaches, events)

AfterMaps(dels) == IF dels # {} THEN "dels" ELSE "ops"

Stage(i) ==
  /\ flush[i].at = "stage"
  /\ \E near \in SUBSET (DOMAIN tree \ DOMAIN map) :
       LET done == Staged(flush[i].events, near)
       IN /\ flush' = [flush EXCEPT ![i] =
                 IF done.ops = << >> THEN Free
                 ELSE [at |-> IF done.news # None THEN "maps" ELSE AfterMaps(done.dels),
                       events |-> @.events, news |-> done.news, dels |-> done.dels,
                       ops |-> done.ops]]
          /\ minted' = done.next
  /\ unheard' = unheard \union
       {e.n : e \in {x \in Range(flush[i].events) : x.kind = "created" /\ ~Exists(x.p)}}
  /\ UNCHANGED <<tree, map, moved, outbox, queue, walk, imported, guard, used,
                 applied, user, crashes, twice>>

\* putMappingsBatch
PutMappings(i) ==
  /\ flush[i].at = "maps"
  /\ map' = Over(flush[i].news, map)
  /\ twice' = twice \union {n \in DOMAIN flush[i].news \cap DOMAIN map : map[n] # flush[i].news[n]}
  /\ flush' = [flush EXCEPT ![i].at = AfterMaps(flush[i].dels)]
  /\ UNCHANGED <<tree, moved, outbox, queue, walk, imported, guard, minted, used,
                 applied, user, crashes, unheard>>

\* deleteMappingsBatch
DeleteMappings(i) ==
  /\ flush[i].at = "dels"
  /\ map' = Without(map, flush[i].dels)
  /\ flush' = [flush EXCEPT ![i].at = "ops"]
  /\ UNCHANGED <<tree, moved, outbox, queue, walk, imported, guard, minted, used,
                 applied, user, crashes, unheard, twice>>

\* createLocalOperationsBatch
CreateOperations(i) ==
  /\ flush[i].at = "ops"
  /\ outbox' = outbox \o flush[i].ops
  /\ unheard' = unheard \union {op.node : op \in {o \in Range(flush[i].ops) :
       o.kind = "move" /\ o.obj > 0 /\ ~\E c \in Range(outbox') : c.kind = "create" /\ c.obj = o.obj}}
  /\ flush' = [flush EXCEPT ![i].at = "states"]
  /\ UNCHANGED <<tree, map, moved, queue, walk, imported, guard, minted, used,
                 applied, user, crashes, twice>>

\* recordLocalFieldStatesBatch
RecordStates(i) ==
  /\ flush[i].at = "states"
  /\ moved' = moved \union {op.obj : op \in {o \in Range(flush[i].ops) : o.kind \in {"create", "move"}}}
  /\ flush' = [flush EXCEPT ![i] = Free]
  /\ UNCHANGED <<tree, map, outbox, queue, walk, imported, guard, minted, used,
                 applied, user, crashes, unheard, twice>>
-------------------------------------------------------------------------------
(***************************************************************************)
(* backfillExisting, until it has completed once.                          *)
(***************************************************************************)
Queued == {e.n : e \in {x \in Range(queue) : x.kind = "created"}}

\* The walk begins; it owes the nodes in the queue to the flush it waits for.
Drained(i) == walk' = [Idle EXCEPT !.at = "drained", !.slot = i, !.owed = Queued]

WalkDrainNot ==
  /\ ~imported /\ walk.at = "idle"
  /\ Drained(0)
  /\ UNCHANGED <<tree, map, moved, outbox, queue, flush, imported, guard, minted, used, applied,
                 user, crashes, unheard, twice>>

\* flushAllMicroBatchQueuesAndWait: waits for the flush it starts, not for one
\* that is already under way.
WalkDrain ==
  /\ ~imported /\ walk.at = "idle"
  /\ \/ queue = << >> /\ Drained(0) /\ UNCHANGED <<queue, flush, twice>>
     \/ \E i \in Slots : TakesQueue(i) /\ Drained(i)
  /\ UNCHANGED <<tree, map, moved, outbox, imported, guard, minted, used, applied,
                 user, crashes, unheard>>

MappedChromiumIds == DOMAIN map

\* A mapping without a "move" record does not count.
AlreadyMapped == {n \in MappedChromiumIds : map[n] \in moved}

WalkRead ==
  /\ walk.at = "drained" /\ (walk.slot # 0 => flush[walk.slot].at = "free")
  /\ walk' = [at |-> "walk", slot |-> 0, owed |-> walk.owed, todo |-> DOMAIN tree \ AlreadyMapped,
              ids |-> [n \in AlreadyMapped |-> map[n]], place |-> tree,
              seen |-> Len(outbox),
              busy |-> {guard} \union UNION {Nodes(flush[i].events) : i \in Slots}]
  /\ UNCHANGED <<tree, map, moved, outbox, queue, flush, imported, guard, minted,
                 used, applied, user, crashes, unheard, twice>>

\* What the walk read is out of date: the node is gone, a flush is at work on it,
\* or one was when the walk read or has been since.  The drain excuses none of
\* the last two for the nodes it waited for.
Overtaken(n) ==
  \/ n \notin DOMAIN tree
  \/ \E i \in Slots : n \in DOMAIN flush[i].news \union Nodes(flush[i].events)
  \/ /\ n \notin walk.owed
     /\ n \in walk.busy \/ \E k \in walk.seen+1 .. Len(outbox) : outbox[k].node = n

\* commitBookmarkBackfillBatch: mapping, operation and field states of a node
\* in one transaction.
CommitBookmarkBackfillBatch(n, obj, p) ==
  /\ map' = Over([x \in {n} |-> obj], map)
  /\ outbox' = Append(outbox, [kind |-> "create", node |-> n, obj |-> obj, parent |-> p])
  /\ moved' = moved \union {obj}

\* flushBackfillChunk, a chunk of one, parents first.
WalkCommit ==
  /\ walk.at = "walk"
  /\ \E n \in walk.todo :
       /\ walk.place[n] \notin walk.todo
       /\ CommitBookmarkBackfillBatch(n, minted + 1,
            IF walk.place[n] = 0 THEN 0 ELSE walk.ids[walk.place[n]])
       /\ walk' = [walk EXCEPT !.todo = @ \ {n},
                               !.ids = Over([x \in {n} |-> minted + 1], @)]
       /\ twice' = IF Overtaken(n) THEN twice \union {n} ELSE twice
  /\ minted' = minted + 1
  /\ UNCHANGED <<tree, queue, flush, imported, guard, used, applied, user, crashes,
                 unheard>>

\* The walk is over; runInitialImport stamps initialImportCompletedAt.
WalkEnd ==
  /\ walk.at = "walk" /\ walk.todo = {}
  /\ walk' = Idle /\ imported' = TRUE
  /\ UNCHANGED <<tree, map, moved, outbox, queue, flush, guard, minted, used,
                 applied, user, crashes, unheard, twice>>

(***************************************************************************)
(* The worker is killed.  What was queued or staged is gone, and only an   *)
(* import that has not completed looks at the tree again.                  *)
(***************************************************************************)
Crash ==
  /\ crashes + Cardinality(applied) < MaxDisturb
  /\ crashes' = crashes + 1
  /\ LET open == {i \in Slots : flush[i].at # "free"}
         gone == Nodes(queue) \union UNION {Nodes(flush[i].events) : i \in open}
     IN /\ unheard' = IF imported THEN unheard \union gone \union ({guard} \ {0}) ELSE unheard
        /\ twice' = twice \union ({guard} \ {0}) \union
             UNION {Nodes(flush[i].events) : i \in {j \in open : flush[j].at = "states"}}
  /\ queue' = << >> /\ flush' = [i \in Slots |-> Free] /\ walk' = Idle /\ guard' = 0
  /\ UNCHANGED <<tree, map, moved, outbox, imported, minted, used, applied, user>>

Next ==
  \/ User \/ ApplyCreate \/ ApplyLink \/ FlushTimer \/ Crash
  \/ WalkDrain \/ WalkRead \/ WalkCommit \/ WalkEnd
  \/ \E i \in Slots :
       Stage(i) \/ PutMappings(i) \/ DeleteMappings(i) \/ CreateOperations(i) \/ RecordStates(i)

Spec == Init /\ [][Next]_vars
-------------------------------------------------------------------------------
AtRest ==
  /\ queue = << >> /\ guard = 0 /\ walk.at = "idle"
  /\ \A i \in Slots : flush[i].at = "free"

Announced == {op.obj : op \in {o \in Range(outbox) : o.kind = "create"}}

(***************************************************************************)
(* When the import has completed, every bookmark of the browser belongs to *)
(* an object the account has been told of, whatever restarts interrupted   *)
(* the flushes and the walk before (mappings before operations, one        *)
(* transaction per chunk, a mapping without a "move" record walked again). *)
(* Excepted are the nodes no event was queued for, and those moved before  *)
(* the walk when they had an id only as a folder or neighbour of another.  *)
(***************************************************************************)
EveryNodeAnnounced ==
  imported /\ AtRest =>
    \A n \in DOMAIN tree \ (unheard \union twice) :
      n \in DOMAIN map /\ (map[n] < 0 \/ map[n] \in Announced)

(***************************************************************************)
(* A bookmark is announced under one object id, however often the import   *)
(* is started again, and though a creation may be heard by the capture     *)
(* after the import has listed the node: the capture then announces it a   *)
(* second time under the id the import gave it.  Excepted are the nodes    *)
(* that two flushes, or a flush and the import, worked on at the same      *)
(* time, unless their creation was queued when the import began: it waits  *)
(* for the flush of those ("draining first keeps such a node from being    *)
(* minted twice").                                                         *)
(***************************************************************************)
AnnouncedOnce ==
  \A n \in 1..used \ twice :
    Cardinality({op.obj : op \in {o \in Range(outbox) : o.kind = "create" /\ o.node = n}}) <= 1

(***************************************************************************)
(* Every bookmark is announced under exactly one object id, by the import, *)
(* by the capture or by both, with the exceptions of the two parts.        *)
(***************************************************************************)
AnnouncedExactlyOnce == EveryNodeAnnounced /\ AnnouncedOnce

(***************************************************************************)
(* A bookmark another device created is not announced a second time by the *)
(* device that shows it (guard.run, isSuppressed).                         *)
(***************************************************************************)
NoEcho ==
  \A op \in Range(outbox) : op.kind = "create" => op.node \notin applied \ twice
===============================================================================
