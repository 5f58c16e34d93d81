----------------------------- MODULE BookmarkOrder -----------------------------
(***************************************************************************)
(* The order of the bookmarks in one folder (bookmarks/index.ts): how a    *)
(* position is found for a bookmark that was added, moved or imported, and *)
(* where a device puts one that another device, or a restore, has placed.  *)
(*                                                                         *)
(* A flush and a remote batch are one step each: BookmarkCapture and       *)
(* BookmarkApply have what happens in between.  Nothing leaves the folder  *)
(* but by being deleted, no bookmark of one device is like one of another, *)
(* and there are no stand-in roots.                                        *)
(***************************************************************************)
EXTENDS FieldStates, FractionalIndex, SequencesExt

CONSTANTS
  Devices,     \* numbers, in the order of their device ids
  Objects,     \* bookmarks
  Own,         \* what each device has in the folder before its import
  Keepers,     \* bound: the devices on which points are made and restored
  MaxChanges,  \* bound on the user's changes
  MaxRestores  \* bound on restores

ASSUME OrderAssumption ==
  /\ Devices \subseteq Nat /\ Keepers \subseteq Devices
  /\ \A d \in Devices : Own[d] \in Seq(Objects)
  /\ {MaxChanges, MaxRestores} \subseteq Nat

VARIABLES
  children,  \* the folder in each browser
  states,    \* field_state
  mapped,    \* object_mappings: the objects that have a node
  clock,     \* sync_state.lamportClock
  imported,  \* initialImportCompletedAt is set
  events,    \* captured changes not flushed yet
  log,       \* the server's log
  at,        \* sync_state.cursor
  fresh,     \* bookmarks nobody has added yet
  point,     \* a restore point: the bookmarks of the folder with positions
  changes, restores,
  refused    \* bookmarks of which a change found no position

vars == <<children, states, mapped, clock, imported, events, log, at, fresh,
          point, changes, restores, refused>>

Init ==
  /\ children = Own
  /\ states = [d \in Devices |-> [o \in Objects |-> Blank]]
  /\ mapped = [d \in Devices |-> {}]
  /\ clock = [d \in Devices |-> 0]
  /\ imported = [d \in Devices |-> FALSE]
  /\ events = [d \in Devices |-> << >>]
  /\ log = << >> /\ at = [d \in Devices |-> 0]
  /\ fresh = Objects \ UNION {ToSet(Own[d]) : d \in Devices}
  /\ point = << >> /\ changes = 0 /\ restores = 0 /\ refused = {}
-------------------------------------------------------------------------------
(***************************************************************************)
(* The user.  An event carries the index the bookmark had at that moment.  *)
(***************************************************************************)
Event(kind, o, i) == [kind |-> kind, obj |-> o, at |-> i]

Changes(d, kids, e) ==
  /\ changes < MaxChanges
  /\ changes' = changes + 1
  /\ children' = [children EXCEPT ![d] = kids]
  /\ events' = [events EXCEPT ![d] = Append(@, e)]
  /\ UNCHANGED <<states, mapped, clock, imported, log, at, point, restores, refused>>

Add(d, o, i) ==
  /\ o \in fresh /\ fresh' = fresh \ {o}
  /\ Changes(d, InsertAt(children[d], i, o), Event("create", o, i))

Place(d, o, i) ==
  /\ children[d][i] # o
  /\ Changes(d, InsertAt(Remove(children[d], o), i, o), Event("move", o, i))
  /\ UNCHANGED fresh

Delete(d, o) ==
  /\ Changes(d, Remove(children[d], o), Event("delete", o, 0))
  /\ UNCHANGED fresh

User(d) ==
  \/ \E o \in fresh : \E i \in 1 .. Len(children[d]) + 1 : Add(d, o, i)
  \/ \E o \in ToSet(children[d]) :
       Delete(d, o) \/ \E i \in DOMAIN children[d] : Place(d, o, i)
-------------------------------------------------------------------------------
(***************************************************************************)
(* Capture.                                                                *)
(***************************************************************************)
\* positionOf
PositionOf(st, o) == IF st[o]["move"] = NoState THEN NoKey ELSE st[o]["move"].pos

\* The sibling at index i, if there is one: its position, and its object id,
\* which is minted when it has none.
SiblingKey(kids, st, i) == IF i \in DOMAIN kids THEN PositionOf(st, kids[i]) ELSE NoKey
SiblingAt(kids, i)      == IF i \in DOMAIN kids THEN {kids[i]} ELSE {}

Op(d, lam, kind, o, p) == [id |-> 0, lam |-> lam, dev |-> d, kind |-> kind, obj |-> o, pos |-> p]

\* acc is the flush so far; it stages kind for o at position p.
Stages(acc, d, kind, o, p) ==
  LET op == Op(d, acc.lam + 1, kind, o, p)
  IN  [acc EXCEPT !.st = [@ EXCEPT ![o] = Recorded(@, op)], !.ops = Append(@, op), !.lam = @ + 1]

(***************************************************************************)
(* One event: computePosition takes the neighbours of its index in the     *)
(* folder as it is now.  One that throws is dropped.                       *)
(***************************************************************************)
StageEvent(acc, d, e) ==
  LET kids  == children[d]
      lo    == SiblingKey(kids, acc.st, e.at - 1)
      hi    == SiblingKey(kids, acc.st, e.at + 1)
      p     == KeyBetween(lo, hi)
      known == [acc EXCEPT !.mapped = @ \union {e.obj} \union SiblingAt(kids, e.at - 1)
                                        \union SiblingAt(kids, e.at + 1)]
  IN  CASE e.kind = "delete" /\ e.obj \in acc.mapped ->
             [Stages(acc, d, "delete", e.obj, NoKey) EXCEPT !.mapped = @ \ {e.obj}]
        [] e.kind # "create" /\ e.obj \notin acc.mapped -> acc
        [] e.kind = "move" /\ e.obj \notin ToSet(kids) -> acc
        [] OTHER ->
             IF NoRoom(lo, hi) THEN [known EXCEPT !.refused = @ \union {e.obj}]
             ELSE IF e.kind = "move" /\ PositionOf(acc.st, e.obj) = p THEN known
             ELSE Stages(known, d, e.kind, e.obj, p)

\* The server refuses an operation of an object nobody has created.
Accepted(ops) ==
  SelectSeq(ops, LAMBDA op : \E x \in ToSet(log \o ops) : x.obj = op.obj /\ x.kind = "create")

\* flushBookmarkEvents: with nothing staged the new mappings are not written.
Flush(d) ==
  LET acc == FoldLeft(LAMBDA a, e : StageEvent(a, d, e),
                      [st |-> states[d], ops |-> << >>, lam |-> clock[d],
                       mapped |-> mapped[d], refused |-> refused], events[d])
  IN  /\ events[d] # << >>
      /\ events' = [events EXCEPT ![d] = << >>]
      /\ states' = [states EXCEPT ![d] = acc.st]
      /\ mapped' = IF acc.ops = << >> THEN mapped ELSE [mapped EXCEPT ![d] = acc.mapped]
      /\ clock' = [clock EXCEPT ![d] = acc.lam]
      /\ log' = log \o Accepted(acc.ops)
      /\ refused' = acc.refused
      /\ UNCHANGED <<children, imported, at, fresh, point, changes, restores>>

(***************************************************************************)
(* flattenForBackfill: a bookmark without a position goes after the one    *)
(* before it, and before the next that has one, if that leaves a gap.      *)
(***************************************************************************)
NextExisting(kids, st, i) ==
  LET later == {j \in i + 1 .. Len(kids) : PositionOf(st, kids[j]) # NoKey}
  IN  IF later = {} THEN NoKey ELSE PositionOf(st, kids[Min(later)])

\* Mutant: the next existing position is not looked at.
BoundNever(lo, hi) == NoKey

BoundAbove(lo, hi)  == IF NoRoom(lo, hi) THEN NoKey ELSE hi

ImportOne(acc, d, i) ==
  LET kids == children[d]
      own  == PositionOf(acc.st, kids[i])
      p    == KeyBetween(acc.lo, BoundAbove(acc.lo, NextExisting(kids, states[d], i)))
  IN  IF own # NoKey THEN [acc EXCEPT !.lo = own]
      ELSE [Stages(acc, d, "create", kids[i], p) EXCEPT !.lo = p]

\* backfillExisting, once the account is downloaded and the queue is drained.
Import(d) ==
  LET acc == FoldLeft(LAMBDA a, i : ImportOne(a, d, i),
                      [st |-> states[d], ops |-> << >>, lam |-> clock[d], lo |-> NoKey],
                      [i \in DOMAIN children[d] |-> i])
  IN  /\ ~imported[d] /\ at[d] = Len(log) /\ events[d] = << >>
      /\ imported' = [imported EXCEPT ![d] = TRUE]
      /\ states' = [states EXCEPT ![d] = acc.st]
      /\ mapped' = [mapped EXCEPT ![d] = ToSet(children[d])]
      /\ clock' = [clock EXCEPT ![d] = acc.lam]
      /\ log' = log \o acc.ops
      /\ UNCHANGED <<children, events, at, fresh, point, changes, restores, refused>>
-------------------------------------------------------------------------------
(***************************************************************************)
(* Placing.                                                                *)
(***************************************************************************)
\* chrome.bookmarks.move, within a folder: the index counts the mover.
ChromeMove(kids, o, i) ==
  LET old == SelectInSeq(kids, LAMBDA x : x = o)
  IN  InsertAt(Remove(kids, o), IF old < i THEN i - 1 ELSE i, o)

\* Mutant: the mover's old slot is not counted.
MoveIndexUncounted(kids, o, b) ==
  LET others == Remove(kids, o)
  IN  IF b \in ToSet(others) THEN SelectInSeq(others, LAMBDA x : x = b) ELSE Len(others) + 1

\* moveIndex: where o has to go to come just before b, or last without one.
MoveIndex(kids, o, b) ==
  LET others == Remove(kids, o)
      target == IF b \in ToSet(others) THEN SelectInSeq(others, LAMBDA x : x = b)
                ELSE Len(others) + 1
      old    == SelectInSeq(kids, LAMBDA x : x = o)
  IN  IF old # 0 /\ target >= old THEN target + 1 ELSE target

\* sortedInsertIndex: after all that are not above p.
SortedInsertIndex(sorted, p) ==
  Cardinality({i \in DOMAIN sorted : ~Less(p, sorted[i].pos)}) + 1

Cut(sorted, o) == SelectSeq(sorted, LAMBDA x : x.obj # o)

\* getParentOrder: the children that have a position, in its order; those of the
\* batch with the position it gives them.
Incoming(moves, o) == {i \in DOMAIN moves : moves[i].obj = o}

ParentOrder(kids, st, moves) ==
  LET pos(o)  == IF Incoming(moves, o) = {} THEN PositionOf(st, o) ELSE moves[Max(Incoming(moves, o))].pos
      placed  == SelectSeq(kids, LAMBDA o : pos(o) # NoKey)
      insert(sorted, o) == InsertAt(sorted, SortedInsertIndex(sorted, pos(o)), [obj |-> o, pos |-> pos(o)])
  IN  FoldLeft(insert, << >>, placed)

\* One move of applyMovesBatch: before the first of the sorted that is above it.
ApplyMove(acc, m) ==
  LET others == Cut(acc.sorted, m.obj)
      i      == SortedInsertIndex(others, m.pos)
      before == IF i \in DOMAIN others THEN others[i].obj ELSE NoState
  IN  IF m.obj \notin ToSet(acc.kids) THEN acc
      ELSE [kids   |-> ChromeMove(acc.kids, m.obj, MoveIndex(acc.kids, m.obj, before)),
            sorted |-> InsertAt(others, i, [obj |-> m.obj, pos |-> m.pos])]

ApplyMovesBatch(kids, st, moves) ==
  FoldLeft(ApplyMove, [kids |-> kids, sorted |-> ParentOrder(kids, st, moves)], moves).kids

(***************************************************************************)
(* applyRemoteBatch: first all operations are resolved, then one after     *)
(* another is made visible.  A create goes to the end; a restored bookmark *)
(* does too, and is placed when the batch is done.                         *)
(***************************************************************************)
ResolveOne(acc, op) ==
  LET st == [acc.st EXCEPT ![op.obj] = Resolved(@, op)]
  IN  [st  |-> st,
       out |-> Append(acc.out, [op |-> op, wins |-> Wins(acc.st[op.obj], op), live |-> IsLive(st[op.obj])])]

ApplyOne(acc, st, r) ==
  LET op    == r.op
      kids  == ApplyMovesBatch(acc.kids, st, acc.moves)
      shown == IF op.obj \in ToSet(kids) THEN kids ELSE Append(kids, op.obj)
  IN  CASE op.kind = "move" ->
             IF "move" \in r.wins /\ r.live THEN [acc EXCEPT !.moves = Append(@, op)] ELSE acc
        [] op.kind # "move" /\ "liveness" \notin r.wins ->
             [acc EXCEPT !.kids = kids, !.moves = << >>]
        [] op.kind = "delete" /\ "liveness" \in r.wins ->
             [acc EXCEPT !.kids = Remove(kids, op.obj), !.moves = << >>]
        [] OTHER ->
             [kids |-> shown, moves |-> << >>,
              places |-> IF op.kind = "restore" THEN Append(acc.places, op) ELSE acc.places]

ApplyRemoteBatch(d, ops) ==
  LET res == FoldLeft(ResolveOne, [st |-> states[d], out |-> << >>], ops)
      end == FoldLeft(LAMBDA a, r : ApplyOne(a, res.st, r),
                      [kids |-> children[d], moves |-> << >>, places |-> << >>], res.out)
      kids == ApplyMovesBatch(ApplyMovesBatch(end.kids, res.st, end.moves), res.st, end.places)
  IN  /\ states' = [states EXCEPT ![d] = res.st]
      /\ children' = [children EXCEPT ![d] = kids]
      /\ mapped' = [mapped EXCEPT ![d] = (@ \union {op.obj : op \in ToSet(ops)}) \cap ToSet(kids)]

\* A bookmark removed and not flushed yet would make the call that moves it throw.
NoRemovalPending(d) == \A i \in DOMAIN events[d] : events[d][i].kind # "delete"

\* A page; the device's own operations come back in it.
Page(d) == SubSeq(log, at[d] + 1, Len(log))

Download(d) ==
  /\ Page(d) # << >> /\ NoRemovalPending(d)
  /\ ApplyRemoteBatch(d, Page(d))
  /\ at' = [at EXCEPT ![d] = Len(log)]
  /\ clock' = [clock EXCEPT ![d] = Max({@} \union {op.lam : op \in ToSet(Page(d))}) + 1]
  /\ UNCHANGED <<imported, events, log, fresh, point, changes, restores, refused>>

(***************************************************************************)
(* Restore points.  normalizePositions: the positions of a point's nodes,  *)
(* strictly increasing; those that are already are kept.                   *)
(***************************************************************************)
LaterAbove(own, i, prev) ==
  LET later == {j \in i + 1 .. Len(own) : Less(prev, own[j])}
  IN  IF later = {} THEN NoKey ELSE own[Min(later)]

\* Mutant: a recorded position is kept, in order or not.
NormalizeOneKeeps(acc, own, i) ==
  Append(acc, IF own[i] # NoKey THEN own[i]
              ELSE KeyBetween(IF acc = << >> THEN NoKey ELSE Last(acc), NoKey))

NormalizeOne(acc, own, i) ==
  Append(acc, LET prev == IF acc = << >> THEN NoKey ELSE Last(acc)
              IN  IF Less(prev, own[i]) THEN own[i]
                  ELSE KeyBetween(prev, LaterAbove(own, i, prev)))

NormalizePositions(own) ==
  FoldLeft(LAMBDA acc, i : NormalizeOne(acc, own, i), << >>, [i \in DOMAIN own |-> i])

Positions(d) == [i \in DOMAIN children[d] |-> PositionOf(states[d], children[d][i])]

\* Every bookmark is captured: readLiveBookmarks finds none without a mapping.
Settled(d) == imported[d] /\ events[d] = << >> /\ ToSet(children[d]) \subseteq mapped[d]

TakePoint(d) ==
  /\ d \in Keepers /\ Settled(d) /\ point = << >> /\ children[d] # << >> /\ MaxRestores > 0
  /\ point' = LET pos == NormalizePositions(Positions(d))
               IN  [i \in DOMAIN pos |-> [obj |-> children[d][i], pos |-> pos[i]]]
  /\ UNCHANGED <<children, states, mapped, clock, imported, events, log, at, fresh,
                 changes, restores, refused>>

\* planRestore: what is missing is restored, in the point's order, then what is
\* not where the point has it is moved.
PlanRestore(d) ==
  LET missing == SelectSeq(point, LAMBDA n : n.obj \notin ToSet(children[d]))
      astray  == SelectSeq(point, LAMBDA n : n.obj \in ToSet(children[d]) /\ PositionOf(states[d], n.obj) # n.pos)
  IN  [i \in DOMAIN (missing \o astray) |->
         LET n == (missing \o astray)[i]
         IN  Op(d, clock[d] + i, IF i <= Len(missing) THEN "restore" ELSE "move", n.obj, n.pos)]

\* A restore of the whole point: applyUnderLock, applyRestoreOperations.
Restore(d) ==
  /\ d \in Keepers /\ Settled(d) /\ at[d] = Len(log)
  /\ restores < MaxRestores /\ PlanRestore(d) # << >>
  /\ restores' = restores + 1
  /\ ApplyRemoteBatch(d, PlanRestore(d))
  /\ clock' = [clock EXCEPT ![d] = @ + Len(PlanRestore(d))]
  /\ log' = log \o PlanRestore(d)
  /\ UNCHANGED <<imported, events, at, fresh, changes, point, refused>>

Next ==
  \E d \in Devices :
    User(d) \/ Flush(d) \/ Import(d) \/ Download(d) \/ TakePoint(d) \/ Restore(d)

Spec == Init /\ [][Next]_vars
-------------------------------------------------------------------------------
(***************************************************************************)
(* Between any two positions the devices have recorded, and on either side *)
(* of them, keyBetween finds a key that is there and that leaves room      *)
(* again on both sides: it never ends in a zero, below which there is      *)
(* nothing (fractional-index.ts, keyBetween).                              *)
(***************************************************************************)
Recordings == {PositionOf(states[d], o) : d \in Devices, o \in Objects} \union {NoKey}

KeyIsBetween ==
  \A lo, hi \in Recordings :
    LET k == KeyBetween(lo, hi)
    IN  ~NoRoom(lo, hi) => /\ Less(lo, k) /\ (hi # NoKey => Less(k, hi))
                           /\ Last(k) # 0

(***************************************************************************)
(* However out of order the recorded positions of a folder are, and        *)
(* whether or not all bookmarks have one, the positions in a point are     *)
(* strictly in the order of the browser, and they are the recorded ones    *)
(* where those are in order already (snapshot.ts, normalizePositions).     *)
(***************************************************************************)
Ascending(keys) == \A i, j \in DOMAIN keys : i < j => Less(keys[i], keys[j])

PointKeysAscend ==
  \A d \in Devices :
    LET own == Positions(d)
        pos == NormalizePositions(own)
    IN  /\ Ascending(pos)
        /\ Ascending(own) /\ NoKey \notin ToSet(own) => pos = own

(***************************************************************************)
(* The first import keeps the order the folder has in the browser: if what *)
(* the account had in it was in order, everything in it is afterwards      *)
(* (bookmarks/index.ts, flattenForBackfill).                               *)
(***************************************************************************)
Placed(d) == SelectSeq(Positions(d), LAMBDA p : p # NoKey)

ImportKeepsOrder ==
  [][\A d \in Devices :
       imported'[d] # imported[d] /\ Ascending(Placed(d)) => Ascending(Placed(d)')]_vars

(***************************************************************************)
(* A bookmark that another device moved, or restored, alone goes where its *)
(* position says, past bookmarks without one, and nothing else is moved    *)
(* (bookmarks/index.ts, applyMovesBatch, moveIndex, sortedInsertIndex).    *)
(***************************************************************************)
\* The bookmarks of the folder that have a position are in its order.
InOrder(kids, st) ==
  \A i, j \in DOMAIN kids :
    i < j /\ PositionOf(st, kids[i]) # NoKey /\ PositionOf(st, kids[j]) # NoKey
      => ~Less(PositionOf(st, kids[j]), PositionOf(st, kids[i]))

Foreign(d) == SelectSeq(Page(d), LAMBDA op : op.dev # d)

PlacesOne(d, ops) ==
  /\ Len(ops) = 1 /\ ops[1].kind \in {"move", "restore"}
  /\ "move" \in Wins(states[d][ops[1].obj], ops[1])
  /\ InOrder(Remove(children[d], ops[1].obj), states[d])

OneMoveKeepsOrder ==
  [][\A d \in Devices : \A ops \in {Foreign(d)} :
       at'[d] # at[d] /\ PlacesOne(d, ops)
         => /\ InOrder(children'[d], states'[d])
            /\ Remove(children'[d], ops[1].obj) = Remove(children[d], ops[1].obj)]_vars

(***************************************************************************)
(* Every bookmark that is added or moved finds a position, so no change of *)
(* the user is kept from the other devices: "concurrent inserts never      *)
(* require renumbering siblings" (fractional-index.ts).                    *)
(***************************************************************************)
EveryChangeFindsRoom == refused = {}

(***************************************************************************)
(* After a restore the bookmarks of the point are in the point's order:    *)
(* "put it where the point had it" (bookmarks/index.ts, applyRemote).      *)
(***************************************************************************)
RestoredInOrder ==
  [][restores' # restores =>
       \E d \in Devices :
         /\ clock'[d] # clock[d]
         /\ SelectSeq(children'[d], LAMBDA o : \E n \in ToSet(point) : n.obj = o)
              = [i \in DOMAIN point |-> point[i].obj]]_vars
===============================================================================
