------------------------------ MODULE RestorePlan ------------------------------
(***************************************************************************)
(* The pure part of bookmark restore points: what a point holds            *)
(* (restore-points/snapshot.ts, format.ts), the operations a restore is     *)
(* planned as (restore-points/planner.ts), and what applying one of them    *)
(* does to the browser's tree.                                             *)
(*                                                                         *)
(* A tree maps each object that is live to its parent and its value: the    *)
(* URL of a bookmark, the title of a folder.  Objects are numbered in the   *)
(* order of their sibling positions, so a position needs no field of its    *)
(* own.  A point is the sequence of its nodes, as it is stored.            *)
(***************************************************************************)
EXTENDS Naturals, FiniteSets, SequencesExt

CONSTANTS
  Folders, Bookmarks,  \* disjoint sets of positive numbers
  Titles, Urls,        \* the values of folders and of bookmarks
  Unsyncable,          \* the URLs that are not http(s)
  Managed              \* the objects set by browser policy

Root == 0
Objects == Folders \cup Bookmarks

ASSUME RestoreConstants ==
  /\ Objects \subseteq Nat \ {Root} /\ Folders \cap Bookmarks = {}
  /\ IsFiniteSet(Objects)
  /\ Unsyncable \subseteq Urls /\ Managed \subseteq Objects

Node(o) == [par : Folders \cup {Root}, val : IF o \in Folders THEN Titles ELSE Urls]

Children(t, f) == {o \in DOMAIN t : t[o].par = f}

\* What hangs below f in t: following parents from there leads to f.
Below(t, f) ==
  LET par == [o \in Objects \cup {Root} |-> IF o \in DOMAIN t THEN t[o].par ELSE o]
      Reaches(o) ==
        LET up[n \in Nat] == IF n = 0 THEN o ELSE par[up[n - 1]]
        IN \E n \in 1 .. Cardinality(DOMAIN t) : up[n] = f
  IN {o \in DOMAIN t : Reaches(o)}

IsTree(t) ==
  /\ DOMAIN t \subseteq Objects
  /\ \A o \in DOMAIN t : t[o] \in Node(o)
  /\ Below(t, Root) = DOMAIN t

Without(t, gone) == [o \in DOMAIN t \ gone |-> t[o]]

-----------------------------------------------------------------------------
(* What a point holds. *)

\* Removed nodes are merged into the live tree; a node that is live wins.
Merged(live, removed) ==
  [o \in DOMAIN live \cup DOMAIN removed |-> IF o \in DOMAIN live THEN live[o] ELSE removed[o]]

PointNode(t, o) == [o |-> o, p |-> t[o].par, v |-> t[o].val]

\* buildPointNodes: a preorder walk from the built-in roots over a stack of
\* siblings.  Managed nodes are skipped with what is under them, and a node
\* that does not reach a root is never met.
Walk(t) ==
  LET Push(f) == SetToSortSeq(Children(t, f) \ Managed, <)
      Step(walk, i) ==
        IF walk.stack = <<>> THEN walk
        ELSE [stack |-> Push(Head(walk.stack)) \o Tail(walk.stack),
              out |-> Append(walk.out, PointNode(t, Head(walk.stack)))]
  IN FoldLeft(Step, [stack |-> Push(Root), out |-> <<>>],
              [i \in 1 .. Cardinality(DOMAIN t) |-> i]).out

\* Mutant: what the walk does not meet is added at the end.
BuildPointNodesOrphans(live, removed) ==
  LET t == Merged(live, removed)
      met == {Walk(t)[i].o : i \in DOMAIN Walk(t)}
      rest == SetToSortSeq(DOMAIN t \ (met \cup Managed), <)
  IN Walk(t) \o [i \in DOMAIN rest |-> PointNode(t, rest[i])]

BuildPointNodes(live, removed) == Walk(Merged(live, removed))

\* validatePoint: objects are unique and every parent is a root or an earlier
\* node.
ValidPoint(nodes) ==
  \A i \in DOMAIN nodes :
    /\ \A j \in 1 .. i - 1 : nodes[j].o # nodes[i].o
    /\ nodes[i].p = Root \/ \E j \in 1 .. i - 1 : nodes[j].o = nodes[i].p

PointIds(nodes) == {nodes[i].o : i \in DOMAIN nodes}

\* The tree a point describes.
PointTree(nodes) ==
  [o \in PointIds(nodes) |->
     LET i == CHOOSE j \in DOMAIN nodes : nodes[j].o = o
     IN [par |-> nodes[i].p, val |-> nodes[i].v]]

-----------------------------------------------------------------------------
(* The plan of a restore.  The scope is Root for all bookmarks, or a folder   *)
(* of the point.                                                             *)

\* The nodes the restore brings back: all of the point, or the folder and what
\* the point has below it.
Covered(nodes, scope) ==
  IF scope = Root THEN PointIds(nodes)
  ELSE {scope} \cup Below(PointTree(nodes), scope)

\* The folders above the scope only have to exist.
AncestorsToRestore(nodes, scope) ==
  IF scope = Root THEN {}
  ELSE {o \in PointIds(nodes) : scope \in Below(PointTree(nodes), o)}

Restores(nodes, live, scope) ==
  LET Wanted(n) ==
        /\ n.o \in Covered(nodes, scope) \cup AncestorsToRestore(nodes, scope)
        /\ n.o \notin DOMAIN live
        /\ n.v \notin Unsyncable
      kept == SelectSeq(nodes, Wanted)
  IN [i \in DOMAIN kept |-> [kind |-> "restore", o |-> kept[i].o, p |-> kept[i].p, v |-> kept[i].v]]

Editable(nodes, live, scope) == (Covered(nodes, scope) \cap DOMAIN live) \ Managed

Updates(nodes, live, scope) ==
  LET Changed(n) ==
        /\ n.o \in Editable(nodes, live, scope)
        /\ live[n.o].val # n.v /\ n.v \notin Unsyncable
      kept == SelectSeq(nodes, Changed)
  IN [i \in DOMAIN kept |-> [kind |-> "update", o |-> kept[i].o, v |-> kept[i].v]]

\* Mutant: the moves come out children first.
MovesChildrenFirst(nodes, live, scope) ==
  LET Moved(n) == n.o \in Editable(nodes, live, scope) /\ live[n.o].par # n.p
      kept == Reverse(SelectSeq(nodes, Moved))
  IN [i \in DOMAIN kept |-> [kind |-> "move", o |-> kept[i].o, p |-> kept[i].p]]

Moves(nodes, live, scope) ==
  LET Moved(n) == n.o \in Editable(nodes, live, scope) /\ live[n.o].par # n.p
      kept == SelectSeq(nodes, Moved)
  IN [i \in DOMAIN kept |-> [kind |-> "move", o |-> kept[i].o, p |-> kept[i].p]]

\* Live nodes the point does not hold: anywhere, or inside the scope's folder
\* as it is now.
Unwanted(nodes, live, scope) == (Below(live, scope) \ PointIds(nodes)) \ Managed

\* Topmost only: a deleted folder takes its contents with it.
Topmost(unwanted, live) == {o \in unwanted : live[o].par \notin unwanted}

Deletes(nodes, live, mode, scope) ==
  LET order == SetToSortSeq(Topmost(Unwanted(nodes, live, scope), live), <)
  IN IF mode = "merge" THEN <<>>
     ELSE [i \in DOMAIN order |-> [kind |-> "delete", o |-> order[i]]]

\* Mutant: the deletes come before the moves.
PlanDeletesFirst(nodes, live, mode, scope) ==
  Restores(nodes, live, scope) \o Updates(nodes, live, scope)
  \o Deletes(nodes, live, mode, scope) \o Moves(nodes, live, scope)

PlanRestore(nodes, live, mode, scope) ==
  Restores(nodes, live, scope) \o Updates(nodes, live, scope)
  \o Moves(nodes, live, scope) \o Deletes(nodes, live, mode, scope)

-----------------------------------------------------------------------------
(* Applying an operation to the browser (bookmarks/index.ts applyRemoteBatch).*)

Placed(t, p) == p = Root \/ p \in DOMAIN t

\* chrome.bookmarks.move throws for a folder moved into itself or below itself.
Refused(t, op) ==
  op.kind = "move" /\ op.o \in DOMAIN t /\ (op.p = op.o \/ op.p \in Below(t, op.o))

\* A restore creates the node, or only places one that is there; a parent that
\* is missing defers the operation; anything about a missing node is dropped.
Applied(t, op) ==
  CASE op.kind = "restore" /\ op.o \notin DOMAIN t /\ Placed(t, op.p) ->
         [o \in DOMAIN t \cup {op.o} |-> IF o = op.o THEN [par |-> op.p, val |-> op.v] ELSE t[o]]
    [] op.kind \in {"restore", "move"} /\ op.o \in DOMAIN t /\ Placed(t, op.p) /\ ~Refused(t, op) ->
         [t EXCEPT ![op.o].par = op.p]
    [] op.kind = "update" /\ op.o \in DOMAIN t -> [t EXCEPT ![op.o].val = op.v]
    [] op.kind = "delete" /\ op.o \in DOMAIN t -> Without(t, {op.o} \cup Below(t, op.o))
    [] OTHER -> t

AppliedAll(t, ops) == FoldLeft(Applied, t, ops)
===============================================================================
