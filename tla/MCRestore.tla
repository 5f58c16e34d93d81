------------------------------- MODULE MCRestore -------------------------------
(***************************************************************************)
(* An instance of RestoreJob for TLC: two folders, a bookmark whose URL may  *)
(* be unsyncable, and a bookmark set by policy.                              *)
(***************************************************************************)
EXTENDS RestoreJob

WithManaged(t) == Merged(t, [o \in Managed |-> [par |-> Root, val |-> "web"]])

\* Every tree over the objects.
MCTrees ==
  LET maps == UNION { {t \in [D -> UNION {Node(o) : o \in D}] : \A o \in D : t[o] \in Node(o)} :
                        D \in SUBSET (Objects \ Managed) }
  IN {WithManaged(t) : t \in {m \in maps : IsTree(m)}}

Budget(edits, points, manage, faults, restores) ==
  [edits |-> edits, points |-> points, manage |-> manage, faults |-> faults, restores |-> restores]

\* Any tree restored to any point, with an interruption.
MCRestores ==
  {[tree |-> t, nodes |-> BuildPointNodes(p, NoneRemoved), budget |-> Budget(0, 0, 0, 1, 1)] :
     t \in MCTrees, p \in MCTrees}

\* Both folders nested, with the bookmark at the bottom.
Nested(f, g) ==
  WithManaged([o \in {1, 2, 3} |->
     CASE o = f -> [par |-> Root, val |-> "t"]
       [] o = g -> [par |-> f, val |-> "t"]
       [] o = 3 -> [par |-> g, val |-> "web"]])

\* The same while bookmarks change.
MCBusy ==
  {[tree |-> Nested(1, 2), nodes |-> BuildPointNodes(p, NoneRemoved), budget |-> Budget(1, 0, 0, 1, 1)] :
     p \in {Nested(2, 1), WithManaged(NoneRemoved)}}

\* Points are made, pinned, deleted and evicted around a restore.
MCPoints ==
  {[tree |-> Nested(1, 2), nodes |-> BuildPointNodes(Nested(1, 2), NoneRemoved), budget |-> b] :
     b \in {Budget(0, 2, 0, 0, 0), Budget(2, 0, 0, 0, 0), Budget(0, 1, 1, 0, 1), Budget(0, 0, 1, 1, 1), Budget(0, 1, 2, 0, 1)}}

MCStarts == MCRestores \cup MCBusy \cup MCPoints
===============================================================================
