----------------------------- MODULE MCSyncServer -----------------------------
(***************************************************************************)
(* Instances of SyncServer for TLC.                                        *)
(***************************************************************************)
EXTENDS SyncServer

Op(d, n, l, t, o, k) ==
  [dev |-> d, seq |-> n, lam |-> l, type |-> t, obj |-> o, kind |-> k,
   enc |-> 1, fits |-> TRUE]

MCRank == [d \in Devices |-> IF d = "d1" THEN 1 ELSE 2]

\* One device creates and deletes a bookmark, the other updates it late; a
\* bulk history chunk is retried under a fresh sequence.  Both upload at the
\* same time, one operation a request, near the quota.
MCOps ==
  { Op("d1", 1, 1, "bookmark", "o1", "create"),
    Op("d1", 2, 3, "bookmark", "o1", "delete"),
    Op("d2", 1, 2, "bookmark", "o1", "update"),
    Op("d2", 2, 4, "historyVisit", "h1", "bulkImport"),
    Op("d2", 3, 5, "historyVisit", "h1", "bulkImport") }
===============================================================================
