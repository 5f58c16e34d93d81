---------------------------- MODULE MCUploadProtocol ----------------------------
(***************************************************************************)
(* Instances of UploadProtocol for TLC: one device.                        *)
(***************************************************************************)
EXTENDS UploadProtocol

Op(n, t, o, k) ==
  [dev |-> "d1", seq |-> n, lam |-> n, type |-> t, obj |-> o, kind |-> k,
   enc |-> 1, fits |-> TRUE]

MCRank == [d \in Devices |-> 1]

\* Two bookmarks are created and a tab is opened: nothing the server rejects.
MCCleanOps ==
  { Op(1, "bookmark", "o1", "create"),
    Op(2, "bookmark", "o2", "create"),
    Op(3, "tab", "t1", "create") }

\* Two bookmarks are created, or one that the server never saw is updated or
\* restored, before or while a history chunk is imported.
MCLocalOps ==
  { Op(1, "bookmark", "o1", kind) : kind \in {"restore", "update"} }
  \cup { Op(1, "bookmark", "o3", "create"), Op(2, "bookmark", "o2", "create") }
  \cup { Op(n, "historyVisit", "h1", "bulkImport") : n \in {1, 2} }

\* The restore can be re-sent as a create under any later sequence.
MCMixedOps == MCLocalOps \cup { Op(n, "bookmark", "o1", "create") : n \in 2 .. 5 }

\* An update is refused (its object is unknown) in the batch that carries a
\* later create.
MCRetryOps ==
  { Op(1, "bookmark", "o1", "update"),
    Op(2, "bookmark", "o2", "create") }

\* A bookmark is created while a history chunk is imported.
MCImportOps ==
  { Op(n, "bookmark", "o1", "create") : n \in {1, 2} }
  \cup { Op(n, "historyVisit", "h1", "bulkImport") : n \in {1, 2} }

\* Two producers create a bookmark each at the same time.
MCProducerOps ==
  { Op(1, "bookmark", "o1", "create"),
    Op(2, "bookmark", "o2", "create") }
===============================================================================
