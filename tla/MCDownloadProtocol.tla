--------------------------- MODULE MCDownloadProtocol ---------------------------
(***************************************************************************)
(* Instances of DownloadProtocol for TLC.                                  *)
(***************************************************************************)
EXTENDS DownloadProtocol

Op(d, n, t, o) ==
  [dev |-> d, seq |-> n, lam |-> n, type |-> t, obj |-> o, kind |-> "create",
   enc |-> 1, fits |-> TRUE]

MCRank == [d \in Devices |-> IF d = "r" THEN 1 ELSE 2]

\* Four rows of three types.  Only history echoes are treated apart from the
\* rows of other devices, so the reader uploads them itself: one device keeps
\* the server's part small.
MCOps ==
  { Op("r", 1, "bookmark", "b1"), Op("r", 2, "tab", "t1"),
    Op("r", 3, "bookmark", "b2"), Op("r", 4, "tabGroup", "g1") }
MCNewer      == {op \in MCOps : op.type = "tab"}
MCUnreadable == {op \in MCOps : op.type = "tabGroup"}

\* Two bookmarks of another device.
MCPeerOps == { Op("w", 1, "bookmark", "b1"), Op("w", 2, "bookmark", "b2") }
===============================================================================
