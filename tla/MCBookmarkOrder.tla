---------------------------- MODULE MCBookmarkOrder ----------------------------
(* Two devices and one folder. *)
EXTENDS BookmarkOrder

\* Both had a bookmark in the folder, or only the first, three.
MCOwnBoth == <<<<1>>, <<2>>>>
MCOwnThree == <<<<1, 2, 3>>, << >>>>
===============================================================================
