------------------------------- MODULE MCHistory -------------------------------
(***************************************************************************)
(* An instance of History for TLC: one page visited, and loaded in a       *)
(* subframe, before the install, and another that other devices visited.   *)
(***************************************************************************)
EXTENDS History

CONSTANTS a, b

By(u, kind) == [url |-> u, kind |-> kind, gone |-> FALSE]

MCUrls      == {a, b}
MCTheirs    == {b}
MCInstalled == {<<By(a, "user"), By(a, "frame")>>}
================================================================================
