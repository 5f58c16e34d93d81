-------------------------------- MODULE MCTabs --------------------------------
(***************************************************************************)
(* Instances of TabRestore for TLC: two tabs of another device, in a group *)
(* or not.                                                                 *)
(***************************************************************************)
EXTENDS TabRestore

MCTheirs     == {-1, -2}
MCTheirGroup == -3
===============================================================================
