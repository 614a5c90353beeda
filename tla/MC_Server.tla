------------------------------ MODULE MC_Server ------------------------------
(***************************************************************************)
(* An instance of Server for TLC: two connections, so that one can be      *)
(* counted off twice while the other is still open, or arrives late.       *)
(***************************************************************************)
EXTENDS Server, TLC

CONSTANTS c1, c2
=============================================================================
