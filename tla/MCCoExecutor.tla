---------------------------- MODULE MCCoExecutor ----------------------------
(* CoExecutor for TLC: the bounds are in the cfg file. *)
EXTENDS CoExecutor
==============================================================================
