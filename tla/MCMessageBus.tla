---------------------------- MODULE MCMessageBus ----------------------------
(* MessageBus for TLC: the bounds are in the cfg file. *)
EXTENDS MessageBus
==============================================================================
