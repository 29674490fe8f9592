---------------------------- MODULE MCBlockingQueue ----------------------------
(* BlockingQueue for TLC: the bounds are in the cfg file. *)
EXTENDS BlockingQueue
===============================================================================
