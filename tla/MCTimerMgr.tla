------------------------------ MODULE MCTimerMgr ------------------------------
(* TimerMgr for TLC: the bounds are in the cfg file. *)
EXTENDS TimerMgr
===============================================================================
