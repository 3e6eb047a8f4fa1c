------------------------- MODULE MCTimersScheduler -------------------------
(* TimersScheduler with a handful of addresses and short delays.           *)
EXTENDS TimersScheduler
=============================================================================
