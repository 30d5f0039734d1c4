----------------------------- MODULE MCWatchdog -----------------------------
(* Model-checking instance of Watchdog. *)
EXTENDS Watchdog
=============================================================================
