------------------------- MODULE MCPromiseResolver -------------------------
(* One promise, of an execution that reports its result, of one that is     *)
(* polled, or of a clock.  Two promises of one execution are in             *)
(* MCPromiseEarly.                                                          *)
EXTENDS PromiseResolver

OneHandle == {"remote"}
SharedHandle == [r \in Refs |-> "remote"]
OneMode == {[r \in Refs |-> m] : m \in {"push", "poll", "clock"}}
=============================================================================
