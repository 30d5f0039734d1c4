--------------------------- MODULE MCPromiseEarly ---------------------------
(* Two references that name the same remote execution, one of them polled.  *)
EXTENDS PromiseResolver

OneHandle == {"remote"}
SharedHandle == [r \in Refs |-> "remote"]
PushedAndPolled == {m \in [Refs -> {"push", "poll"}] : \E r \in Refs : {q \in Refs : m[q] = "push"} = {r}}
=============================================================================
