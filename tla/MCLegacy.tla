------------------------------ MODULE MCLegacy ------------------------------
(***************************************************************************)
(* The legacy engine, one part at a time: calls between threads, with a    *)
(* fault (CallGraph); the turns of an agent in one thread, and the         *)
(* attempts of one turn with more responses, more faults and two calls at  *)
(* once (Turns twice).  An initial choice says which part moves, and the   *)
(* others stay as they begin.                                              *)
(***************************************************************************)
EXTENDS CallGraph

CONSTANTS MaxTurn, Fallback, GiveUpAfter, Allowed, Backoffs, ToolNames, Concurrency, ToolLimit, Batches,
          MaxResponses, MaxResumes, MaxFaults

VARIABLES part, log, machine, fx, resuming, crashes

turnVars == <<log, machine, fx, resuming, crashes>>

Turn == INSTANCE Turns WITH Batches <- {<<"a">>}
Attempt == INSTANCE Turns WITH
    MaxTurn <- 1, Allowed <- 1, Backoffs <- 1, MaxResponses <- 2, MaxFaults <- 2

\* A root call whose work makes one call of its own.
MCCalls == [r |-> [from |-> "out", to |-> "P", parent |-> "none"], c |-> [from |-> "P", to |-> "C", parent |-> "r"]]
MCKids == [r |-> <<"c">>, c |-> <<>>]

\* A default model and one to fall back on; a response that calls one tool
\* twice, which may run once at a time.
MCFallback == <<"first", "second">>
MCToolLimit == [a |-> 1]
MCBatches == {<<"a", "a">>}

LegacyInit ==
    /\ part \in {"graph", "turns", "attempts"}
    /\ Init
    /\ IF part = "attempts" THEN Attempt!Init ELSE Turn!Init

LegacyNext ==
    \/ part = "graph" /\ Next /\ UNCHANGED <<part, turnVars>>
    \/ part = "turns" /\ Turn!Next /\ UNCHANGED <<part, graphVars>>
    \/ part = "attempts" /\ Attempt!Next /\ UNCHANGED <<part, graphVars>>

LegacySpec == LegacyInit /\ [][LegacyNext]_<<part, graphVars, turnVars>>

\* The projections folded event by event are those of complete replay.
ProjectionExact ==
  /\ part = "turns" => Turn!ProjectionExact
  /\ part = "attempts" => Attempt!ProjectionExact

\* Model calls keep their keys, models and limits, and an epoch ends once.
AttemptsSound ==
  /\ part = "turns" => Turn!AttemptsSound
  /\ part = "attempts" => Attempt!AttemptsSound

\* No accepted message is left without an end when nothing moves.
NoTurnStranded ==
  /\ part = "turns" => Turn!NoTurnStranded
  /\ part = "attempts" => Attempt!NoTurnStranded
=============================================================================
