---------------------------- MODULE MCProgress -----------------------------
(***************************************************************************)
(* What must end in the work of a thread: the execution of its operations  *)
(* (Execution), and the objects of the older Cloudflare host with their    *)
(* alarms (DurableObjects).  The two share no state, so an initial choice  *)
(* says which one moves and the other stays as it begins; each has the     *)
(* fairness of its own module.                                             *)
(***************************************************************************)
EXTENDS Execution, DurableObjects

VARIABLE part

\* One root thread.
MCWants == [a |-> [name |-> "p", parent |-> "root"]]

MCInit == part \in {"execution", "objects"} /\ Init /\ ObjectsInit

MCNext ==
    \/ part = "execution" /\ Next /\ UNCHANGED <<part, objectVars>>
    \/ part = "objects" /\ ObjectsNext /\ UNCHANGED <<part, vars>>

MCSpec == MCInit /\ [][MCNext]_<<part, vars, objectVars>>

MCFairSpec ==
    /\ MCSpec
    /\ part = "execution" => Fairness
    /\ part = "objects" => ObjectsFairness

\* What an object of the Cloudflare host has answered for is done in the end.
ObjectsSettle == part = "objects" => AcceptedSettles

\* A cancellation is reported in the end, and accepted work is settled or given up.
CancellationsEnd == part = "execution" => CancellationEnds
OperationsEnd == part = "execution" => WorkEnds
=============================================================================
