---------------------------- MODULE MCExecution ----------------------------
(***************************************************************************)
(* What runs the work of a thread: the runtime's execution of operations   *)
(* (Execution), and the objects of the older Cloudflare host with their    *)
(* alarms (DurableObjects).  The two share no state, so an initial choice  *)
(* says which one moves and the other stays as it begins.  For the objects *)
(* it also says who asks: for a thread and its child, for one name twice,  *)
(* or for one thread that messages are then delivered to.                  *)
(***************************************************************************)
EXTENDS Execution, DurableObjects

VARIABLE part

\* A root thread, a child of it under a generated name, and another root
\* thread under a generated name.
MCWants == [a |-> [name |-> "p", parent |-> "root"], b |-> [name |-> "any", parent |-> "p"],
            d |-> [name |-> "any", parent |-> "root"]]

MCInit ==
    /\ part \in {"execution", "child", "names", "deliveries"}
    /\ Init /\ ObjectsInit

Asleep(cs) == \A c \in cs : clients'[c] = clients[c]

MCNext ==
    \/ part = "execution" /\ Next /\ UNCHANGED <<part, objectVars>>
    \/ part = "child" /\ ObjectsNext /\ Asleep({"d"}) /\ UNCHANGED <<part, vars, items>>
    \/ part = "names" /\ ObjectsNext /\ Asleep({"b"}) /\ directory'["c"] = Free /\ UNCHANGED <<part, vars, items>>
    \/ part = "deliveries" /\ ObjectsNext /\ Asleep({"b", "d"}) /\ UNCHANGED <<part, vars>>

MCSpec == MCInit /\ [][MCNext]_<<part, vars, objectVars>>
=============================================================================
