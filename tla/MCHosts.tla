------------------------------ MODULE MCHosts ------------------------------
(***************************************************************************)
(* What a host keeps for its actors, one part at a time: the directory of  *)
(* threads (Supervisor), the runtimes of a thread (ThreadHost), the tables *)
(* of its journal (SqlJournal), and the agent that runs in it (Agent, once *)
(* with two callers and once with two tool calls).  The parts share no     *)
(* state, so an initial choice says which one moves and the others stay as *)
(* they begin.                                                             *)
(***************************************************************************)
EXTENDS ThreadHost, Supervisor, SqlJournal

CONSTANTS Users, Names, Limit, Policies, Grant, Modes, Corrections, Window, Trigger, Retain,
          MaxCalls, MaxToolCalls, MaxTurns

VARIABLES part, agent, work, asked

agentVars == <<agent, work, asked>>

Agents == INSTANCE Agent WITH MaxToolCalls <- 1
Tools == INSTANCE Agent WITH Users <- 1

\* Two requests for one name, the first with an initial state, and one for a
\* child of that name.
Asked(parent, seed) == [parent |-> parent, name |-> "a", seed |-> seed, generated |-> FALSE]
MCRequests == <<Asked(<<"root">>, "s"), Asked(<<"root">>, "none"), Asked(<<"a">>, "none")>>
MCRoot == <<"root">>
\* Two processes that run different versions of the actor.
MCRuns == [p |-> "v1", q |-> "v2"]

HostsInit ==
    /\ part \in {"directory", "thread", "journal", "agent", "tools"}
    /\ DirectoryInit /\ Init /\ JournalInit /\ Agents!Init
    /\ part # "journal" => migrated

HostsNext ==
    \/ part = "directory" /\ DirectoryNext /\ UNCHANGED <<part, vars, journalVars, agentVars>>
    \/ part = "thread" /\ Next /\ UNCHANGED <<part, directoryVars, journalVars, agentVars>>
    \/ part = "journal" /\ JournalNext /\ UNCHANGED <<part, directoryVars, vars, agentVars>>
    \/ part = "agent" /\ Agents!Next /\ UNCHANGED <<part, directoryVars, vars, journalVars>>
    \/ part = "tools" /\ Tools!Next /\ UNCHANGED <<part, directoryVars, vars, journalVars>>

HostsSpec == HostsInit /\ [][HostsNext]_<<part, directoryVars, vars, journalVars, agentVars>>

\* The agent of packages/agent: its conversation, budget, permissions and turns.
AgentSound == IF part = "tools" THEN Tools!AgentSound ELSE Agents!AgentSound
=============================================================================
