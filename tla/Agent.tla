------------------------------- MODULE Agent -------------------------------
(***************************************************************************)
(* The agent of packages/agent, the actor createActor composes: turns      *)
(* requested by messages and by settled tool promises, inference, tools    *)
(* behind permissions and a tool budget, and compaction of the history.    *)
(*                                                                         *)
(* Everything an agent knows is folded from its journal, so the state is   *)
(* one record, `agent', and a commit folds Reduce over the events of a     *)
(* record and its follow-ups.  What the atoms propose is a function of     *)
(* that record: events (Deliveries), cancellations and acts (Proposed).    *)
(* The drain of the core (execution.ts) admits one of them at a time,      *)
(* cancellations before events and events before acts; `work' are the      *)
(* admitted acts that run or are deferred, and they settle in any order.   *)
(*                                                                         *)
(* A message is a row of size one, a threshold of compaction a number of  *)
(* rows.  Left out: rendering, token usage reports (the estimate decides), *)
(* spend in tokens, dollars and time, and the atoms' caches.               *)
(***************************************************************************)
EXTENDS Naturals, Sequences, FiniteSets, SequencesExt, FiniteSetsExt

CONSTANTS
    Users,         \* invocations of the message method, numbered as they arrive
    Names,         \* names a reply may call; Catalog are those of tools
    Limit,         \* policy.limit of the tool budget
    Policies,      \* what an exhausted budget does: "deny", "wait" or "request"
    Grant,         \* calls a positive budget decision adds
    Modes,         \* modes a permission policy may have: "ask", "allow", "deny"
    Corrections,   \* output.correction.attempts
    Window,        \* rows that fit the model's context window
    Trigger,       \* rows at which the history is compacted
    Retain,        \* rows a compaction aims to keep
    MaxCalls,      \* bound on the inference calls of a turn
    MaxToolCalls,  \* bound on the tools called
    MaxTurns       \* bound on the turns, those of promises included

VARIABLES
    agent,         \* the fold of the journal
    work,          \* admitted acts that have not settled
    asked          \* identities of the acts admitted so far

vars == <<agent, work, asked>>

RequestTool == "request_budget"
Catalog == Names \ {"unknown"}

Turn(id) == [id |-> id, settled |-> "no", answered |-> FALSE, calls |-> 0, running |-> FALSE,
             outstanding |-> <<>>, effects |-> {}, pending |-> {}, failed |-> FALSE, cancelled |-> FALSE]

Initial == [turns |-> <<>>, queue |-> <<>>, model |-> FALSE, policy |-> "none", decisions |-> <<>>,
            budget |-> [set |-> FALSE, exhausted |-> "none", limit |-> 0, turn |-> <<>>, granted |-> 0, decisions |-> {}],
            counted |-> <<>>, tools |-> {}, rows |-> <<>>, submissions |-> <<>>,
            compaction |-> [through |-> 0, attempts |-> 0, pending |-> 0, failed |-> FALSE],
            seq |-> 0, refused |-> FALSE]

----------------------------------------------------------------------------
(* Events *)

TurnRequested(t) == [type |-> "TurnRequested", turn |-> t]
AbortRequested(t) == [type |-> "AbortRequested", turn |-> t]
EffectRequested(r) == [type |-> "EffectRequested", ref |-> r]
EffectCancelled(r) == [type |-> "EffectCancelled", ref |-> r]
EffectEnded(r) == [type |-> "EffectEnded", ref |-> r]    \* settled with a value, rejected, or its promise settled
ModelConfigured == [type |-> "ModelConfigured"]
ModelCalled(t, n) == [type |-> "ModelCalled", turn |-> t, n |-> n]
ModelReturned(t, n, calls) == [type |-> "ModelReturned", turn |-> t, n |-> n, calls |-> calls]
ModelFailed(t, n) == [type |-> "ModelFailed", turn |-> t, n |-> n]
OutputRejected(t, n) == [type |-> "OutputRejected", turn |-> t, n |-> n]
TurnSettled(t, o) == [type |-> "TurnSettled", turn |-> t, outcome |-> o]
ToolCalled(c, counted) == [type |-> "ToolCalled", call |-> c, counted |-> counted]
ToolReturned(c, promise) == [type |-> "ToolReturned", call |-> c, promise |-> promise]    \* promise = 0: none
PermissionConfigured(m) == [type |-> "PermissionConfigured", mode |-> m]
PermissionUpdated(m) == [type |-> "PermissionUpdated", mode |-> m]
PermissionResolved(c, a) == [type |-> "PermissionResolved", call |-> c, allowed |-> a]
BudgetConfigured(p) == [type |-> "BudgetConfigured", exhausted |-> p, limit |-> Limit]
BudgetResolved(c, n) == [type |-> "BudgetResolved", call |-> c, additional |-> n]    \* additional = 0: refused
CompactionCalled(p, n) == [type |-> "CompactionCalled", through |-> p, n |-> n]
CompactionReturned(p, n) == [type |-> "CompactionReturned", through |-> p, n |-> n]
CompactionFailed(p, n) == [type |-> "CompactionFailed", through |-> p, n |-> n]

----------------------------------------------------------------------------
(* The turns: inferState *)

Active(s) == SelectInSeq(s.turns, LAMBDA t : t.settled = "no")
Current(s) == s.turns[Active(s)]
Waiting(t) == t.outstanding # <<>>

\* updateTurn: an identifier belongs to at most one turn.
UpdateTurn(turns, Matches(_), Update(_)) == [i \in DOMAIN turns |-> IF Matches(turns[i]) THEN Update(turns[i]) ELSE turns[i]]

\* The running call of the active turn is the one an answer must be for.
Running(s, e) == Active(s) # 0 /\ Current(s).id = e.turn /\ Current(s).running /\ e.n = Current(s).calls - 1

MayCall(t, e) == t.id = e.turn /\ e.n = t.calls /\ ~t.answered /\ ~t.running /\ ~Waiting(t)

\* A turn completes with its answer, and ends otherwise only when its calls have
\* been answered and, cancelled, when its work has been drained.
MaySettle(t, outcome) ==
    /\ ~Waiting(t)
    /\ outcome = "completed" => t.answered /\ ~t.running
    /\ outcome = "cancelled" => t.cancelled /\ t.pending = {}

InferenceRefuses(s, e) ==
    CASE e.type = "TurnRequested" -> \E i \in DOMAIN s.turns : s.turns[i].id = e.turn
      [] e.type = "ModelCalled" -> ~(Active(s) # 0 /\ MayCall(Current(s), e))
      [] e.type \in {"ModelReturned", "ModelFailed", "OutputRejected"} -> ~Running(s, e)
      [] e.type = "TurnSettled" ->
            ~(Active(s) # 0 /\ Current(s).id = e.turn /\ MaySettle(Current(s), e.outcome))
      [] OTHER -> FALSE

InferState(s, e) ==
    LET Of(t) == t.id = e.turn IN
    CASE e.type = "TurnRequested" -> Append(s.turns, Turn(e.turn))
      [] e.type = "AbortRequested" -> UpdateTurn(s.turns, LAMBDA t : Of(t) /\ t.settled = "no" /\ ~t.cancelled,
                                                 LAMBDA t : [t EXCEPT !.cancelled = TRUE])
      [] e.type = "EffectRequested" -> UpdateTurn(s.turns, LAMBDA t : Active(s) # 0 /\ t.id = Current(s).id,
                                                  LAMBDA t : [t EXCEPT !.effects = @ \cup {e.ref}, !.pending = @ \cup {e.ref}])
      [] e.type \in {"EffectCancelled", "EffectEnded"} -> UpdateTurn(s.turns, LAMBDA t : e.ref \in t.pending,
                                                                     LAMBDA t : [t EXCEPT !.pending = @ \ {e.ref}])
      [] e.type = "ModelCalled" -> UpdateTurn(s.turns, Of, LAMBDA t : [t EXCEPT !.calls = @ + 1, !.running = TRUE])
      [] e.type = "ModelReturned" -> UpdateTurn(s.turns, Of, LAMBDA t : [t EXCEPT !.running = FALSE, !.answered = e.calls = <<>>,
                                                                                  !.outstanding = [i \in DOMAIN e.calls |-> e.calls[i].call]])
      [] e.type = "ModelFailed" -> UpdateTurn(s.turns, Of, LAMBDA t : [t EXCEPT !.running = FALSE, !.failed = TRUE])
      [] e.type = "OutputRejected" -> UpdateTurn(s.turns, Of, LAMBDA t : [t EXCEPT !.running = FALSE, !.failed = @ \/ e.n >= Corrections])
      [] e.type = "TurnSettled" -> UpdateTurn(s.turns, Of, LAMBDA t : [t EXCEPT !.settled = e.outcome, !.failed = @ \/ e.outcome = "failed"])
      [] e.type = "ToolReturned" -> UpdateTurn(s.turns, LAMBDA t : Contains(t.outstanding, e.call),
                                               LAMBDA t : [t EXCEPT !.outstanding = SelectSeq(@, LAMBDA c : c # e.call)])
      [] OTHER -> s.turns

----------------------------------------------------------------------------
(* The other folds *)

\* toolState: the calls of every reply, in order; the first is the pending one.
ToolState(q, e) ==
    CASE e.type = "ModelReturned" -> q \o [i \in DOMAIN e.calls |-> [call |-> e.calls[i].call, name |-> e.calls[i].name, running |-> FALSE]]
      [] e.type = "ToolCalled" -> [i \in DOMAIN q |-> IF q[i].call = e.call THEN [q[i] EXCEPT !.running = TRUE] ELSE q[i]]
      [] e.type = "ToolReturned" -> SelectSeq(q, LAMBDA item : item.call # e.call)
      [] OTHER -> q

Decided(s, c) == SelectLastInSeq(s.decisions, LAMBDA d : d.call = c)

PermissionsRefuse(s, e) == \/ e.type = "PermissionConfigured" /\ s.policy # "none"
                           \/ e.type = "PermissionUpdated" /\ s.policy = "none"

ReducePolicy(s, e) == IF e.type \in {"PermissionConfigured", "PermissionUpdated"} THEN e.mode ELSE s.policy
ReduceDecisions(s, e) ==
    IF e.type = "PermissionResolved" /\ (Decided(s, e.call) = 0 \/ s.decisions[Decided(s, e.call)].allowed # e.allowed)
    THEN Append(s.decisions, [call |-> e.call, allowed |-> e.allowed]) ELSE s.decisions

Resolution(b, c) == {d \in b.decisions : d.call = c}

BudgetRefuses(s, e) ==
    \/ e.type = "BudgetConfigured" /\ s.budget.set
    \/ e.type = "BudgetResolved" /\ (~s.budget.set \/ \E d \in Resolution(s.budget, e.call) : d.additional # e.additional)

ReduceBudget(b, e) ==
    CASE e.type = "BudgetConfigured" -> [b EXCEPT !.set = TRUE, !.exhausted = e.exhausted, !.limit = e.limit]
      [] e.type = "ModelCalled" /\ b.set /\ b.turn # e.turn -> [b EXCEPT !.turn = e.turn, !.granted = 0, !.decisions = {}]
      [] e.type = "TurnSettled" /\ b.turn = e.turn -> [b EXCEPT !.turn = <<>>, !.granted = 0, !.decisions = {}]
      [] e.type = "BudgetResolved" /\ Resolution(b, e.call) = {} ->
            [b EXCEPT !.granted = @ + e.additional, !.decisions = @ \cup {[call |-> e.call, additional |-> e.additional]}]
      [] OTHER -> b

\* reduceSpend: a call is charged to the turn whose reply made it, once.
ReduceTools(s, e) ==
    CASE e.type = "ModelReturned" -> s.tools \cup {[call |-> e.calls[i].call, turn |-> e.turn] : i \in DOMAIN e.calls}
      [] e.type \in {"ToolCalled", "ToolReturned"} -> {c \in s.tools : c.call # e.call}
      [] e.type = "TurnSettled" -> {c \in s.tools : c.turn # e.turn}
      [] OTHER -> s.tools
ReduceSpend(s, e) ==
    CASE e.type = "TurnRequested" -> Append(s.counted, 0)
      [] e.type = "ToolCalled" -> [i \in DOMAIN s.counted |->
             IF e.counted /\ \E c \in s.tools : c.call = e.call /\ c.turn = s.turns[i].id THEN s.counted[i] + 1 ELSE s.counted[i]]
      [] OTHER -> s.counted

\* trajectory: the rows of the conversation, in journal order.
Row(role, calls) == [role |-> role, calls |-> calls]
Trajectory(rows, e) ==
    CASE e.type = "TurnRequested" -> Append(rows, Row("user", {}))
      [] e.type = "ModelReturned" -> Append(rows, Row("assistant", {e.calls[i].call : i \in DOMAIN e.calls}))
      [] e.type = "ToolReturned" -> Append(rows, Row("tool", {e.call}))
      [] OTHER -> rows

CompactionRefuses(c, e) ==
    \/ e.type = "CompactionCalled" /\ (c.pending # 0 \/ e.through <= c.through)
    \/ e.type \in {"CompactionReturned", "CompactionFailed"} /\ (c.pending = 0 \/ e.through # c.pending \/ e.n # c.attempts - 1)

CompactState(c, e) ==
    CASE e.type = "TurnSettled" -> [c EXCEPT !.failed = FALSE]
      [] e.type = "CompactionCalled" -> [c EXCEPT !.attempts = @ + 1, !.pending = e.through]
      [] e.type = "CompactionReturned" -> [c EXCEPT !.through = c.pending, !.pending = 0, !.failed = FALSE]
      [] e.type = "CompactionFailed" -> [c EXCEPT !.pending = 0, !.failed = TRUE]
      [] OTHER -> c

PromiseTurn(c) == <<"promise">> \o c
Submissions(subs, e) ==
    CASE e.type = "ToolReturned" /\ e.promise # 0 -> Append(subs, [call |-> e.call, ref |-> e.promise, settled |-> FALSE])
      [] e.type = "EffectCancelled" -> SelectSeq(subs, LAMBDA i : i.ref # e.ref)
      [] e.type = "EffectEnded" -> [i \in DOMAIN subs |-> IF subs[i].ref = e.ref THEN [subs[i] EXCEPT !.settled = TRUE] ELSE subs[i]]
      [] e.type = "TurnRequested" -> SelectSeq(subs, LAMBDA i : PromiseTurn(i.call) # e.turn)
      [] OTHER -> subs

\* An event any of the atoms refuses is a defect of the actor.
Refuses(s, e) == \/ InferenceRefuses(s, e) \/ PermissionsRefuse(s, e) \/ BudgetRefuses(s, e) \/ CompactionRefuses(s.compaction, e)

Reduce(s, e) ==
    IF s.refused \/ Refuses(s, e) THEN [s EXCEPT !.refused = TRUE] ELSE
    [s EXCEPT !.turns = InferState(s, e), !.queue = ToolState(s.queue, e), !.model = @ \/ e.type = "ModelConfigured",
              !.policy = ReducePolicy(s, e), !.decisions = ReduceDecisions(s, e), !.budget = ReduceBudget(s.budget, e),
              !.counted = ReduceSpend(s, e), !.tools = ReduceTools(s, e), !.rows = Trajectory(s.rows, e),
              !.compaction = CompactState(s.compaction, e), !.submissions = Submissions(s.submissions, e),
              !.seq = @ + (IF e.type = "EffectRequested" THEN 1 ELSE 0)]

Commit(s, es) == FoldLeft(Reduce, s, es)

----------------------------------------------------------------------------
(* What the atoms propose *)

FirstCall(s) == s.queue[1]
Index(s, id) == SelectInSeq(s.turns, LAMBDA t : t.id = id)

\* toolBudget: used is counted against the turn the budget was last reset for.
Used(s) == LET i == Index(s, s.budget.turn) IN IF i = 0 THEN 0 ELSE s.counted[i]
Remaining(s) == LET l == s.budget.limit + s.budget.granted IN IF l > Used(s) THEN l - Used(s) ELSE 0

Ready(counted, runs) == [position |-> "ready", counted |-> counted, runs |-> runs]
Held(position) == [position |-> position, counted |-> FALSE, runs |-> FALSE]

\* prepare of tools and of withPermissions: an unknown or refused tool is
\* answered with an error, uncounted, without running.
Permitted(s, item) ==
    IF item.name \notin Catalog THEN Ready(FALSE, FALSE)
    ELSE IF Decided(s, item.call) = 0 THEN Held("waiting")
    ELSE IF s.decisions[Decided(s, item.call)].allowed THEN Ready(TRUE, TRUE) ELSE Ready(FALSE, FALSE)

\* prepare of withBudget.
Prepare(s, item) ==
    LET plan == Permitted(s, item)
        resolved == Resolution(s.budget, item.call) IN
    IF ~s.budget.set \/ plan.position # "ready" \/ ~plan.counted THEN plan
    ELSE IF s.budget.exhausted = "request" /\ item.name = RequestTool
         THEN IF resolved = {} /\ Remaining(s) = 0 THEN Held("waiting") ELSE Ready(FALSE, FALSE)
    ELSE IF s.budget.exhausted = "request" /\ Remaining(s) = 0 THEN Ready(FALSE, FALSE)
    ELSE IF \E d \in resolved : d.additional = 0 THEN Ready(FALSE, FALSE)
    ELSE IF Remaining(s) = 0 /\ s.budget.exhausted = "deny" THEN Ready(FALSE, FALSE)
    ELSE IF Remaining(s) > 0 \/ item.running THEN plan ELSE Held("blocked")

\* permissions: the policy's mode decides, or a request asks.
PolicyEvents(s) ==
    IF s.policy = "none" THEN {PermissionConfigured("ask")}
    ELSE IF s.queue = <<>> \/ s.policy = "ask" THEN {}
    ELSE IF Decided(s, FirstCall(s).call) # 0 THEN {}
    ELSE {PermissionResolved(FirstCall(s).call, s.policy = "allow")}
BudgetEvents(s) == IF s.budget.set THEN {} ELSE {BudgetConfigured(p) : p \in Policies}

\* toolPromises, and the filter of infer: the result of a promise a cancelled
\* turn made starts no turn.
PromiseEvents(s) ==
    LET cancelled == UNION {s.turns[i].effects : i \in {i \in DOMAIN s.turns : s.turns[i].cancelled}} IN
    {TurnRequested(PromiseTurn(item.call)) : item \in {item \in Range(s.submissions) : item.settled /\ item.ref \notin cancelled}}

\* compact: the rows not yet summarised, as many as fit the window.
Summary(s) == IF s.compaction.through > 0 THEN 1 ELSE 0
Fits(s) == Max({1, Window - Summary(s)})
Uncompacted(s) == Len(s.rows) - s.compaction.through
More(s) == Uncompacted(s) > Fits(s)
Context(s) == SubSeq(s.rows, s.compaction.through + 1, s.compaction.through + Min({Uncompacted(s), Fits(s)}))

Unanswered(rows) == UNION {rows[i].calls : i \in {i \in DOMAIN rows : rows[i].role = "assistant"}}
                        \ UNION {rows[i].calls : i \in {i \in DOMAIN rows : rows[i].role = "tool"}}

\* Faulty variant of Boundaries: a history cut between a call and its answer.
BoundariesAnywhere(s) == {b \in 1..(Len(Context(s)) - 1) : Context(s)[b + 1].role # "assistant"}

\* Places the history may be cut: before a user message or a call of tools, when
\* every call before it has been answered; after the window when it is full.
Boundaries(s) ==
    LET rows == Context(s) IN
    {b \in 1..(Len(rows) - 1) : /\ Unanswered(SubSeq(rows, 1, b)) = {}
                                /\ rows[b + 1].role = "user" \/ (rows[b + 1].role = "assistant" /\ rows[b + 1].calls # {})}
        \cup {b \in {Len(rows)} : More(s) /\ b > 0 /\ Unanswered(rows) = {}}

Boundary(s) ==
    LET fitting == {b \in Boundaries(s) : Len(Context(s)) - b <= Retain} IN
    IF More(s) \/ fitting = {} THEN Max(Boundaries(s)) ELSE Min(fitting)

ContextView(s) ==
    IF ~s.model THEN "configuring"
    ELSE IF s.compaction.failed THEN "failed"
    ELSE IF s.compaction.pending # 0 THEN "compacting"
    ELSE IF ~More(s) /\ Summary(s) + Len(Context(s)) < Trigger THEN "ready"
    ELSE IF Boundaries(s) # {} THEN "compact"
    ELSE IF More(s) THEN "failed" ELSE "ready"

\* infer: a cancelled turn first cancels its work, then answers its calls, then
\* settles.
Stopping(s) == Active(s) # 0 /\ Current(s).cancelled
Cancellations(s) == IF Stopping(s) THEN Current(s).pending ELSE {}

Settlement(s) ==
    LET t == Current(s) IN
    IF Active(s) = 0 \/ ~s.model \/ t.running THEN {}
    ELSE IF t.failed THEN {TurnSettled(t.id, "failed")}
    ELSE IF t.answered THEN {TurnSettled(t.id, "completed")}
    ELSE IF ~Waiting(t) /\ ContextView(s) = "failed" THEN {TurnSettled(t.id, "failed")}
    ELSE {}

Deliveries(s) ==
    LET t == Current(s) IN
    IF Stopping(s)
    THEN IF t.pending # {} THEN {}
         ELSE IF Waiting(t) THEN {ToolReturned(c, 0) : c \in Range(t.outstanding)}
         ELSE {TurnSettled(t.id, "cancelled")}
    ELSE PromiseEvents(s) \cup PolicyEvents(s) \cup BudgetEvents(s) \cup Settlement(s)
            \cup (IF s.model THEN {} ELSE {ModelConfigured})

Act(kind, turn, n, item) == [act |-> kind, turn |-> turn, n |-> n, item |-> item]
NoItem == [call |-> <<>>, name |-> "", running |-> FALSE]

ToolActs(s) ==
    IF s.queue = <<>> THEN {} ELSE
    LET item == FirstCall(s) IN
    {Act(kind, <<>>, 0, item) : kind \in {k \in {"permission", "budget", "execute"} :
        CASE k = "permission" -> s.policy = "ask" /\ Decided(s, item.call) = 0
          [] k = "budget" -> /\ s.budget.exhausted = "request" /\ item.name = RequestTool
                             /\ Permitted(s, item).counted /\ Resolution(s.budget, item.call) = {} /\ Remaining(s) = 0
          [] k = "execute" -> ~item.running /\ Prepare(s, item).position = "ready"}}

ContextActs(s) == IF ContextView(s) = "compact"
                  THEN {Act("summarize", <<>>, s.compaction.attempts, NoItem)} ELSE {}

Inference(s) ==
    LET t == Current(s) IN
    IF ~t.running /\ ~t.failed /\ ~t.answered /\ ~Waiting(t) /\ ContextView(s) = "ready"
    THEN {Act("generate", t.id, t.calls, NoItem)} ELSE {}

Proposed(s) == IF Stopping(s) \/ Active(s) = 0 \/ ~s.model THEN {} ELSE ToolActs(s) \cup ContextActs(s) \cup Inference(s)

----------------------------------------------------------------------------
(* Steps *)

Turns == Len(agent.turns) + Len(agent.submissions)

UserTurns == {<<"user", n>> : n \in 1..Users}

\* Who may deliver: the message method, its cancellation, and updates of policy.
Receive(u) ==
    /\ Index(agent, u) = 0 /\ Turns < MaxTurns
    /\ \A v \in UserTurns : v[2] < u[2] => Index(agent, v) # 0
    /\ agent' = Commit(agent, <<TurnRequested(u)>>)
    /\ UNCHANGED <<work, asked>>

Abort(u) ==
    /\ Index(agent, u) # 0 /\ ~agent.turns[Index(agent, u)].cancelled /\ agent.turns[Index(agent, u)].settled = "no"
    /\ agent' = Commit(agent, <<AbortRequested(u)>>)
    /\ UNCHANGED <<work, asked>>

UpdatePolicy(m) ==
    /\ agent.policy \notin {"none", m}
    /\ agent' = Commit(agent, <<PermissionUpdated(m)>>)
    /\ UNCHANGED <<work, asked>>

\* An operator answers a blocked call; validate of withBudget refuses any other.
ResolveBudget(n) ==
    /\ agent.budget.set /\ agent.queue # <<>>
    /\ LET item == FirstCall(agent) IN
       /\ Prepare(agent, item).position = "blocked"
       /\ agent' = Commit(agent, <<BudgetResolved(item.call, n)>>)
    /\ UNCHANGED <<work, asked>>

\* The drain: cancelling an act settles it as rejected in the same commit.
Settled(w, o, calls) ==
    CASE w.act = "generate" /\ o = "value" -> <<ModelReturned(w.turn, w.n, calls)>>
      [] w.act = "generate" /\ o = "invalid" -> <<OutputRejected(w.turn, w.n)>>
      [] w.act = "generate" /\ o = "rejected" -> <<ModelFailed(w.turn, w.n)>>
      [] w.act = "execute" -> IF w.deferred THEN <<>> ELSE <<ToolReturned(w.item.call, 0)>>
      [] w.act = "permission" -> <<PermissionResolved(w.item.call, o = "value")>>
      [] w.act = "budget" -> <<BudgetResolved(w.item.call, IF o = "value" THEN Grant ELSE 0)>>
      [] w.act = "summarize" /\ o = "value" -> <<CompactionReturned(w.through, w.n)>>
      [] w.act = "summarize" /\ o = "rejected" -> <<CompactionFailed(w.through, w.n)>>

Cancel ==
    \E r \in Cancellations(agent) :
        /\ LET w == CHOOSE w \in work : w.ref = r IN
           /\ agent' = Commit(agent, <<EffectCancelled(r)>> \o Settled(w, "rejected", <<>>))
           /\ work' = work \ {w}
        /\ UNCHANGED asked

Deliver ==
    /\ Cancellations(agent) = {}
    /\ \E e \in Deliveries(agent) : agent' = Commit(agent, <<e>>)
    /\ UNCHANGED <<work, asked>>

\* An act is admitted once; what it was admitted with does not change.
Requested(s, a) ==
    CASE a.act = "generate" -> <<ModelCalled(a.turn, a.n)>>
      [] a.act = "execute" -> <<ToolCalled(a.item.call, Prepare(s, a.item).counted)>>
      [] a.act = "summarize" -> <<CompactionCalled(s.compaction.through + Boundary(s), a.n)>>
      [] OTHER -> <<>>

Start ==
    /\ Cancellations(agent) = {} /\ Deliveries(agent) = {}
    /\ \E a \in Proposed(agent) \ asked :
        LET ref == agent.seq + 1 IN
        /\ asked' = asked \cup {a}
        /\ agent' = Commit(agent, <<EffectRequested(ref)>> \o Requested(agent, a))
        /\ work' = work \cup {[ref |-> ref, act |-> a.act, turn |-> a.turn, n |-> a.n, item |-> a.item, deferred |-> FALSE,
                               runs |-> a.act # "execute" \/ Prepare(agent, a.item).runs,
                               through |-> IF a.act = "summarize" THEN agent.compaction.through + Boundary(agent) ELSE 0]}

\* The calls of a reply get ids of the agent's own: the act and the index.
Calls(w, names) == [i \in DOMAIN names |-> [call |-> <<w.ref, i>>, name |-> names[i]]]

Called == Cardinality(UNION {agent.rows[i].calls : i \in DOMAIN agent.rows})

Settle(w) ==
    \E o \in {"value", "rejected", "invalid"}, names \in {<<>>} \cup {<<a>> : a \in Names} \cup {<<a, b>> : a \in Names, b \in Names} :
        /\ o = "invalid" => w.act = "generate"
        /\ names # <<>> => o = "value" /\ w.act = "generate" /\ w.n + 1 < MaxCalls /\ Called + Len(names) <= MaxToolCalls
        /\ RequestTool \in Range(names) => agent.budget.exhausted = "request"
        /\ o = "value" => w.runs
        /\ agent' = Commit(agent, <<EffectEnded(w.ref)>> \o Settled(w, o, Calls(w, names)))
        /\ work' = work \ {w}
        /\ UNCHANGED asked

\* onDeferred: the promise is the tool's result; its settlement starts a turn.
Defer(w) ==
    /\ w.act \in {"execute", "permission", "budget"} /\ ~w.deferred /\ w.runs
    /\ w.act = "execute" => Turns < MaxTurns
    /\ agent' = Commit(agent, IF w.act = "execute" THEN <<ToolReturned(w.item.call, w.ref)>> ELSE <<>>)
    /\ work' = (work \ {w}) \cup {[w EXCEPT !.deferred = TRUE]}
    /\ UNCHANGED asked

Init == agent = Initial /\ work = {} /\ asked = {}

Next == \/ \E u \in UserTurns : Receive(u) \/ Abort(u)
        \/ \E m \in Modes : UpdatePolicy(m)
        \/ \E n \in {0, Grant} : ResolveBudget(n)
        \/ Cancel \/ Deliver \/ Start
        \/ \E w \in work : Settle(w) \/ Defer(w)

Spec == Init /\ [][Next]_vars

----------------------------------------------------------------------------
(* Properties *)

NoDefect == ~agent.refused

\* What the model is sent: every call answered, every answer with its call.
Coherent(rows) ==
    /\ Unanswered(rows) = {}
    /\ \A i \in DOMAIN rows : rows[i].role = "tool" => \E j \in 1..(i - 1) : rows[j].role = "assistant" /\ rows[i].calls \subseteq rows[j].calls
ConversationCoherent == \A a \in Proposed(agent) : a.act = "generate" => Coherent(Context(agent)) /\ ~More(agent)

\* A tool runs under a permission and, when counted, within the budget.
Overdrawn == agent.budget.turn # <<>> /\ Used(agent) > agent.budget.limit + agent.budget.granted
Unpermitted == \E w \in work : w.act = "execute" /\ w.runs /\ (Decided(agent, w.item.call) = 0 \/ ~agent.decisions[Decided(agent, w.item.call)].allowed)

\* Nothing left to do: no turn is open, unless it waits for more budget.
Quiescent == work = {} /\ Cancellations(agent) = {} /\ Deliveries(agent) = {} /\ Proposed(agent) \subseteq asked
NoTurnForgotten == Quiescent /\ Active(agent) # 0 => agent.queue # <<>> /\ Prepare(agent, FirstCall(agent)).position = "blocked"

\* A cancelled turn leaves nothing of its own running.
CancelledIsQuiet == \A i \in DOMAIN agent.turns : agent.turns[i].settled = "cancelled" =>
                        \A w \in work : w.ref \notin agent.turns[i].effects

AgentSound == NoDefect /\ ConversationCoherent /\ ~Overdrawn /\ ~Unpermitted /\ NoTurnForgotten /\ CancelledIsQuiet

=============================================================================
