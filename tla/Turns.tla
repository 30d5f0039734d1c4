------------------------------- MODULE Turns -------------------------------
(***************************************************************************)
(* The turns of a legacy agent (packages/code/src/execution, packages/     *)
(* deprecated/agent): a thread's log of messages, model calls, tool calls  *)
(* and terminals; the projections folded from it; inference, with its      *)
(* retries, fallback models, corrections and give-up; tool dispatch;       *)
(* cancellation; and the resume of a failed turn in a new epoch.           *)
(*                                                                         *)
(* A view is a sequence of log positions, so that an event keeps its       *)
(* identity.  One settlement runs at a time; what may come between its     *)
(* steps is a message, a cancellation, a resume, or the end of the process.*)
(***************************************************************************)
EXTENDS Naturals, Sequences, FiniteSets, TLC, SequencesExt, FiniteSetsExt

CONSTANTS
  MaxTurn,        \* messages 1..MaxTurn, in the order they arrive
  Fallback,       \* the models: the default one, then the fallbacks in order
  GiveUpAfter,    \* attempts that may die in a row
  Allowed,        \* corrections of a rejected output in one epoch
  Backoffs,       \* retries the request policy has a delay for
  ToolNames,      \* the tools
  Concurrency,    \* calls admitted at a time
  ToolLimit,      \* and of one tool
  Batches,        \* the calls a response may make
  MaxResponses,   \* responses after which the model only ends a turn
  MaxResumes,     \* resumes
  MaxFaults       \* cancellations and crashes, together

VARIABLES
  log,       \* the thread's events
  machine,   \* the projections the reconciler keeps of it
  fx,        \* the effect being run
  resuming,  \* resumes that have read the log and not yet committed
  crashes

vars == <<log, machine, fx, resuming, crashes>>

Ids == 1..MaxTurn

-----------------------------------------------------------------------------
(* Events.  A message heads its turn; what serves the turn carries it.     *)
MessageReceived(t) == [type |-> "MessageReceived", id |-> t]
CancellationRequested(t, e) == [type |-> "CancellationRequested", invocation |-> <<t, e>>]
ModelCalled(w) == [type |-> "ModelCalled", turn |-> w.turn, epoch |-> w.epoch, attempt |-> w.attempt,
                   ordinal |-> w.ordinal, model |-> w.model, index |-> w.index]
ModelReturned(w, outcome, retry) ==
  [type |-> "ModelReturned", turn |-> w.turn, epoch |-> w.epoch, attempt |-> w.attempt,
   ordinal |-> w.ordinal, outcome |-> outcome, retry |-> retry]
TextReturned(w) == [type |-> "TextReturned", turn |-> w.turn, epoch |-> w.epoch]
OutputRejected(w) == [type |-> "OutputRejected", turn |-> w.turn, epoch |-> w.epoch, attempt |-> w.attempt]
ToolCalled(w, name) == [type |-> "ToolCalled", turn |-> w.turn, epoch |-> w.epoch, name |-> name]
CodeDispatched(c) == [type |-> "CodeDispatched", turn |-> c.turn, position |-> c.position]
ToolReturned(c) == [type |-> "ToolReturned", turn |-> c.turn, position |-> c.position]
TurnCompleted(t, e) == [type |-> "TurnCompleted", turn |-> t, epoch |-> e]
TurnFailed(t, e, cause) == [type |-> "TurnFailed", turn |-> t, epoch |-> e, cause |-> cause]
TurnCancelled(t, e) == [type |-> "TurnCancelled", turn |-> t, epoch |-> e]
TurnResumed(t, e) == [type |-> "TurnResumed", turn |-> t, failedEpoch |-> e, epoch |-> e + 1]

NoRetry == [index |-> 0, model |-> "none"]
Retry(index, model) == [index |-> index, model |-> model]    \* "same": no model switch

TurnOf(e) == IF "turn" \in DOMAIN e THEN e.turn ELSE 0
EpochOf(e) == IF "epoch" \in DOMAIN e THEN e.epoch ELSE 0
IsTerminal(e) == e.type \in {"TurnCompleted", "TurnFailed", "TurnCancelled"}

(* The key an event is recorded under once; <<>>: it has none.             *)
KeyOf(e) ==
  CASE e.type = "MessageReceived" -> <<"message", e.id>>
    [] e.type = "CancellationRequested" -> <<"cancel", e.invocation>>
    [] IsTerminal(e) -> <<"tn", e.turn, e.epoch>>
    [] e.type = "TurnResumed" -> <<"rs", e.turn, e.epoch>>
    [] e.type = "ModelCalled" -> <<"mc", e.turn, e.ordinal>>
    [] e.type = "ModelReturned" -> <<"mr", e.turn, e.ordinal>>
    [] e.type = "OutputRejected" -> <<"or", e.turn, e.attempt>>
    [] e.type \in {"ToolReturned", "CodeDispatched"} -> <<e.type, e.position>>
    [] OTHER -> <<>>

Recorded(l) == {KeyOf(l[k]) : k \in DOMAIN l} \ {<<>>}
Absorbing(l, es) == FoldLeft(LAMBDA acc, e : IF KeyOf(e) \in Recorded(acc) THEN acc ELSE Append(acc, e), l, es)

Positions(l, P(_)) == {k \in DOMAIN l : P(l[k])}
InOrder(l, P(_)) == SelectSeq([k \in DOMAIN l |-> k], LAMBDA k : P(l[k]))

-----------------------------------------------------------------------------
(* Complete replay: what the log says of its turns.                        *)
TurnEpochOf(l, t) ==
  LET failed == {l[k].epoch : k \in Positions(l, LAMBDA e : e.type = "TurnFailed" /\ e.turn = t)}
      resumed == {l[k].failedEpoch : k \in Positions(l, LAMBDA e : e.type = "TurnResumed" /\ e.turn = t /\ e.epoch = e.failedEpoch + 1)}
  IN Max({e \in 0..Cardinality(resumed) : 0..(e - 1) \subseteq failed \cap resumed})

TurnTerminalOf(l, t) ==
  LET current == TurnEpochOf(l, t)
  IN SelectInSeq(l, LAMBDA e : IsTerminal(e) /\ e.turn = t /\ e.epoch = current)

HeadOf(l, t) == SelectInSeq(l, LAMBDA e : e.type = "MessageReceived" /\ e.id = t)

(* The position of the earliest message whose turn has no terminal.        *)
TurnHead(l) == SelectInSeq(l, LAMBDA e : e.type = "MessageReceived" /\ TurnTerminalOf(l, e.id) = 0)

Active(l, e) == ~IsTerminal(e) \/ e.epoch = TurnEpochOf(l, e.turn)

TurnView(l) ==
  LET h == TurnHead(l)
  IN IF h = 0 THEN <<>>
     ELSE <<h>> \o InOrder(l, LAMBDA e : TurnOf(e) = l[h].id /\ Active(l, e))

(* Turns in the order they were served, each head before its first event.  *)
TrajectoryOf(l) ==
  LET shown == InOrder(l, LAMBDA e : e.type # "MessageReceived" /\ (TurnOf(e) # 0 => Active(l, e)))
      step(acc, k) ==
        LET t == TurnOf(l[k])
        IN IF t = 0 \/ t \in acc.emitted THEN [acc EXCEPT !.out = Append(@, k)]
           ELSE [emitted |-> acc.emitted \cup {t},
                 out |-> acc.out \o (IF HeadOf(l, t) = 0 THEN <<>> ELSE <<HeadOf(l, t)>>) \o <<k>>]
      done == FoldLeft(step, [emitted |-> {}, out |-> <<>>], shown)
      h == TurnHead(l)
  IN IF h # 0 /\ l[h].id \notin done.emitted THEN Append(done.out, h) ELSE done.out

PendingCalls(l) ==
  Positions(l, LAMBDA e : e.type = "ToolCalled" /\ TurnTerminalOf(l, e.turn) = 0)
    \ {l[k].position : k \in Positions(l, LAMBDA e : e.type = "ToolReturned")}

-----------------------------------------------------------------------------
(* The same, one event at a time.                                          *)
EmptyTurn == [events |-> <<>>, failed |-> {}, resumed |-> {}, terminals |-> {}, epoch |-> 0]
InitialMachine ==
  [heads |-> [t \in Ids |-> 0], open |-> {}, turns |-> [t \in Ids |-> EmptyTurn], served |-> {},
   trajectory |-> <<>>, pending |-> {}, failures |-> [t \in Ids |-> 0]]

AdvanceEpoch(epoch, failed, resumed) ==
  Max({e \in epoch..(epoch + Cardinality(failed)) : epoch..(e - 1) \subseteq failed \cap resumed})

ReduceHead(m, k, e) ==
  IF e.type # "MessageReceived" \/ m.heads[e.id] # 0 THEN m
  ELSE [m EXCEPT !.heads[e.id] = k,
                 !.open = IF m.turns[e.id].epoch \in m.turns[e.id].terminals THEN @ ELSE @ \cup {e.id}]

(* Faulty variant of ReduceTurn: a turn once closed is not opened again.   *)
ReduceTurnClosing(m, k, e) ==
  IF TurnOf(e) = 0 THEN m
  ELSE LET t == e.turn
           prev == m.turns[t]
           failed == prev.failed \cup (IF e.type = "TurnFailed" THEN {e.epoch} ELSE {})
           resumed == prev.resumed \cup (IF e.type = "TurnResumed" THEN {e.failedEpoch} ELSE {})
           next == [events |-> Append(prev.events, k), failed |-> failed, resumed |-> resumed,
                    terminals |-> prev.terminals \cup (IF IsTerminal(e) THEN {e.epoch} ELSE {}),
                    epoch |-> AdvanceEpoch(prev.epoch, failed, resumed)]
       IN [m EXCEPT !.turns[t] = next, !.open = IF next.epoch \in next.terminals THEN @ \ {t} ELSE @]

ReduceTurn(m, k, e) ==
  IF TurnOf(e) = 0 THEN m
  ELSE LET t == e.turn
           prev == m.turns[t]
           failed == prev.failed \cup (IF e.type = "TurnFailed" THEN {e.epoch} ELSE {})
           resumed == prev.resumed \cup (IF e.type = "TurnResumed" /\ e.epoch = e.failedEpoch + 1 THEN {e.failedEpoch} ELSE {})
           next == [events |-> Append(prev.events, k), failed |-> failed, resumed |-> resumed,
                    terminals |-> prev.terminals \cup (IF IsTerminal(e) THEN {e.epoch} ELSE {}),
                    epoch |-> AdvanceEpoch(prev.epoch, failed, resumed)]
       IN [m EXCEPT !.turns[t] = next,
                    !.open = IF m.heads[t] = 0 THEN @
                             ELSE IF next.epoch \in next.terminals THEN @ \ {t} ELSE @ \cup {t}]

ReduceTrajectory(m, k, e) ==
  LET t == TurnOf(e)
  IN IF e.type = "MessageReceived" THEN m
     ELSE IF t = 0 \/ t \in m.served THEN [m EXCEPT !.trajectory = Append(@, k)]
     ELSE [m EXCEPT !.served = @ \cup {t},
                    !.trajectory = @ \o (IF m.heads[t] = 0 THEN <<>> ELSE <<m.heads[t]>>) \o <<k>>]

(* Calls wait until they are answered or the epoch they belong to ends.    *)
ReduceCalls(m, k, e) ==
  [m EXCEPT !.pending =
     CASE e.type = "ToolCalled" -> @ \cup {[position |-> k, turn |-> e.turn, epoch |-> e.epoch, name |-> e.name]}
       [] e.type = "ToolReturned" -> {c \in @ : c.position # e.position}
       [] IsTerminal(e) -> {c \in @ : c.turn # e.turn \/ c.epoch # e.epoch}
       [] OTHER -> @]

ReduceFailures(m, e) ==
  IF e.type = "TurnFailed" /\ e.cause = "model" THEN [m EXCEPT !.failures[e.turn] = @ + 1] ELSE m

Step(m, k, e) == ReduceFailures(ReduceCalls(ReduceTrajectory(ReduceTurn(ReduceHead(m, k, e), k, e), k, e), k, e), e)

(* The machine after the events of l that follow its first n.              *)
Advance(m, l, n) == FoldLeft(LAMBDA acc, k : Step(acc, k, l[k]), m, [i \in 1..(Len(l) - n) |-> n + i])

CurrentHead(m) == IF m.open = {} THEN 0 ELSE Min({m.heads[t] : t \in m.open})

TurnViewFrom(m, l) ==
  LET h == CurrentHead(m)
  IN IF h = 0 THEN <<>>
     ELSE LET r == m.turns[l[h].id]
          IN <<h>> \o SelectSeq(r.events, LAMBDA k : ~IsTerminal(l[k]) \/ l[k].epoch = r.epoch)

TrajectoryFrom(m, l) ==
  LET projected == SelectSeq(m.trajectory, LAMBDA k : IsTerminal(l[k]) => l[k].epoch = m.turns[l[k].turn].epoch)
      h == CurrentHead(m)
  IN IF h = 0 THEN projected ELSE IF l[h].id \in m.served THEN projected ELSE Append(projected, h)

-----------------------------------------------------------------------------
(* Cancellation of an invocation of the message method.                    *)
MethodState(m, t, e) ==
  IF m.heads[t] = 0 THEN "unknown" ELSE IF e \in m.turns[t].terminals THEN "terminal" ELSE "running"

Requests(l) == Positions(l, LAMBDA e : e.type = "CancellationRequested")

(* The method's answer when the request was recorded.                      *)
Accepted(l, k) == MethodState(Advance(InitialMachine, SubSeq(l, 1, k - 1), 0), l[k].invocation[1], l[k].invocation[2])

(* Faulty variant of Pends: a request that came before its message is      *)
(* forgotten.                                                              *)
PendsOnlyRunning(m, l, k) ==
  MethodState(m, l[k].invocation[1], l[k].invocation[2]) = "running" /\ Accepted(l, k) = "running"

Pends(m, l, k) ==
  MethodState(m, l[k].invocation[1], l[k].invocation[2]) = "running" /\ Accepted(l, k) \in {"unknown", "running"}

Suppresses(m, l, t, e) ==
  \E k \in Requests(l) : l[k].invocation = <<t, e>> /\ "running" \in {Accepted(l, k), MethodState(m, t, e)}

(* Every open call of a cancelled turn is answered; then the turn ends.    *)
Residuals(m, l) ==
  UNION {LET t == l[k].invocation[1]
             e == l[k].invocation[2]
             owed == {c \in m.pending : c.turn = t /\ c.epoch = e}
         IN IF owed = {} THEN {TurnCancelled(t, e)} ELSE {ToolReturned(c) : c \in owed}
         : k \in {j \in Requests(l) : Pends(m, l, j)}}

-----------------------------------------------------------------------------
(* Inference over the current turn s, a sequence of events.                *)
Unanswered(l, v) ==
  \E i \in DOMAIN v : l[v[i]].type = "ToolCalled" /\
     ~\E j \in DOMAIN v : l[v[j]].type = "ToolReturned" /\ l[v[j]].position = v[i]

DiedAttempts(s, e) ==
  Len(s) - SelectLastInSeq(s, LAMBDA x : ~(x.type = "ModelCalled" /\ EpochOf(x) = e))

Count(s, P(_)) == Cardinality({i \in DOMAIN s : P(s[i])})

(* Faulty variant of LogicalAttempt: only a served response advances the   *)
(* key, so a retried or corrected ask repeats the key of a failed one.     *)
LogicalAttemptServed(s, failures) == Count(s, LAMBDA x : x.type = "ModelReturned" /\ x.outcome = "returned")

LogicalAttempt(s, failures) ==
  Max({Count(s, LAMBDA x : x.type = "ModelReturned"),
       Count(s, LAMBDA x : x.type = "ModelReturned" /\ x.outcome = "returned") + failures
         + Count(s, LAMBDA x : x.type = "ModelReturned" /\ x.retry # NoRetry)})

InEpoch(s, e) == SelectSeq(s, LAMBDA x : EpochOf(x) = e)
LastOf(s, type) == SelectLastInSeq(s, LAMBDA x : x.type = type)
PendingRetry(s) == IF LastOf(s, "ModelReturned") = 0 THEN NoRetry ELSE s[LastOf(s, "ModelReturned")].retry
Switches(x) == x.type = "ModelReturned" /\ x.retry.model \notin {"none", "same"}

(* The model the next attempt of the epoch asks.                           *)
ModelFor(s, died) ==
  LET mark == LastOf(s, "ModelCalled")
      switch == SelectLastInSeq(s, Switches)
      retry == PendingRetry(s)
  IN CASE died > 0 \/ retry.model = "same" -> s[mark].model
       [] died = 0 /\ retry.model \notin {"none", "same"} -> retry.model
       [] OTHER -> IF switch # 0 THEN s[switch].retry.model ELSE Fallback[1]

RetryIndex(s, died) ==
  IF PendingRetry(s) # NoRetry THEN PendingRetry(s).index
  ELSE IF died > 0 THEN s[LastOf(s, "ModelCalled")].index ELSE 0

Attempted(s) ==
  {s[i].model : i \in {j \in DOMAIN s : s[j].type = "ModelCalled"}}
    \cup {s[i].retry.model : i \in {j \in DOMAIN s : Switches(s[j])}}

Rejections(s, e) ==
  LET start == SelectLastInSeq(s, LAMBDA x : x.type = "TurnResumed" /\ x.epoch = e)
  IN Count(SubSeq(s, start + 1, Len(s)), LAMBDA x : x.type = "OutputRejected")

(* What inference proposes: nothing, the end of the turn, or an attempt.   *)
Idle == [kind |-> "none"]
Inference(m, l) ==
  LET v == TurnViewFrom(m, l)
      s == [i \in DOMAIN v |-> l[v[i]]]
  IN IF v = <<>> THEN Idle
     ELSE LET t == s[1].id
              e == m.turns[t].epoch
              died == DiedAttempts(s, e)
              ep == InEpoch(s, e)
          IN IF Unanswered(l, v) \/ (\E i \in DOMAIN s : IsTerminal(s[i])) \/ Suppresses(m, l, t, e) THEN Idle
             ELSE IF died >= GiveUpAfter THEN [kind |-> "fail", event |-> TurnFailed(t, e, "inference_attempts_exhausted")]
             ELSE IF Rejections(s, e) > Allowed THEN [kind |-> "fail", event |-> TurnFailed(t, e, "output_repairs_exhausted")]
             ELSE [kind |-> "infer", turn |-> t, epoch |-> e, attempt |-> LogicalAttempt(s, m.failures[t]),
                   ordinal |-> Count(s, LAMBDA x : x.type = "ModelCalled"), model |-> ModelFor(ep, died),
                   index |-> RetryIndex(ep, died), attempted |-> Attempted(ep)]

-----------------------------------------------------------------------------
(* Tool dispatch: pending calls in order, within the limits.               *)
Admitted(m) ==
  FoldLeft(LAMBDA acc, c :
             IF Cardinality(acc) >= Concurrency \/ Cardinality({d \in acc : d.name = c.name}) >= ToolLimit[c.name]
               THEN acc ELSE acc \cup {c},
           {}, SetToSortSeq(m.pending, LAMBDA a, b : a.position < b.position))

Begun(l, c) == CodeDispatched(c) \in Range(l)

ToolActs(m, l) == {c \in Admitted(m) : ~Suppresses(m, l, c.turn, c.epoch)}

-----------------------------------------------------------------------------
(* Events land: keyed duplicates are absorbed, the projections advance,    *)
(* and a cancellation aborts the effect of its invocation.                 *)
Aborts(l, n, w) ==
  w.kind # "none" /\ (\E k \in (n + 1)..Len(l) : l[k].type = "CancellationRequested" /\ l[k].invocation = <<w.turn, w.epoch>>)

Land(es, w) ==
  LET next == Absorbing(log, es)
  IN /\ log' = next
     /\ machine' = Advance(machine, next, Len(log))
     /\ fx' = IF Aborts(next, Len(log), w) THEN [w EXCEPT !.aborted = TRUE] ELSE w

Receive ==
  /\ \E t \in Ids : /\ machine.heads[t] = 0 /\ (t > 1 => machine.heads[t - 1] # 0)
                    /\ Land(<<MessageReceived(t)>>, fx)
  /\ UNCHANGED <<resuming, crashes>>

RequestCancel ==
  /\ Cardinality(Requests(log)) + crashes < MaxFaults
  /\ \E t \in Ids : /\ t > 1 => machine.heads[t - 1] # 0
                    /\ CancellationRequested(t, machine.turns[t].epoch) \notin Range(log)
                    /\ Land(<<CancellationRequested(t, machine.turns[t].epoch)>>, fx)
  /\ UNCHANGED <<resuming, crashes>>

(* resumeTurn reads the log, finds the turn failed, and commits later.     *)
ResumeRead ==
  /\ Cardinality(resuming) + Cardinality(Positions(log, LAMBDA e : e.type = "TurnResumed")) < MaxResumes
  /\ \E t \in Ids : LET k == TurnTerminalOf(log, t)
                    IN /\ k # 0 /\ log[k].type = "TurnFailed"
                       /\ <<t, log[k].epoch>> \notin resuming
                       /\ resuming' = resuming \cup {<<t, log[k].epoch>>}
  /\ UNCHANGED <<log, machine, fx, crashes>>

ResumeCommit ==
  /\ \E r \in resuming : Land(<<TurnResumed(r[1], r[2])>>, fx) /\ resuming' = resuming \ {r}
  /\ UNCHANGED crashes

(* The settlement commits an intent: a terminal of inference, or what a    *)
(* cancellation leaves to do.                                              *)
Intents == (IF Inference(machine, log).kind = "fail" THEN {Inference(machine, log).event} ELSE {}) \cup Residuals(machine, log)

Intend ==
  /\ fx.kind = "none"
  /\ \E event \in Intents : Land(<<event>>, Idle)
  /\ UNCHANGED <<resuming, crashes>>

(* An attempt starts; it waits until it is due.                            *)
StartInference ==
  /\ fx.kind = "none"
  /\ Inference(machine, log).kind = "infer"
  /\ fx' = Inference(machine, log) @@ [stage |-> "due", aborted |-> FALSE, mark |-> Len(log), events |-> <<>>]
  /\ UNCHANGED <<log, machine, resuming, crashes>>

(* The mark is recorded before the model is called.                        *)
Mark ==
  /\ fx.kind = "infer" /\ fx.stage = "due" /\ ~fx.aborted
  /\ Land(<<ModelCalled(fx)>>, [fx EXCEPT !.stage = "called"])
  /\ UNCHANGED <<resuming, crashes>>

(* The model's settings cannot be had: the turn ends without a call.       *)
SetupFails ==
  /\ fx.kind = "infer" /\ fx.stage = "due" /\ ~fx.aborted
  /\ fx' = [fx EXCEPT !.stage = "answered", !.events = <<TurnFailed(fx.turn, fx.epoch, "model_selection")>>]
  /\ UNCHANGED <<log, machine, resuming, crashes>>

(* The first fallback that the epoch has not tried.                        *)
NextModel(w) ==
  SelectInSeq(Fallback, LAMBDA x : x # Fallback[1] /\ x \notin (w.attempted \cup {w.model}))

(* A retryable failure is retried while the policy has a delay for it, any *)
(* the next model may do better on is handed to it, the rest end the turn. *)
Retried(w, outcome) ==
  CASE outcome = "broken" /\ w.index < Backoffs -> Retry(w.index + 1, "same")
    [] outcome \in {"broken", "denied"} /\ (outcome = "denied" \/ w.index >= Backoffs) /\ NextModel(w) # 0 ->
         Retry(0, Fallback[NextModel(w)])
    [] OTHER -> NoRetry

(* What an answer leads to: a completion, a rejected output, tool calls, a *)
(* response that cannot be used, or a failure of the model.                *)
Consequences(w, outcome, names) ==
  CASE outcome = "complete" -> <<ModelReturned(w, "returned", NoRetry), TurnCompleted(w.turn, w.epoch)>>
    [] outcome = "reject" -> <<ModelReturned(w, "returned", NoRetry), OutputRejected(w)>>
    [] outcome = "calls" -> <<ModelReturned(w, "returned", NoRetry)>> \o [i \in DOMAIN names |-> ToolCalled(w, names[i])]
    [] outcome = "invalid" -> <<ModelReturned(w, "returned", NoRetry), TurnFailed(w.turn, w.epoch, "inference_error")>>
    [] outcome \in {"refused", "denied", "broken"} ->
         <<ModelReturned(w, "failed", Retried(w, outcome))>>
           \o (IF Retried(w, outcome) = NoRetry THEN <<TurnFailed(w.turn, w.epoch, "model")>> ELSE <<>>)

Responses == Cardinality(Positions(log, LAMBDA e : e.type = "ModelReturned"))

Answers ==
  /\ fx.kind = "infer" /\ fx.stage = "called" /\ ~fx.aborted
  /\ \E outcome \in {"complete", "refused"} \cup (IF Responses < MaxResponses THEN {"reject", "calls", "invalid", "denied", "broken"} ELSE {}) :
     \E names \in IF outcome = "calls" THEN Batches ELSE {<<>>} :
       fx' = [fx EXCEPT !.stage = "answered", !.events = Consequences(fx, outcome, names)]
  /\ UNCHANGED <<log, machine, resuming, crashes>>

(* A tool begins by recording its dispatch, and returns.                   *)
StartTool ==
  /\ fx.kind = "none"
  /\ \E c \in ToolActs(machine, log) :
       fx' = c @@ [kind |-> "tool", stage |-> "answered", aborted |-> FALSE, mark |-> Len(log),
                   events |-> IF Begun(log, c) THEN <<ToolReturned(c)>> ELSE <<CodeDispatched(c)>>]
  /\ UNCHANGED <<log, machine, resuming, crashes>>

(* The effect is over: its events land unless a cancellation was read in   *)
(* the log since it began.  The read and the append are two steps.         *)
ReadBack ==
  /\ fx.kind # "none" /\ fx.stage = "answered"
  /\ fx' = IF Aborts(log, fx.mark, fx) THEN Idle ELSE [fx EXCEPT !.stage = "append"]
  /\ UNCHANGED <<log, machine, resuming, crashes>>

Commit ==
  /\ fx.kind # "none" /\ fx.stage = "append"
  /\ Land(fx.events, Idle)
  /\ UNCHANGED <<resuming, crashes>>

(* An aborted attempt leaves what it had streamed, if anything.            *)
Interrupted ==
  /\ fx.kind = "infer" /\ fx.stage \in {"due", "called"} /\ fx.aborted
  /\ \/ Land(<<>>, Idle)
     \/ fx.stage = "called" /\ Land(<<TextReturned(fx)>>, Idle)
  /\ UNCHANGED <<resuming, crashes>>

(* The process ends; the next one folds the log from its beginning.        *)
Crash ==
  /\ Cardinality(Requests(log)) + crashes < MaxFaults /\ fx.kind # "none"
  /\ fx' = Idle
  /\ machine' = Advance(InitialMachine, log, 0)
  /\ crashes' = crashes + 1
  /\ resuming' = {}
  /\ UNCHANGED log

Init == log = <<>> /\ machine = InitialMachine /\ fx = Idle /\ resuming = {} /\ crashes = 0

Next == \/ Receive \/ RequestCancel \/ ResumeRead \/ ResumeCommit
        \/ Intend \/ StartInference \/ Mark \/ SetupFails \/ Answers \/ StartTool
        \/ ReadBack \/ Commit \/ Interrupted \/ Crash

Spec == Init /\ [][Next]_vars

-----------------------------------------------------------------------------
(* Properties.                                                             *)

WithoutHeads(v) == SelectSeq(v, LAMBDA k : log[k].type # "MessageReceived")
FirstOf(t) == SelectInSeq(log, LAMBDA e : TurnOf(e) = t)

\* The projections folded one event at a time are what complete replay
\* computes: the current turn, the conversation as served, every turn's epoch
\* and the calls that wait (turn-projection.ts, tool/machine.ts).  The two
\* place a message differently when all its turn had done before a resume was
\* to fail: there the rest of the conversation is compared.
ProjectionExact ==
  /\ TurnViewFrom(machine, log) = TurnView(log)
  /\ LET folded == TrajectoryFrom(machine, log)
         replayed == TrajectoryOf(log)
     IN /\ WithoutHeads(folded) = WithoutHeads(replayed)
        /\ (\A t \in Ids : FirstOf(t) # 0 => Active(log, log[FirstOf(t)])) => folded = replayed
  /\ \A t \in Ids : machine.turns[t].epoch = TurnEpochOf(log, t)
  /\ {c.position : c \in machine.pending} = PendingCalls(log)

Marks(t) == Positions(log, LAMBDA e : e.type = "ModelCalled" /\ e.turn = t)

\* An idempotency key whose answer is recorded is never sent again, and an
\* attempt that died is asked again under the same key, of the same model.
AttemptKeys ==
  \A t \in Ids : LET marks == Marks(t) IN \A j \in marks :
    /\ ~\E i \in 1..(j - 1) : log[i].type = "ModelReturned" /\ log[i].turn = t /\ log[i].attempt = log[j].attempt
    /\ \A i \in marks : i < j /\ log[i].attempt = log[j].attempt /\ log[i].epoch = log[j].epoch => log[i].model = log[j].model

\* No more attempts die in a row than the policy allows, and an epoch never
\* comes back to a model it has left.
AttemptsBounded ==
  \A t \in Ids : LET marks == Marks(t) IN \A j \in marks :
    /\ Cardinality({i \in marks : log[i].attempt = log[j].attempt /\ log[i].epoch = log[j].epoch}) <= GiveUpAfter
    /\ \A i, h \in marks : i < h /\ h < j /\ log[i].epoch = log[j].epoch /\ log[i].model = log[j].model => log[h].model = log[j].model

\* Calls begun and not answered stay within the limits, whatever returns or is
\* cancelled around them.
WithinLimits ==
  LET running == {c \in machine.pending : Begun(log, c)}
  IN /\ Cardinality(running) <= Concurrency
     /\ \A n \in ToolNames : Cardinality({c \in running : c.name = n}) <= ToolLimit[n]

\* A turn's epoch has one terminal, and nothing serves it afterwards.
EndsOnce ==
  \A i \in Positions(log, IsTerminal) : \A j \in (i + 1)..Len(log) : TurnOf(log[j]) = log[i].turn =>
    log[j].type = "TurnResumed" \/ EpochOf(log[j]) > log[i].epoch
      \/ (log[j].type \in {"ToolReturned", "CodeDispatched"} /\ log[log[j].position].epoch > log[i].epoch)

AttemptsSound == AttemptKeys /\ AttemptsBounded /\ WithinLimits /\ EndsOnce

\* When nothing is left to do every accepted turn has ended: none waits for an
\* answer nobody owes, none is lost behind a cancellation or a resume.
Quiescent ==
  /\ fx.kind = "none" /\ Intents = {}
  /\ Inference(machine, log).kind = "none" /\ ToolActs(machine, log) = {}
NoTurnStranded == Quiescent => \A t \in Ids : machine.heads[t] # 0 => TurnTerminalOf(log, t) # 0
=============================================================================
