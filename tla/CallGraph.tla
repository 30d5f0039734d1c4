----------------------------- MODULE CallGraph -----------------------------
(* The legacy actor engine: threads with append-only logs, the reconciler  *)
(* that settles a thread from its log, the invocation protocol its         *)
(* transitions carry out (call, reply, timeout, cancellation of a call     *)
(* tree), and the host driver that decides which thread is settled when.   *)
(* A method's own work is an effect that invokes the children of its       *)
(* invocation one after another and then completes.                        *)
EXTENDS Naturals, Sequences, FiniteSets, SequencesExt

CONSTANTS
  Threads,      \* the threads of the host
  CallTree,     \* call id |-> [from, to, parent]; a root call is from Outside
  Kids,         \* call id |-> the sequence of calls its work makes
  Outside,      \* the caller of a root call
  Deadline,     \* the deadline every call of the tree inherits
  CancelTimeout,\* how long a parent waits for a child's cancellation
  Capacity,     \* maxConcurrentThreads
  MaxClock,     \* bound on the clock
  MaxGraphFaults \* bound on lost messages and restarts together

ASSUME CallGraphAssumption ==
  /\ IsFiniteSet(DOMAIN CallTree)
  /\ \A c \in DOMAIN CallTree :
       /\ Kids[c] \in Seq(DOMAIN CallTree)
       /\ \A i \in DOMAIN Kids[c] : CallTree[Kids[c][i]].parent = c
  /\ {Deadline, CancelTimeout, MaxClock} \subseteq Nat

VARIABLES
  logs,      \* thread |-> its event log
  dirty,     \* threads that owe a settlement
  procs,     \* thread |-> its settlement
  driving,   \* "idle", "draining" or "failed": the host's drive
  owed,      \* another drive is queued behind the current one
  net,       \* envelopes on their way
  clock,
  armed,     \* thread |-> deadline of its timer
  ringing,   \* thread |-> an alarm that has read the log and not yet appended
  graphFaults

graphVars == <<logs, dirty, procs, driving, owed, net, clock, armed, ringing, graphFaults>>

Ids == DOMAIN CallTree
None == Deadline + MaxClock + CancelTimeout + 1   \* later than every deadline

(* References: an invocation, and the control call that cancels it.        *)
Call(c) == <<c, "call">>
Control(c) == <<c, "control">>

(* Events are <<type, reference, detail>>.                                 *)
Received(c) == <<"received", Call(c), "">>
CancelRequested(c, origin) == <<"cancel", Call(c), origin>>   \* origin: control, alarm, repair
Planned(c) == <<"planned", Call(c), "">>                      \* CallPlanned with its InvocationLinked
Dispatched(c) == <<"dispatched", Call(c), "">>
Skipped(c) == <<"skipped", Call(c), "">>
CancelDispatched(c, at) == <<"cancelling", Control(c), at>>
CancelSent(c) == <<"cancelSent", Control(c), "">>             \* the same record, stamped as a completion
Terminal(ref, how) == <<"terminal", ref, how>>                \* how: response, timeout, skipped
Done(c) == <<"done", Call(c), "">>
Cancelled(c) == <<"cancelled", Call(c), "">>
Delivered(ref) == <<"delivered", ref, "">>
AlarmFired(at) == <<"alarm", <<>>, at>>

(* The key a log deduplicates on. A completion is stamped with the         *)
(* reference of its transition, which takes precedence over the event's    *)
(* own key, so a timeout the reconciler commits and the response it races  *)
(* have different keys.                                                    *)
KeyOf(event) ==
  CASE event[1] = "received" -> <<"ingress", event[2]>>
    [] event[1] = "cancel" /\ event[3] = "control" -> <<"ingress", Control(event[2][1])>>
    [] event[1] = "cancel" /\ event[3] = "alarm" -> <<"cancellation", event[2]>>
    [] event[1] \in {"dispatched", "skipped"} -> <<"mcall", event[2]>>
    [] event[1] = "terminal" /\ event[3] # "timeout" -> <<"mterm", event[2]>>
    [] OTHER -> <<event[1], event[2]>>

Recorded(log) == {KeyOf(log[k]) : k \in {j \in DOMAIN log : log[j][1] # "alarm"}}

(* The elements of a sequence at the given positions.                      *)
With(kept, seq, places, n) == IF n \in places THEN Append(kept, seq[n]) ELSE kept
Only(seq, places) ==
  LET kept[n \in 0..Len(seq)] == IF n = 0 THEN <<>> ELSE With(kept[n - 1], seq, places, n)
  IN kept[Len(seq)]

(* An event whose key is recorded, or precedes it in the batch, is absorbed. *)
AppendTo(log, events) ==
  log \o Only(events, {k \in DOMAIN events :
    events[k][1] = "alarm" \/ KeyOf(events[k]) \notin Recorded(log) \cup Recorded(SubSeq(events, 1, k - 1))})

Has(log, event) == \E k \in DOMAIN log : log[k] = event
HasTerminal(log, ref) == \E k \in DOMAIN log : log[k][1] = "terminal" /\ log[k][2] = ref

-----------------------------------------------------------------------------
(* The projections of one log.                                             *)

(* What the method reports of an invocation.                               *)
MethodState(log, c) ==
  IF ~Has(log, Received(c)) THEN "unknown"
  ELSE IF Has(log, Done(c)) THEN "terminal"
  ELSE IF Has(log, Cancelled(c)) THEN "cancelled" ELSE "running"

Requests(log) == {k \in DOMAIN log : log[k][1] = "cancel"}
Accepted(log, k) == MethodState(SubSeq(log, 1, k - 1), log[k][2][1])

ChildSettled(log, c) ==
  \/ HasTerminal(log, Call(c))
  \/ /\ \E k \in Requests(log) : log[k][2] = Call(CallTree[c].parent)
     /\ HasTerminal(log, Control(c))

OpenLinks(log, c) == {k \in Ids : CallTree[k].parent = c /\ Has(log, Planned(k)) /\ ~ChildSettled(log, k)}

Suppressed(log, c) ==
  \E k \in Requests(log) :
    /\ log[k][2] = Call(c)
    /\ "running" \in {Accepted(log, k), MethodState(log, c)}

(* Faulty variant of Pends: a request that came before its invocation is   *)
(* forgotten.                                                              *)
PendsOnlyRunning(log, k) ==
  LET c == log[k][2][1]
  IN \/ MethodState(log, c) = "running" /\ Accepted(log, k) = "running"
     \/ OpenLinks(log, c) # {}

Pends(log, k) ==
  LET c == log[k][2][1]
  IN \/ MethodState(log, c) = "running" /\ Accepted(log, k) \in {"unknown", "running"}
     \/ OpenLinks(log, c) # {}

PendingCancels(log) == {log[k][2][1] : k \in {j \in Requests(log) : Pends(log, j)}}

Obligation(log, c) ==
  IF \E k \in DOMAIN log : log[k][1] = "cancelling" /\ log[k][2] = Control(c)
    THEN <<"wait", Control(c)>> ELSE <<"cancel", Control(c)>>

(* The control method's answer: pending, or settled.                       *)
ControlSettled(log, k) ==
  LET c == log[k][2][1]
  IN \/ Accepted(log, k) = "unknown"
     \/ OpenLinks(log, c) = {} /\ MethodState(log, c) # "running"

Alarmed(log, at) == \E k \in DOMAIN log : log[k][1] = "alarm" /\ log[k][3] >= at

(* Outgoing records with a deadline.                                       *)
Dispatches(log) ==
  {<<log[k][2], IF log[k][1] = "cancelling" THEN log[k][3] ELSE Deadline>> :
     k \in {j \in DOMAIN log : log[j][1] \in {"dispatched", "cancelling"}}}

CancelAsked(log, c) == \E k \in Requests(log) : log[k][2] = Call(c)

(* The next wake a log needs.                                              *)
Deadlines(log) ==
  {d[2] : d \in {e \in Dispatches(log) : ~HasTerminal(log, e[1])}}
  \cup {Deadline : c \in {i \in Ids : /\ MethodState(log, i) = "running"
                                      /\ ~CancelAsked(log, i)
                                      /\ ~Alarmed(log, Deadline)}}
EarliestDeadline(log) ==
  IF Deadlines(log) = {} THEN None ELSE CHOOSE d \in Deadlines(log) : \A e \in Deadlines(log) : d <= e

(* Invocations a crossed deadline cancels.                                 *)
Crossed(log, at) ==
  {c \in Ids : Deadline <= at /\ MethodState(log, c) = "running" /\ ~CancelAsked(log, c)}

(* Incoming calls from threads in the order they were accepted.            *)
Accepts(event) ==
  \/ event[1] = "received" /\ CallTree[event[2][1]].from # Outside
  \/ event[1] = "cancel" /\ event[3] = "control" /\ CallTree[event[2][1]].from # Outside
ReplyRef(event) == IF event[1] = "received" THEN event[2] ELSE Control(event[2][1])
Replies(log) ==
  {k \in DOMAIN log :
     /\ Accepts(log[k])
     /\ ~Has(log, Delivered(ReplyRef(log[k])))
     /\ IF log[k][1] = "received" THEN MethodState(log, log[k][2][1]) # "running"
        ELSE ControlSettled(log, k)}

-----------------------------------------------------------------------------
(* Faulty variant of Finishing: the calls still open are not waited for.   *)
FinishingAtOnce(log) == {c \in PendingCancels(log) : MethodState(log, c) = "running"}

(* Cancelled invocations that leave nothing to settle: they report their   *)
(* end.                                                                    *)
Finishing(log) ==
  {c \in PendingCancels(log) : OpenLinks(log, c) = {} /\ MethodState(log, c) = "running"}

(* What a log enables, in the order the actor projection lists it: the     *)
(* components' work, timeouts and deadline cancellations, the next         *)
(* response, then what pending cancellations leave to do.                  *)
Transitions(log) ==
  LET work == {<<"work", Call(c)>> : c \in {i \in Ids : MethodState(log, i) = "running" /\ ~Suppressed(log, i)}}
      late == {<<"timeout", d[1]>> : d \in {e \in Dispatches(log) : ~HasTerminal(log, e[1]) /\ Alarmed(log, e[2])}}
      repair == {<<"repair", Call(c)>> : c \in {i \in Crossed(log, Deadline) : Alarmed(log, Deadline)}}
      reply == IF Replies(log) = {} THEN {}
               ELSE {<<"deliver", ReplyRef(log[CHOOSE k \in Replies(log) : \A j \in Replies(log) : k <= j])>>}
      finish == {<<"finish", Call(c)>> : c \in Finishing(log)}
      duty == UNION {{Obligation(log, k) : k \in OpenLinks(log, c)} : c \in PendingCancels(log)}
  IN SetToSeq(work) \o SetToSeq(late) \o SetToSeq(repair) \o SetToSeq(reply)
       \o SetToSeq(finish) \o SetToSeq(duty)

Concurrent(tr) == tr[1] \in {"cancel", "wait"}
Sequential(todo) == Only(todo, {k \in DOMAIN todo : ~Concurrent(todo[k])})

(* The first child of c that has no terminal, and how far its call is.     *)
OpenKids(log, c) == Only(Kids[c], {k \in DOMAIN Kids[c] : ~HasTerminal(log, Call(Kids[c][k]))})
Awaiting(log, c) == OpenKids(log, c) # <<>> /\ Has(log, Dispatched(OpenKids(log, c)[1]))

-----------------------------------------------------------------------------
(* Delivery: a keyed duplicate is absorbed; an event that lands interrupts *)
(* the sends it cancels and marks the thread. Work that sends nothing more *)
(* shows an interruption when it reads the log back: it returns nothing    *)
(* either way.                                                             *)
Off == [pc |-> "off", mark |-> 0, todo |-> <<>>, acts |-> {}]

Act(tr, msg) == [tr |-> tr, msg |-> msg, end |-> "open"]
NoMsg == <<>>

Interrupt(p, t, landed) ==
  [p EXCEPT ![t].acts = {IF a.tr[1] = "work" /\ a.msg # NoMsg /\ (\E k \in DOMAIN landed : landed[k][1] = "cancel" /\ landed[k][2] = a.tr[2])
                           THEN [a EXCEPT !.end = "aborted"] ELSE a : a \in @}]

Land(t, events) ==
  LET next == AppendTo(logs[t], events)
  IN /\ logs' = [logs EXCEPT ![t] = next]
     /\ dirty' = IF next = logs[t] THEN dirty ELSE dirty \cup {t}
     /\ procs' = Interrupt(procs, t, SubSeq(next, Len(logs[t]) + 1, Len(next)))

(* A client commits a root call, or its cancellation, and drives the host. *)
Ingress(c, event) ==
  /\ CallTree[c].from = Outside
  /\ ~Has(logs[CallTree[c].to], event)
  /\ Land(CallTree[c].to, <<event>>)
  /\ owed' = TRUE
  /\ UNCHANGED <<driving, net, clock, armed, ringing, graphFaults>>

Deliver(m) ==
  /\ m \in net
  /\ Land(m[1], <<m[2]>>)
  /\ net' = net \ {m}
  /\ UNCHANGED <<driving, owed, clock, armed, ringing, graphFaults>>

-----------------------------------------------------------------------------
(* The driver.                                                             *)
InFlight == {t \in Threads : procs[t].pc # "off"}

Drive ==
  /\ driving = "idle" /\ owed
  /\ driving' = "draining" /\ owed' = FALSE
  /\ UNCHANGED <<logs, dirty, procs, net, clock, armed, ringing, graphFaults>>

Launch(t) ==
  /\ driving = "draining"
  /\ t \in dirty \ InFlight
  /\ Cardinality(InFlight) < Capacity
  /\ dirty' = dirty \ {t}
  /\ procs' = [procs EXCEPT ![t] = [Off EXCEPT !.pc = "sync"]]
  /\ UNCHANGED <<logs, driving, owed, net, clock, armed, ringing, graphFaults>>

DrainEnds ==
  /\ driving # "idle"
  /\ InFlight = {}
  /\ driving = "draining" => dirty = {}
  /\ driving' = "idle"
  /\ UNCHANGED <<logs, dirty, procs, owed, net, clock, armed, ringing, graphFaults>>

(* The settlement returned: the timer follows the log.                     *)
ServeEnds(t) ==
  /\ procs[t].pc = "ending"
  /\ armed' = [armed EXCEPT ![t] = EarliestDeadline(logs[t])]
  /\ procs' = [procs EXCEPT ![t] = Off]
  /\ UNCHANGED <<logs, dirty, driving, owed, net, clock, ringing, graphFaults>>

(* A settlement died: its debt is restored and the drain launches no more. *)
Dies(t) ==
  /\ procs' = [procs EXCEPT ![t] = Off]
  /\ dirty' = dirty \cup {t}
  /\ driving' = "failed"

-----------------------------------------------------------------------------
(* The reconciler.                                                         *)
Synchronize(t) ==
  /\ procs[t].pc = "sync"
  /\ LET todo == Transitions(logs[t])
     IN procs' = [procs EXCEPT ![t] =
          IF todo = <<>> THEN [Off EXCEPT !.pc = "ending"]
          ELSE [pc |-> "fire", mark |-> Len(logs[t]), todo |-> todo, acts |-> {}]]
  /\ UNCHANGED <<logs, dirty, driving, owed, net, clock, armed, ringing, graphFaults>>

(* The pass runs on with the next transition, and ends when none moved.    *)
Blocked(p) ==
  IF Len(p.todo) = 1 THEN [Off EXCEPT !.pc = "ending"]
  ELSE [p EXCEPT !.pc = "fire", !.todo = Tail(@), !.acts = {}]

Resync == [Off EXCEPT !.pc = "sync"]

(* The log moved since the snapshot: start over. A concurrent group finds  *)
(* every member stale and nothing moved by itself, so the pass goes on.    *)
Stale(t) ==
  /\ procs[t].pc = "fire" /\ Len(logs[t]) # procs[t].mark
  /\ procs' = [procs EXCEPT ![t] =
       IF ~Concurrent(Head(@.todo)) THEN Resync
       ELSE LET rest == Sequential(@.todo)
            IN IF rest = <<>> THEN [Off EXCEPT !.pc = "ending"] ELSE [@ EXCEPT !.todo = rest]]
  /\ UNCHANGED <<logs, dirty, driving, owed, net, clock, armed, ringing, graphFaults>>

(* An event the settlement itself appends does not mark its thread.        *)
Record(t, events, p) ==
  LET next == AppendTo(logs[t], events)
  IN /\ logs' = [logs EXCEPT ![t] = next]
     /\ procs' = Interrupt([procs EXCEPT ![t] = p], t, SubSeq(next, Len(logs[t]) + 1, Len(next)))

Fresh(t, kind) ==
  /\ procs[t].pc = "fire" /\ Len(logs[t]) = procs[t].mark
  /\ Head(procs[t].todo)[1] \in kind

IntentEvent(tr) ==
  CASE tr[1] = "timeout" -> Terminal(tr[2], "timeout")
    [] tr[1] = "repair" -> CancelRequested(tr[2][1], "repair")
    [] tr[1] = "finish" -> Cancelled(tr[2][1])

Intend(t) ==
  /\ Fresh(t, {"timeout", "repair", "finish"})
  /\ Record(t, <<IntentEvent(Head(procs[t].todo))>>, Resync)
  /\ UNCHANGED <<dirty, driving, owed, net, clock, armed, ringing, graphFaults>>

(* The method's work invokes its next child: it records the plan, sends    *)
(* the call or finds its deadline passed, or suspends until the child's    *)
(* terminal is there; with every child settled it completes.               *)
Work(t) ==
  /\ Fresh(t, {"work"})
  /\ LET c == Head(procs[t].todo)[2][1]
         open == OpenKids(logs[t], c)
         acting(m) == procs' = [procs EXCEPT ![t].pc = "acting", ![t].acts = {Act(<<"work", Call(c)>>, m)}]
     IN IF open = <<>> THEN acting(NoMsg) /\ UNCHANGED <<logs, net>>
        ELSE LET k == open[1]
                 m == <<CallTree[k].to, Received(k)>>
             IN IF ~Has(logs[t], Planned(k)) THEN Record(t, <<Planned(k)>>, Resync) /\ UNCHANGED net
                ELSE IF Has(logs[t], Dispatched(k))
                  THEN procs' = [procs EXCEPT ![t] = Blocked(@)] /\ UNCHANGED <<logs, net>>
                ELSE IF Deadline <= clock
                  THEN Record(t, <<Skipped(k), Terminal(Call(k), "skipped")>>, Resync) /\ UNCHANGED net
                ELSE acting(m) /\ net' = net \cup {m} /\ UNCHANGED logs
  /\ UNCHANGED <<dirty, driving, owed, clock, armed, ringing, graphFaults>>

Respond(t) ==
  /\ Fresh(t, {"deliver"})
  /\ LET tr == Head(procs[t].todo)
         m == <<CallTree[tr[2][1]].from, Terminal(tr[2], "response")>>
     IN /\ procs' = [procs EXCEPT ![t].pc = "acting", ![t].acts = {Act(tr, m)}]
        /\ net' = net \cup {m}
  /\ UNCHANGED <<logs, dirty, driving, owed, clock, armed, ringing, graphFaults>>

(* The concurrent group: every child cancellation of the snapshot at once, *)
(* each recorded with its deadline before it is sent.                      *)
CancelChildren(t) ==
  /\ Fresh(t, {"cancel", "wait"})
  /\ LET group == {tr \in ToSet(procs[t].todo) : Concurrent(tr)}
         msg(tr) == <<CallTree[tr[2][1]].to, CancelRequested(tr[2][1], "control")>>
         ready == {tr \in group : tr[1] = "cancel"}
     IN /\ logs' = [logs EXCEPT ![t] = AppendTo(@,
              SetToSeq({CancelDispatched(tr[2][1], clock + CancelTimeout) : tr \in ready}))]
        /\ procs' = [procs EXCEPT ![t].pc = "acting", ![t].acts = {Act(tr, msg(tr)) : tr \in group}]
        /\ net' = net \cup {msg(tr) : tr \in group}
  /\ UNCHANGED <<dirty, driving, owed, clock, armed, ringing, graphFaults>>

(* Faulty variant of Interrupted: the log is not read again.               *)
InterruptedAborted(t, a) == a.end = "aborted"

(* The invocation was cancelled since the snapshot its work began from.    *)
Interrupted(t, a) ==
  \E k \in (procs[t].mark + 1)..Len(logs[t]) : logs[t][k][1] = "cancel" /\ logs[t][k][2] = a.tr[2]

(* Work came to its end: the log is read back, and what the work returned  *)
(* is kept or dropped. The append is a step of its own (Finish), which     *)
(* looks no more: a cancellation may land in between.                      *)
ReadBack(t) ==
  /\ procs[t].pc = "acting"
  /\ \E a \in procs[t].acts :
       /\ a.tr[1] = "work" /\ a.msg = NoMsg /\ a.end = "open"
       /\ procs' = [procs EXCEPT ![t].acts =
            (@ \ {a}) \cup {[a EXCEPT !.end = IF Interrupted(t, a) THEN "dropped" ELSE "kept"]}]
  /\ UNCHANGED <<logs, dirty, driving, owed, net, clock, armed, ringing, graphFaults>>

(* The completions a settlement has read back and not yet appended.        *)
Kept(p) == {a.tr[2] : a \in {b \in p.acts : b.end = "kept"}}

(* A send ends when its message has left; work that completes, when the    *)
(* log was read back.                                                      *)
Settled(a) == a.end # "open" \/ (a.msg # NoMsg /\ a.msg \notin net)

Returns(t, a) ==
  CASE a.tr[1] = "work" /\ a.msg = NoMsg -> IF a.end = "kept" THEN <<Done(a.tr[2][1])>> ELSE <<>>
    [] a.tr[1] = "work" /\ a.msg # NoMsg -> IF a.end = "aborted" THEN <<>> ELSE <<Dispatched(a.msg[2][2][1])>>
    [] a.tr[1] = "deliver" -> <<Delivered(a.tr[2])>>
    [] a.tr[1] = "cancel" -> <<CancelSent(a.tr[2][1])>>
    [] a.tr[1] = "wait" -> <<>>

(* A sequential effect ends: log movement starts the pass over.            *)
Finish(t) ==
  /\ procs[t].pc = "acting"
  /\ \E a \in procs[t].acts :
       /\ ~Concurrent(a.tr) /\ Settled(a)
       /\ a.end # "lost"
       /\ LET events == Returns(t, a)
              moved == events # <<>> \/ Len(logs[t]) # procs[t].mark
          IN Record(t, events, IF moved THEN Resync ELSE Blocked([procs[t] EXCEPT !.acts = {}]))
  /\ UNCHANGED <<dirty, driving, owed, net, clock, armed, ringing, graphFaults>>

(* One member of the concurrent group ends; the group when all have.       *)
FinishMember(t) ==
  /\ procs[t].pc = "acting"
  /\ \E a \in procs[t].acts :
       /\ Concurrent(a.tr) /\ Settled(a)
       /\ LET left == procs[t].acts \ {a}
              events == Returns(t, a)
              moved == Len(AppendTo(logs[t], events)) # procs[t].mark
              rest == Sequential(procs[t].todo)
          IN Record(t, events,
               IF left # {} THEN [procs[t] EXCEPT !.acts = left]
               ELSE IF moved THEN Resync
               ELSE IF rest = <<>> THEN [Off EXCEPT !.pc = "ending"]
               ELSE [procs[t] EXCEPT !.pc = "fire", !.todo = rest, !.acts = {}])
  /\ UNCHANGED <<dirty, driving, owed, net, clock, armed, ringing, graphFaults>>

(* The send of a call or of a response failed: the effect dies with it.    *)
Fail(t) ==
  /\ procs[t].pc = "acting"
  /\ \E a \in procs[t].acts : ~Concurrent(a.tr) /\ a.end = "lost"
  /\ Dies(t)
  /\ UNCHANGED <<logs, owed, net, clock, armed, ringing, graphFaults>>

-----------------------------------------------------------------------------
(* Time, and a thread's timer: the handler reads the log, then appends the *)
(* alarm with the cancellations it crossed.                                *)
Tick ==
  /\ clock < MaxClock
  /\ clock' = clock + 1
  /\ UNCHANGED <<logs, dirty, procs, driving, owed, net, armed, ringing, graphFaults>>

Ring(t) ==
  /\ armed[t] <= clock
  /\ ringing[t] = <<>>
  /\ ringing' = [ringing EXCEPT ![t] = <<clock, Crossed(logs[t], clock)>>]
  /\ armed' = [armed EXCEPT ![t] = None]
  /\ UNCHANGED <<logs, dirty, procs, driving, owed, net, clock, graphFaults>>

Rung(t) ==
  /\ ringing[t] # <<>>
  /\ Land(t, <<AlarmFired(ringing[t][1])>> \o SetToSeq({CancelRequested(c, "alarm") : c \in ringing[t][2]}))
  /\ ringing' = [ringing EXCEPT ![t] = <<>>]
  /\ owed' = TRUE
  /\ UNCHANGED <<driving, net, clock, armed, graphFaults>>

Lose(m) ==
  /\ m \in net /\ graphFaults < MaxGraphFaults
  /\ net' = net \ {m}
  /\ graphFaults' = graphFaults + 1
  /\ procs' = [t \in Threads |-> [procs[t] EXCEPT !.acts =
       {IF a.msg = m /\ a.end = "open" THEN [a EXCEPT !.end = "lost"] ELSE a : a \in @}]]
  /\ UNCHANGED <<logs, dirty, driving, owed, clock, armed, ringing>>

(* The process restarts: recover marks every thread and drives.            *)
RestartHost ==
  /\ graphFaults < MaxGraphFaults
  /\ graphFaults' = graphFaults + 1
  /\ procs' = [t \in Threads |-> Off]
  /\ armed' = [t \in Threads |-> None]
  /\ ringing' = [t \in Threads |-> <<>>]
  /\ dirty' = Threads
  /\ driving' = "idle" /\ owed' = TRUE
  /\ UNCHANGED <<logs, net, clock>>

-----------------------------------------------------------------------------
Init ==
  /\ logs = [t \in Threads |-> <<>>]
  /\ dirty = {} /\ procs = [t \in Threads |-> Off]
  /\ driving = "idle" /\ owed = FALSE
  /\ net = {} /\ clock = 0
  /\ armed = [t \in Threads |-> None] /\ ringing = [t \in Threads |-> <<>>]
  /\ graphFaults = 0

Next ==
  \/ \E c \in Ids : Ingress(c, Received(c)) \/ Ingress(c, CancelRequested(c, "control"))
  \/ \E m \in net : Deliver(m) \/ Lose(m)
  \/ Drive \/ DrainEnds
  \/ \E t \in Threads :
       \/ Launch(t) \/ Synchronize(t) \/ Stale(t) \/ Intend(t) \/ Work(t) \/ Respond(t)
       \/ CancelChildren(t) \/ ReadBack(t) \/ Finish(t) \/ FinishMember(t) \/ Fail(t) \/ ServeEnds(t)
       \/ Ring(t) \/ Rung(t)
  \/ Tick \/ RestartHost

Spec == Init /\ [][Next]_graphVars

-----------------------------------------------------------------------------
(* Once an invocation was asked to end, and no completion of it was read   *)
(* back before that, none is ever read back or recorded: not by the work   *)
(* under way, nor after an interruption, a restart or another pass.        *)
Stopped(t, c) ==
  /\ CancelAsked(logs[t], c)
  /\ Call(c) \notin Kept(procs[t])
  /\ ~Has(logs[t], Done(c))
SuppressionHolds == [][\A t \in Threads, c \in Ids : Stopped(t, c) => Stopped(t, c)']_graphVars

(* An invocation ends one way. A completion that was read back before its  *)
(* cancellation landed is still appended after it; the cancellation is     *)
(* then not reported as well.                                              *)
EndsOnce == \A t \in Threads, c \in Ids : ~(Has(logs[t], Done(c)) /\ Has(logs[t], Cancelled(c)))

(* An invocation reports itself cancelled only once every call it had made *)
(* is settled: answered, its cancellation answered, or timed out.          *)
CancelledLast ==
  \A t \in Threads : \A k \in DOMAIN logs[t] : logs[t][k][1] = "cancelled" =>
    OpenLinks(SubSeq(logs[t], 1, k - 1), logs[t][k][2][1]) = {}

(* A thread that is neither marked nor being settled enables only work     *)
(* that waits for another thread's answer.                                 *)
Resting(t) == t \notin dirty \cup InFlight
Waits(t, tr) ==
  \/ tr[1] = "wait"
  \/ tr[1] = "work" /\ Awaiting(logs[t], tr[2][1])
NoLostDebt ==
  \A t \in Threads : Resting(t) => \A tr \in ToSet(Transitions(logs[t])) : Waits(t, tr)

(* A resting thread's timer stands at the earliest deadline of its log.    *)
TimerArmed ==
  \A t \in Threads : Resting(t) /\ ringing[t] = <<>> => armed[t] = EarliestDeadline(logs[t])

(* When nothing is left to happen by itself, every accepted invocation has *)
(* ended and was answered, and every call made is settled.                 *)
Quiet ==
  /\ dirty = {} /\ InFlight = {} /\ net = {}
  /\ \A t \in Threads : armed[t] = None /\ ringing[t] = <<>>
NothingForgotten ==
  Quiet => \A t \in Threads :
    /\ \A c \in Ids : /\ MethodState(logs[t], c) # "running"
                      /\ OpenLinks(logs[t], c) = {}
    /\ Replies(logs[t]) = {}

(* An accepted cancellation suppresses the completion nobody has read back *)
(* yet, for good; and the invocation either completes or reports its       *)
(* cancellation, the latter once what its work had called is settled.      *)
CancellationSound == [](EndsOnce /\ CancelledLast) /\ SuppressionHolds

(* Whatever the engine owes is kept in a mark, a timer or a message until  *)
(* it is done.                                                             *)
NothingOwed == NoLostDebt /\ TimerArmed /\ NothingForgotten
=============================================================================
