------------------------------ MODULE Messages ------------------------------
(***************************************************************************)
(* Messages between threads: method invocations and their cancellations,   *)
(* admission into the receiver's journal by identity, the reply obligation *)
(* of an addressed invocation and its delivery act, over a network that    *)
(* loses requests and receipts.  Senders may repeat a message whenever     *)
(* they like (core/src/runtime/execution.ts receive, runtime/messages.ts,  *)
(* services/invocation.ts).                                                *)
(*                                                                         *)
(* journal, delivered, reply and act are durable; wire and answers are the *)
(* calls in progress.  A thread's journal holds only its inbox here, so a  *)
(* position counts the messages before it.                                 *)
(***************************************************************************)
EXTENDS Naturals, Sequences, FiniteSets

CONSTANTS
    Threads,           \* addresses
    Scenarios,         \* sets of invocations and cancellations that senders may send
    Results,           \* what a method's result atom may say
    AttemptsBounded,   \* delivery acts have an attempt timeout (60 s by default)
    MaxFaults          \* bound on lost requests and receipts and on restarts

Unresolved == "unresolved"
Failed == "failed"

ASSUME MessagesAssumption ==
    /\ \A c \in UNION Scenarios : c.to \in Threads /\ c.kind \in {"invoke", "cancel"}
    /\ Unresolved \notin Results /\ Failed \notin Results
    /\ AttemptsBounded \in BOOLEAN
    /\ MaxFaults \in Nat

VARIABLES
    calls,      \* the scenario, chosen once
    journal,    \* admitted messages of every thread, in order
    delivered,  \* MessageDelivered records of every thread: invocation ids
    defect,     \* threads with a terminal defect
    result,     \* what the method's result atom says of an admitted invocation
    proposed,   \* body of the reply request the thread has proposed (in memory)
    reply,      \* body recorded when the reply act was accepted
    act,        \* the reply act of an invocation
    wire,       \* requests on their way
    answers,    \* receipts and refusals on their way back
    faults

vars == <<calls, journal, delivered, defect, result, proposed, reply, act, wire, answers, faults>>

Invocations == {c \in calls : c.kind = "invoke"}

\* JSON.stringify(["reply", address, id])
ReplyId(c) == <<"reply", c.to, c.id>>

Reply(c) ==
    [id |-> ReplyId(c), from |-> c.to, to |-> c.from, kind |-> "reply",
     input |-> reply[c], about |-> c.id]

\* readMessage: the positions of an identity in a thread's journal.
Positions(t, id) == {i \in DOMAIN journal[t] : journal[t][i].id = id}
Admitted(m) == \E i \in DOMAIN journal[m.to] : journal[m.to][i] = m

\* messageReplies' obligations: addressed invocations not yet discharged.
Obligation(c) ==
    Admitted(c) /\ c.from \in Threads /\ c.id \notin delivered[c.to]

\* resolveMethodResult: a terminal defect fails what is unresolved.
MethodResult(v, dead) == IF v = Unresolved /\ dead THEN Failed ELSE v

\* The first resolved result makes the request, which is then kept.
Proposed(c, old, body) == IF old = Unresolved /\ Obligation(c) THEN body ELSE old

-----------------------------------------------------------------------------
(* The receiver *)

\* A cancellation names an invocation of the same sender.
Cancellable(m) ==
    \E i \in DOMAIN journal[m.to] :
      /\ journal[m.to][i].id = m.about /\ journal[m.to][i].kind = "invoke"
      /\ journal[m.to][i].from = m.from

\* Faulty variant of Verdict: a defect refuses repeated messages too.
VerdictDefectFirst(m) ==
    IF (m.kind = "cancel" /\ ~Cancellable(m)) \/ m.to \in defect THEN "refused"
    ELSE IF Positions(m.to, m.id) = {} THEN "admit"
    ELSE IF Admitted(m) THEN "repeat" ELSE "conflict"

\* Faulty variant of Verdict: a repeated message is told by its whole content.
VerdictByContent(m) ==
    IF m.kind = "cancel" /\ ~Cancellable(m) THEN "refused"
    ELSE IF Admitted(m) THEN "repeat"
    ELSE IF m.to \in defect THEN "refused" ELSE "admit"

\* receive, in the order of its checks.
Verdict(m) ==
    IF m.kind = "cancel" /\ ~Cancellable(m) THEN "refused"
    ELSE IF Admitted(m) THEN "repeat"
    ELSE IF Positions(m.to, m.id) # {} THEN "conflict"
    ELSE IF m.to \in defect THEN "refused" ELSE "admit"

\* One admission: receive answers with the position of the message's record.
Receive(m) ==
    /\ m \in wire
    /\ wire' = wire \ {m}
    /\ journal' = IF Verdict(m) = "admit" THEN [journal EXCEPT ![m.to] = Append(@, m)] ELSE journal
    /\ LET at == IF Verdict(m) = "admit" THEN Len(journal[m.to]) + 1
                 ELSE IF Verdict(m) = "repeat" THEN CHOOSE i \in Positions(m.to, m.id) : TRUE
                 ELSE 0
       IN  answers' = answers \cup {[msg |-> m, position |-> at, conflict |-> Verdict(m) = "conflict"]}
    /\ UNCHANGED <<calls, delivered, defect, result, proposed, reply, act, faults>>

-----------------------------------------------------------------------------
(* Senders and the network *)

Quiet(m) == m \notin wire /\ \A a \in answers : a.msg # m

Transmit(m) ==
    /\ Quiet(m) /\ wire' = wire \cup {m}
    /\ UNCHANGED <<calls, journal, delivered, defect, result, proposed, reply, act, answers, faults>>

\* invoke, cancel, or an act of the calling thread; repeated at will.
Send(c) == c \in calls /\ Transmit(c)

Lose(m) ==
    /\ faults < MaxFaults /\ faults' = faults + 1
    /\ ~Quiet(m)
    /\ wire' = wire \ {m} /\ answers' = {a \in answers : a.msg # m}
    /\ UNCHANGED <<calls, journal, delivered, defect, result, proposed, reply, act>>

\* Faulty variant of Discharges: any answer discharges the obligation.
DischargesAnyhow(c, a) == a.msg = Reply(c) /\ act[c] = "accepted"
\* DeliverMessage succeeded with a receipt; a refusal is retried.
Discharges(c, a) == a.msg = Reply(c) /\ act[c] = "accepted" /\ a.position > 0

\* The sender hears the answer; onSettled of a reply act records MessageDelivered.
Hear(a) ==
    /\ a \in answers
    /\ answers' = answers \ {a}
    /\ LET done == {c \in Invocations : Discharges(c, a)}
       IN  /\ act' = [c \in Invocations |-> IF c \in done THEN "settled" ELSE act[c]]
           /\ delivered' = [t \in Threads |-> delivered[t] \cup {c.id : c \in {d \in done : d.to = t}}]
    /\ UNCHANGED <<calls, journal, defect, result, proposed, reply, wire, faults>>

-----------------------------------------------------------------------------
(* The replying thread *)

\* Domain events change what the result atom says; a cancellation may be one.
ResultChanges(c) ==
    /\ Admitted(c) /\ c.to \notin defect
    /\ \E v \in Results \ {result[c]} :
         /\ result' = [result EXCEPT ![c] = v]
         /\ proposed' = [proposed EXCEPT ![c] = Proposed(c, @, v)]
    /\ UNCHANGED <<calls, journal, delivered, defect, reply, act, wire, answers, faults>>

\* The proposed reply act is accepted with its body (EffectRequested).
AcceptReply(c) ==
    /\ Obligation(c) /\ act[c] = "none" /\ proposed[c] # Unresolved
    /\ act' = [act EXCEPT ![c] = "accepted"]
    /\ reply' = [reply EXCEPT ![c] = proposed[c]]
    /\ UNCHANGED <<calls, journal, delivered, defect, result, proposed, wire, answers, faults>>

\* Each attempt of the delivery layer; failures are retried at an interval.
SendReply(c) == c \in Invocations /\ act[c] = "accepted" /\ Transmit(Reply(c))

\* runAttempt's deadline covers the retries inside the layer: the act is settled
\* as rejected and its proposal counts as settled ever after.
TimeOut(c) ==
    /\ AttemptsBounded /\ act[c] = "accepted"
    /\ act' = [act EXCEPT ![c] = "rejected"]
    /\ UNCHANGED <<calls, journal, delivered, defect, result, proposed, reply, wire, answers, faults>>

Die(t) ==
    /\ t \notin defect /\ defect' = defect \cup {t}
    /\ proposed' = [c \in Invocations |-> IF c.to = t THEN Proposed(c, proposed[c], MethodResult(result[c], TRUE)) ELSE proposed[c]]
    /\ UNCHANGED <<calls, journal, delivered, result, reply, act, wire, answers, faults>>

\* Replay keeps accepted reply acts; they run again with their recorded body.
Recovered(t) == act

Crash(t) ==
    /\ faults < MaxFaults /\ faults' = faults + 1
    /\ wire' = {m \in wire : m.from # t /\ m.to # t}
    /\ answers' = {a \in answers : a.msg.from # t /\ a.msg.to # t}
    /\ act' = Recovered(t)
    /\ proposed' = [c \in Invocations |-> IF c.to = t THEN Proposed(c, Unresolved, MethodResult(result[c], t \in defect)) ELSE proposed[c]]
    /\ UNCHANGED <<calls, journal, delivered, defect, result, reply>>

Init ==
    /\ calls \in Scenarios
    /\ journal = [t \in Threads |-> <<>>] /\ delivered = [t \in Threads |-> {}]
    /\ defect = {}
    /\ result = [c \in Invocations |-> Unresolved]
    /\ proposed = [c \in Invocations |-> Unresolved] /\ reply = proposed
    /\ act = [c \in Invocations |-> "none"]
    /\ wire = {} /\ answers = {}
    /\ faults = 0

Next ==
    \/ \E c \in calls : Send(c)
    \/ \E m \in wire : Receive(m)
    \/ \E a \in answers : Hear(a)
    \/ \E m \in wire \cup {a.msg : a \in answers} : Lose(m)
    \/ \E c \in Invocations : ResultChanges(c) \/ AcceptReply(c) \/ SendReply(c) \/ TimeOut(c)
    \/ \E t \in {c.to : c \in calls} : Die(t) \/ Crash(t)
    \/ \E t \in {c.from : c \in calls} \cap Threads : Die(t) \/ Crash(t)

Spec == Init /\ [][Next]_vars

\* Retries go on, what is not lost arrives, accepted work is driven.
FairSpec ==
    /\ Spec
    /\ WF_vars(\E m \in wire : m.kind = "reply" /\ Receive(m))
    /\ WF_vars(\E a \in answers : a.msg.kind = "reply" /\ Hear(a))
    /\ \A c \in UNION Scenarios :
         WF_vars(c \in Invocations /\ AcceptReply(c)) /\ WF_vars(c \in Invocations /\ SendReply(c))

-----------------------------------------------------------------------------
(* Properties *)

\* However often a message is sent, lost, answered and sent again, the receiver
\* admits its identity once, with one content, and every receipt names that record.
AdmittedOnce ==
    /\ \A a \in answers : a.position > 0 => journal[a.msg.to][a.position] = a.msg
    /\ \A t \in Threads : \A i \in DOMAIN journal[t] : Positions(t, journal[t][i].id) = {i}

\* A message whose receipt was lost is acknowledged when it is sent again, even by
\* a thread that has died since: no sender of an admitted message is ever refused.
AdmittedIsAcknowledged ==
    [][\A a \in answers' \ answers : Admitted(a.msg) => a.position > 0]_vars

\* A reply in a journal answers an invocation its owner sent, with the body the
\* replying thread recorded: also when the result changes between a crash and the
\* next attempt.  An obligation is discharged only when that reply is in the journal,
\* and no reply is ever refused as a conflict, which retries could not cure.
ReplyFaithful ==
    /\ \A c \in Invocations : Admitted(c) /\ c.id \in delivered[c.to] => Admitted(Reply(c))
    /\ \A t \in Threads : \A i \in DOMAIN journal[t] :
      LET m == journal[t][i]
      IN  m.kind = "reply" =>
            \E c \in Invocations : Admitted(c) /\ c.from = t /\ m = Reply(c)
    /\ \A a \in answers : a.msg.kind = "reply" => ~a.conflict

\* messageReply.qnt's obligationProgress: a resolved obligation of a living caller
\* is discharged in the end.
ReplyProgress ==
    \A c \in UNION Scenarios :
      (c \in Invocations /\ Obligation(c) /\ MethodResult(result[c], c.to \in defect) # Unresolved) ~> (~Obligation(c) \/ c.from \in defect)
=============================================================================
