--------------------------- MODULE MessagesProofs ---------------------------
(***************************************************************************)
(* For every set of threads, every scenario of calls and any number of     *)
(* lost requests and receipts and of restarts: an identity is admitted     *)
(* once, a repeated message is acknowledged, and replies say what their    *)
(* thread recorded.                                                        *)
(*                                                                         *)
(* What the properties need beside themselves is where messages come from: *)
(* everything on its way or in a journal is a call of the scenario or the  *)
(* reply of an accepted reply act, whose invocation is in the journal and  *)
(* whose body no longer changes.                                           *)
(***************************************************************************)
EXTENDS Messages, TLAPS

Bodies == Results \cup {Unresolved, Failed}

\* The reply to c with body v; Reply(c) is the one with the recorded body.
ReplyOf(c, v) ==
    [id |-> ReplyId(c), from |-> c.to, to |-> c.from, kind |-> "reply", input |-> v,
     about |-> c.id]
Letters == (UNION Scenarios) \cup {ReplyOf(c, v) : c \in UNION Scenarios, v \in Bodies}

\* Message m is in its receiver's journal, and a cancellation m names an entry of j.
Holds(j, m) == \E i \in DOMAIN j[m.to] : j[m.to][i] = m
Names(j, m) ==
    \E i \in DOMAIN j[m.to] :
      j[m.to][i].id = m.about /\ j[m.to][i].kind = "invoke" /\ j[m.to][i].from = m.from

\* A call of cs, or the reply of a reply act that was accepted.
Origin(m, cs, acts, bodies) ==
    \/ m \in cs
    \/ \E c \in cs : c.kind = "invoke" /\ acts[c] # "none" /\ m = ReplyOf(c, bodies[c])

TypeInv ==
    /\ calls \in Scenarios
    /\ journal \in [Threads -> Seq(Letters)]
    /\ result \in [Invocations -> Bodies] /\ proposed \in [Invocations -> Bodies]
    /\ reply \in [Invocations -> Bodies]
    /\ act \in [Invocations -> {"none", "accepted", "settled", "rejected"}]

OriginInv ==
    /\ \A m \in wire : Origin(m, calls, act, reply)
    /\ \A a \in answers : Origin(a.msg, calls, act, reply)
    /\ \A t \in Threads : \A i \in DOMAIN journal[t] :
         Origin(journal[t][i], calls, act, reply) /\ journal[t][i].to = t

\* A reply act belongs to an admitted invocation of a thread.
ActInv ==
    \A c \in Invocations : act[c] # "none" => Holds(journal, c) /\ c.from \in Threads

UniqueInv ==
    \A t \in Threads : \A i, j \in DOMAIN journal[t] :
      journal[t][i].id = journal[t][j].id => i = j

\* What a cancellation names stays in the journal.
CancelInv ==
    \A t \in Threads : \A i \in DOMAIN journal[t] :
      journal[t][i].kind = "cancel" => Names(journal, journal[t][i])

ReceiptInv ==
    \A a \in answers :
      /\ a.position \in Nat
      /\ a.position > 0 =>
           a.position \in DOMAIN journal[a.msg.to] /\ journal[a.msg.to][a.position] = a.msg

\* A discharge is of a record of the thread, whose reply is in the caller's journal.
DischargedInv ==
    \A t \in Threads : \A id \in delivered[t] :
      \E i \in DOMAIN journal[t] : journal[t][i].id = id
DeliveredInv ==
    \A c \in Invocations :
      Holds(journal, c) /\ c.id \in delivered[c.to] =>
        act[c] # "none" /\ Holds(journal, ReplyOf(c, reply[c]))

\* No caller takes the identity of a reply for a call of its own: identities are any
\* non-empty strings callers choose (MessageId of services/invocation.ts), and receive tells
\* messages apart by nothing else.
OwnIdentities == \A c, d \in UNION Scenarios : d.id # ReplyId(c)

ConflictInv ==
    OwnIdentities => \A a \in answers : a.msg.kind = "reply" => ~a.conflict

MessagesInv ==
    /\ TypeInv /\ OriginInv /\ ActInv /\ UniqueInv /\ CancelInv /\ ReceiptInv /\ DeliveredInv
    /\ DischargedInv /\ ConflictInv

-----------------------------------------------------------------------------
(* Messages and journals *)

\* Append adds one entry at the end and leaves the others where they are.
LEMMA AppendFacts ==
  ASSUME NEW S, NEW s \in Seq(S), NEW m \in S
  PROVE  /\ Append(s, m) \in Seq(S)
         /\ Len(s) \in Nat /\ Len(s) + 1 \notin DOMAIN s
         /\ DOMAIN Append(s, m) = DOMAIN s \cup {Len(s) + 1}
         /\ \A i \in DOMAIN s : Append(s, m)[i] = s[i]
         /\ Append(s, m)[Len(s) + 1] = m
  OBVIOUS

\* The reply of an invocation is addressed to its sender, and its identity tells the
\* invocation's thread and identity.
LEMMA ReplyFacts ==
  ASSUME NEW c, NEW v
  PROVE  /\ ReplyOf(c, v).kind = "reply" /\ ReplyOf(c, v).to = c.from
         /\ ReplyOf(c, v).id = <<"reply", c.to, c.id>>
         /\ \A d, w : ReplyOf(c, v).id = ReplyOf(d, w).id => c.to = d.to /\ c.id = d.id
  BY DEF ReplyOf, ReplyId

\* What is sent has a thread to go to, and is one of the letters.
LEMMA OriginFacts ==
  ASSUME TypeInv, ActInv, NEW m, Origin(m, calls, act, reply)
  PROVE  m.to \in Threads /\ m \in Letters
  <1>1. CASE m \in calls
    BY <1>1, MessagesAssumption DEF TypeInv, Letters
  <1>2. CASE \E c \in calls : c.kind = "invoke" /\ act[c] # "none" /\ m = ReplyOf(c, reply[c])
    <2>1. PICK c \in calls : c.kind = "invoke" /\ act[c] # "none" /\ m = ReplyOf(c, reply[c])
      BY <1>2
    <2>2. c \in Invocations /\ reply[c] \in Bodies /\ c \in UNION Scenarios
      BY <2>1 DEF TypeInv, Invocations
    <2>3. m.to \in Threads
      BY <2>1, <2>2, ReplyFacts DEF ActInv
    <2> QED  BY <2>1, <2>2, <2>3 DEF Letters
  <1> QED  BY <1>1, <1>2 DEF Origin

\* Steps that admit nothing: reply acts stay accepted with their bodies, are accepted
\* only for admitted invocations of threads, and discharge only with their reply admitted.
LEMMA QuietStep ==
  ASSUME MessagesInv, TypeInv', calls' = calls, journal' = journal,
         \A c \in Invocations : act[c] # "none" => act'[c] # "none" /\ reply'[c] = reply[c],
         \A c \in Invocations :
           act[c] = "none" /\ act'[c] # "none" => Holds(journal, c) /\ c.from \in Threads,
         \A m \in wire' : m \in wire \/ Origin(m, calls, act, reply),
         answers' \subseteq answers,
         \A t \in Threads : \A id \in delivered'[t] :
           id \in delivered[t] \/ \E i \in DOMAIN journal[t] : journal[t][i].id = id,
         \A c \in Invocations :
           Holds(journal, c) /\ c.id \in delivered'[c.to] =>
             c.id \in delivered[c.to] \/ (act[c] # "none" /\ Holds(journal, ReplyOf(c, reply[c])))
  PROVE  MessagesInv'
  <1>0. Invocations' = Invocations
    BY DEF Invocations
  <1>1. \A m : Origin(m, calls, act, reply) => Origin(m, calls', act', reply')
    BY DEF Origin, Invocations
  <1>2. OriginInv'
    BY <1>1 DEF MessagesInv, OriginInv
  <1>3. ActInv'
    BY <1>0 DEF MessagesInv, ActInv
  <1>4. UniqueInv' /\ CancelInv' /\ ReceiptInv' /\ ConflictInv'
    BY DEF MessagesInv, UniqueInv, CancelInv, ReceiptInv, ConflictInv
  <1>5. DeliveredInv'
    BY <1>0 DEF MessagesInv, DeliveredInv
  <1>6. DischargedInv'
    BY DEF MessagesInv, DischargedInv
  <1> QED  BY <1>2, <1>3, <1>4, <1>5, <1>6 DEF MessagesInv

-----------------------------------------------------------------------------
(* The steps that admit nothing *)

\* Nothing is sent, admitted or accepted at first.
LEMMA InitInv == Init => MessagesInv
  <1> SUFFICES ASSUME Init PROVE MessagesInv
    OBVIOUS
  <1>1. TypeInv
    BY MessagesAssumption DEF Init, TypeInv, Bodies
  <1>2. \A t \in Threads : DOMAIN journal[t] = {}
    BY DEF Init
  <1>3. OriginInv /\ UniqueInv /\ CancelInv /\ ReceiptInv /\ ConflictInv
    BY <1>2 DEF Init, OriginInv, UniqueInv, CancelInv, ReceiptInv, ConflictInv
  <1>4. ActInv
    BY DEF Init, ActInv, Invocations
  <1>5. DeliveredInv
    <2> SUFFICES ASSUME NEW c \in Invocations, c.id \in delivered[c.to] PROVE FALSE
      BY DEF DeliveredInv
    <2>1. c.to \in Threads
      BY MessagesAssumption DEF Init, Invocations
    <2> QED  BY <2>1 DEF Init
  <1>6. DischargedInv
    BY DEF Init, DischargedInv
  <1> QED  BY <1>1, <1>3, <1>4, <1>5, <1>6 DEF MessagesInv

\* The reply of c carries the recorded body.
LEMMA ReplyIs == \A c : Reply(c) = ReplyOf(c, reply[c])
  BY DEF Reply, ReplyOf

\* A sender, or a reply act, transmits a message that has an origin.
LEMMA SendStep ==
  ASSUME MessagesInv, NEW m, Origin(m, calls, act, reply), Transmit(m)
  PROVE  MessagesInv'
  <1>1. TypeInv'
    BY DEF Transmit, MessagesInv, TypeInv, Invocations
  <1> QED  BY <1>1, QuietStep DEF Transmit

\* A request or an answer is lost.
LEMMA LoseStep ==
  ASSUME MessagesInv, NEW m, Lose(m)
  PROVE  MessagesInv'
  <1>1. TypeInv'
    BY DEF Lose, MessagesInv, TypeInv, Invocations
  <1> QED  BY <1>1, QuietStep DEF Lose

\* A receipt of a reply discharges its own invocation and no other: another one with the
\* same thread and identity would be the same record.
LEMMA HearStep ==
  ASSUME MessagesInv, NEW a \in answers, Hear(a)
  PROVE  MessagesInv'
  <1> DEFINE done == {c \in Invocations : Discharges(c, a)}
  <1>1. /\ act' = [c \in Invocations |-> IF c \in done THEN "settled" ELSE act[c]]
        /\ delivered' = [t \in Threads |-> delivered[t] \cup {c.id : c \in {d \in done : d.to = t}}]
        /\ answers' \subseteq answers
        /\ UNCHANGED <<calls, journal, defect, result, proposed, reply, wire, faults>>
    BY DEF Hear
  <1>2. \A c \in done : c \in Invocations /\ act[c] = "accepted" /\ a.msg = Reply(c) /\ a.position > 0
    BY DEF Discharges
  <1>3. \A c \in Invocations : c.to \in Threads
    BY MessagesAssumption DEF Invocations, MessagesInv, TypeInv
  <1> HIDE DEF done
  <1>4. \A c \in done : Holds(journal, ReplyOf(c, reply[c])) /\ Holds(journal, c)
    BY <1>2, ReplyIs DEF MessagesInv, ReceiptInv, ActInv, Holds
  <1>5. TypeInv'
    BY <1>1 DEF MessagesInv, TypeInv, Invocations
  <1>6. ASSUME NEW c \in Invocations, Holds(journal, c), c.id \in delivered'[c.to]
        PROVE  c.id \in delivered[c.to] \/ (act[c] # "none" /\ Holds(journal, ReplyOf(c, reply[c])))
    <2>1. CASE c.id \in delivered[c.to]
      BY <2>1
    <2>2. CASE \E d \in done : d.to = c.to /\ d.id = c.id
      <3>1. PICK d \in done : d.to = c.to /\ d.id = c.id
        BY <2>2
      <3>2. d = c
        BY <1>3, <1>4, <1>6, <3>1 DEF Holds, MessagesInv, UniqueInv
      <3> QED  BY <1>2, <1>4, <3>1, <3>2
    <2> QED  BY <1>1, <1>3, <1>6, <2>1, <2>2
  <1>7. \A c \in Invocations : act[c] # "none" => act'[c] # "none" /\ reply'[c] = reply[c]
    BY <1>1
  <1>8. \A c \in Invocations : act[c] = "none" /\ act'[c] # "none" => Holds(journal, c) /\ c.from \in Threads
    BY <1>1, <1>2
  <1>9. ASSUME NEW t \in Threads, NEW id \in delivered'[t]
        PROVE  id \in delivered[t] \/ \E i \in DOMAIN journal[t] : journal[t][i].id = id
    BY <1>1, <1>4, <1>9 DEF Holds
  <1> QED  BY <1>1, <1>5, <1>6, <1>7, <1>8, <1>9, QuietStep

\* A proposal is a body.
LEMMA ProposedFacts ==
  ASSUME NEW c, NEW old \in Bodies, NEW body \in Bodies
  PROVE  Proposed(c, old, body) \in Bodies
  BY DEF Proposed

\* The result atom changes; an accepted act's body does not.
LEMMA ResultChangesStep ==
  ASSUME MessagesInv, NEW c \in Invocations, ResultChanges(c)
  PROVE  MessagesInv'
  <1>1. PICK v \in Results : /\ result' = [result EXCEPT ![c] = v]
                             /\ proposed' = [proposed EXCEPT ![c] = Proposed(c, @, v)]
    BY DEF ResultChanges
  <1>2. v \in Bodies /\ Proposed(c, proposed[c], v) \in Bodies
    BY ProposedFacts DEF MessagesInv, TypeInv, Bodies
  <1>3. TypeInv'
    BY <1>1, <1>2 DEF ResultChanges, MessagesInv, TypeInv, Invocations
  <1> QED  BY <1>3, QuietStep DEF ResultChanges

\* A reply act is accepted for an obligation, which is an admitted invocation of a thread.
LEMMA AcceptReplyStep ==
  ASSUME MessagesInv, NEW c \in Invocations, AcceptReply(c)
  PROVE  MessagesInv'
  <1>1. TypeInv'
    BY DEF AcceptReply, MessagesInv, TypeInv, Invocations
  <1>2. Holds(journal, c) /\ c.from \in Threads
    BY DEF AcceptReply, Obligation, Admitted, Holds
  <1>3. /\ \A d \in Invocations : act[d] # "none" => act'[d] # "none" /\ reply'[d] = reply[d]
        /\ \A d \in Invocations : act[d] = "none" /\ act'[d] # "none" => d = c
    BY DEF AcceptReply, MessagesInv, TypeInv
  <1> QED  BY <1>1, <1>2, <1>3, QuietStep DEF AcceptReply

\* An act's deadline settles it and leaves its body.
LEMMA TimeOutStep ==
  ASSUME MessagesInv, NEW c \in Invocations, TimeOut(c)
  PROVE  MessagesInv'
  <1>1. TypeInv'
    BY DEF TimeOut, MessagesInv, TypeInv, Invocations
  <1>3. /\ \A d \in Invocations : act[d] # "none" => act'[d] # "none" /\ reply'[d] = reply[d]
        /\ \A d \in Invocations : act[d] = "none" => act'[d] = "none"
    BY DEF TimeOut, MessagesInv, TypeInv
  <1> QED  BY <1>1, <1>3, QuietStep DEF TimeOut

\* A terminal defect touches proposals alone.
LEMMA DieStep ==
  ASSUME MessagesInv, NEW t, Die(t)
  PROVE  MessagesInv'
  <1>1. \A c \in Invocations : MethodResult(result[c], TRUE) \in Bodies
    BY DEF MethodResult, MessagesInv, TypeInv, Bodies
  <1>2. \A c \in Invocations : Proposed(c, proposed[c], MethodResult(result[c], TRUE)) \in Bodies
    BY <1>1 DEF Proposed, MessagesInv, TypeInv
  <1>3. TypeInv'
    BY <1>2 DEF Die, MessagesInv, TypeInv, Invocations
  <1> QED  BY <1>3, QuietStep DEF Die

\* A restart loses what is on its way and keeps acts and bodies.
LEMMA CrashStep ==
  ASSUME MessagesInv, NEW t, Crash(t)
  PROVE  MessagesInv'
  <1>1. \A c \in Invocations : MethodResult(result[c], t \in defect) \in Bodies
    BY DEF MethodResult, MessagesInv, TypeInv, Bodies
  <1>2. \A c \in Invocations : Proposed(c, Unresolved, MethodResult(result[c], t \in defect)) \in Bodies
    BY <1>1 DEF Proposed, Bodies
  <1>3. TypeInv'
    BY <1>2 DEF Crash, Recovered, MessagesInv, TypeInv, Invocations
  <1> QED  BY <1>3, QuietStep DEF Crash, Recovered

-----------------------------------------------------------------------------
(* Admission *)

\* What the four verdicts mean; a cancellation is admitted only with what it names.
LEMMA VerdictFacts ==
  ASSUME NEW m
  PROVE  /\ Verdict(m) \in {"admit", "repeat", "conflict", "refused"}
         /\ Verdict(m) = "admit" =>
              /\ \A i \in DOMAIN journal[m.to] : journal[m.to][i].id # m.id
              /\ m.kind = "cancel" => Names(journal, m)
         /\ Verdict(m) = "repeat" => Holds(journal, m)
         /\ Verdict(m) = "conflict" =>
              ~Holds(journal, m) /\ \E i \in DOMAIN journal[m.to] : journal[m.to][i].id = m.id
         /\ Verdict(m) = "refused" => ~Holds(journal, m) \/ (m.kind = "cancel" /\ ~Names(journal, m))
  BY DEF Verdict, Cancellable, Names, Admitted, Holds, Positions

\* A repeated message is found where it was admitted.
LEMMA RepeatFound ==
  ASSUME MessagesInv, NEW m, m.to \in Threads, Holds(journal, m),
         NEW at, at = CHOOSE i \in Positions(m.to, m.id) : TRUE
  PROVE  at \in DOMAIN journal[m.to] /\ journal[m.to][at] = m /\ at \in Nat /\ at > 0
  <1>1. PICK i \in DOMAIN journal[m.to] : journal[m.to][i] = m
    BY DEF Holds
  <1>2. i \in Positions(m.to, m.id)
    BY <1>1 DEF Positions
  <1>3. at \in Positions(m.to, m.id)
    BY <1>2
  <1>4. at = i
    BY <1>1, <1>3 DEF Positions, MessagesInv, UniqueInv
  <1>5. journal[m.to] \in Seq(Letters)
    BY DEF MessagesInv, TypeInv
  <1>6. i \in 1..Len(journal[m.to]) /\ Len(journal[m.to]) \in Nat
    BY <1>1, <1>5
  <1>7. i \in Nat /\ i > 0
    BY <1>6
  <1> QED  BY <1>1, <1>4, <1>7

\* A reply meets no other message with its identity in its receiver's journal: not a call,
\* which has another identity, and not another reply, whose invocation would be another
\* record of the same thread with the same identity.
LEMMA ReplyMeetsItself ==
  ASSUME OwnIdentities, MessagesInv, NEW m, Origin(m, calls, act, reply), m.kind = "reply",
         NEW i \in DOMAIN journal[m.to], journal[m.to][i].id = m.id
  PROVE  journal[m.to][i] = m
  <1>1. m \notin calls
    BY MessagesAssumption DEF MessagesInv, TypeInv
  <1>2. PICK c \in calls : c.kind = "invoke" /\ act[c] # "none" /\ m = ReplyOf(c, reply[c])
    BY <1>1 DEF Origin
  <1>3. c \in Invocations /\ c \in UNION Scenarios /\ c.to \in Threads
    BY <1>2, MessagesAssumption DEF Invocations, MessagesInv, TypeInv
  <1>4. m.to \in Threads /\ Holds(journal, c)
    BY <1>2, <1>3, ReplyFacts DEF MessagesInv, ActInv
  <1>5. Origin(journal[m.to][i], calls, act, reply)
    BY <1>4 DEF MessagesInv, OriginInv
  <1>6. journal[m.to][i] \notin calls
    <2> SUFFICES ASSUME journal[m.to][i] \in calls PROVE FALSE
      OBVIOUS
    <2>1. journal[m.to][i] \in UNION Scenarios
      BY DEF MessagesInv, TypeInv
    <2>2. m.id = <<"reply", c.to, c.id>>
      BY <1>2, ReplyFacts
    <2> QED  BY <1>3, <2>1, <2>2 DEF OwnIdentities, ReplyId
  <1>7. PICK d \in calls : d.kind = "invoke" /\ act[d] # "none" /\ journal[m.to][i] = ReplyOf(d, reply[d])
    BY <1>5, <1>6 DEF Origin
  <1>8. c.to = d.to /\ c.id = d.id
    BY <1>2, <1>7, ReplyFacts
  <1>9. Holds(journal, d)
    BY <1>7 DEF Invocations, MessagesInv, ActInv
  <1>10. c = d
    BY <1>3, <1>4, <1>8, <1>9 DEF Holds, MessagesInv, UniqueInv
  <1> QED  BY <1>2, <1>7, <1>10

\* The answer to m when nothing is admitted.
LEMMA AnswerStep ==
  ASSUME MessagesInv, NEW m \in wire, Verdict(m) # "admit", Receive(m)
  PROVE  MessagesInv'
  <1> DEFINE at == IF Verdict(m) = "admit" THEN Len(journal[m.to]) + 1
                   ELSE IF Verdict(m) = "repeat" THEN CHOOSE i \in Positions(m.to, m.id) : TRUE
                   ELSE 0
             a == [msg |-> m, position |-> at, conflict |-> Verdict(m) = "conflict"]
  <1>1. /\ wire' = wire \ {m} /\ journal' = journal /\ answers' = answers \cup {a}
        /\ UNCHANGED <<calls, delivered, defect, result, proposed, reply, act, faults>>
    BY DEF Receive
  <1>2. Origin(m, calls, act, reply) /\ m.to \in Threads
    BY OriginFacts DEF MessagesInv, OriginInv
  <1>3. /\ at \in Nat
        /\ at > 0 => at \in DOMAIN journal[m.to] /\ journal[m.to][at] = m
    BY <1>2, VerdictFacts, RepeatFound
  <1>4. OwnIdentities /\ m.kind = "reply" => ~a.conflict
    BY <1>2, VerdictFacts, ReplyMeetsItself DEF Holds
  <1>5. a.msg = m /\ a.position = at
    OBVIOUS
  <1> HIDE DEF at, a
  <1>6. TypeInv'
    BY <1>1 DEF MessagesInv, TypeInv, Invocations
  <1>7. OriginInv'
    BY <1>1, <1>2, <1>5 DEF MessagesInv, OriginInv
  <1>8. ActInv' /\ UniqueInv' /\ CancelInv' /\ DischargedInv' /\ DeliveredInv'
    BY <1>1 DEF MessagesInv, ActInv, DischargedInv, UniqueInv, CancelInv, DeliveredInv, Invocations
  <1>9. ReceiptInv' /\ ConflictInv'
    BY <1>1, <1>3, <1>4, <1>5 DEF MessagesInv, ReceiptInv, ConflictInv
  <1> QED  BY <1>6, <1>7, <1>8, <1>9 DEF MessagesInv

\* Admission of m: one more record, with an identity that was not in the journal.
LEMMA AdmitStep ==
  ASSUME MessagesInv, NEW m \in wire, Verdict(m) = "admit", Receive(m)
  PROVE  MessagesInv'
  <1> DEFINE n == Len(journal[m.to]) + 1
             a == [msg |-> m, position |-> n, conflict |-> FALSE]
  <1>1. /\ wire' = wire \ {m} /\ journal' = [journal EXCEPT ![m.to] = Append(@, m)]
        /\ answers' = answers \cup {a}
        /\ UNCHANGED <<calls, delivered, defect, result, proposed, reply, act, faults>>
    BY DEF Receive
  <1>2. Origin(m, calls, act, reply) /\ m.to \in Threads /\ m \in Letters
    BY OriginFacts DEF MessagesInv, OriginInv
  <1>3. /\ \A i \in DOMAIN journal[m.to] : journal[m.to][i].id # m.id
        /\ m.kind = "cancel" => Names(journal, m)
    BY VerdictFacts
  <1>4. journal \in [Threads -> Seq(Letters)]
    BY DEF MessagesInv, TypeInv
  <1>5. /\ Append(journal[m.to], m) \in Seq(Letters) /\ n \in Nat /\ n > 0
        /\ n \notin DOMAIN journal[m.to]
        /\ DOMAIN Append(journal[m.to], m) = DOMAIN journal[m.to] \cup {n}
        /\ \A i \in DOMAIN journal[m.to] : Append(journal[m.to], m)[i] = journal[m.to][i]
        /\ Append(journal[m.to], m)[n] = m
    BY <1>2, <1>4, AppendFacts
  <1>6. a.msg = m /\ a.position = n /\ ~a.conflict
    OBVIOUS
  <1> HIDE DEF n, a
  <1>7. /\ DOMAIN journal'[m.to] = DOMAIN journal[m.to] \cup {n}
        /\ n \notin DOMAIN journal[m.to]
        /\ journal'[m.to][n] = m
        /\ \A t \in Threads : t # m.to => DOMAIN journal'[t] = DOMAIN journal[t]
        /\ \A t \in Threads : \A i \in DOMAIN journal[t] :
             i \in DOMAIN journal'[t] /\ journal'[t][i] = journal[t][i]
    BY <1>1, <1>2, <1>4, <1>5
  <1>8. \A t \in Threads : \A i \in DOMAIN journal'[t] :
          i \in DOMAIN journal[t] \/ (t = m.to /\ i = n)
    BY <1>7
  <1>9. \A x : x.to \in Threads /\ Holds(journal, x) => Holds(journal', x)
    BY <1>7 DEF Holds
  <1>10. \A x : x.to \in Threads /\ Names(journal, x) => Names(journal', x)
    BY <1>7 DEF Names
  <1>11. \A t \in Threads : \A i \in DOMAIN journal[t] : journal[t][i].to = t
    BY DEF MessagesInv, OriginInv
  <1>12. \A c \in Invocations : c.to \in Threads
    BY MessagesAssumption DEF Invocations, MessagesInv, TypeInv
  <1>13. Invocations' = Invocations
    BY <1>1 DEF Invocations
  <1>14. TypeInv'
    <2>1. journal' \in [Threads -> Seq(Letters)]
      BY <1>1, <1>4, <1>5
    <2> QED  BY <1>1, <1>13, <2>1 DEF MessagesInv, TypeInv
  <1>15. OriginInv'
    <2>1. ASSUME NEW t \in Threads, NEW i \in DOMAIN journal'[t]
          PROVE  Origin(journal'[t][i], calls', act', reply') /\ journal'[t][i].to = t
      BY <1>1, <1>2, <1>7, <1>8 DEF MessagesInv, OriginInv
    <2> QED  BY <1>1, <1>2, <1>6, <2>1 DEF MessagesInv, OriginInv
  <1>16. ActInv'
    BY <1>1, <1>9, <1>12, <1>13 DEF MessagesInv, ActInv
  <1>17. UniqueInv'
    <2> SUFFICES ASSUME NEW t \in Threads, NEW i \in DOMAIN journal'[t], NEW j \in DOMAIN journal'[t],
                        journal'[t][i].id = journal'[t][j].id
                 PROVE  i = j
      BY DEF UniqueInv
    <2> QED  BY <1>3, <1>7, <1>8 DEF MessagesInv, UniqueInv
  <1>18. CancelInv'
    <2> SUFFICES ASSUME NEW t \in Threads, NEW i \in DOMAIN journal'[t], journal'[t][i].kind = "cancel"
                 PROVE  Names(journal', journal'[t][i])
      BY DEF CancelInv
    <2>1. CASE i \in DOMAIN journal[t]
      BY <2>1, <1>7, <1>10, <1>11 DEF MessagesInv, CancelInv
    <2>2. CASE t = m.to /\ i = n
      BY <2>2, <1>2, <1>3, <1>7, <1>10
    <2> QED  BY <1>8, <2>1, <2>2
  <1>19. ReceiptInv' /\ ConflictInv'
    <2>1. \A b \in answers : b.msg.to \in Threads
      BY OriginFacts DEF MessagesInv, OriginInv
    <2>2. ReceiptInv'
      BY <1>1, <1>2, <1>5, <1>6, <1>7, <2>1 DEF MessagesInv, ReceiptInv
    <2>3. ConflictInv'
      BY <1>1, <1>6 DEF MessagesInv, ConflictInv
    <2> QED  BY <2>2, <2>3
  <1>20. DeliveredInv'
    <2> SUFFICES ASSUME NEW c \in Invocations, Holds(journal', c), c.id \in delivered[c.to]
                 PROVE  act[c] # "none" /\ Holds(journal', ReplyOf(c, reply[c]))
      BY <1>1, <1>13 DEF DeliveredInv
    <2>1. Holds(journal, c)
      <3>1. PICK i \in DOMAIN journal[c.to] : journal[c.to][i].id = c.id
        BY <1>12 DEF MessagesInv, DischargedInv
      <3>2. PICK j \in DOMAIN journal'[c.to] : journal'[c.to][j] = c
        BY DEF Holds
      <3>3. ~(c.to = m.to /\ j = n)
        BY <1>3, <1>7, <3>1, <3>2
      <3> QED  BY <1>7, <1>8, <1>12, <3>2, <3>3 DEF Holds
    <2>2. act[c] # "none" /\ Holds(journal, ReplyOf(c, reply[c]))
      BY <2>1 DEF MessagesInv, DeliveredInv
    <2>3. ReplyOf(c, reply[c]).to \in Threads
      BY <2>2, ReplyFacts DEF MessagesInv, ActInv
    <2> QED  BY <1>9, <2>2, <2>3
  <1>21. DischargedInv'
    BY <1>1, <1>7 DEF MessagesInv, DischargedInv
  <1> QED  BY <1>14, <1>15, <1>16, <1>17, <1>18, <1>19, <1>20, <1>21 DEF MessagesInv

-----------------------------------------------------------------------------
(* Theorems *)

\* Every step keeps the invariant.
LEMMA NextInv == MessagesInv /\ [Next]_vars => MessagesInv'
  <1> SUFFICES ASSUME MessagesInv, [Next]_vars PROVE MessagesInv'
    OBVIOUS
  <1>1. ASSUME NEW c \in calls, Send(c) PROVE MessagesInv'
    BY <1>1, SendStep DEF Send, Origin
  <1>2. ASSUME NEW m \in wire, Receive(m) PROVE MessagesInv'
    BY <1>2, AnswerStep, AdmitStep
  <1>3. ASSUME NEW a \in answers, Hear(a) PROVE MessagesInv'
    BY <1>3, HearStep
  <1>4. ASSUME NEW m, Lose(m) PROVE MessagesInv'
    BY <1>4, LoseStep
  <1>5. ASSUME NEW c \in Invocations, SendReply(c) PROVE MessagesInv'
    <2>1. Origin(Reply(c), calls, act, reply) /\ Transmit(Reply(c))
      BY <1>5, ReplyIs DEF SendReply, Origin, Invocations
    <2> QED  BY <2>1, SendStep
  <1>6. ASSUME NEW c \in Invocations, ResultChanges(c) \/ AcceptReply(c) \/ TimeOut(c) PROVE MessagesInv'
    BY <1>6, ResultChangesStep, AcceptReplyStep, TimeOutStep
  <1>7. ASSUME NEW t, Die(t) \/ Crash(t) PROVE MessagesInv'
    BY <1>7, DieStep, CrashStep
  <1>8. CASE UNCHANGED vars
    <2>1. TypeInv'
      BY <1>8 DEF vars, MessagesInv, TypeInv, Invocations
    <2> QED  BY <1>8, <2>1, QuietStep DEF vars
  <1> QED  BY <1>1, <1>2, <1>3, <1>4, <1>5, <1>6, <1>7, <1>8 DEF Next

\* In every reachable state messages have an origin, reply acts an admitted invocation
\* and discharges an admitted reply (receive and messageReplies of runtime/messages.ts).
THEOREM MessagesAreConsistent == Spec => []MessagesInv
  BY InitInv, NextInv, PTL DEF Spec

\* receive admits an identity once and its receipts name that record, for any number of
\* threads, calls, losses and restarts.
THEOREM AdmissionIsIdempotent == Spec => []AdmittedOnce
  <1>1. ASSUME MessagesInv PROVE AdmittedOnce
    <2>1. \A a \in answers : a.position > 0 => journal[a.msg.to][a.position] = a.msg
      BY <1>1 DEF MessagesInv, ReceiptInv
    <2>2. \A t \in Threads : \A i \in DOMAIN journal[t] : Positions(t, journal[t][i].id) = {i}
      BY <1>1 DEF MessagesInv, UniqueInv, Positions
    <2> QED  BY <2>1, <2>2 DEF AdmittedOnce
  <1> QED  BY <1>1, MessagesAreConsistent, PTL

\* A reply that receive admits carries the body recorded when its act was accepted, an
\* obligation is discharged only with that reply admitted, and no reply is a conflict, as
\* long as no caller takes the identity of a reply for a call of its own.
THEOREM RepliesAreFaithful ==
  ASSUME OwnIdentities
  PROVE  Spec => []ReplyFaithful
  <1>1. ASSUME MessagesInv PROVE ReplyFaithful
    <2>1. ASSUME NEW c \in Invocations, Admitted(c), c.id \in delivered[c.to] PROVE Admitted(Reply(c))
      <3>1. Holds(journal, ReplyOf(c, reply[c]))
        BY <1>1, <2>1 DEF MessagesInv, DeliveredInv, Holds, Admitted
      <3> QED  BY <3>1, ReplyIs DEF Holds, Admitted
    <2>2. ASSUME NEW t \in Threads, NEW i \in DOMAIN journal[t], journal[t][i].kind = "reply"
          PROVE  \E c \in Invocations : Admitted(c) /\ c.from = t /\ journal[t][i] = Reply(c)
      <3>1. Origin(journal[t][i], calls, act, reply) /\ journal[t][i].to = t
        BY <1>1 DEF MessagesInv, OriginInv
      <3>2. journal[t][i] \notin calls
        BY <1>1, <2>2, MessagesAssumption DEF MessagesInv, TypeInv
      <3>3. PICK c \in calls : c.kind = "invoke" /\ act[c] # "none" /\ journal[t][i] = ReplyOf(c, reply[c])
        BY <3>1, <3>2 DEF Origin
      <3>4. c \in Invocations /\ Admitted(c)
        BY <1>1, <3>3 DEF Invocations, MessagesInv, ActInv, Holds, Admitted
      <3> QED  BY <3>1, <3>3, <3>4, ReplyIs, ReplyFacts
    <2>3. \A a \in answers : a.msg.kind = "reply" => ~a.conflict
      BY <1>1, OwnIdentities DEF MessagesInv, ConflictInv
    <2> QED  BY <2>1, <2>2, <2>3 DEF ReplyFaithful
  <1> QED  BY <1>1, MessagesAreConsistent, PTL

\* receive checks a repeated message before it looks at the thread's defect: a sender of an
\* admitted message gets its position again, after any losses, also from a dead thread.
THEOREM AdmittedAreAcknowledged == Spec => AdmittedIsAcknowledged
  <1>1. ASSUME MessagesInv, [Next]_vars
        PROVE  \A a \in answers' \ answers : Admitted(a.msg) => a.position > 0
    <2>1. ASSUME NEW m \in wire, Receive(m), NEW a \in answers' \ answers, Admitted(a.msg)
          PROVE  a.position > 0
      <3>1. /\ a.msg = m
            /\ Verdict(m) = "repeat" => a.position = CHOOSE i \in Positions(m.to, m.id) : TRUE
        BY <2>1 DEF Receive
      <3>2. m.to \in Threads /\ Holds(journal, m)
        BY <1>1, <2>1, <3>1, OriginFacts DEF MessagesInv, OriginInv, Admitted, Holds
      <3>3. m.kind = "cancel" => Names(journal, m)
        BY <1>1, <3>2 DEF MessagesInv, CancelInv, Holds
      <3>4. Verdict(m) = "repeat"
        BY <3>2, <3>3, VerdictFacts DEF Holds
      <3> QED  BY <1>1, <3>1, <3>2, <3>4, RepeatFound
    <2>2. ASSUME ~\E m \in wire : Receive(m) PROVE answers' \subseteq answers
      BY <1>1, <2>2
      DEF Next, vars, Send, SendReply, Transmit, Hear, Lose, ResultChanges, AcceptReply,
          TimeOut, Die, Crash
    <2> QED  BY <2>1, <2>2
  <1>2. MessagesInv /\ [Next]_vars => [\A a \in answers' \ answers : Admitted(a.msg) => a.position > 0]_vars
    BY <1>1
  <1> QED  BY <1>2, MessagesAreConsistent, PTL DEF Spec, AdmittedIsAcknowledged
============================================================================
