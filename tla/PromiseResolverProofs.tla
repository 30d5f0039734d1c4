----------------------- MODULE PromiseResolverProofs -----------------------
(***************************************************************************)
(* For every set of promises and executions, every policy and every bound: *)
(* a thread is told one outcome of a promise, a cancelled promise stays    *)
(* cancelled, the alarm is never later than what is stored, and the        *)
(* deadline decides between a result and a timeout.                        *)
(***************************************************************************)
EXTENDS PromiseResolver, FiniteSetTheorems, WellFoundedInduction, TLAPS

\* A nonempty set of natural numbers has a least element.
LEMMA LeastExists ==
    ASSUME NEW S, S \subseteq Nat, S # {}
    PROVE  \E x \in S : \A y \in S : x <= y
<1>1. PICK x \in S : \A y \in S : ~(<<y, x>> \in OpToRel(<, Nat))
  BY NatLessThanWellFounded, WFMin
<1>2. ASSUME NEW y \in S PROVE x <= y
  <2>1. x \in Nat /\ y \in Nat /\ ~(y < x)
    BY <1>1 DEF OpToRel
  <2> QED
    BY <2>1
<1> QED
  BY <1>2

\* Remaining times are numbers; Unset lies outside them.
LEMMA TimesAreNat == Times \subseteq Nat /\ Unset \in Nat /\ MaxTime \in Nat /\ Unset \notin Times
<1>1. MaxTime \in Nat
  BY ResolverAssumption DEF MaxTime
<1> QED
  BY <1>1 DEF Times, Unset

\* The configured delays are times a job may be given.
LEMMA PolicyTimes ==
    /\ Retention \in Times /\ PollInterval \in Times /\ RetryInterval \in Times
    /\ \A at \in 0 .. MaxClock : at + Timeout \in Times
  BY ResolverAssumption DEF Times, MaxTime

\* Jobs, buffers and receipts, field by field.
IsTime(t) == t \in Times \cup {Unset}

IsJob(j) ==
    /\ DOMAIN j = {"status", "next", "settlement", "polling"}
    /\ j.status \in {"none", "live", "done"} /\ IsTime(j.next)
    /\ j = NoJob <=> j.status = "none"

StoredOK ==
    /\ DOMAIN jobs = Refs /\ \A r \in Refs : IsJob(jobs[r])
    /\ DOMAIN incoming = Handles /\ \A h \in Handles : /\ "expires" \in DOMAIN incoming[h]
                                                       /\ IsTime(incoming[h].expires)
    /\ DOMAIN receipts = Ids /\ \A n \in Ids : IsTime(receipts[n])

Covered ==
    /\ \A r \in Refs : alarm <= jobs[r].next
    /\ \A h \in Handles : alarm <= incoming[h].expires
    /\ \A n \in Ids : alarm <= receipts[n]

\* schedule sets the alarm to the earliest time stored, whatever is stored.
LEMMA ScheduleCovers ==
    ASSUME StoredOK', schedule
    PROVE  IsTime(alarm') /\ Covered'
<1> DEFINE times == {jobs'[r].next : r \in Refs} \cup {incoming'[h].expires : h \in Handles}
                    \cup {receipts'[n] : n \in Ids}
           P(t) == \A u \in times : t <= u
<1>1. times \subseteq Times \cup {Unset}
  BY DEF StoredOK, IsJob, IsTime
<1>2. alarm' = CHOOSE t \in times \cup {Unset} : P(t)
  BY DEF schedule
<1>3. \E t \in times \cup {Unset} : P(t)
  <2>1. times \cup {Unset} \subseteq Nat /\ times \cup {Unset} # {}
    BY <1>1, TimesAreNat
  <2> HIDE DEF times
  <2> QED
    BY <2>1, LeastExists
<1>4. alarm' \in times \cup {Unset} /\ P(alarm')
  <2> HIDE DEF P, times
  <2> QED
    BY <1>2, <1>3
<1> QED
  BY <1>1, <1>4 DEF Covered, IsTime

-----------------------------------------------------------------------------
(* What the operators on jobs and buffers return *)

\* An absent job, field by field.
LEMMA NoJobFields == IsJob(NoJob) /\ NoJob.status = "none" /\ NoJob.next = Unset
  BY DEF NoJob, IsJob, IsTime

\* A finished job, as cancel and a delivery leave it.
LEMMA DoneJob ==
    ASSUME NEW j, j = [NoJob EXCEPT !.status = "done", !.next = Retention]
    PROVE  IsJob(j) /\ j.status = "done"
  BY PolicyTimes DEF NoJob, IsJob, IsTime

\* A change of its time changes nothing else of a job.
LEMMA RetimedJob ==
    ASSUME NEW j, IsJob(j), j # NoJob, NEW t, IsTime(t)
    PROVE  LET f == [j EXCEPT !.next = t]
           IN  IsJob(f) /\ f.status = j.status /\ f.settlement = j.settlement
  BY NoJobFields DEF IsJob

\* A completion keeps a job's status, and a settlement that is not refused as a
\* conflict never replaces another.
LEMMA CompletedKeeps ==
    ASSUME StoredOK, NEW r \in Refs, NEW v, ~Conflict(Handle[r], v), NEW j, j = Completed(r, v)
    PROVE  /\ IsJob(j) /\ j.status = jobs[r].status
           /\ Live(r) /\ jobs[r].settlement # NoResult => j.settlement = jobs[r].settlement
<1>0. IsJob(jobs[r]) /\ IsTime(0)
  BY TimesAreNat DEF StoredOK, IsTime, Times
<1>1. CASE Expired(r)
  <2>1. ~Open(r)
    BY <1>1 DEF Expired, Open
  <2>2. j = [jobs[r] EXCEPT !.next = 0, !.settlement = TimedOut]
    BY <1>1, <2>1, Zenon DEF Completed
  <2>3. jobs[r].settlement = NoResult /\ jobs[r].status = "live"
    BY <1>1 DEF Expired, Live
  <2> QED
    BY <1>0, <2>2, <2>3, NoJobFields DEF IsJob
<1>2. CASE Open(r) /\ ~Expired(r)
  <2> DEFINE b == jobs[r].polling \/ v = NoResult
             x == IF v = NoResult THEN jobs[r].settlement ELSE v
  <2>1. j = [jobs[r] EXCEPT !.next = 0, !.polling = b, !.settlement = x]
    BY <1>2, Zenon DEF Completed
  <2>2. jobs[r].status = "live"
    BY <1>2 DEF Open, Live
  <2>3. jobs[r].settlement # NoResult => x = jobs[r].settlement
    BY <1>2 DEF Conflict, RefsOf
  <2> HIDE DEF b, x
  <2>4. /\ DOMAIN j = DOMAIN jobs[r] /\ j.status = jobs[r].status /\ j.next = 0
        /\ j.settlement = x
    BY <1>0, <2>1 DEF IsJob
  <2> QED
    BY <1>0, <2>2, <2>3, <2>4, NoJobFields DEF IsJob
<1>3. CASE ~Open(r) /\ ~Expired(r)
  <2>1. j = jobs[r]
    BY <1>3, Zenon DEF Completed
  <2> QED
    BY <1>0, <2>1
<1> QED
  BY <1>1, <1>2, <1>3

\* A buffer the resolver writes has a time to expire.
LEMMA BufferTime ==
    ASSUME StoredOK, NEW h \in Handles, NEW v
    PROVE  "expires" \in DOMAIN Buffer(h, v) /\ IsTime(Buffer(h, v).expires)
  BY PolicyTimes DEF Buffer, StoredOK, IsTime

-----------------------------------------------------------------------------
(* The inductive invariant *)

ResolverTypes ==
    /\ StoredOK /\ IsTime(alarm)
    /\ DOMAIN due = Refs /\ \A r \in Refs : IsTime(due[r])
    /\ \A s \in todo : DOMAIN s = {"ref", "job"} /\ s.ref \in Refs
    /\ \A p \in visit : DOMAIN p = {"ref", "job", "answer"} /\ p.ref \in Refs
    /\ DOMAIN answers = Refs /\ withdrawn \subseteq Refs

\* Fire spends the alarm, and the first transaction of the run, or of anyone else, sets
\* it again.
CoverInv == run # "started" \/ alarm # Unset => Covered

\* The settlement of a waiting job is final once the thread was told it, and the answer
\* in the run's hands is that settlement, or its promise was cancelled meanwhile.
AnswerInv ==
    /\ CancelHolds
    /\ \A r \in Refs : \A x, y \in answers[r] : x = y
    /\ \A r \in Refs : Live(r) =>
         \A x \in answers[r] : x = jobs[r].settlement /\ x # NoResult
    /\ \A p, q \in visit : p = q
    /\ run \in {"delivering", "delivered"} =>
         \A p \in visit :
           /\ p.answer # NoResult /\ \A x \in answers[p.ref] : x = p.answer
           /\ Live(p.ref) => jobs[p.ref].settlement = p.answer
           /\ Live(p.ref) \/ p.ref \in withdrawn

ResolverInv == ResolverTypes /\ CoverInv /\ AnswerInv

\* What nearly every step does to jobs: it makes none live and changes no settlement.
Keeps ==
    \A r \in Refs :
      Live(r)' => /\ Live(r)
                  /\ jobs[r].settlement # NoResult => jobs'[r].settlement = jobs[r].settlement

\* Such a step preserves AnswerInv if it leaves the answer in the run's hands alone.
LEMMA AnswersKept ==
    ASSUME ResolverTypes, AnswerInv, Keeps, UNCHANGED <<answers, withdrawn>>,
           \A p, q \in visit' : p = q,
           \/ run' \notin {"delivering", "delivered"}
           \/ UNCHANGED <<run, visit>> /\ \A r \in Refs : Live(r) => Live(r)'
    PROVE  AnswerInv'
<1>1. CancelHolds'
  BY DEF ResolverTypes, AnswerInv, CancelHolds, Keeps
<1>2. \A r \in Refs : Live(r)' => \A x \in answers'[r] : x = jobs'[r].settlement /\ x # NoResult
  BY DEF AnswerInv, Keeps
<1>3. run' \in {"delivering", "delivered"} =>
         \A p \in visit' :
           /\ p.answer # NoResult /\ \A x \in answers'[p.ref] : x = p.answer
           /\ Live(p.ref)' => jobs'[p.ref].settlement = p.answer
           /\ Live(p.ref)' \/ p.ref \in withdrawn'
  BY DEF AnswerInv, Keeps, ResolverTypes
<1> QED
  BY <1>1, <1>2, <1>3 DEF AnswerInv, Live

\* schedule makes the alarm cover what the transaction has stored.
LEMMA Scheduled ==
    ASSUME StoredOK', schedule
    PROVE  IsTime(alarm') /\ CoverInv'
  BY ScheduleCovers DEF CoverInv

\* update leaves a well-formed job and touches no other.
LEMMA UpdateKeeps ==
    ASSUME StoredOK, NEW r \in Refs, NEW j, update(r, j), UNCHANGED <<incoming, receipts>>,
           Live(r) => IsJob(j),
           Live(r) /\ j.status = "live" /\ jobs[r].settlement # NoResult =>
             j.settlement = jobs[r].settlement
    PROVE  /\ StoredOK' /\ Keeps
           /\ j.status = "live" => \A x \in Refs : Live(x) => Live(x)'
  BY DEF StoredOK, update, Keeps, Live

\* The times the handlers compute are times again.
LEMMA TimesClosed ==
    /\ IsTime(0) /\ IsTime(Retention) /\ IsTime(PollInterval) /\ IsTime(RetryInterval)
    /\ \A a, b : IsTime(a) /\ IsTime(b) => IsTime(Earlier(a, b))
    /\ \A a : IsTime(a) => IsTime(Sooner(a)) /\ Sooner(a) \in Nat /\ a \in Nat
    /\ \A a, b : IsTime(a) /\ IsTime(b) /\ a <= b => Sooner(a) <= Sooner(b)
  BY TimesAreNat, PolicyTimes DEF IsTime, Earlier, Sooner, Times, Unset

\* accept leaves jobs and buffers well-formed, ends no live job and changes no settlement.
LEMMA AcceptKeeps ==
    ASSUME StoredOK, NEW h \in Handles, NEW v, accept(h, v)
    PROVE  /\ DOMAIN jobs' = Refs /\ \A r \in Refs : IsJob(jobs'[r])
           /\ DOMAIN incoming' = Handles
           /\ \A x \in Handles : "expires" \in DOMAIN incoming'[x] /\ IsTime(incoming'[x].expires)
           /\ Keeps /\ \A r \in Refs : Live(r) => Live(r)'
<1>1. ASSUME NEW r \in Refs
      PROVE  /\ IsJob(jobs'[r]) /\ jobs'[r].status = jobs[r].status
             /\ Live(r) /\ jobs[r].settlement # NoResult => jobs'[r].settlement = jobs[r].settlement
  <2>1. CASE Handle[r] = h
    <3>1. jobs'[r] = Completed(r, v) /\ ~Conflict(Handle[r], v)
      BY <2>1 DEF accept
    <3> QED
      BY <3>1, CompletedKeeps
  <2>2. CASE Handle[r] # h
    BY <2>2 DEF accept, StoredOK
  <2> QED
    BY <2>1, <2>2
<1>2. DOMAIN jobs' = Refs /\ DOMAIN incoming' = Handles
  BY DEF accept, StoredOK
<1>3. \A x \in Handles : "expires" \in DOMAIN incoming'[x] /\ IsTime(incoming'[x].expires)
  BY BufferTime DEF accept, StoredOK
<1> QED
  BY <1>1, <1>2, <1>3 DEF Keeps, Live

\* discard forgets what has expired, but no live job, and revives nothing.
LEMMA DiscardKeeps ==
    ASSUME StoredOK, discard
    PROVE  StoredOK' /\ Keeps /\ \A r \in Refs : Live(r) => Live(r)'
<1>1. ASSUME NEW h \in Handles
      PROVE  "expires" \in DOMAIN incoming'[h] /\ IsTime(incoming'[h].expires)
  <2>0. "expires" \in DOMAIN incoming[h] /\ IsTime(incoming[h].expires)
    BY DEF StoredOK
  <2>1. CASE incoming'[h] = NoIncoming
    BY <2>1 DEF NoIncoming, IsTime
  <2>2. CASE incoming'[h] = incoming[h]
    BY <2>0, <2>2
  <2>3. CASE incoming'[h] =
               [incoming[h] EXCEPT !.result = NoResult, !.late = {}, !.notified = FALSE]
    BY <2>0, <2>3
  <2> QED
    BY <2>1, <2>2, <2>3 DEF discard, Discarded
<1>2. DOMAIN incoming' = Handles
  BY DEF discard
<1>3. DOMAIN receipts' = Ids /\ \A n \in Ids : IsTime(receipts'[n])
  BY DEF discard, StoredOK, IsTime
<1>4. DOMAIN jobs' = Refs /\ \A r \in Refs : IsJob(jobs'[r])
  BY NoJobFields DEF discard, StoredOK
<1>5. \A r \in Refs : (Live(r)' <=> Live(r)) /\ (Live(r) => jobs'[r] = jobs[r])
  BY NoJobFields DEF discard, Live
<1> QED
  BY <1>1, <1>2, <1>3, <1>4, <1>5 DEF StoredOK, Keeps

\* A resolver starts consistent.
LEMMA ResolverInit == Init => ResolverInv
  BY NoJobFields, TimesAreNat
  DEF Init, ResolverInv, ResolverTypes, StoredOK, IsTime, CoverInv, Covered, AnswerInv, CancelHolds,
      Live, NoIncoming

\* A registration makes a job of a promise that was neither cancelled nor answered.
LEMMA NewJobFields ==
    ASSUME ResolverTypes, NEW r \in Refs
    PROVE  IsJob(NewJob(r)) /\ NewJob(r).status = "live"
<1>1. IsTime(due[r]) /\ IsTime(ClockAt(r))
  BY TimesAreNat, ResolverAssumption DEF ResolverTypes, ClockAt, IsTime, Times, Unset
<1>2. IsTime(NewJob(r).next)
  BY <1>1, TimesClosed DEF NewJob
<1> QED
  BY <1>2, NoJobFields DEF NewJob, IsJob

\* Every step keeps the resolver consistent, action by action.
LEMMA ResolverStep == ResolverInv /\ [Next]_vars => ResolverInv'
<1> SUFFICES ASSUME ResolverInv, [Next]_vars PROVE ResolverInv'
  OBVIOUS
<1>0. /\ ResolverTypes /\ CoverInv /\ AnswerInv /\ StoredOK
      /\ \A r \in Refs : IsJob(jobs[r]) /\ IsTime(due[r]) /\ (Live(r) => jobs[r] # NoJob)
      /\ \A p \in visit : p.ref \in Refs
      /\ \A s \in todo : s.ref \in Refs
      /\ \A p, q \in visit : p = q
  BY NoJobFields DEF ResolverInv, ResolverTypes, StoredOK, AnswerInv, Live
<1>1. ASSUME NEW r \in Refs, NEW at \in 0 .. MaxClock, promiseDeadline(r, at) PROVE ResolverInv'
  <2>1. IsTime(at + Timeout)
    BY PolicyTimes DEF IsTime
  <2>2. ResolverTypes'
    BY <1>0, <1>1, <2>1 DEF promiseDeadline, stored, handler, history, ResolverTypes, StoredOK
  <2>3. CoverInv' /\ AnswerInv'
    BY <1>0, <1>1 DEF promiseDeadline, stored, handler, history, CoverInv, Covered, AnswerInv,
       CancelHolds, Live
  <2> QED
    BY <2>2, <2>3 DEF ResolverInv
<1>2. ASSUME NEW r \in Refs, watch(r) PROVE ResolverInv'
  <2>1. /\ jobs'[r] = IF jobs[r] = NoJob THEN NewJob(r) ELSE jobs[r]
        /\ \A x \in Refs \ {r} : jobs'[x] = jobs[x]
        /\ UNCHANGED <<due, incoming, receipts, handler, answers, withdrawn>> /\ schedule
        /\ jobs[r] = NoJob => r \notin withdrawn /\ answers[r] = {}
    BY <1>0, <1>2 DEF recorded, watch, history, StoredOK
  <2>2. StoredOK'
    BY <1>0, <1>2, <2>1, NewJobFields DEF watch, StoredOK
  <2>3. ResolverTypes' /\ CoverInv'
    BY <1>0, <2>1, <2>2, Scheduled DEF ResolverTypes, handler
  <2>4. AnswerInv'
    BY <1>0, <2>1 DEF AnswerInv, CancelHolds, ResolverTypes, Live, handler
  <2> QED
    BY <2>3, <2>4 DEF ResolverInv
<1>3. ASSUME NEW r \in Refs, cancel(r) PROVE ResolverInv'
  <2>1. /\ IsJob(jobs'[r]) /\ jobs'[r].status = "done" /\ \A x \in Refs \ {r} : jobs'[x] = jobs[x]
        /\ DOMAIN jobs' = Refs
        /\ UNCHANGED <<due, incoming, receipts, handler, answers>> /\ schedule
        /\ withdrawn' = withdrawn \cup {r}
    BY <1>0, <1>3, DoneJob DEF recorded, cancel, StoredOK
  <2>2. StoredOK'
    BY <1>0, <2>1 DEF StoredOK
  <2>3. ResolverTypes' /\ CoverInv'
    BY <1>0, <2>1, <2>2, Scheduled DEF ResolverTypes, handler
  <2>4. AnswerInv'
    BY <1>0, <2>1 DEF AnswerInv, CancelHolds, ResolverTypes, Live, handler
  <2> QED
    BY <2>3, <2>4 DEF ResolverInv
<1>4. ASSUME NEW r \in Refs, CancelDiscard(r) PROVE ResolverInv'
  <2>1. discard /\ UNCHANGED <<due, run, todo, visit, answers, withdrawn>>
    BY <1>4 DEF recorded, CancelDiscard, handler, history
  <2> QED
    BY <1>0, <2>1, DiscardKeeps, AnswersKept, Scheduled DEF discard, ResolverInv, ResolverTypes
<1>5. ASSUME NEW h \in Handles, NEW v, accept(h, v), schedule,
             \/ UNCHANGED receipts
             \/ \E n \in Ids : receipts' = [receipts EXCEPT ![n] = Retention],
             \/ UNCHANGED <<run, todo, visit>>
             \/ run' = "settled" /\ UNCHANGED <<todo, visit>>,
             UNCHANGED <<due, answers, withdrawn>>
      PROVE  ResolverInv'
  <2>1. DOMAIN receipts' = Ids /\ \A n \in Ids : IsTime(receipts'[n])
    BY <1>0, <1>5, TimesClosed DEF StoredOK
  <2>2. StoredOK' /\ Keeps /\ \A r \in Refs : Live(r) => Live(r)'
    BY <1>0, <1>5, <2>1, AcceptKeeps DEF StoredOK
  <2>3. ResolverTypes' /\ CoverInv'
    BY <1>0, <1>5, <2>2, Scheduled DEF ResolverTypes
  <2>4. AnswerInv'
    BY <1>0, <1>5, <2>2, AnswersKept
  <2> QED
    BY <2>3, <2>4 DEF ResolverInv
<1>6. ASSUME NEW h \in Handles, NEW v \in Values, complete(h, v) PROVE ResolverInv'
  BY <1>5, <1>6 DEF recorded, complete, handler
<1>7. ASSUME NEW n \in Ids, NEW h \in Handles, NEW v \in Values \cup {NoResult}, webhook(n, h, v)
      PROVE  ResolverInv'
  BY <1>5, <1>7 DEF recorded, webhook, handler
<1>8. ASSUME UNCHANGED <<due, jobs, incoming, receipts, answers, withdrawn>>,
             \/ UNCHANGED alarm /\ (run' # "started" => run # "started")
             \/ Covered' /\ IsTime(alarm')
             \/ run' = "started" /\ alarm' = Unset,
             \A s \in todo' : DOMAIN s = {"ref", "job"} /\ s.ref \in Refs,
             \A p \in visit' : DOMAIN p = {"ref", "job", "answer"} /\ p.ref \in Refs,
             \A p, q \in visit' : p = q,
             run' \notin {"delivering", "delivered"}
      PROVE  ResolverInv'
  <2>1. ResolverTypes'
    BY <1>0, <1>8 DEF ResolverTypes, StoredOK, IsTime
  <2>2. CoverInv'
    BY <1>0, <1>8 DEF CoverInv, Covered
  <2>3. Keeps
    BY <1>8 DEF Keeps, Live
  <2>4. AnswerInv'
    BY <1>0, <1>8, <2>3, AnswersKept
  <2> QED
    BY <2>1, <2>2, <2>4 DEF ResolverInv
<1>9. ASSUME Fire PROVE ResolverInv'
  BY <1>0, <1>8, <1>9 DEF recorded, Fire, Quiet, stored, history, ResolverTypes
<1>10. ASSUME discard, UNCHANGED <<due, todo, visit, answers, withdrawn>>,
              run' \notin {"delivering", "delivered"}
       PROVE  ResolverInv'
  <2>1. StoredOK' /\ Keeps
    BY <1>0, <1>10, DiscardKeeps
  <2>2. ResolverTypes' /\ CoverInv'
    BY <1>0, <1>10, <2>1, Scheduled DEF discard, ResolverTypes
  <2>3. AnswerInv'
    BY <1>0, <1>10, <2>1, AnswersKept
  <2> QED
    BY <2>2, <2>3 DEF ResolverInv
<1>11. ASSUME FirstDiscard \/ LastDiscard PROVE ResolverInv'
  BY <1>10, <1>11 DEF recorded, FirstDiscard, LastDiscard, Quiet, history
<1>12. ASSUME List PROVE ResolverInv'
  BY <1>0, <1>8, <1>12 DEF recorded, List, Quiet, stored, history, ResolverTypes
<1>13. ASSUME NEW s \in todo, Skip(s) PROVE ResolverInv'
  BY <1>0, <1>8, <1>13 DEF recorded, Skip, Quiet, stored, history, ResolverTypes
<1>14. ASSUME NEW r \in Refs, NEW j, update(r, j), UNCHANGED <<incoming, receipts>>,
              Live(r) => IsJob(j),
              Live(r) /\ j.status = "live" /\ jobs[r].settlement # NoResult =>
                j.settlement = jobs[r].settlement,
              schedule, UNCHANGED <<due, answers, withdrawn>>, todo' \subseteq todo,
              \A p \in visit' : DOMAIN p = {"ref", "job", "answer"} /\ p.ref \in Refs,
              \A p, q \in visit' : p = q,
              run' \notin {"delivering", "delivered"}
       PROVE  ResolverInv'
  <2>1. StoredOK' /\ Keeps
    BY <1>0, <1>14, UpdateKeeps
  <2>2. ResolverTypes' /\ CoverInv'
    BY <1>0, <1>14, <2>1, Scheduled DEF ResolverTypes
  <2>3. AnswerInv'
    BY <1>0, <1>14, <2>1, AnswersKept
  <2> QED
    BY <2>2, <2>3 DEF ResolverInv
<1>15. ASSUME NEW r \in Refs, Live(r)
       PROVE  /\ IsJob(Postponed(r)) /\ Postponed(r).settlement = jobs[r].settlement
              /\ jobs[r].settlement = NoResult =>
                   IsJob([jobs[r] EXCEPT !.next = 0, !.settlement = TimedOut])
  <2>1. IsTime(Later(r)) /\ IsTime(0)
    BY <1>0, TimesClosed DEF Later
  <2> QED
    BY <1>0, <1>15, <2>1, NoJobFields DEF IsJob, Postponed, Live
<1>16. ASSUME NEW s \in todo, Begin(s) PROVE ResolverInv'
  <2>1. \A p \in visit' : DOMAIN p = {"ref", "job", "answer"} /\ p.ref \in Refs
    BY <1>0, <1>16 DEF Begin
  <2> QED
    BY <1>0, <1>14, <1>15, <1>16, <2>1 DEF recorded, Begin, Quiet, history
<1>17. ASSUME NEW p \in visit, Expire(p) PROVE ResolverInv'
  <2> DEFINE r == p.ref
             j == IF jobs[r].settlement # NoResult THEN jobs[r]
                  ELSE [jobs[r] EXCEPT !.next = 0, !.settlement = TimedOut]
  <2>1. r \in Refs /\ (Live(r) => IsJob(j))
    BY <1>0, <1>15
  <2>2. jobs[r].settlement # NoResult => j.settlement = jobs[r].settlement
    OBVIOUS
  <2>3. update(r, j)
    BY <1>17 DEF Expire
  <2> HIDE DEF j
  <2> QED
    BY <1>0, <1>14, <1>17, <2>1, <2>2, <2>3 DEF recorded, Expire, Quiet, history, ResolverTypes
<1>18. ASSUME NEW p \in visit, Poll(p) \/ PollFails(p) \/ DeliverFails(p) PROVE ResolverInv'
  BY <1>0, <1>8, <1>18 DEF recorded, Poll, PollFails, DeliverFails, Quiet, stored, history,
     ResolverTypes
<1>19. ASSUME NEW p \in visit, PollPending(p) PROVE ResolverInv'
  <2> DEFINE r == p.ref
             t == IF jobs[r].settlement # NoResult THEN 0
                  ELSE IF Push(r, jobs[r].polling) THEN due[r]
                  ELSE Earlier(due[r], PollInterval)
             j == [jobs[r] EXCEPT !.next = t]
  <2>1. r \in Refs /\ IsTime(t)
    BY <1>0, TimesClosed
  <2>2. update(r, j)
    BY <1>19 DEF PollPending
  <2> HIDE DEF t
  <2>3. Live(r) => IsJob(j) /\ j.settlement = jobs[r].settlement
    BY <1>0, <2>1, RetimedJob
  <2> HIDE DEF j
  <2> QED
    BY <1>0, <1>14, <1>19, <2>1, <2>2, <2>3 DEF recorded, PollPending, Quiet, history, ResolverTypes
<1>20. ASSUME NEW p \in visit, NEW v \in Values, PollReturns(p, v) PROVE ResolverInv'
  <2>1. Handle[p.ref] \in Handles
    BY <1>0, ResolverAssumption
  <2> QED
    BY <1>5, <1>20, <2>1 DEF recorded, PollReturns
<1>21. ASSUME NEW p \in visit, ReadLatest(p) PROVE ResolverInv'
  <2>1. CASE jobs[p.ref].status # "live" \/ jobs[p.ref].settlement = NoResult
    BY <1>0, <1>8, <1>21, <2>1 DEF recorded, ReadLatest, Quiet, stored, history, ResolverTypes
  <2>2. CASE ~(jobs[p.ref].status # "live" \/ jobs[p.ref].settlement = NoResult)
    <3>1. /\ run' = "delivering" /\ visit' = {[p EXCEPT !.answer = jobs[p.ref].settlement]}
          /\ run = "settled" /\ UNCHANGED <<due, jobs, incoming, receipts, alarm, todo, answers, withdrawn>>
      BY <1>21, <2>2 DEF recorded, ReadLatest, Quiet, stored, history
    <3>2. \A q \in visit' : /\ DOMAIN q = {"ref", "job", "answer"} /\ q.ref = p.ref
                            /\ q.answer = jobs[p.ref].settlement
      BY <1>0, <3>1 DEF ResolverTypes
    <3>3. ResolverTypes'
      BY <1>0, <3>1, <3>2 DEF ResolverTypes, StoredOK
    <3>4. CoverInv'
      BY <1>0, <3>1 DEF CoverInv, Covered
    <3>5. AnswerInv'
      BY <1>0, <2>2, <3>1, <3>2 DEF AnswerInv, CancelHolds, Live
    <3> QED
      BY <3>3, <3>4, <3>5 DEF ResolverInv
  <2> QED
    BY <2>1, <2>2
<1>22. ASSUME NEW p \in visit, Deliver(p) PROVE ResolverInv'
  <2>1. /\ run = "delivering" /\ run' = "delivered"
        /\ answers'[p.ref] = answers[p.ref] \cup {p.answer}
        /\ \A r \in Refs \ {p.ref} : answers'[r] = answers[r]
        /\ UNCHANGED <<due, jobs, incoming, receipts, alarm, todo, visit, withdrawn>>
    BY <1>0, <1>22 DEF recorded, Deliver, stored, ResolverTypes
  <2>2. ResolverTypes'
    BY <1>0, <1>22, <2>1 DEF Deliver, ResolverTypes, StoredOK
  <2>3. CoverInv'
    BY <1>0, <2>1 DEF CoverInv, Covered
  <2>4. AnswerInv'
    BY <1>0, <2>1 DEF AnswerInv, CancelHolds, Live
  <2> QED
    BY <2>2, <2>3, <2>4 DEF ResolverInv
<1>23. ASSUME NEW p \in visit, MarkDone(p) PROVE ResolverInv'
  BY <1>0, <1>14, <1>23, DoneJob DEF recorded, MarkDone, Quiet, history
<1>24. ASSUME NEW p \in visit, CatchError(p) PROVE ResolverInv'
  BY <1>0, <1>14, <1>15, <1>24 DEF recorded, CatchError, Quiet, history
<1>25. ASSUME Sweep PROVE ResolverInv'
  <2>1. Covered' /\ IsTime(alarm')
    <3>1. Covered /\ UNCHANGED <<jobs, incoming, receipts>> /\ IsTime(alarm)
      BY <1>0, <1>25 DEF Sweep, stored, CoverInv, ResolverTypes
    <3>2. CASE alarm' = alarm
      BY <3>1, <3>2 DEF Covered
    <3>3. CASE alarm' # alarm
      <4>1. /\ alarm' = Unset /\ \A r \in Refs : jobs[r] = NoJob
            /\ \A h \in Handles : incoming[h] = NoIncoming
            /\ \A n \in Ids : receipts[n] = Unset
        BY <1>25, <3>3 DEF Sweep
      <4>2. NoJob.next = Unset /\ NoIncoming.expires = Unset /\ Unset <= Unset /\ IsTime(Unset)
        BY TimesAreNat DEF NoJob, NoIncoming, IsTime
      <4> QED
        BY <3>1, <4>1, <4>2 DEF Covered
    <3> QED
      BY <3>2, <3>3
  <2> QED
    BY <1>0, <1>8, <1>25, <2>1 DEF recorded, Sweep, Quiet, stored, history, ResolverTypes
<1>26. ASSUME Crash PROVE ResolverInv'
  <2>1. /\ \A r \in Refs : 0 <= jobs[r].next
        /\ \A h \in Handles : 0 <= incoming[h].expires
        /\ \A n \in Ids : 0 <= receipts[n]
    <3>1. ASSUME NEW t, IsTime(t) PROVE 0 <= t
      BY <3>1, TimesAreNat DEF IsTime
    <3> QED
      BY <1>0, <3>1 DEF StoredOK, IsJob
  <2>2. Covered' /\ IsTime(alarm')
    <3>1. UNCHANGED <<jobs, incoming, receipts>> /\ IsTime(alarm) /\ IsTime(0)
      BY <1>0, <1>26, TimesClosed DEF Crash, stored, ResolverTypes
    <3>2. alarm' = 0 \/ (alarm' = alarm /\ Covered)
      BY <1>0, <1>26 DEF Crash, CoverInv
    <3> QED
      BY <2>1, <3>1, <3>2 DEF Covered
  <2> QED
    BY <1>8, <1>26, <2>2 DEF recorded, Crash, stored, history
<1>27. ASSUME Tick PROVE ResolverInv'
  <2>1. ASSUME NEW r \in Refs
        PROVE  /\ IsJob(jobs'[r]) /\ jobs'[r].status = jobs[r].status
               /\ jobs'[r].settlement = jobs[r].settlement /\ jobs'[r].next = Sooner(jobs[r].next)
    <3>1. jobs'[r] = [jobs[r] EXCEPT !.next = Sooner(@)] /\ IsTime(Sooner(jobs[r].next))
      BY <1>0, <1>27, TimesClosed DEF Tick, IsJob
    <3>2. CASE jobs[r] = NoJob
      BY <1>0, <3>1, <3>2, NoJobFields DEF NoJob, Sooner
    <3>3. CASE jobs[r] # NoJob
      BY <1>0, <3>1, <3>3, NoJobFields DEF IsJob
    <3> QED
      BY <3>2, <3>3
  <2>2. /\ DOMAIN jobs' = Refs /\ DOMAIN incoming' = Handles /\ DOMAIN receipts' = Ids
        /\ \A h \in Handles : /\ "expires" \in DOMAIN incoming'[h]
                              /\ incoming'[h].expires = Sooner(incoming[h].expires)
        /\ \A n \in Ids : receipts'[n] = Sooner(receipts[n])
    BY <1>0, <1>27 DEF Tick, StoredOK
  <2>3. StoredOK'
    BY <1>0, <2>1, <2>2, TimesClosed DEF StoredOK
  <2>4. \A s \in todo' : DOMAIN s = {"ref", "job"} /\ s.ref \in Refs
    BY <1>0, <1>27 DEF Tick, ResolverTypes
  <2>5. ResolverTypes'
    BY <1>0, <1>27, <2>3, <2>4, TimesClosed DEF Tick, ResolverTypes
  <2>6. CoverInv'
    <3>1. run # "started" \/ alarm' # Unset => Covered
      BY <1>0, <1>27 DEF Tick, CoverInv, Sooner
    <3>2. Covered => Covered'
      BY <1>0, <1>27, <2>1, <2>2, TimesClosed DEF Tick, Covered, ResolverTypes, StoredOK, IsJob
    <3> QED
      BY <1>27, <3>1, <3>2 DEF Tick, CoverInv
  <2>7. AnswerInv'
    <3>1. Keeps /\ \A r \in Refs : Live(r) => Live(r)'
      BY <2>1 DEF Keeps, Live
    <3> QED
      BY <1>0, <1>27, <3>1, AnswersKept DEF Tick
  <2> QED
    BY <2>5, <2>6, <2>7 DEF ResolverInv
<1>28. CASE UNCHANGED vars
  BY <1>0, <1>28 DEF recorded, vars, stored, handler, history, ResolverInv, ResolverTypes,
     StoredOK, CoverInv,
     Covered, AnswerInv, CancelHolds, Live
<1> QED
  BY <1>1, <1>2, <1>3, <1>4, <1>6, <1>7, <1>9, <1>11, <1>12, <1>13, <1>16, <1>17, <1>18, <1>19,
     <1>20, <1>21, <1>22, <1>23, <1>24, <1>25, <1>26, <1>27, <1>28 DEF Next, Handler, Visit

-----------------------------------------------------------------------------
(* Deadlines *)

\* What an outcome of a promise says of its deadline: a timeout that it has passed and
\* that no result was promised, a result that it came in time and, of a clock, that the
\* clock's time has come.
Fits(r, x) ==
    /\ x \in Values \cup {TimedOut, NoResult}
    /\ x = TimedOut => due[r] = 0 /\ r \notin promised
    /\ x \in Values => r \in timely /\ (r \in ClockRefs => ClockAt(r) = 0)

\* A job and the answers of its promise.  A job of a promise to which a result was
\* promised holds one; a clock's job is not due before its clock.
JobFits(r) ==
    /\ Fits(r, jobs[r].settlement) /\ \A x \in answers[r] : Fits(r, x)
    /\ ~Live(r) => jobs[r].settlement = NoResult
    /\ jobs[r] # NoJob => due[r] # Unset
    /\ jobs[r].status = "done" => r \in withdrawn \/ answers[r] # {}
    /\ Live(r) /\ r \in ClockRefs => ClockAt(r) <= jobs[r].next
    /\ Live(r) /\ r \in promised => jobs[r].settlement \in Values

\* A buffer knows whose deadline its result missed.
BufferFits(h) ==
    /\ {"result", "late", "notified"} \subseteq DOMAIN incoming[h]
    /\ incoming[h].result \in Values \cup {NoResult}
    /\ \A r \in incoming[h].late : r \in Refs /\ due[r] = 0
    /\ incoming[h].result # NoResult => RefsOf(h) \ incoming[h].late \subseteq timely
    /\ incoming[h].result # NoResult \/ incoming[h].notified = TRUE =>
         \A r \in RefsOf(h) \cap ClockRefs : \E q \in RefsOf(h) \cap ClockRefs : ClockAt(q) = 0

\* A result promised to a promise yet to be watched waits in the buffer.
Waits(r) ==
    jobs[r] = NoJob /\ r \notin withdrawn /\ answers[r] = {} =>
      /\ RefsOf(Handle[r]) = {r} /\ r \notin incoming[Handle[r]].late
      /\ incoming[Handle[r]].result # NoResult /\ incoming[Handle[r]].expires \notin {0, Unset}

\* What the run holds: the answer it read, and jobs it listed, which were no earlier due
\* than their clocks.
VisitFits(p) ==
    /\ Fits(p.ref, p.answer) /\ (p.ref \in ClockRefs => ClockAt(p.ref) = 0)
    /\ run = "delivered" => p.answer \in answers[p.ref]
ListedFits(s) ==
    /\ IsJob(s.job)
    /\ s.job.status = "live" => /\ due[s.ref] # Unset
                                /\ s.ref \in ClockRefs => ClockAt(s.ref) <= s.job.next

\* Promises of one clock agree on its time.
ClocksAgree ==
    \A r, q \in ClockRefs :
      Handle[r] = Handle[q] /\ due[r] # Unset /\ due[q] # Unset => ClockAt(r) = ClockAt(q)

DeadlineInv ==
    /\ mode \in Modes /\ promised \subseteq Refs
    /\ \A r \in Refs : JobFits(r)
    /\ \A h \in Handles : BufferFits(h)
    /\ \A r \in promised : Waits(r)
    /\ \A p \in visit : VisitFits(p)
    /\ \A s \in todo : ListedFits(s)
    /\ ClocksAgree

\* The tags of a settlement are no results.
LEMMA Tags == NoResult \notin Values /\ TimedOut \notin Values /\ NoResult # TimedOut
  BY ResolverAssumption DEF NoResult, TimedOut

\* A clock's time is no later than its promise's deadline, and not Unset once recorded.
LEMMA ClockTimes ==
    ASSUME NEW r \in Refs, IsTime(due[r])
    PROVE  /\ ClockAt(r) \in Nat /\ IsTime(ClockAt(r)) /\ due[r] \in Nat
           /\ ClockAt(r) <= due[r] /\ (ClockAt(r) = 0 => due[r] # Unset)
           /\ due[r] = 0 => ClockAt(r) = 0
  BY ResolverAssumption DEF ClockAt, IsTime, Times, Unset, MaxTime

\* Executions of clocks have no other promises.
LEMMA ClocksApart ==
    ASSUME mode \in Modes, NEW r \in Refs, r \notin ClockRefs
    PROVE  RefsOf(Handle[r]) \cap ClockRefs = {}
  BY ResolverAssumption DEF ClockRefs, RefsOf

\* What a step may do to the deadlines, to the modes and to the history.
Onward ==
    /\ mode' = mode /\ timely \subseteq timely' /\ withdrawn \subseteq withdrawn'
    /\ \A r \in Refs : /\ answers[r] \subseteq answers'[r]
                       /\ due[r] = 0 => due'[r] = 0
                       /\ ClockAt(r) = 0 => ClockAt(r)' = 0
                       /\ due[r] # Unset => due'[r] # Unset
                       /\ due[r] = 0 /\ r \in promised' => r \in promised

\* An outcome that fits them fits them afterwards.
LEMMA FitsOnward ==
    ASSUME Onward, NEW r \in Refs, NEW x, Fits(r, x)
    PROVE  Fits(r, x)'
  BY DEF Onward, Fits, ClockRefs

\* So does a job that the step leaves alone.
LEMMA JobOnward ==
    ASSUME Onward, NEW r \in Refs, JobFits(r), answers'[r] = answers[r],
           jobs'[r] = jobs[r], UNCHANGED due, r \in promised' => r \in promised
    PROVE  JobFits(r)'
<1>1. \A x : Fits(r, x) => Fits(r, x)'
  BY FitsOnward
<1> QED
  BY <1>1 DEF JobFits, Fits, Live, Onward, ClockRefs, ClockAt

\* A waiting promise still waits when its job and its buffer stay.
LEMMA WaitsOnward ==
    ASSUME Onward, NEW r \in Refs, Waits(r), jobs'[r] = jobs[r],
           incoming'[Handle[r]] = incoming[Handle[r]]
    PROVE  Waits(r)'
  BY DEF Onward, Waits

\* So does a buffer that the step leaves alone.
LEMMA BufferOnward ==
    ASSUME Onward, NEW h \in Handles, BufferFits(h), incoming'[h] = incoming[h]
    PROVE  BufferFits(h)'
<1>1. ClockRefs' = ClockRefs /\ RefsOf(h) \subseteq Refs
  BY DEF Onward, ClockRefs, RefsOf
<1>2. \A r \in incoming'[h].late : r \in Refs /\ due'[r] = 0
  BY DEF BufferFits, Onward
<1>3. incoming'[h].result # NoResult => RefsOf(h) \ incoming'[h].late \subseteq timely'
  BY DEF BufferFits, Onward
<1>4. \A q \in RefsOf(h) \cap ClockRefs : ClockAt(q) = 0 => ClockAt(q)' = 0
  BY <1>1 DEF Onward
<1> QED
  BY <1>1, <1>2, <1>3, <1>4 DEF BufferFits, RefsOf

\* The run may go on with what it had listed and what it is visiting.
LEMMA RunOnward ==
    ASSUME Onward,
           \A p \in visit : p.ref \in Refs /\ VisitFits(p), \A s \in todo : s.ref \in Refs /\ ListedFits(s),
           visit' \subseteq visit, todo' \subseteq todo, run' # "delivered" \/ run' = run,
           UNCHANGED due
    PROVE  (\A p \in visit' : VisitFits(p)') /\ \A s \in todo' : ListedFits(s)'
<1>1. ASSUME NEW p \in visit' PROVE VisitFits(p)'
  <2>1. Fits(p.ref, p.answer)'
    BY FitsOnward DEF VisitFits
  <2> QED
    BY <2>1 DEF VisitFits, Onward, ClockRefs
<1>2. ASSUME NEW s \in todo' PROVE ListedFits(s)'
  BY DEF ListedFits, Onward, ClockRefs, ClockAt, IsJob, IsTime, NoJob, Times, Unset
<1> QED
  BY <1>1, <1>2

\* A step that leaves deadlines alone goes onward.
LEMMA Still ==
    ASSUME UNCHANGED <<mode, due>>, UNCHANGED <<timely, promised>>, withdrawn \subseteq withdrawn',
           \A r \in Refs : answers[r] \subseteq answers'[r]
    PROVE  Onward /\ (ClocksAgree => ClocksAgree')
  BY DEF Onward, ClockAt, ClocksAgree, ClockRefs

\* The facts every step starts from.
Facts ==
    /\ \A r \in Refs : IsJob(jobs[r]) /\ IsTime(due[r]) /\ JobFits(r) /\ Handle[r] \in Handles
    /\ \A h \in Handles : BufferFits(h) /\ RefsOf(h) \subseteq Refs
    /\ \A p \in visit : DOMAIN p = {"ref", "job", "answer"} /\ p.ref \in Refs /\ VisitFits(p)
    /\ \A s \in todo : DOMAIN s = {"ref", "job"} /\ s.ref \in Refs /\ ListedFits(s)
    /\ \A r \in promised : r \in Refs /\ Waits(r)
    /\ DOMAIN jobs = Refs /\ DOMAIN incoming = Handles /\ DOMAIN answers = Refs /\ DOMAIN due = Refs

\* Steps that only move the run.
LEMMA RunMoves ==
    ASSUME Facts, DeadlineInv,
           UNCHANGED <<mode, due, jobs, incoming, answers, withdrawn, timely, promised>>,
           visit' \subseteq visit, todo' \subseteq todo, run' # "delivered" \/ run' = run
    PROVE  DeadlineInv'
<1>1. Onward /\ ClocksAgree'
  BY Still DEF DeadlineInv
<1>2. \A r \in Refs : JobFits(r)'
  BY <1>1, JobOnward DEF Facts
<1>3. \A h \in Handles : BufferFits(h)'
  BY <1>1, BufferOnward DEF Facts
<1>4. \A r \in promised' : Waits(r)'
  BY <1>1, WaitsOnward DEF Facts
<1>5. (\A p \in visit' : VisitFits(p)') /\ \A s \in todo' : ListedFits(s)'
  BY <1>1, RunOnward DEF Facts
<1> QED
  BY <1>1, <1>2, <1>3, <1>4, <1>5 DEF DeadlineInv

\* The run lists the jobs.
LEMMA ListMoves ==
    ASSUME Facts, DeadlineInv, List
    PROVE  DeadlineInv'
<1>0. /\ UNCHANGED <<mode, due, jobs, incoming, answers, withdrawn, timely, promised, visit>>
      /\ todo' = {[ref |-> r, job |-> jobs[r]] : r \in {x \in Refs : jobs[x] # NoJob}}
      /\ run' = "visiting"
  BY DEF List, Quiet, recorded, stored, history
<1>1. Onward /\ ClocksAgree'
  BY <1>0, Still DEF DeadlineInv
<1>2. \A r \in Refs : JobFits(r)'
  BY <1>0, <1>1, JobOnward DEF Facts
<1>3. \A h \in Handles : BufferFits(h)'
  BY <1>0, <1>1, BufferOnward DEF Facts
<1>4. \A r \in promised' : Waits(r)'
  BY <1>0, <1>1, WaitsOnward DEF Facts
<1>5. \A p \in visit' : VisitFits(p)'
  BY <1>0, <1>1, FitsOnward DEF Facts, VisitFits, Onward, ClockRefs
<1>6. ASSUME NEW s \in todo' PROVE ListedFits(s)'
  <2>1. PICK r \in Refs : s = [ref |-> r, job |-> jobs[r]] /\ jobs[r] # NoJob
    BY <1>0
  <2>2. s.ref = r /\ s.job = jobs[r] /\ IsJob(jobs[r]) /\ JobFits(r)
    BY <2>1 DEF Facts
  <2>3. /\ IsJob(jobs[r]) /\ due'[r] # Unset
        /\ jobs[r].status = "live" /\ r \in ClockRefs' => ClockAt(r)' <= jobs[r].next
    BY <1>0, <2>1, <2>2 DEF JobFits, Live, ClockAt, ClockRefs
  <2> QED
    BY <2>2, <2>3 DEF ListedFits, ClockAt
<1> QED
  BY <1>0, <1>1, <1>2, <1>3, <1>4, <1>5, <1>6 DEF DeadlineInv

\* What update may write: a settlement that fits, in a job that stays live, or a finished
\* job of a promise that was answered.
LEMMA UpdateMoves ==
    ASSUME Facts, DeadlineInv, NEW r \in Refs, NEW j, update(r, j),
           UNCHANGED <<mode, due, incoming, answers, withdrawn, timely, promised>>,
           Live(r) =>
             /\ Fits(r, j.settlement)
             /\ \/ j.status = "done" /\ j.settlement = NoResult /\ answers[r] # {}
                \/ /\ j.status = "live" /\ (r \in ClockRefs => ClockAt(r) <= j.next)
                   /\ r \in promised => j.settlement \in Values,
           \A p \in visit' : \/ p \in visit
                             \/ /\ p.ref \in Refs /\ p.answer = NoResult
                                /\ p.ref \in ClockRefs => ClockAt(p.ref) = 0,
           todo' \subseteq todo, run' # "delivered"
    PROVE  DeadlineInv'
<1>1. Onward /\ ClocksAgree'
  BY Still DEF DeadlineInv
<1>2. ASSUME NEW x \in Refs PROVE JobFits(x)'
  <2>1. CASE x = r /\ Live(r)
    <3>1. jobs'[r] = j
      BY <2>1 DEF update, Facts
    <3>2. /\ \A y : Fits(r, y) => Fits(r, y)'
          /\ JobFits(r) /\ jobs[r] # NoJob /\ due'[r] # Unset
      BY <1>1, <2>1, FitsOnward, NoJobFields DEF Facts, Live, JobFits
    <3>3. Fits(r, j.settlement) /\ \A y \in answers'[r] : Fits(r, y)
      BY <2>1, <3>2 DEF JobFits
    <3> QED
      BY <2>1, <3>1, <3>2, <3>3 DEF JobFits, Live, ClockAt, ClockRefs, Fits
  <2>2. CASE ~(x = r /\ Live(r))
    BY <1>1, <2>2, JobOnward DEF update, Facts
  <2> QED
    BY <2>1, <2>2
<1>3. \A h \in Handles : BufferFits(h)'
  BY <1>1, BufferOnward DEF Facts
<1>4. ASSUME NEW x \in promised' PROVE Waits(x)'
  <2>1. x \in Refs /\ Waits(x)
    BY DEF Facts
  <2>2. jobs'[x] = jobs[x] \/ (x = r /\ jobs'[x] = j /\ Live(r))
    BY <2>1 DEF update, Facts
  <2>3. CASE x = r /\ jobs'[x] = j /\ Live(r)
    <3>1. jobs'[x] # NoJob
      BY <2>3, NoJobFields
    <3> QED
      BY <3>1 DEF Waits
  <2> QED
    BY <1>1, <2>1, <2>2, <2>3, WaitsOnward
<1>5. ASSUME NEW p \in visit' PROVE VisitFits(p)'
  <2>1. CASE p \in visit
    BY <1>1, <2>1, FitsOnward DEF Facts, VisitFits, Onward, ClockRefs
  <2>2. CASE p \notin visit
    BY <2>2, Tags DEF VisitFits, Fits, ClockAt, ClockRefs
  <2> QED
    BY <2>1, <2>2
<1>6. ASSUME NEW s \in todo' PROVE ListedFits(s)'
  BY DEF Facts, ListedFits, ClockRefs, ClockAt, IsJob, IsTime
<1> QED
  BY <1>1, <1>2, <1>3, <1>4, <1>5, <1>6 DEF DeadlineInv

\* A record of a deadline: that of a clock is as far off as its other promises say.
LEMMA DeadlineMoves ==
    ASSUME Facts, DeadlineInv, NEW r \in Refs, NEW at \in 0 .. MaxClock, promiseDeadline(r, at)
    PROVE  DeadlineInv'
<1>0. /\ UNCHANGED <<mode, jobs, incoming, answers, withdrawn, timely, promised, run, visit, todo>>
      /\ due[r] = Unset /\ due'[r] = at + Timeout /\ \A x \in Refs \ {r} : due'[x] = due[x]
      /\ \A q \in RefsOf(Handle[r]) \cap ClockRefs : due[q] # Unset => at = ClockAt(q)
  BY DEF promiseDeadline, stored, handler, history, Facts
<1>1. /\ at \in Nat /\ Timeout \in Nat \ {0} /\ at + Timeout # Unset /\ Unset # 0
      /\ ClockAt(r) # 0 /\ ClockAt(r)' = at
  BY <1>0, ResolverAssumption, PolicyTimes, TimesAreNat, ClockTimes DEF ClockAt, Times, Facts
<1>2. Onward
  BY <1>0, <1>1 DEF Onward, ClockAt
<1>3. ClocksAgree'
  <2> SUFFICES ASSUME NEW x \in ClockRefs, NEW y \in ClockRefs, Handle[x] = Handle[y],
                      due'[x] # Unset, due'[y] # Unset
               PROVE  ClockAt(x)' = ClockAt(y)'
    BY <1>0 DEF ClocksAgree, ClockRefs
  <2>1. ASSUME NEW q \in ClockRefs, q # r PROVE ClockAt(q)' = ClockAt(q) /\ due'[q] = due[q]
    BY <1>0, <2>1 DEF ClockAt, ClockRefs
  <2>2. ASSUME NEW q \in ClockRefs, q # r, Handle[q] = Handle[r], due[q] # Unset
        PROVE  ClockAt(q) = at
    BY <1>0, <2>2 DEF RefsOf, ClockRefs
  <2>3. ClocksAgree
    BY DEF DeadlineInv
  <2> QED
    BY <1>1, <2>1, <2>2, <2>3 DEF ClocksAgree
<1>4. ASSUME NEW x \in Refs PROVE JobFits(x)'
  <2>1. CASE x = r
    <3>1. JobFits(r) /\ jobs[r] = NoJob /\ jobs'[r] = NoJob /\ ~Live(r)
      BY <1>0, NoJobFields DEF Facts, JobFits, Live
    <3>2. \A y : Fits(r, y) => Fits(r, y)'
      BY <1>2, FitsOnward
    <3> QED
      BY <1>0, <1>1, <2>1, <3>1, <3>2 DEF JobFits, Fits, Live
  <2>2. CASE x # r
    <3>1. JobFits(x) /\ \A y : Fits(x, y) => Fits(x, y)'
      BY <1>2, FitsOnward DEF Facts
    <3> QED
      BY <1>0, <2>2, <3>1 DEF JobFits, Fits, Live, ClockAt, ClockRefs
  <2> QED
    BY <2>1, <2>2
<1>5. \A h \in Handles : BufferFits(h)'
  BY <1>0, <1>2, BufferOnward DEF Facts
<1>6. \A x \in promised' : Waits(x)'
  BY <1>0, <1>2, WaitsOnward DEF Facts
<1>7. \A p \in visit' : VisitFits(p)'
  BY <1>0, <1>2, FitsOnward DEF Facts, VisitFits, Onward, ClockRefs
<1>8. ASSUME NEW s \in todo' PROVE ListedFits(s)'
  BY <1>0 DEF Facts, ListedFits, ClockRefs, ClockAt, IsJob, IsTime
<1> QED
  BY <1>0, <1>2, <1>3, <1>4, <1>5, <1>6, <1>7, <1>8 DEF DeadlineInv

\* Once a promise of a clock is ready, so is every recorded one of the same clock.
LEMMA ClocksReady ==
    ASSUME Facts, DeadlineInv, NEW r \in ClockRefs, due[r] # Unset,
           \E q \in RefsOf(Handle[r]) \cap ClockRefs : ClockAt(q) = 0
    PROVE  ClockAt(r) = 0
<1>1. PICK q \in RefsOf(Handle[r]) \cap ClockRefs : ClockAt(q) = 0
  OBVIOUS
<1>2. q \in Refs /\ due[q] # Unset /\ Handle[q] = Handle[r]
  BY <1>1, ClockTimes DEF Facts, RefsOf
<1> QED
  BY <1>1, <1>2 DEF DeadlineInv, ClocksAgree

\* A result taken from the buffer came in time, and to a clock once it was ready.
LEMMA BufferedFits ==
    ASSUME Facts, DeadlineInv, NEW r \in Refs, due[r] # Unset
    PROVE  Buffered(r) \in Values \cup {NoResult} /\ Fits(r, Buffered(r))
<1>1. BufferFits(Handle[r]) /\ r \in RefsOf(Handle[r])
  BY DEF Facts, RefsOf
<1>2. CASE Buffered(r) = NoResult
  BY <1>2, Tags DEF Fits
<1>3. CASE Buffered(r) # NoResult
  <2>1. /\ Buffered(r) = incoming[Handle[r]].result /\ r \notin incoming[Handle[r]].late
        /\ incoming[Handle[r]].result \in Values
    BY <1>1, <1>3 DEF Buffered, BufferFits
  <2>2. r \in timely
    BY <1>1, <2>1, Tags DEF BufferFits
  <2>3. r \in ClockRefs => ClockAt(r) = 0
    BY <1>1, <2>1, ClocksReady, Tags DEF BufferFits
  <2> QED
    BY <2>1, <2>2, <2>3, Tags DEF Fits
<1> QED
  BY <1>2, <1>3

\* A registration takes what the buffer holds.
LEMMA WatchMoves ==
    ASSUME Facts, DeadlineInv, NEW r \in Refs, watch(r)
    PROVE  DeadlineInv'
<1>0. /\ UNCHANGED <<mode, due, incoming, answers, withdrawn, timely, promised, run, visit, todo>>
      /\ jobs'[r] = IF jobs[r] = NoJob THEN NewJob(r) ELSE jobs[r]
      /\ \A x \in Refs \ {r} : jobs'[x] = jobs[x]
      /\ jobs[r] = NoJob => r \notin withdrawn /\ answers[r] = {}
      /\ due[r] # Unset
  BY DEF watch, recorded, handler, history, Facts
<1>1. Onward /\ ClocksAgree'
  BY <1>0, Still DEF DeadlineInv
<1>2. ASSUME jobs[r] = NoJob PROVE JobFits(r)'
  <2> DEFINE j == NewJob(r)
  <2>1. /\ jobs'[r] = j /\ j.status = "live" /\ j.settlement = Buffered(r)
        /\ j.next = IF Buffered(r) # NoResult \/ Notified(r) THEN 0
                    ELSE IF r \in ClockRefs THEN Earlier(due[r], ClockAt(r))
                    ELSE IF r \in PushRefs THEN due[r] ELSE 0
    BY <1>0, <1>2 DEF NewJob
  <2>2. Fits(r, Buffered(r)) /\ Buffered(r) \in Values \cup {NoResult}
    BY <1>0, BufferedFits
  <2>3. r \in ClockRefs => ClockAt(r) <= j.next
    <3> SUFFICES ASSUME r \in ClockRefs PROVE ClockAt(r) <= j.next
      OBVIOUS
    <3>1. BufferFits(Handle[r]) /\ r \in RefsOf(Handle[r]) \cap ClockRefs
      BY DEF Facts, RefsOf
    <3>2. CASE Buffered(r) # NoResult
      BY <2>1, <2>2, <3>2, ClockTimes DEF Fits, Facts
    <3>3. CASE Notified(r)
      <4>1. incoming[Handle[r]].notified = TRUE
        BY <3>1, <3>3 DEF Notified
      <4>2. \E q \in RefsOf(Handle[r]) \cap ClockRefs : ClockAt(q) = 0
        BY <3>1, <4>1 DEF BufferFits
      <4> QED
        BY <1>0, <2>1, <3>3, <4>2, ClocksReady DEF Facts
    <3>4. CASE ~(Buffered(r) # NoResult \/ Notified(r))
      BY <2>1, <3>4, ClockTimes DEF Facts, Earlier
    <3> QED
      BY <3>2, <3>3, <3>4
  <2>4. r \in promised => Buffered(r) \in Values
    <3> SUFFICES ASSUME r \in promised PROVE Buffered(r) \in Values
      OBVIOUS
    <3>1. Waits(r) /\ BufferFits(Handle[r])
      BY DEF Facts
    <3> QED
      BY <1>0, <1>2, <3>1 DEF Waits, BufferFits, Buffered
  <2> HIDE DEF j
  <2>5. \A y : Fits(r, y) => Fits(r, y)'
    BY <1>1, FitsOnward
  <2>6. Fits(r, j.settlement) /\ \A y \in answers'[r] : FALSE
    BY <1>0, <1>2, <2>1, <2>2
  <2> QED
    BY <1>0, <2>1, <2>2, <2>3, <2>4, <2>5, <2>6 DEF JobFits, Fits, Live, ClockAt, ClockRefs
<1>3. \A x \in Refs : JobFits(x)'
  BY <1>0, <1>1, <1>2, JobOnward DEF Facts
<1>4. \A h \in Handles : BufferFits(h)'
  BY <1>0, <1>1, BufferOnward DEF Facts
<1>5. ASSUME NEW x \in promised' PROVE Waits(x)'
  <2>1. CASE x = r /\ jobs[r] = NoJob
    <3>1. jobs'[x] # NoJob
      BY <1>0, <2>1, NoJobFields DEF NewJob
    <3> QED
      BY <3>1 DEF Waits
  <2> QED
    BY <1>0, <1>1, <2>1, WaitsOnward DEF Facts
<1>6. (\A p \in visit' : VisitFits(p)') /\ \A s \in todo' : ListedFits(s)'
  BY <1>0, <1>1, RunOnward DEF Facts
<1> QED
  BY <1>0, <1>1, <1>3, <1>4, <1>5, <1>6 DEF DeadlineInv

\* A cancellation finishes the job.
LEMMA CancelMoves ==
    ASSUME Facts, DeadlineInv, NEW r \in Refs, cancel(r)
    PROVE  DeadlineInv'
<1> DEFINE j == [NoJob EXCEPT !.status = "done", !.next = Retention]
<1>0. /\ UNCHANGED <<mode, due, incoming, answers, timely, promised, run, visit, todo>>
      /\ jobs'[r] = j /\ \A x \in Refs \ {r} : jobs'[x] = jobs[x]
      /\ withdrawn' = withdrawn \cup {r} /\ due[r] # Unset
  BY DEF cancel, recorded, handler, Facts
<1>1. j.status = "done" /\ j.settlement = NoResult /\ j # NoJob
  BY DEF NoJob
<1> HIDE DEF j
<1>2. Onward /\ ClocksAgree'
  BY <1>0, Still DEF DeadlineInv
<1>3. JobFits(r)'
  <2>1. \A y : Fits(r, y) => Fits(r, y)'
    BY <1>2, FitsOnward
  <2>2. Fits(r, NoResult) /\ \A y \in answers'[r] : Fits(r, y)
    BY <1>0, Tags DEF Facts, JobFits, Fits
  <2> QED
    BY <1>0, <1>1, <2>1, <2>2 DEF JobFits, Fits, Live
<1>4. \A x \in Refs : JobFits(x)'
  BY <1>0, <1>2, <1>3, JobOnward DEF Facts
<1>5. \A h \in Handles : BufferFits(h)'
  BY <1>0, <1>2, BufferOnward DEF Facts
<1>6. ASSUME NEW x \in promised' PROVE Waits(x)'
  <2>1. CASE x = r
    BY <1>0, <2>1 DEF Waits
  <2>2. CASE x # r
    BY <1>0, <1>2, <2>2, WaitsOnward DEF Facts
  <2> QED
    BY <2>1, <2>2
<1>7. (\A p \in visit' : VisitFits(p)') /\ \A s \in todo' : ListedFits(s)'
  BY <1>0, <1>2, RunOnward DEF Facts
<1> QED
  BY <1>0, <1>2, <1>4, <1>5, <1>6, <1>7 DEF DeadlineInv

\* What is discarded nobody waits for.
LEMMA DiscardMoves ==
    ASSUME Facts, DeadlineInv, discard,
           UNCHANGED <<mode, due, answers, withdrawn, timely, promised, visit, todo>>,
           run' # "delivered" \/ run' = run
    PROVE  DeadlineInv'
<1>0. /\ \A r \in Refs : jobs'[r] = IF jobs[r].status = "done" /\ jobs[r].next = 0
                                    THEN NoJob ELSE jobs[r]
      /\ \A h \in Handles : incoming'[h] = Discarded(h)
  BY DEF discard
<1>1. Onward /\ ClocksAgree'
  BY Still DEF DeadlineInv
<1>2. ASSUME NEW r \in Refs PROVE JobFits(r)'
  <2>1. CASE jobs'[r] = jobs[r]
    BY <1>1, <2>1, JobOnward DEF Facts
  <2>2. CASE jobs'[r] = NoJob
    <3>1. \A y : Fits(r, y) => Fits(r, y)'
      BY <1>1, FitsOnward
    <3>2. Fits(r, NoResult) /\ \A y \in answers'[r] : Fits(r, y)
      BY Tags DEF Facts, JobFits, Fits
    <3>3. NoJob.settlement = NoResult /\ NoJob.status = "none"
      BY DEF NoJob
    <3> QED
      BY <2>2, <3>1, <3>2, <3>3 DEF JobFits, Fits, Live
  <2> QED
    BY <1>0, <2>1, <2>2
<1>3. ASSUME NEW h \in Handles PROVE BufferFits(h)'
  <2>1. CASE incoming'[h] = incoming[h]
    BY <1>1, <2>1, BufferOnward DEF Facts
  <2>2. CASE incoming'[h] = NoIncoming
    BY <2>2 DEF BufferFits, NoIncoming
  <2>3. CASE incoming'[h] =
               [incoming[h] EXCEPT !.result = NoResult, !.late = {}, !.notified = FALSE]
    <3>1. BufferFits(h)
      BY DEF Facts
    <3>2. /\ {"result", "late", "notified"} \subseteq DOMAIN incoming'[h]
          /\ incoming'[h].result = NoResult /\ incoming'[h].late = {}
          /\ incoming'[h].notified = FALSE
      BY <2>3, <3>1 DEF BufferFits
    <3> QED
      BY <3>2 DEF BufferFits
  <2> QED
    BY <1>0, <2>1, <2>2, <2>3 DEF Discarded
<1>4. ASSUME NEW r \in promised' PROVE Waits(r)'
  <2>1. r \in Refs /\ Waits(r) /\ JobFits(r) /\ Handle[r] \in Handles
    BY DEF Facts
  <2> SUFFICES ASSUME jobs'[r] = NoJob, r \notin withdrawn, answers[r] = {} PROVE Waits(r)'
    BY DEF Waits
  <2>2. jobs[r] = NoJob
    BY <1>0, <2>1 DEF JobFits
  <2>3. {x \in RefsOf(Handle[r]) : jobs'[x] # NoJob} = {} /\ incoming[Handle[r]].expires # 0
    BY <2>1, <2>2 DEF Waits
  <2>4. incoming'[Handle[r]] = incoming[Handle[r]]
    BY <1>0, <2>1, <2>3 DEF Discarded
  <2> QED
    BY <1>1, <2>1, <2>2, <2>4, WaitsOnward
<1>5. (\A p \in visit' : VisitFits(p)') /\ \A s \in todo' : ListedFits(s)'
  BY <1>1, RunOnward DEF Facts
<1> QED
  BY <1>1, <1>2, <1>3, <1>4, <1>5 DEF DeadlineInv

\* A read of the settlement to deliver.
LEMMA ReadMoves ==
    ASSUME Facts, DeadlineInv, NEW p \in visit, ReadLatest(p)
    PROVE  DeadlineInv'
<1>0. UNCHANGED <<mode, due, jobs, incoming, answers, withdrawn, timely, promised, todo>>
  BY DEF ReadLatest, Quiet, recorded, stored, history
<1>1. CASE run' = "visiting" /\ visit' = {}
  BY <1>0, <1>1, RunMoves
<1>2. CASE run' = "delivering" /\ visit' = {[p EXCEPT !.answer = jobs[p.ref].settlement]}
  <2>1. Onward /\ ClocksAgree'
    BY <1>0, Still DEF DeadlineInv
  <2>2. \A r \in Refs : JobFits(r)'
    BY <1>0, <2>1, JobOnward DEF Facts
  <2>3. \A h \in Handles : BufferFits(h)'
    BY <1>0, <2>1, BufferOnward DEF Facts
  <2>4. \A r \in promised' : Waits(r)'
    BY <1>0, <2>1, WaitsOnward DEF Facts
  <2>5. ASSUME NEW q \in visit' PROVE VisitFits(q)'
    <3>1. /\ q.ref = p.ref /\ p.ref \in Refs /\ q.answer = jobs[p.ref].settlement
          /\ p.ref \in ClockRefs => ClockAt(p.ref) = 0
      BY <1>2 DEF Facts, VisitFits
    <3>2. Fits(q.ref, q.answer)
      BY <3>1 DEF Facts, JobFits
    <3>3. Fits(q.ref, q.answer)'
      BY <2>1, <3>1, <3>2, FitsOnward
    <3> QED
      BY <1>0, <1>2, <3>1, <3>3 DEF VisitFits, ClockAt, ClockRefs
  <2>6. ASSUME NEW s \in todo' PROVE ListedFits(s)'
    BY <1>0 DEF Facts, ListedFits, ClockRefs, ClockAt, IsJob, IsTime
  <2> QED
    BY <1>0, <2>1, <2>2, <2>3, <2>4, <2>5, <2>6 DEF DeadlineInv
<1> QED
  BY <1>1, <1>2 DEF ReadLatest

\* A delivery tells the thread what was read.
LEMMA DeliverMoves ==
    ASSUME Facts, DeadlineInv, \A p, q \in visit : p = q, NEW p \in visit, Deliver(p)
    PROVE  DeadlineInv'
<1>0. /\ UNCHANGED <<mode, due, jobs, incoming, withdrawn, timely, promised, todo, visit>>
      /\ answers'[p.ref] = answers[p.ref] \cup {p.answer}
      /\ \A r \in Refs \ {p.ref} : answers'[r] = answers[r]
      /\ p.ref \in Refs
  BY DEF Deliver, recorded, stored, Facts
<1>1. Onward /\ ClocksAgree'
  BY <1>0, Still DEF DeadlineInv
<1>2. ASSUME NEW r \in Refs PROVE JobFits(r)'
  <2>1. CASE r = p.ref
    <3>1. \A y : Fits(r, y) => Fits(r, y)'
      BY <1>1, FitsOnward
    <3>2. JobFits(r) /\ Fits(r, p.answer)
      BY <2>1 DEF Facts, VisitFits
    <3> QED
      BY <1>0, <2>1, <3>1, <3>2 DEF JobFits, Fits, Live, ClockAt, ClockRefs
  <2>2. CASE r # p.ref
    BY <1>0, <1>1, <2>2, JobOnward DEF Facts
  <2> QED
    BY <2>1, <2>2
<1>3. \A h \in Handles : BufferFits(h)'
  BY <1>0, <1>1, BufferOnward DEF Facts
<1>4. \A r \in promised' : Waits(r)'
  BY <1>0, <1>1, WaitsOnward DEF Facts
<1>5. ASSUME NEW q \in visit' PROVE VisitFits(q)'
  <2>1. q = p /\ Fits(p.ref, p.answer)' /\ (p.ref \in ClockRefs => ClockAt(p.ref) = 0)
    BY <1>0, <1>1, FitsOnward DEF Facts, VisitFits
  <2> QED
    BY <1>0, <2>1 DEF VisitFits, ClockAt, ClockRefs
<1>6. ASSUME NEW s \in todo' PROVE ListedFits(s)'
  BY <1>0 DEF Facts, ListedFits, ClockRefs, ClockAt, IsJob, IsTime
<1> QED
  BY <1>0, <1>1, <1>2, <1>3, <1>4, <1>5, <1>6 DEF DeadlineInv

\* What a completion makes of a job, field by field.
LEMMA CompletedFields ==
    ASSUME StoredOK, NEW r \in Refs, NEW v, NEW j, j = Completed(r, v)
    PROVE  \/ Expired(r) /\ j.status = "live" /\ j.settlement = TimedOut /\ j.next = 0
           \/ /\ Open(r) /\ ~Expired(r) /\ j.status = "live" /\ j.next = 0
              /\ j.settlement = IF v = NoResult THEN jobs[r].settlement ELSE v
           \/ ~Open(r) /\ ~Expired(r) /\ j = jobs[r]
<1>0. IsJob(jobs[r])
  BY DEF StoredOK
<1>1. CASE Expired(r)
  <2>1. ~Open(r) /\ jobs[r].status = "live"
    BY <1>1 DEF Expired, Open, Live
  <2>2. j = [jobs[r] EXCEPT !.next = 0, !.settlement = TimedOut]
    BY <1>1, <2>1, Zenon DEF Completed
  <2> QED
    BY <1>0, <1>1, <2>1, <2>2 DEF IsJob
<1>2. CASE Open(r) /\ ~Expired(r)
  <2> DEFINE b == jobs[r].polling \/ v = NoResult
             x == IF v = NoResult THEN jobs[r].settlement ELSE v
  <2>1. j = [jobs[r] EXCEPT !.next = 0, !.polling = b, !.settlement = x]
    BY <1>2, Zenon DEF Completed
  <2>2. jobs[r].status = "live"
    BY <1>2 DEF Open, Live
  <2> HIDE DEF b
  <2> QED
    BY <1>0, <1>2, <2>1, <2>2 DEF IsJob
<1>3. CASE ~Open(r) /\ ~Expired(r)
  BY <1>3, Zenon DEF Completed
<1> QED
  BY <1>1, <1>2, <1>3

\* Whether the buffer is kept, and what accept makes of it.
LEMMA BufferFields ==
    ASSUME NEW h \in Handles, NEW v, NEW b, b = Buffer(h, v)
    PROVE  LET active == incoming[h].expires \notin {0, Unset}
               kept   == IF active THEN incoming[h] ELSE NoIncoming
               needed == \/ \A r \in RefsOf(h) : jobs[r] = NoJob
                         \/ \E r \in RefsOf(h) : Open(r)
           IN  /\ DOMAIN b = {"expires", "notified", "result", "late"}
               /\ b.expires = IF active THEN incoming[h].expires ELSE Retention
               /\ b.result = IF ~needed THEN NoResult ELSE IF v # NoResult THEN v ELSE kept.result
               /\ b.late = IF ~needed THEN {}
                           ELSE IF kept.result # NoResult THEN kept.late
                           ELSE IF v # NoResult THEN {r \in RefsOf(h) : due[r] = 0} ELSE {}
  BY DEF Buffer

\* A completion that came before the deadline is noted, and a waiting job, or the
\* buffer of a promise yet to be watched, holds it.
LEMMA AcceptMoves ==
    ASSUME Facts, StoredOK, DeadlineInv,
           NEW h \in Handles, NEW v \in Values \cup {NoResult}, accept(h, v),
           UNCHANGED <<mode, due, answers, withdrawn, visit, todo>>,
           run' # "delivered" \/ run' = run,
           \A r \in RefsOf(h) \cap ClockRefs : \E q \in RefsOf(h) \cap ClockRefs : ClockAt(q) = 0
    PROVE  DeadlineInv'
<1> DEFINE now == {r \in RefsOf(h) : v # NoResult /\ due[r] # 0}
<1>0. /\ ~Conflict(h, v)
      /\ \A r \in Refs : jobs'[r] = IF Handle[r] = h THEN Completed(r, v) ELSE jobs[r]
      /\ incoming'[h] = Buffer(h, v) /\ \A x \in Handles \ {h} : incoming'[x] = incoming[x]
      /\ timely' = timely \cup now
      /\ promised' = promised \cup
           {r \in now : Open(r) \/ (jobs[r] = NoJob /\ RefsOf(h) = {r})}
      /\ now \subseteq RefsOf(h) /\ RefsOf(h) = {r \in Refs : Handle[r] = h}
  BY DEF accept, Facts, RefsOf
<1>1. Onward /\ ClocksAgree'
  BY <1>0 DEF Onward, ClockAt, ClocksAgree, ClockRefs, DeadlineInv
<1>2. ASSUME NEW r \in Refs, Handle[r] = h PROVE JobFits(r)'
  <2>0. /\ IsJob(jobs[r]) /\ IsTime(due[r]) /\ JobFits(r) /\ jobs'[r] = Completed(r, v)
        /\ \A y : Fits(r, y) => Fits(r, y)'
        /\ due[r] # Unset /\ r \in ClockRefs => ClockAt(r) = 0
    BY <1>0, <1>1, <1>2, FitsOnward, ClocksReady DEF Facts, ClockRefs
  <2>1. CASE Expired(r) /\ jobs'[r].status = "live" /\ jobs'[r].settlement = TimedOut
             /\ jobs'[r].next = 0
    <3>1. due[r] = 0 /\ jobs[r].settlement = NoResult /\ Live(r) /\ r \notin promised
      BY <2>0, <2>1, Tags DEF Expired, JobFits
    <3>2. r \notin promised' /\ ClockAt(r) = 0 /\ ClockAt(r)' = 0 /\ due'[r] # Unset
      BY <1>0, <2>0, <3>1, ClockTimes, TimesAreNat DEF ClockAt, Times
    <3>3. Fits(r, TimedOut)'
      BY <3>1, <3>2, Tags DEF Fits
    <3> QED
      BY <2>0, <2>1, <3>1, <3>2, <3>3 DEF JobFits, Live, Fits, ClockRefs
  <2>2. CASE /\ Open(r) /\ ~Expired(r) /\ jobs'[r].status = "live" /\ jobs'[r].next = 0
             /\ jobs'[r].settlement = IF v = NoResult THEN jobs[r].settlement ELSE v
    <3>1. /\ Live(r) /\ jobs[r].settlement # TimedOut /\ jobs[r] # NoJob
          /\ jobs[r].settlement = NoResult => due[r] # 0
          /\ v # NoResult => jobs[r].settlement \in {NoResult, v}
      BY <1>0, <2>2, NoJobFields, <1>2 DEF Open, Conflict, Live
    <3>2. due[r] # Unset /\ (r \in ClockRefs => ClockAt(r) = 0 /\ ClockAt(r)' = 0)
      BY <2>0, <3>1 DEF JobFits, ClockAt
    <3>3. Fits(r, jobs[r].settlement)'
      <4>1. CASE v = NoResult \/ jobs[r].settlement = v
        BY <2>0, <2>2, <4>1 DEF JobFits, Fits
      <4>2. CASE v # NoResult /\ jobs[r].settlement = NoResult
        <5>1. r \in now /\ v \in Values
          BY <1>0, <1>2, <3>1, <4>2
        <5> QED
          BY <1>0, <2>2, <3>2, <4>2, <5>1, Tags DEF Fits, ClockRefs
      <4> QED
        BY <3>1, <4>1, <4>2
    <3>4. r \in promised' => jobs'[r].settlement \in Values
      BY <1>0, <2>0, <2>2, <3>1 DEF JobFits
    <3> QED
      BY <1>0, <2>0, <2>2, <3>1, <3>2, <3>3, <3>4 DEF JobFits, Live, Fits, ClockRefs
  <2>3. CASE ~Open(r) /\ ~Expired(r) /\ jobs'[r] = jobs[r]
    <3>1. Live(r) /\ r \in promised' => r \in promised
      BY <1>0, <2>3, NoJobFields DEF Live
    <3>2. Fits(r, jobs[r].settlement) /\ \A y \in answers[r] : Fits(r, y)
      BY <2>0 DEF JobFits
    <3> QED
      BY <2>0, <2>3, <3>1, <3>2 DEF JobFits, Live, Fits, ClockRefs, ClockAt
  <2> QED
    BY <2>0, <2>1, <2>2, <2>3, CompletedFields
<1>3. ASSUME NEW r \in Refs, Handle[r] # h PROVE JobFits(r)'
  BY <1>0, <1>1, <1>3, JobOnward DEF Facts
<1>4. ASSUME NEW x \in Handles, x # h PROVE BufferFits(x)'
  BY <1>0, <1>1, <1>4, BufferOnward DEF Facts
<1> DEFINE active == incoming[h].expires \notin {0, Unset}
           kept   == IF active THEN incoming[h] ELSE NoIncoming
           needed == (\A r \in RefsOf(h) : jobs[r] = NoJob) \/ \E r \in RefsOf(h) : Open(r)
<1>5. /\ DOMAIN incoming'[h] = {"expires", "notified", "result", "late"}
      /\ incoming'[h].expires = IF active THEN incoming[h].expires ELSE Retention
      /\ incoming'[h].result = IF ~needed THEN NoResult ELSE IF v # NoResult THEN v ELSE kept.result
      /\ incoming'[h].late = IF ~needed THEN {}
                             ELSE IF kept.result # NoResult THEN kept.late
                             ELSE IF v # NoResult THEN {r \in RefsOf(h) : due[r] = 0} ELSE {}
  BY <1>0, BufferFields
<1>6. /\ kept.result \in Values \cup {NoResult}
      /\ \A r \in kept.late : r \in Refs /\ due[r] = 0
      /\ kept.result # NoResult => RefsOf(h) \ kept.late \subseteq timely
      /\ v # NoResult => kept.result \in {NoResult, v}
  BY <1>0 DEF Facts, BufferFits, NoIncoming, Conflict
<1>7. BufferFits(h)'
  <2> HIDE DEF active, kept, needed
  <2>1. incoming'[h].result \in Values \cup {NoResult}
    BY <1>5, <1>6
  <2>2. \A r \in incoming'[h].late : r \in Refs /\ due'[r] = 0
    BY <1>0, <1>5, <1>6
  <2>3. incoming'[h].result # NoResult => RefsOf(h) \ incoming'[h].late \subseteq timely'
    BY <1>0, <1>5, <1>6
  <2>4. \A r \in RefsOf(h) \cap ClockRefs' : \E q \in RefsOf(h) \cap ClockRefs' : ClockAt(q)' = 0
    BY DEF ClockRefs, ClockAt
  <2> QED
    BY <1>5, <2>1, <2>2, <2>3, <2>4 DEF BufferFits, RefsOf
<1>8. ASSUME NEW r \in promised' PROVE Waits(r)'
  <2>0. r \in Refs /\ IsJob(jobs[r]) /\ Handle[r] \in Handles
    BY <1>0 DEF Facts
  <2>1. CASE Handle[r] # h
    BY <1>0, <1>1, <2>0, <2>1, WaitsOnward DEF Facts
  <2>2. CASE Handle[r] = h
    <3> SUFFICES ASSUME jobs'[r] = NoJob, r \notin withdrawn, answers[r] = {}
                 PROVE  Waits(r)'
      BY DEF Waits
    <3>1. jobs[r] = NoJob /\ ~Open(r)
      BY <1>0, <2>0, <2>2, CompletedFields, NoJobFields DEF Open, Live
    <3>2. CASE r \in promised
      <4>1. /\ RefsOf(h) = {r} /\ r \notin incoming[h].late /\ incoming[h].result # NoResult
            /\ active /\ needed /\ kept = incoming[h]
        BY <2>2, <3>1, <3>2 DEF Facts, Waits
      <4> HIDE DEF active, kept, needed
      <4>2. /\ incoming'[h].expires = incoming[h].expires /\ incoming'[h].result # NoResult
            /\ r \notin incoming'[h].late
        BY <1>5, <4>1
      <4> QED
        BY <2>2, <4>1, <4>2 DEF Waits, RefsOf, active
    <3>3. CASE r \notin promised
      <4>1. v # NoResult /\ due[r] # 0 /\ RefsOf(h) = {r} /\ needed
        BY <1>0, <3>1, <3>3
      <4> HIDE DEF kept, needed
      <4>2. incoming'[h].result # NoResult /\ r \notin incoming'[h].late
        BY <1>5, <1>6, <4>1
      <4>3. incoming'[h].expires \notin {0, Unset}
        BY <1>5, PolicyTimes, TimesAreNat, ResolverAssumption
      <4> QED
        BY <2>2, <4>1, <4>2, <4>3 DEF Waits, RefsOf
    <3> QED
      BY <3>2, <3>3
  <2> QED
    BY <2>1, <2>2
<1>9. (\A p \in visit' : VisitFits(p)') /\ \A s \in todo' : ListedFits(s)'
  BY <1>1, RunOnward DEF Facts
<1>10. promised' \subseteq Refs /\ mode' \in Modes
  BY <1>0 DEF DeadlineInv
<1> QED
  BY <1>1, <1>2, <1>3, <1>4, <1>7, <1>8, <1>9, <1>10 DEF DeadlineInv

\* Time passes alike for deadlines, clocks, jobs and buffers.
LEMMA TickMoves ==
    ASSUME Facts, StoredOK, DeadlineInv, Tick
    PROVE  DeadlineInv'
<1>0. /\ UNCHANGED <<mode, run, visit, answers, withdrawn, timely>>
      /\ \A r \in Refs : /\ due'[r] = Sooner(due[r])
                         /\ jobs'[r] = [jobs[r] EXCEPT !.next = Sooner(jobs[r].next)]
      /\ \A h \in Handles : incoming'[h] = [incoming[h] EXCEPT !.expires = Sooner(@)]
      /\ todo' = {[s EXCEPT !.job.next = Sooner(@)] : s \in todo}
      /\ promised' = {r \in promised : jobs[r] # NoJob \/ incoming'[Handle[r]].expires # 0}
  BY DEF Tick
<1>1. ASSUME NEW r \in Refs
      PROVE  /\ due'[r] = 0 <=> due[r] \in {0, 1}
             /\ due'[r] = Unset <=> due[r] = Unset
             /\ due[r] # Unset => ClockAt(r)' = Sooner(ClockAt(r))
             /\ ClockAt(r) = 0 => ClockAt(r)' = 0
             /\ ClockAt(r)' \in Nat
  <2>1. IsTime(due[r]) /\ due'[r] = Sooner(due[r])
    BY <1>0 DEF Facts
  <2> QED
    BY <2>1, ResolverAssumption, TimesAreNat DEF Sooner, ClockAt, IsTime, Times, Unset, MaxTime
<1>2. Onward
  BY <1>0, <1>1 DEF Onward
<1>3. ClocksAgree'
  BY <1>0, <1>1 DEF DeadlineInv, ClocksAgree, ClockRefs
<1>4. ASSUME NEW r \in Refs
      PROVE  /\ jobs'[r].status = jobs[r].status /\ jobs'[r].settlement = jobs[r].settlement
             /\ jobs'[r].next = Sooner(jobs[r].next) /\ (jobs'[r] = NoJob <=> jobs[r] = NoJob)
  <2>1. IsJob(jobs[r])
    BY DEF Facts
  <2>2. Sooner(Unset) = Unset
    BY DEF Sooner
  <2>3. CASE jobs[r] = NoJob
    BY <1>0, <2>2, <2>3 DEF NoJob
  <2>4. CASE jobs[r] # NoJob
    <3>1. /\ jobs'[r].status = jobs[r].status /\ jobs'[r].settlement = jobs[r].settlement
          /\ jobs'[r].next = Sooner(jobs[r].next) /\ jobs[r].status # "none"
      BY <1>0, <2>1, <2>4 DEF IsJob
    <3> QED
      BY <2>4, <3>1, NoJobFields
  <2> QED
    BY <2>3, <2>4
<1>5. ASSUME NEW r \in Refs PROVE JobFits(r)'
  <2>1. /\ JobFits(r) /\ IsJob(jobs[r]) /\ IsTime(due[r])
        /\ \A y : Fits(r, y) => Fits(r, y)'
    BY <1>2, FitsOnward DEF Facts
  <2>2. Fits(r, jobs[r].settlement)'
    BY <2>1, <1>4 DEF JobFits, Fits
  <2>3. Live(r) /\ r \in ClockRefs => ClockAt(r)' <= jobs'[r].next
    <3> SUFFICES ASSUME Live(r), r \in ClockRefs PROVE ClockAt(r)' <= jobs'[r].next
      OBVIOUS
    <3>1. due[r] # Unset /\ ClockAt(r) <= jobs[r].next
      BY <2>1, NoJobFields DEF JobFits, Live
    <3>2. IsTime(ClockAt(r)) /\ IsTime(jobs[r].next) /\ ClockAt(r)' = Sooner(ClockAt(r))
      BY <1>1, <2>1, <3>1, ClockTimes DEF IsJob
    <3> QED
      BY <1>4, <3>1, <3>2, TimesClosed
  <2> QED
    BY <1>0, <1>1, <1>4, <2>1, <2>2, <2>3 DEF JobFits, Live, Fits, ClockRefs
<1>6. ASSUME NEW h \in Handles PROVE BufferFits(h)'
  <2>1. BufferFits(h) /\ RefsOf(h) \subseteq Refs
    BY DEF Facts
  <2>2. /\ DOMAIN incoming'[h] = DOMAIN incoming[h] /\ incoming'[h].result = incoming[h].result
        /\ incoming'[h].late = incoming[h].late
        /\ incoming'[h].notified = incoming[h].notified
    BY <1>0, <2>1 DEF BufferFits
  <2>3. \A r \in incoming'[h].late : r \in Refs /\ due'[r] = 0
    BY <1>1, <2>1, <2>2 DEF BufferFits
  <2>4. \A q \in RefsOf(h) \cap ClockRefs : q \in ClockRefs' /\ (ClockAt(q) = 0 => ClockAt(q)' = 0)
    BY <1>0, <1>1, <2>1 DEF ClockRefs
  <2>5. ClockRefs' = ClockRefs
    BY <1>0 DEF ClockRefs
  <2> QED
    BY <1>0, <2>1, <2>2, <2>3, <2>4, <2>5 DEF BufferFits, RefsOf
<1>7. ASSUME NEW r \in promised' PROVE Waits(r)'
  <2>1. /\ r \in Refs /\ Handle[r] \in Handles /\ Waits(r) /\ BufferFits(Handle[r])
        /\ jobs[r] # NoJob \/ incoming'[Handle[r]].expires # 0
    BY <1>0 DEF Facts
  <2> DEFINE h == Handle[r]
  <2>2. /\ incoming'[h].result = incoming[h].result /\ incoming'[h].late = incoming[h].late
        /\ incoming'[h].expires = Sooner(incoming[h].expires) /\ IsTime(incoming[h].expires)
    BY <1>0, <2>1 DEF BufferFits, StoredOK
  <2>3. incoming[h].expires # Unset => incoming'[h].expires # Unset
    BY <2>2, TimesAreNat DEF IsTime, Sooner, Times, Unset
  <2> QED
    BY <1>0, <1>4, <2>1, <2>2, <2>3 DEF Waits, RefsOf
<1>8. \A p \in visit' : VisitFits(p)'
  BY <1>0, <1>2, FitsOnward DEF Facts, VisitFits, Onward, ClockRefs
<1>9. ASSUME NEW x \in todo' PROVE ListedFits(x)'
  <2>1. PICK s \in todo : x = [s EXCEPT !.job.next = Sooner(@)]
    BY <1>0
  <2>2. DOMAIN s = {"ref", "job"} /\ s.ref \in Refs /\ ListedFits(s) /\ IsTime(due[s.ref])
    BY DEF Facts
  <2>3. /\ x.ref = s.ref /\ DOMAIN x.job = DOMAIN s.job /\ x.job.status = s.job.status
        /\ x.job.next = Sooner(s.job.next) /\ IsTime(s.job.next)
        /\ x.job = [s.job EXCEPT !.next = Sooner(@)]
    BY <2>1, <2>2 DEF ListedFits, IsJob
  <2>4. IsJob(x.job)
    <3>1. IsTime(Sooner(s.job.next)) /\ IsJob(s.job) /\ Sooner(Unset) = Unset
      BY <2>2, <2>3, TimesClosed DEF ListedFits, Sooner
    <3>2. CASE s.job = NoJob
      BY <2>3, <3>1, <3>2, NoJobFields DEF NoJob
    <3>3. CASE s.job # NoJob
      BY <2>3, <3>1, <3>3, NoJobFields DEF IsJob
    <3> QED
      BY <3>2, <3>3
  <2>5. x.job.status = "live" =>
          due'[x.ref] # Unset /\ (x.ref \in ClockRefs => ClockAt(x.ref)' <= x.job.next)
    BY <1>1, <2>2, <2>3, TimesClosed, ClockTimes DEF ListedFits
  <2> QED
    BY <1>0, <2>3, <2>4, <2>5 DEF ListedFits, ClockRefs, ClockAt
<1> QED
  BY <1>0, <1>2, <1>3, <1>5, <1>6, <1>7, <1>8, <1>9 DEF DeadlineInv

\* Nothing is decided at the start.
LEMMA DeadlineInit == Init => DeadlineInv
<1> SUFFICES ASSUME Init PROVE DeadlineInv
  OBVIOUS
<1>1. /\ NoJob.settlement = NoResult /\ NoJob.status = "none"
      /\ {"result", "late", "notified"} \subseteq DOMAIN NoIncoming
      /\ NoIncoming.result = NoResult /\ NoIncoming.late = {} /\ NoIncoming.notified = FALSE
  BY DEF NoJob, NoIncoming
<1>2. \A r \in Refs : JobFits(r)
  BY <1>1, Tags DEF Init, JobFits, Fits, Live
<1>3. \A h \in Handles : BufferFits(h)
  BY <1>1 DEF Init, BufferFits
<1> QED
  BY <1>2, <1>3, TimesAreNat DEF Init, DeadlineInv, ClocksAgree, ClockRefs

\* Every step respects the deadlines, action by action.
LEMMA DeadlineStep == ResolverInv /\ DeadlineInv /\ [Next]_vars => DeadlineInv'
<1> SUFFICES ASSUME ResolverInv, DeadlineInv, [Next]_vars PROVE DeadlineInv'
  OBVIOUS
<1>0. Facts /\ StoredOK /\ \A p, q \in visit : p = q
  BY ResolverAssumption DEF Facts, ResolverInv, ResolverTypes, AnswerInv, StoredOK, DeadlineInv, RefsOf
<1>1. ASSUME NEW p \in visit, NEW j, update(p.ref, j), Quiet, UNCHANGED incoming,
             run' # "delivered", todo' = todo, visit' = visit \/ visit' = {},
             Live(p.ref) =>
               /\ Fits(p.ref, j.settlement)
               /\ \/ j.status = "done" /\ j.settlement = NoResult /\ answers[p.ref] # {}
                  \/ /\ j.status = "live" /\ (p.ref \in ClockRefs => ClockAt(p.ref) <= j.next)
                     /\ p.ref \in promised => j.settlement \in Values
      PROVE  DeadlineInv'
  <2>1. p.ref \in Refs
    BY <1>0 DEF Facts
  <2> QED
    BY <1>0, <1>1, <2>1, UpdateMoves DEF Quiet, recorded, history
<1>2. ASSUME NEW r \in Refs, Live(r), r \in ClockRefs => ClockAt(r) = 0
      PROVE  LET j == Postponed(r)
             IN  /\ Fits(r, j.settlement) /\ j.status = "live"
                 /\ r \in ClockRefs => ClockAt(r) <= j.next
                 /\ r \in promised => j.settlement \in Values
  <2>1. IsJob(jobs[r]) /\ JobFits(r) /\ jobs[r] # NoJob /\ IsTime(Later(r))
    BY <1>0, <1>2, NoJobFields, TimesClosed DEF Facts, Live, Later
  <2>2. /\ Postponed(r).status = jobs[r].status /\ Postponed(r).next = Later(r)
        /\ Postponed(r).settlement = jobs[r].settlement
    BY <2>1 DEF Postponed, IsJob
  <2>3. Later(r) \in Nat
    BY <2>1, TimesClosed
  <2> QED
    BY <1>2, <2>1, <2>2, <2>3 DEF JobFits, Live
<1>3. ASSUME NEW r \in Refs, NEW at \in 0 .. MaxClock, promiseDeadline(r, at) PROVE DeadlineInv'
  BY <1>0, <1>3, DeadlineMoves
<1>4. ASSUME NEW r \in Refs, watch(r) \/ cancel(r) PROVE DeadlineInv'
  BY <1>0, <1>4, WatchMoves, CancelMoves
<1>5. ASSUME (\E r \in Refs : CancelDiscard(r)) \/ FirstDiscard \/ LastDiscard PROVE DeadlineInv'
  BY <1>0, <1>5, DiscardMoves
  DEF CancelDiscard, FirstDiscard, LastDiscard, Quiet, recorded, handler, history
<1>6. ASSUME NEW h \in Handles, NEW v \in Values \cup {NoResult},
             complete(h, v) \/ \E n \in Ids : webhook(n, h, v)
      PROVE  DeadlineInv'
  BY <1>0, <1>6, AcceptMoves DEF complete, webhook, recorded, handler
<1>7. ASSUME \/ Fire \/ Sweep \/ Crash \/ (\E s \in todo : Skip(s))
             \/ \E p \in visit : Poll(p) \/ PollFails(p) \/ DeliverFails(p)
      PROVE  DeadlineInv'
  <2>1. UNCHANGED <<mode, due, jobs, incoming, answers, withdrawn, timely, promised>>
    BY <1>7 DEF Fire, Sweep, Crash, Skip, Poll, PollFails, DeliverFails, Quiet, recorded, stored,
       history
  <2>2. visit' \subseteq visit /\ todo' \subseteq todo /\ (run' # "delivered" \/ run' = run)
    BY <1>7 DEF Fire, Sweep, Crash, Skip, Poll, PollFails, DeliverFails, Quiet
  <2> QED
    BY <1>0, <2>1, <2>2, RunMoves
<1>8. ASSUME List PROVE DeadlineInv'
  BY <1>0, <1>8, ListMoves
<1>9. ASSUME NEW s \in todo, Begin(s) PROVE DeadlineInv'
  <2> DEFINE r == s.ref
  <2>1. r \in Refs /\ (r \in ClockRefs => ClockAt(r) = 0)
    <3>1. r \in Refs /\ ListedFits(s) /\ IsTime(due[r]) /\ s.job.status = "live" /\ s.job.next = 0
      BY <1>0, <1>9 DEF Facts, Begin
    <3> QED
      BY <3>1, ClockTimes DEF ListedFits
  <2>2. \A p \in visit' : p.ref = r /\ p.answer = NoResult
    BY <1>9 DEF Begin
  <2>3. /\ update(r, Postponed(r)) /\ todo' \subseteq todo /\ run' # "delivered"
        /\ UNCHANGED <<mode, due, incoming, answers, withdrawn, timely, promised>>
    BY <1>9 DEF Begin, Quiet, recorded, history
  <2> QED
    BY <1>0, <1>2, <2>1, <2>2, <2>3, UpdateMoves
<1>10. ASSUME NEW p \in visit, Expire(p) PROVE DeadlineInv'
  <2> DEFINE r == p.ref
             j == IF jobs[r].settlement # NoResult THEN jobs[r]
                  ELSE [jobs[r] EXCEPT !.next = 0, !.settlement = TimedOut]
  <2>1. r \in Refs /\ IsJob(jobs[r]) /\ JobFits(r) /\ due[r] = 0 /\ ClockAt(r) = 0
    BY <1>0, <1>10, ClockTimes DEF Facts, Expire
  <2>2. CASE jobs[r].settlement # NoResult /\ j = jobs[r]
    <3>1. Live(r) => ClockAt(r) <= j.next /\ j.status = "live"
      BY <2>1, <2>2, TimesClosed DEF IsJob, Live
    <3> QED
      BY <1>1, <1>10, <2>1, <2>2, <3>1 DEF Expire, JobFits
  <2>3. CASE jobs[r].settlement = NoResult
    <3>1. j.status = jobs[r].status /\ j.next = 0 /\ j.settlement = TimedOut
      BY <2>1, <2>3 DEF IsJob
    <3>2. update(r, j)
      BY <1>10 DEF Expire
    <3> HIDE DEF j
    <3>3. Live(r) => r \notin promised
      BY <2>1, <2>3, Tags DEF JobFits
    <3> QED
      BY <1>1, <1>10, <2>1, <3>1, <3>2, <3>3, Tags DEF Expire, Fits, Live
  <2> QED
    BY <2>2, <2>3
<1>11. ASSUME NEW p \in visit, PollPending(p) PROVE DeadlineInv'
  <2> DEFINE r == p.ref
             t == IF jobs[r].settlement # NoResult THEN 0
                  ELSE IF Push(r, jobs[r].polling) THEN due[r]
                  ELSE Earlier(due[r], PollInterval)
             j == [jobs[r] EXCEPT !.next = t]
  <2>1. r \in Refs /\ IsJob(jobs[r]) /\ JobFits(r) /\ r \notin ClockRefs
    BY <1>0, <1>11 DEF Facts, PollPending
  <2>2. update(r, j)
    BY <1>11 DEF PollPending
  <2> HIDE DEF t
  <2>3. j.status = jobs[r].status /\ j.settlement = jobs[r].settlement
    BY <2>1 DEF IsJob
  <2> HIDE DEF j
  <2> QED
    BY <1>1, <1>11, <2>1, <2>2, <2>3 DEF PollPending, JobFits, Live
<1>12. ASSUME NEW p \in visit, NEW v \in Values, PollReturns(p, v) PROVE DeadlineInv'
  <2> DEFINE h == Handle[p.ref]
  <2>1. p.ref \in Refs /\ h \in Handles /\ VisitFits(p) /\ p.ref \in RefsOf(h) /\ mode \in Modes
    BY <1>0 DEF Facts, RefsOf, DeadlineInv
  <2>2. \A r \in RefsOf(h) \cap ClockRefs : \E q \in RefsOf(h) \cap ClockRefs : ClockAt(q) = 0
    BY <2>1, ClocksApart DEF VisitFits
  <2>3. /\ accept(h, v) /\ run' = "settled"
        /\ UNCHANGED <<mode, due, answers, withdrawn, visit, todo>>
    BY <1>12 DEF PollReturns, recorded
  <2> HIDE DEF h
  <2> QED
    BY <1>0, <2>1, <2>2, <2>3, AcceptMoves
<1>13. ASSUME NEW p \in visit, ReadLatest(p) \/ Deliver(p) PROVE DeadlineInv'
  BY <1>0, <1>13, ReadMoves, DeliverMoves
<1>14. ASSUME NEW p \in visit, MarkDone(p) PROVE DeadlineInv'
  <2> DEFINE j == [NoJob EXCEPT !.status = "done", !.next = Retention]
  <2>1. p.ref \in Refs /\ answers[p.ref] # {}
    BY <1>0, <1>14 DEF Facts, MarkDone, VisitFits
  <2>2. j.status = "done" /\ j.settlement = NoResult /\ update(p.ref, j) /\ Fits(p.ref, NoResult)
    BY <1>14, Tags DEF NoJob, MarkDone, Fits
  <2> HIDE DEF j
  <2> QED
    BY <1>1, <1>14, <2>1, <2>2 DEF MarkDone
<1>15. ASSUME NEW p \in visit, CatchError(p) PROVE DeadlineInv'
  <2>1. p.ref \in Refs /\ (p.ref \in ClockRefs => ClockAt(p.ref) = 0)
    BY <1>0 DEF Facts, VisitFits
  <2> QED
    BY <1>1, <1>2, <1>15, <2>1 DEF CatchError
<1>16. ASSUME Tick PROVE DeadlineInv'
  BY <1>0, <1>16, TickMoves
<1>17. CASE UNCHANGED vars
  BY <1>0, <1>17, RunMoves DEF vars, recorded, stored, handler, history
<1> QED
  BY <1>3, <1>4, <1>5, <1>6, <1>7, <1>8, <1>9, <1>10, <1>11, <1>12, <1>13, <1>14, <1>15, <1>16, <1>17
  DEF Next, Handler, Visit

-----------------------------------------------------------------------------
(* The theorems *)

\* So it is consistent for ever.
LEMMA ResolverHolds == Spec => []ResolverInv
  BY ResolverInit, ResolverStep, PTL DEF Spec

\* A thread is told one outcome of a promise, however deadline, polls, completions and
\* repeated deliveries race (promise-resolver.ts accept and alarm).
THEOREM AnsweredOnce == Spec => []OneAnswer
<1>1. ResolverInv => OneAnswer
  <2> SUFFICES ASSUME ResolverInv, NEW r \in Refs PROVE Cardinality(answers[r]) <= 1
    BY DEF OneAnswer
  <2>1. CASE answers[r] = {}
    BY <2>1, FS_EmptySet
  <2>2. CASE answers[r] # {}
    <3>1. PICK x \in answers[r] : answers[r] = {x}
      BY <2>2 DEF ResolverInv, AnswerInv
    <3> QED
      BY <3>1, FS_Singleton
  <2> QED
    BY <2>1, <2>2
<1> QED
  BY <1>1, ResolverHolds, PTL

\* No stored time precedes the alarm once a run has made its first transaction
\* (promise-resolver.ts schedule).
THEOREM StoredTimesAreCovered == Spec => []AlarmCovers
<1>1. ResolverInv => AlarmCovers
  BY DEF ResolverInv, CoverInv, Covered, AlarmCovers
<1> QED
  BY <1>1, ResolverHolds, PTL

\* No run, completion or late copy of its registration revives a cancelled promise
\* (promise-resolver.ts register, update and accept).
THEOREM CancelledStays == Spec => []CancelHolds
<1>1. ResolverInv => CancelHolds
  BY DEF ResolverInv, AnswerInv
<1> QED
  BY <1>1, ResolverHolds, PTL

\* A result that reached a waiting job, or the buffer of a promise yet to be watched,
\* before the deadline is not turned into a timeout; one that came only later is never
\* delivered; and a clock's promise is not settled before its time (promise-resolver.ts
\* register, accept, poll and alarm).
THEOREM DeadlinesDecide == Spec => []DeadlineDecides
<1>1. DeadlineInv => DeadlineDecides
  BY DEF DeadlineInv, JobFits, Fits, DeadlineDecides
<1> QED
  BY <1>1, DeadlineInit, DeadlineStep, ResolverHolds, PTL DEF Spec
=============================================================================
