-------------------------- MODULE PromiseResolver --------------------------
(***************************************************************************)
(* The promise resolver of platform/src/cloudflare/promise-resolver.ts: a  *)
(* Durable Object that watches remote promises for threads, takes their    *)
(* completions from callers, webhooks and polls, and delivers each         *)
(* settlement to its thread.                                               *)
(*                                                                         *)
(* Every storage transaction is one step.  Times are what is left of them, *)
(* 0 once they have passed, as in Scheduler.                               *)
(***************************************************************************)
EXTENDS Naturals, FiniteSets

CONSTANTS
    Refs,           \* the threads' promise references
    Handles,        \* remote executions
    Handle,         \* [Refs -> Handles]
    Modes,          \* the modes references may have: [Refs -> {"push", "poll", "clock"}]
    Values,         \* results a remote execution may report
    Ids,            \* identities of webhook notifications
    Timeout, PollInterval, RetryInterval, Retention,   \* the promise policy
    MaxClock,       \* bound on how far ahead a clock is set
    MaxFaults       \* bound on crashes and failed handler runs

NoResult == "none"
TimedOut == "timedOut"

MaxTime == IF Timeout + MaxClock > Retention THEN Timeout + MaxClock ELSE Retention

ASSUME ResolverAssumption ==
    /\ Handle \in [Refs -> Handles]
    /\ Modes \subseteq [Refs -> {"push", "poll", "clock"}]
    /\ \A m \in Modes, r, q \in Refs : Handle[r] = Handle[q] /\ m[r] = "clock" => m[q] = "clock"
    /\ Values # {} /\ Values \cap {NoResult, TimedOut} = {}
    /\ MaxClock \in Nat /\ Timeout \in Nat \ {0} /\ Retention \in Nat \ {0}
    /\ PollInterval \in 1 .. MaxTime /\ RetryInterval \in 1 .. MaxTime
    /\ MaxFaults \in Nat

VARIABLES
    mode,       \* whether a reference is pushed, polled or a clock, chosen once
    due,        \* the thread's recorded deadline of a reference, Unset before
    jobs,       \* durable: [Refs -> Job or NoJob]
    incoming,   \* durable: [Handles -> Incoming or NoIncoming]
    receipts,   \* durable: [Ids -> time left, Unset without receipt]
    alarm,      \* the Durable Object's alarm, Unset when deleted
    cleaning,   \* volatile: cancel calls that have not run discard yet
    run,        \* volatile: where the alarm handler is
    todo,       \* volatile: listed jobs the handler has not visited
    visit,      \* volatile: the listed job being handled, as a set
    faults,
    answers,    \* history: settlements that reached the thread
    withdrawn,  \* history: cancelled references
    timely,     \* history: references with a result accepted before their deadline
    promised    \* history: those whose job, or unexpired buffer, took the result

recorded == <<mode, due>>
stored == <<jobs, incoming, receipts>>
handler == <<run, todo, visit>>
history == <<answers, withdrawn, timely, promised>>
vars == <<recorded, stored, alarm, cleaning, handler, faults, history>>

Times == 0 .. MaxTime
Unset == MaxTime + 1

Job ==
    [ status : {"live", "done"}, next : Times,
      settlement : Values \cup {TimedOut, NoResult}, polling : BOOLEAN ]
NoJob == [status |-> "none", next |-> Unset, settlement |-> NoResult, polling |-> FALSE]

\* "late" stands for resultReceivedAt: the references whose deadline had passed.
Incoming ==
    [ expires : Times, result : Values \cup {NoResult}, late : SUBSET Refs,
      notified : BOOLEAN ]
NoIncoming == [expires |-> Unset, result |-> NoResult, late |-> {}, notified |-> FALSE]

Earlier(a, b) == IF a < b THEN a ELSE b
Live(r) == jobs[r].status = "live"
PushRefs == {r \in Refs : mode[r] = "push"}
ClockRefs == {r \in Refs : mode[r] = "clock"}
RefsOf(h) == {r \in Refs : Handle[r] = h}
Push(r, polling) == r \in PushRefs /\ ~polling

\* Faulty variant of schedule: buffers and receipts are forgotten.
scheduleJobs ==
    LET times == {jobs'[r].next : r \in Refs}
    IN  alarm' = CHOOSE t \in times \cup {Unset} : \A u \in times : t <= u

\* schedule: every transaction sets the alarm to the earliest stored time.
schedule ==
    LET times == {jobs'[r].next : r \in Refs} \cup {incoming'[h].expires : h \in Handles}
                 \cup {receipts'[n] : n \in Ids}
    IN  alarm' = CHOOSE t \in times \cup {Unset} : \A u \in times : t <= u

\* update: a missing or finished job is left alone.
update(r, job) == jobs' = [jobs EXCEPT ![r] = IF Live(r) THEN job ELSE @]

-----------------------------------------------------------------------------
(* Registration *)

ClockAt(r) == IF due[r] > Timeout THEN due[r] - Timeout ELSE 0

\* The thread accepts a promise handle and records its deadline; a clock's waiting
\* budget begins at the time it is set to, "at" from now, which its handle names.
promiseDeadline(r, at) ==
    /\ due[r] = Unset
    /\ r \notin ClockRefs => at = 0
    /\ \A q \in RefsOf(Handle[r]) \cap ClockRefs : due[q] # Unset => at = ClockAt(q)
    /\ due' = [due EXCEPT ![r] = at + Timeout]
    /\ UNCHANGED <<mode, stored, alarm, cleaning, handler, faults, history>>

\* A buffered result counts if it came before the reference's deadline.
Buffered(r) ==
    LET in == incoming[Handle[r]]
    IN  IF in.expires = 0 \/ r \in in.late THEN NoResult ELSE in.result
Notified(r) == incoming[Handle[r]].expires # 0 /\ incoming[Handle[r]].notified

\* Faulty variant of NewJob: a buffered result is only found by polling.
NewJobUnbuffered(r) ==
    [ status |-> "live", polling |-> Notified(r), settlement |-> NoResult,
      next |-> IF Notified(r) \/ r \notin PushRefs THEN 0 ELSE due[r] ]

NewJob(r) ==
    [ status |-> "live", polling |-> Notified(r), settlement |-> Buffered(r),
      next |-> IF Buffered(r) # NoResult \/ Notified(r) THEN 0
               ELSE IF r \in ClockRefs THEN Earlier(due[r], ClockAt(r))
               ELSE IF r \in PushRefs THEN due[r] ELSE 0 ]

\* Faulty variant of watch: a finished job is registered anew.
watchRevives(r) ==
    /\ due[r] # Unset
    /\ jobs[r] # NoJob \/ (r \notin withdrawn /\ answers[r] = {})
    /\ jobs' = [jobs EXCEPT ![r] = IF Live(r) THEN @ ELSE NewJob(r)]
    /\ UNCHANGED <<incoming, receipts>>
    /\ schedule
    /\ UNCHANGED <<recorded, cleaning, handler, faults, history>>

\* register, watch: repeated until it is acknowledged.  A copy may arrive late,
\* within the retention of the job it repeats.
watch(r) ==
    /\ due[r] # Unset
    /\ jobs[r] # NoJob \/ (r \notin withdrawn /\ answers[r] = {})
    /\ jobs' = [jobs EXCEPT ![r] = IF @ = NoJob THEN NewJob(r) ELSE @]
    /\ UNCHANGED <<incoming, receipts>>
    /\ schedule
    /\ UNCHANGED <<recorded, cleaning, handler, faults, history>>

\* register, cancel: a finished job stays as a tombstone.
cancel(r) ==
    /\ due[r] # Unset
    /\ jobs' = [jobs EXCEPT ![r] = [NoJob EXCEPT !.status = "done", !.next = Retention]]
    /\ UNCHANGED <<incoming, receipts>>
    /\ schedule
    /\ cleaning' = cleaning \cup {r}
    /\ withdrawn' = withdrawn \cup {r}
    /\ UNCHANGED <<recorded, handler, faults, answers, timely, promised>>

-----------------------------------------------------------------------------
(* Completions *)

\* A waiting job is not settled twice, and never once its deadline has passed.
Open(r) == Live(r) /\ jobs[r].settlement # TimedOut /\ ~(jobs[r].settlement = NoResult /\ due[r] = 0)
Expired(r) == Live(r) /\ jobs[r].settlement = NoResult /\ due[r] = 0

Conflict(h, v) ==
    /\ v # NoResult
    /\ \/ incoming[h].expires # 0 /\ incoming[h].result \notin {NoResult, v}
       \/ \E r \in RefsOf(h) : Open(r) /\ jobs[r].settlement \notin {NoResult, v}

\* Faulty variant of Completed: a late result replaces the timeout.
CompletedLate(r, v) ==
    IF ~Live(r) THEN jobs[r]
    ELSE IF v = NoResult THEN [jobs[r] EXCEPT !.next = 0, !.polling = TRUE]
    ELSE [jobs[r] EXCEPT !.next = 0, !.settlement = v]

Completed(r, v) ==
    CASE Expired(r) -> [jobs[r] EXCEPT !.next = 0, !.settlement = TimedOut]
      [] Open(r) -> [jobs[r] EXCEPT !.next = 0, !.polling = @ \/ v = NoResult,
                                    !.settlement = IF v = NoResult THEN @ ELSE v]
      [] OTHER -> jobs[r]

\* The handle's buffer.  Its result is kept while a job may still need it.
Buffer(h, v) ==
    LET active == incoming[h].expires \notin {0, Unset}
        kept   == IF active THEN incoming[h] ELSE NoIncoming
        needed == \/ \A r \in RefsOf(h) : jobs[r] = NoJob
                  \/ \E r \in RefsOf(h) : Open(r)
    IN  [ expires |-> IF active THEN kept.expires ELSE Retention,
          notified |-> needed,
          result |-> IF ~needed THEN NoResult ELSE IF v # NoResult THEN v ELSE kept.result,
          late |-> IF ~needed THEN {}
                   ELSE IF kept.result # NoResult THEN kept.late
                   ELSE IF v # NoResult THEN {r \in RefsOf(h) : due[r] = 0} ELSE {} ]

\* accept: a conflicting completion fails and changes nothing.
accept(h, v) ==
    /\ ~Conflict(h, v)
    /\ jobs' = [r \in Refs |-> IF Handle[r] = h THEN Completed(r, v) ELSE jobs[r]]
    /\ incoming' = [incoming EXCEPT ![h] = Buffer(h, v)]
    /\ LET now == {r \in RefsOf(h) : v # NoResult /\ due[r] # 0}
       IN  /\ timely' = timely \cup now
           /\ promised' = promised \cup
                {r \in now : Open(r) \/ (jobs[r] = NoJob /\ RefsOf(h) = {r})}

\* A completion of a remote execution, from a trusted caller.
complete(h, v) ==
    /\ RefsOf(h) \cap ClockRefs = {} /\ v # NoResult
    /\ accept(h, v)
    /\ UNCHANGED receipts
    /\ schedule
    /\ UNCHANGED <<recorded, cleaning, handler, faults, answers, withdrawn>>

\* webhook: a notification, with or without the result; a known one is dropped.
webhook(n, h, v) ==
    /\ RefsOf(h) \cap ClockRefs = {}
    /\ receipts[n] \in {0, Unset}
    /\ accept(h, v)
    /\ receipts' = [receipts EXCEPT ![n] = Retention]
    /\ schedule
    /\ UNCHANGED <<recorded, cleaning, handler, faults, answers, withdrawn>>

-----------------------------------------------------------------------------
(* discard *)

\* A buffer goes when it expires; its payload when all its jobs are finished.
Discarded(h) ==
    LET kept == {r \in RefsOf(h) : jobs'[r] # NoJob}
    IN  IF incoming[h].expires = 0 THEN NoIncoming
        ELSE IF incoming[h].result # NoResult /\ kept # {}
                /\ \A r \in kept : jobs[r].status = "done"
        THEN [incoming[h] EXCEPT !.result = NoResult, !.late = {}, !.notified = FALSE]
        ELSE incoming[h]

discard ==
    /\ receipts' = [n \in Ids |-> IF receipts[n] = 0 THEN Unset ELSE receipts[n]]
    /\ jobs' = [r \in Refs |->
                  IF jobs[r].status = "done" /\ jobs[r].next = 0 THEN NoJob ELSE jobs[r]]
    /\ incoming' = [h \in Handles |-> Discarded(h)]
    /\ schedule

CancelDiscard(r) ==
    /\ r \in cleaning
    /\ discard
    /\ cleaning' = cleaning \ {r}
    /\ UNCHANGED <<recorded, handler, faults, history>>

-----------------------------------------------------------------------------
(* The alarm handler *)

Quiet == UNCHANGED <<recorded, cleaning, faults, history>>

Fire ==
    /\ run = "idle" /\ alarm = 0
    /\ run' = "started" /\ alarm' = Unset
    /\ UNCHANGED <<stored, todo, visit>> /\ Quiet

FirstDiscard ==
    /\ run = "started" /\ run' = "discarded"
    /\ discard
    /\ UNCHANGED <<todo, visit>> /\ Quiet

List ==
    /\ run = "discarded" /\ run' = "visiting"
    /\ todo' = {[ref |-> r, job |-> jobs[r]] : r \in {x \in Refs : jobs[x] # NoJob}}
    /\ UNCHANGED <<stored, alarm, visit>> /\ Quiet

Skip(s) ==
    /\ run = "visiting" /\ s \in todo
    /\ s.job.status = "done" \/ s.job.next > 0
    /\ todo' = todo \ {s}
    /\ UNCHANGED <<stored, alarm, run, visit>> /\ Quiet

Later(r) == IF jobs[r].settlement # NoResult THEN RetryInterval ELSE Earlier(due[r], RetryInterval)
Postponed(r) == [jobs[r] EXCEPT !.next = Later(r)]

\* A due job is put off first, so that a failure leaves it to a later alarm.
Begin(s) ==
    /\ run = "visiting" /\ s \in todo
    /\ s.job.status = "live" /\ s.job.next = 0
    /\ todo' = todo \ {s}
    /\ visit' = {[ref |-> s.ref, job |-> s.job, answer |-> NoResult]}
    /\ run' = IF s.job.settlement = NoResult THEN "working" ELSE "settled"
    /\ update(s.ref, Postponed(s.ref))
    /\ UNCHANGED <<incoming, receipts>>
    /\ schedule /\ Quiet

\* The deadline has passed: a timeout, unless a completion came first.
Expire(p) ==
    /\ run = "working" /\ p \in visit /\ due[p.ref] = 0
    /\ run' = "settled"
    /\ update(p.ref, IF jobs[p.ref].settlement # NoResult THEN jobs[p.ref]
                     ELSE [jobs[p.ref] EXCEPT !.next = 0, !.settlement = TimedOut])
    /\ UNCHANGED <<incoming, receipts, todo, visit>>
    /\ schedule /\ Quiet

\* Push mode waits for a notification, a clock needs no call, the rest is polled.
Poll(p) ==
    /\ run = "working" /\ p \in visit /\ due[p.ref] # 0
    /\ run' = "polling"
    /\ UNCHANGED <<stored, alarm, todo, visit>> /\ Quiet

PollPending(p) ==
    LET r   == p.ref
        job == jobs[r]
    IN  /\ run = "polling" /\ p \in visit /\ r \notin ClockRefs
        /\ run' = "settled"
        /\ update(r, [job EXCEPT !.next =
                        IF job.settlement # NoResult THEN 0
                        ELSE IF Push(r, job.polling) THEN due[r]
                        ELSE Earlier(due[r], PollInterval)])
        /\ UNCHANGED <<incoming, receipts, todo, visit>>
        /\ schedule /\ Quiet

\* The result goes through accept.
PollReturns(p, v) ==
    /\ run = "polling" /\ p \in visit /\ ~Push(p.ref, p.job.polling)
    /\ accept(Handle[p.ref], v)
    /\ run' = "settled"
    /\ UNCHANGED receipts
    /\ schedule
    /\ UNCHANGED <<recorded, cleaning, todo, visit, faults, answers, withdrawn>>

\* The poll fails or times out, or its result conflicts.
PollFails(p) ==
    /\ run = "polling" /\ p \in visit /\ ~Push(p.ref, p.job.polling)
    /\ p.ref \in ClockRefs => \A v \in Values : Conflict(Handle[p.ref], v)
    /\ run' = "failed"
    /\ UNCHANGED <<stored, alarm, todo, visit>> /\ Quiet

\* The current job is read again before delivery.
ReadLatest(p) ==
    LET job == jobs[p.ref]
    IN  /\ run = "settled" /\ p \in visit
        /\ IF job.status # "live" \/ job.settlement = NoResult
           THEN run' = "visiting" /\ visit' = {}
           ELSE run' = "delivering" /\ visit' = {[p EXCEPT !.answer = job.settlement]}
        /\ UNCHANGED <<stored, alarm, todo>> /\ Quiet

\* The thread admits the settlement.
Deliver(p) ==
    /\ run = "delivering" /\ p \in visit
    /\ run' = "delivered"
    /\ answers' = [answers EXCEPT ![p.ref] = @ \cup {p.answer}]
    /\ UNCHANGED <<recorded, stored, alarm, cleaning, todo, visit, faults, withdrawn, timely, promised>>

\* The thread is unreachable, or its acknowledgement is lost.
DeliverFails(p) ==
    /\ run \in {"delivering", "delivered"} /\ p \in visit
    /\ run' = "failed"
    /\ UNCHANGED <<stored, alarm, todo, visit>> /\ Quiet

MarkDone(p) ==
    /\ run = "delivered" /\ p \in visit
    /\ run' = "visiting" /\ visit' = {}
    /\ update(p.ref, [NoJob EXCEPT !.status = "done", !.next = Retention])
    /\ UNCHANGED <<incoming, receipts, todo>>
    /\ schedule /\ Quiet

\* Faulty variant of CatchError: the job is left for a completion to wake.
CatchErrorForgets(p) ==
    /\ run = "failed" /\ p \in visit
    /\ run' = "visiting" /\ visit' = {}
    /\ update(p.ref, [jobs[p.ref] EXCEPT !.next = Unset])
    /\ UNCHANGED <<incoming, receipts, todo>>
    /\ schedule /\ Quiet

CatchError(p) ==
    /\ run = "failed" /\ p \in visit
    /\ run' = "visiting" /\ visit' = {}
    /\ update(p.ref, Postponed(p.ref))
    /\ UNCHANGED <<incoming, receipts, todo>>
    /\ schedule /\ Quiet

LastDiscard ==
    /\ run = "visiting" /\ todo = {} /\ visit = {}
    /\ run' = "sweeping"
    /\ discard
    /\ UNCHANGED <<todo, visit>> /\ Quiet

\* An empty resolver deletes its alarm and its storage.
Sweep ==
    /\ run = "sweeping" /\ run' = "idle"
    /\ alarm' = IF /\ \A r \in Refs : jobs[r] = NoJob
                   /\ \A h \in Handles : incoming[h] = NoIncoming
                   /\ \A n \in Ids : receipts[n] = Unset
                THEN Unset ELSE alarm
    /\ UNCHANGED <<stored, todo, visit>> /\ Quiet

\* The handler fails or the object dies; the platform retries a spent alarm.
Crash ==
    /\ faults < MaxFaults
    /\ faults' = faults + 1
    /\ run' = "idle" /\ todo' = {} /\ visit' = {} /\ cleaning' = {}
    /\ alarm' = IF run # "idle" /\ alarm = Unset THEN 0 ELSE alarm
    /\ UNCHANGED <<recorded, stored, history>>

Sooner(t) == IF t \in {0, Unset} THEN t ELSE t - 1

Tick ==
    /\ due' = [r \in Refs |-> Sooner(due[r])]
    /\ jobs' = [r \in Refs |-> [jobs[r] EXCEPT !.next = Sooner(@)]]
    /\ incoming' = [h \in Handles |-> [incoming[h] EXCEPT !.expires = Sooner(@)]]
    /\ receipts' = [n \in Ids |-> Sooner(receipts[n])]
    /\ alarm' = Sooner(alarm)
    /\ todo' = {[s EXCEPT !.job.next = Sooner(@)] : s \in todo}
    /\ promised' = {r \in promised : jobs[r] # NoJob \/ incoming'[Handle[r]].expires # 0}
    /\ UNCHANGED <<mode, cleaning, run, visit, faults, answers, withdrawn, timely>>

Init ==
    /\ mode \in Modes
    /\ due = [r \in Refs |-> Unset]
    /\ jobs = [r \in Refs |-> NoJob]
    /\ incoming = [h \in Handles |-> NoIncoming]
    /\ receipts = [n \in Ids |-> Unset]
    /\ alarm = Unset
    /\ cleaning = {}
    /\ run = "idle" /\ todo = {} /\ visit = {}
    /\ faults = 0
    /\ answers = [r \in Refs |-> {}]
    /\ withdrawn = {} /\ timely = {} /\ promised = {}

Visit(p) ==
    \/ Expire(p) \/ Poll(p) \/ PollPending(p) \/ PollFails(p)
    \/ \E v \in Values : PollReturns(p, v)
    \/ ReadLatest(p) \/ Deliver(p) \/ DeliverFails(p) \/ MarkDone(p) \/ CatchError(p)

Handler ==
    \/ FirstDiscard \/ List
    \/ \E s \in todo : Skip(s) \/ Begin(s)
    \/ \E p \in visit : Visit(p)
    \/ LastDiscard \/ Sweep

Next ==
    \/ \E r \in Refs : watch(r) \/ cancel(r) \/ CancelDiscard(r)
    \/ \E r \in Refs, at \in 0 .. MaxClock : promiseDeadline(r, at)
    \/ \E h \in Handles, v \in Values : complete(h, v)
    \/ \E n \in Ids, h \in Handles, v \in Values \cup {NoResult} : webhook(n, h, v)
    \/ Fire
    \/ Handler
    \/ Crash
    \/ Tick

Spec == Init /\ [][Next]_vars

\* Time passes, the alarm fires, a started run goes on (polls and deliveries are
\* cut off at attemptTimeoutMs), and a thread is not unreachable for ever.
Fairness ==
    /\ WF_vars(Tick) /\ WF_vars(Fire) /\ WF_vars(Handler)
    /\ \A r \in Refs : SF_vars(\E p \in visit : p.ref = r /\ Deliver(p))

FairSpec == Spec /\ Fairness

-----------------------------------------------------------------------------
(* Properties *)

TypeOK ==
    /\ mode \in Modes
    /\ due \in [Refs -> Times \cup {Unset}]
    /\ jobs \in [Refs -> Job \cup {NoJob}]
    /\ incoming \in [Handles -> Incoming \cup {NoIncoming}]
    /\ receipts \in [Ids -> Times \cup {Unset}]
    /\ alarm \in Times \cup {Unset}
    /\ cleaning \subseteq Refs
    /\ run \in {"idle", "started", "discarded", "visiting", "working", "polling", "settled",
                "delivering", "delivered", "failed", "sweeping"}
    /\ \A s \in todo : s.ref \in Refs /\ s.job \in Job
    /\ \A p \in visit : /\ p.ref \in Refs /\ p.job \in Job
                        /\ p.answer \in Values \cup {TimedOut, NoResult}
    /\ faults \in 0 .. MaxFaults
    /\ answers \in [Refs -> SUBSET (Values \cup {TimedOut})]
    /\ withdrawn \subseteq Refs /\ timely \subseteq Refs /\ promised \subseteq Refs

\* A thread is never told two different outcomes of one promise, however its
\* deadline, polls, completions and repeated deliveries race (promise-resolver.ts
\* accept's conflict checks and alarm's use of the current settlement).
OneAnswer == \A r \in Refs : Cardinality(answers[r]) <= 1

\* A result that reached a waiting job, or the buffer of a promise yet to be
\* watched, before the deadline is not turned into a timeout, and a result that
\* came only after the deadline is never delivered (register's resultReceivedAt,
\* accept's and alarm's deadline checks).  A clock's promise is not settled before
\* the time it is set to, whatever fails and is tried again.
DeadlineDecides ==
    \A r \in Refs :
      /\ TimedOut \in answers[r] \cup {jobs[r].settlement} => r \notin promised
      /\ (answers[r] \cup {jobs[r].settlement}) \cap Values # {} => r \in timely
      /\ (r \in ClockRefs /\ (answers[r] \cup {jobs[r].settlement}) \cap Values # {}) => ClockAt(r) = 0

\* Outside the first step of a run, the alarm is no later than any stored time, so
\* no job, buffer or receipt waits for an outside call (schedule).
AlarmCovers ==
    run # "started" =>
      /\ \A r \in Refs : alarm <= jobs[r].next
      /\ \A h \in Handles : alarm <= incoming[h].expires
      /\ \A n \in Ids : alarm <= receipts[n]

\* A cancelled promise is never observed or delivered again: no run, completion or
\* late copy of its registration revives the job (register's tombstone, and update
\* and accept, which leave a finished job alone).
CancelHolds == \A r \in withdrawn : ~Live(r)

\* A watched promise is settled and its thread told, by its deadline's expiry at
\* the latest, unless it is cancelled.
Resolved == \A r \in Refs : Live(r) ~> (answers[r] # {} \/ r \in withdrawn)

\* An early completion is retained for a promise of its execution that the thread
\* has recorded and is about to watch: accept "retains early arrivals"
\* (promise-resolver.ts:112).  It fails: the completion is dropped when another
\* promise of the same execution is already finished.
RetainsEarlyArrivals ==
    [][\A h \in Handles, v \in Values :
         (/\ complete(h, v)
          /\ \E r \in RefsOf(h) : jobs[r] = NoJob /\ due[r] \notin {0, Unset})
         => incoming'[h].result = v]_vars
=============================================================================
