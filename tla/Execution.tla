----------------------------- MODULE Execution -----------------------------
(***************************************************************************)
(* The running part of one actor thread (core/src/runtime/execution.ts):   *)
(* the drain loop that accepts and executes effects one at a time, the     *)
(* background producers that executions fork, the cleanup fibres of        *)
(* cancelled effects, deadlines, recovery after a restart, and the         *)
(* recovery state the watchdog probes.                                     *)
(*                                                                         *)
(* Durable is the table of operations (Lifecycle, which the event log      *)
(* implements) and the kind of a recorded promise handle; all else is lost *)
(* in a crash.  An admission (the queue at execution.ts:349) runs alone,   *)
(* so each of them is one step; the interleavings are those between        *)
(* admissions.  A latched commit failure ends in the same restart as a     *)
(* crash and is not told apart from it here.                               *)
(***************************************************************************)
EXTENDS Lifecycle

CONSTANTS
    NoRef,       \* no reference
    Unbounded,   \* invocations whose forked producer has no deadline
    MayBlock,    \* the host's canDrive may refuse
    MaxAttempt,  \* bound on retries of an execution or a cleanup
    MaxCrashes   \* bound on restarts

ASSUME ExecutionAssumption ==
    /\ NoRef \notin Origins
    /\ Unbounded \subseteq Origins
    /\ MayBlock \in BOOLEAN
    /\ MaxAttempt \in Nat
    /\ MaxCrashes \in Nat

VARIABLES
    handle,         \* durable: kind of the promise handle recorded per invocation
    proposed,       \* durable: invocations the actor's state proposes
    due,            \* recorded deadlines that have passed
    drain,          \* the drain loop: step, claimed work, recovering it, stop requested
    fibre,          \* the execution fibre the drain waits for
    scheduled,      \* the processing queue is not empty
    producer,       \* background fibre per invocation
    cleaner,        \* cleanup fibre per invocation, "queued" while pendingCleanup
    localRecovery,  \* local promises whose act is to be rerun
    watched,        \* promises with a deadline timer or a watch
    errors,         \* reported failures: the worst one
    drivable,       \* what canDrive answers
    crashes,        \* restarts so far
    jobs,           \* history: jobs being submitted, submitted since the restart, or recorded
    withdrawn,      \* history: external jobs that a cleanup cancelled
    lost            \* history: promises whose producer ended without a result

durable == <<ops, defect, handle, proposed>>
fibres == <<drain, fibre, producer, cleaner>>
host == <<drivable, crashes>>
history == <<jobs, withdrawn, lost>>
vars == <<ops, defect, handle, proposed, due, drain, fibre, scheduled, producer, cleaner,
          localRecovery, watched, errors, drivable, crashes, jobs, withdrawn, lost>>

Idle == [pc |-> "idle", ref |-> NoRef, recovering |-> FALSE, stop |-> FALSE]
At(pc) == [Idle EXCEPT !.pc = pc]

Active(o) == o \in Accepted /\ ~Complete(o)
Running(o) == Active(o) /\ ~ops[o].cancelled

\* snapshot.deferred, pending, cleanupWork and executableEffects
Deferred ==
    {o \in Accepted : ~defect /\ Running(o) /\ ops[o].outcome = "promise" /\ ops[o].promise = "none"}
LocalDeferred == {o \in Deferred : handle[o] = "local"}
Pending == {o \in Accepted : ops[o].outcome = "none" /\ ~ops[o].cancelled /\ ~Frozen(o)}
Cleanup == {o \in Accepted : cleanupRunnable(ops[o])}
Executable == Pending \cup {o \in proposed \ Accepted : ~Frozen(o)}
Expired == {o \in LocalDeferred : o \in due}

\* Faulty variant of Observed: the deadline of a local promise is not watched.
ObservedExternal == watched \cup (Deferred \ LocalDeferred)

\* observePromises: every deferred promise gets a timer, a wake or a watch.
Observed == watched \cup Deferred

\* Faulty variant of Completing: the boundary ends with the execution fibre, before
\* its result is admitted.
CompletingFibreOnly ==
    IF drain.pc = "claimed" \/ (drain.pc = "running" /\ fibre \in {"run", "forked", "waiting"})
    THEN {drain.ref} ELSE {}

\* claimWork: the drain holds the completion boundary of the work it claimed
\* until its result is admitted.
Completing == IF drain.pc \in {"claimed", "running"} THEN {drain.ref} ELSE {}

-----------------------------------------------------------------------------
(* Commit: what follows a record on the volatile side *)

\* Faulty variant of Started: cleanups queued at startup are never started.
StartedAfresh(cl) ==
    [o \in Origins |->
       IF o \in DOMAIN ops' /\ cleanupRunnable(ops'[o]) /\ cl[o] = "none"
       THEN "wait" ELSE cl[o]]

\* queueCleanup and cleanCancellations: every owed cleanup gets one fibre.
Started(cl) ==
    [o \in Origins |->
       IF o \in DOMAIN ops' /\ cleanupRunnable(ops'[o]) /\ cl[o] \in {"none", "queued"}
       THEN "wait" ELSE cl[o]]

\* Faulty variant of Committed: the drain is not scheduled after a commit.
CommittedQuietly(cl) ==
    LET gone == {o \in DOMAIN ops' : operationComplete(ops'[o])}
    IN  /\ cleaner' = Started(cl)
        /\ localRecovery' = localRecovery \ gone
        /\ watched' = watched \ gone
        /\ due' = due \ gone
        /\ UNCHANGED scheduled

\* commit after its transaction: finished references leave the maps, cleanups
\* start, the drain is scheduled.
Committed(cl) ==
    LET gone == {o \in DOMAIN ops' : operationComplete(ops'[o])}
    IN  /\ cleaner' = Started(cl)
        /\ localRecovery' = localRecovery \ gone
        /\ watched' = watched \ gone
        /\ due' = due \ gone
        /\ scheduled' = TRUE

Uncommitted ==
    UNCHANGED <<ops, defect, handle, scheduled, cleaner, localRecovery, watched, due>>

\* appendNow of a record that may come too late: then it is dropped.
AppendSettlement(o, s, h) ==
    IF AdmitsSettlement(o, s)
    THEN /\ Settle(o, s)
         /\ handle' = IF s = "promise" THEN [handle EXCEPT ![o] = h] ELSE handle
         /\ Committed(cleaner)
    ELSE Uncommitted

AppendPromise(o, res) ==
    IF AdmitsPromise(o)
    THEN Resolve(o, res) /\ Committed(cleaner) /\ UNCHANGED handle
    ELSE Uncommitted

\* recordDeath; a defect interrupts the execution in progress.
RecordDeath(o) ==
    IF AdmitsDefect(o)
    THEN Die(o) /\ Committed(cleaner) /\ UNCHANGED handle
    ELSE Uncommitted
Stop(d) == [d EXCEPT !.stop = @ \/ (~defect /\ defect' /\ d.pc = "running")]

AppendRetry(o, phase, cl) ==
    Retry(o, phase) /\ Committed(cl) /\ UNCHANGED handle

\* expireLocalPromises
ExpireAll ==
    /\ ops' = [o \in Accepted |-> IF o \in Expired
                                  THEN Fold(ops[o], PromiseSettled(o, "timedOut")) ELSE ops[o]]
    /\ UNCHANGED <<defect, handle>>

-----------------------------------------------------------------------------
(* The drain loop *)

DrainOnly == UNCHANGED <<proposed, errors, host, history>>

\* The processing loop takes every queued completion and drains once.
Wake ==
    /\ drain.pc = "idle" /\ scheduled
    /\ drain' = At("top") /\ scheduled' = FALSE
    /\ UNCHANGED <<ops, defect, handle, fibre, producer, cleaner, localRecovery, watched, due>>
    /\ DrainOnly

\* One turn of drain: observePromises, expireLocalPromises, canDrive, afterCommit.
\* Blocked, it returns before afterCommit.
Top ==
    /\ drain.pc = "top"
    /\ ExpireAll
    /\ LET drives == defect \/ drivable
           gone   == {o \in Accepted : operationComplete(ops'[o])}
       IN  /\ drain' = At(IF drives THEN "select" ELSE "idle")
           /\ cleaner' = IF drives \/ Expired # {} THEN Started(cleaner) ELSE cleaner
           /\ watched' = Observed \ gone
           /\ localRecovery' = localRecovery \ gone
           /\ due' = due \ gone
           /\ scheduled' = (scheduled \/ Expired # {})
    /\ UNCHANGED <<fibre, producer>> /\ DrainOnly

Claim(o, recovering) ==
    drain' = [pc |-> "claimed", ref |-> o, recovering |-> recovering, stop |-> FALSE]

Recoverable == {o \in localRecovery : ~defect /\ Running(o)}

\* The selecting admission: local recovery first, then proposals.
SelectRecovery ==
    /\ drain.pc = "select"
    /\ \E o \in Recoverable :
         /\ localRecovery' = Recoverable \ {o}
         /\ IF o \in due
            THEN /\ Resolve(o, "timedOut") /\ UNCHANGED <<handle, drain>>
                 /\ cleaner' = Started(cleaner) /\ scheduled' = TRUE
                 /\ watched' = watched \ {o} /\ due' = due \ {o}
            ELSE /\ Claim(o, TRUE)
                 /\ UNCHANGED <<ops, defect, handle, scheduled, cleaner, watched, due>>
    /\ UNCHANGED <<fibre, producer>> /\ DrainOnly

SelectProposal ==
    /\ drain.pc = "select" /\ Recoverable = {}
    /\ \E o \in Executable :
         /\ Claim(o, FALSE)
         /\ IF o \in Accepted THEN Uncommitted
            ELSE Request(o) /\ Committed(cleaner) /\ UNCHANGED handle
    /\ UNCHANGED <<fibre, producer>> /\ DrainOnly

SelectNothing ==
    /\ drain.pc = "select" /\ Recoverable = {} /\ Executable = {}
    /\ drain' = Idle /\ localRecovery' = {}
    /\ UNCHANGED <<ops, defect, handle, scheduled, cleaner, watched, due, fibre, producer>>
    /\ DrainOnly

\* Claimed work is dropped if it was cancelled or ended meanwhile.
Start ==
    /\ drain.pc = "claimed"
    /\ IF Running(drain.ref)
       THEN drain' = [drain EXCEPT !.pc = "running"] /\ fibre' = "run"
       ELSE drain' = At("top") /\ UNCHANGED fibre
    /\ Uncommitted /\ UNCHANGED producer /\ DrainOnly

-----------------------------------------------------------------------------
(* The execution fibre *)

FibreStep(from, to) ==
    /\ drain.pc = "running" /\ fibre = from
    /\ fibre' = to
    /\ UNCHANGED drain

\* The act returns, fails, times out or dies.
Return ==
    /\ \/ \E res \in {"value", "rejected", "died"} : FibreStep("run", res)
       \/ \E res \in {"local", "value", "rejected", "died"} : FibreStep("forked", res)
       \/ FibreStep("submitted", "external")
    /\ Uncommitted /\ UNCHANGED producer /\ DrainOnly

\* execution.fork
Fork ==
    /\ FibreStep("run", IF producer[drain.ref] = "none" THEN "forked" ELSE "rejected")
    /\ Running(drain.ref)
    /\ producer' = [producer EXCEPT ![drain.ref] = IF @ = "none" THEN "run" ELSE @]
    /\ Uncommitted /\ DrainOnly

\* execution.submit is uninterruptible: the external job, then its handle.  A
\* recovered act recreates its local producer and submits nothing.
Submit ==
    /\ FibreStep("run", "submitting")
    /\ ~drain.recovering /\ Running(drain.ref) /\ drain.ref \notin ReplyOrigins
    /\ jobs' = jobs \cup {drain.ref}
    /\ Uncommitted /\ UNCHANGED <<producer, proposed, errors, host, withdrawn, lost>>

\* It fails, or its attempt times out when a job may exist already: no handle says so.
SubmitFails ==
    /\ \/ \E res \in {"value", "rejected"} : FibreStep("submitting", res)
       \/ (drain.stop \/ ~Running(drain.ref)) /\ FibreStep("submitting", "interrupted")
    /\ jobs' = jobs \ {drain.ref}
    /\ Uncommitted /\ UNCHANGED <<producer, proposed, errors, host, withdrawn, lost>>

SubmitRecord ==
    /\ FibreStep("submitting", "submitted")
    /\ AppendSettlement(drain.ref, "promise", "external")
    /\ UNCHANGED producer /\ DrainOnly

\* execution.retry: the attempt's failure is recorded, then its wait ends.
FibreRetry ==
    /\ FibreStep("run", "waiting")
    /\ AdmitsRetry(drain.ref, "execution") /\ ops[drain.ref].retry < MaxAttempt
    /\ AppendRetry(drain.ref, "execution", cleaner)
    /\ UNCHANGED producer /\ DrainOnly

FibreWake ==
    /\ FibreStep("waiting", "run")
    /\ Running(drain.ref)
    /\ Uncommitted /\ UNCHANGED producer /\ DrainOnly

\* A cancellation or a defect interrupts the fibre, not inside submit.
FibreInterrupted ==
    /\ drain.stop \/ ~Running(drain.ref)
    /\ \E from \in {"run", "forked", "waiting", "submitted"} : FibreStep(from, "interrupted")
    /\ Uncommitted /\ UNCHANGED producer /\ DrainOnly

\* After the fibre: its result is admitted and the completion boundary ends.  A
\* fibre interrupted by a defect ends the drain.
Finish ==
    /\ drain.pc = "running"
    /\ \/ /\ fibre \in {"value", "rejected"}
          /\ IF drain.recovering THEN AppendPromise(drain.ref, "result")
             ELSE AppendSettlement(drain.ref, fibre, "none")
       \/ /\ fibre \in {"local", "external"}
          /\ IF drain.recovering THEN Uncommitted
             ELSE AppendSettlement(drain.ref, "promise", fibre)
       \/ fibre = "died" /\ RecordDeath(drain.ref)
       \/ fibre = "interrupted" /\ Uncommitted
    /\ fibre' = "none"
    /\ drain' = At(IF fibre = "interrupted" /\ Running(drain.ref) THEN "idle" ELSE "top")
    /\ UNCHANGED producer /\ DrainOnly

-----------------------------------------------------------------------------
(* Background producers *)

ProducerStep(o, from, to) ==
    /\ producer[o] = from
    /\ producer' = [producer EXCEPT ![o] = to]
    /\ UNCHANGED <<fibre, proposed, host, jobs, withdrawn>>

\* The forked operation returns events to deliver.
ProducerReturns(o) ==
    /\ ProducerStep(o, "run", "deliver")
    /\ Uncommitted /\ UNCHANGED <<drain, errors, lost>>

\* It fails, or its attempt times out before the handle is recorded: reported.
ProducerFails(o) ==
    /\ ProducerStep(o, "run", "none")
    /\ errors' = "fault" /\ lost' = lost \cup {o}
    /\ Uncommitted /\ UNCHANGED drain

\* Its attempt times out: the promise is rejected.
ProducerTimesOut(o) ==
    /\ ProducerStep(o, "run", "none")
    /\ ops[o].outcome # "none" \/ ~Running(o)
    /\ AppendPromise(o, "result")
    /\ UNCHANGED <<drain, errors, lost>>

ProducerDies(o) ==
    /\ ProducerStep(o, "run", "none")
    /\ RecordDeath(o) /\ drain' = Stop(drain)
    /\ UNCHANGED <<errors, lost>>

ProducerRetry(o) ==
    /\ ProducerStep(o, "run", "waiting")
    /\ AdmitsRetry(o, "execution") /\ ops[o].retry < MaxAttempt
    /\ AppendRetry(o, "execution", cleaner)
    /\ UNCHANGED <<drain, errors, lost>>

ProducerWake(o) ==
    /\ ProducerStep(o, "waiting", "run")
    /\ Running(o)
    /\ Uncommitted /\ UNCHANGED <<drain, errors, lost>>

\* deliver: send for an owner.  PromiseNotReady is retried until the handle is
\* recorded; an owner that is cancelled or finished takes nothing.
ProducerDelivers(o) ==
    /\ ProducerStep(o, "deliver", "none")
    /\ defect \/ ~Running(o) \/ ops[o].outcome # "none"
    /\ errors' = IF defect THEN "fault" ELSE errors
    /\ AppendPromise(o, "result")
    /\ UNCHANGED <<drain, lost>>

\* It ends without a result: it delivered other events only, or its owner used
\* runtime.interrupt.
ProducerQuits(o) ==
    /\ \E from \in {"run", "waiting", "deliver"} : ProducerStep(o, from, "none")
    /\ ~defect /\ Running(o) /\ ops[o].promise = "none"
    /\ lost' = lost \cup {o}
    /\ Uncommitted /\ UNCHANGED <<drain, errors>>

\* A cancellation, the promise's result and a defect interrupt the producer.
ProducerInterrupted(o) ==
    /\ \E from \in {"run", "waiting", "deliver"} : ProducerStep(o, from, "none")
    /\ defect \/ Cancelled(o) \/ ops[o].promise # "none"
    /\ Uncommitted /\ UNCHANGED <<drain, errors, lost>>

-----------------------------------------------------------------------------
(* Cleanup fibres *)

CleanerStep(o, from) ==
    /\ cleaner[o] = from
    /\ UNCHANGED <<fibre, producer, proposed, drain, host, jobs, lost>>

\* The cleanup operation waits for the completion boundary, interrupts the
\* producer, and only then reads the handle to cancel.
CleanerReads(o) ==
    /\ CleanerStep(o, "wait")
    /\ o \notin Completing /\ producer[o] = "none"
    /\ cleaner' = [cleaner EXCEPT ![o] = "act"]
    /\ withdrawn' = IF handle[o] = "external" THEN withdrawn \cup {o} ELSE withdrawn
    /\ UNCHANGED <<ops, defect, handle, scheduled, localRecovery, watched, due, errors>>

\* The attempt fails or times out, also while it still waits.
CleanerRetry(o) ==
    /\ CleanerStep(o, "wait") \/ CleanerStep(o, "act")
    /\ AdmitsRetry(o, "cancellation") /\ ops[o].cleanupRetry < MaxAttempt
    /\ AppendRetry(o, "cancellation", [cleaner EXCEPT ![o] = "waiting"])
    /\ UNCHANGED <<withdrawn, errors>>

CleanerWake(o) ==
    /\ CleanerStep(o, "waiting")
    /\ cleaner' = [cleaner EXCEPT ![o] = "wait"]
    /\ UNCHANGED <<ops, defect, handle, scheduled, localRecovery, watched, due, withdrawn, errors>>

\* The outcome is recorded; a failed cleanup is a terminal error.
CleanerEnds(o) ==
    /\ CleanerStep(o, "wait") \/ CleanerStep(o, "act")
    /\ \E k \in CleanupOutcomes :
         /\ k = "fulfilled" => cleaner[o] = "act"
         /\ CleanUp(o, k)
         /\ errors' = IF k = "fulfilled" \/ errors = "fault" THEN errors ELSE "terminal"
    /\ Committed([cleaner EXCEPT ![o] = "done"])
    /\ UNCHANGED <<handle, withdrawn>>

-----------------------------------------------------------------------------
(* The state the watchdog probes *)

\* retryWaits: attempts that wait for their recorded time.
Waiting ==
    {o \in Origins : producer[o] = "waiting" \/ (drain.ref = o /\ fibre = "waiting")}

\* Faulty variant of Orphans: a live sibling masks a lost producer.
OrphansMasked ==
    IF \E o \in LocalDeferred : producer[o] # "none" THEN {}
    ELSE {o \in LocalDeferred :
            producer[o] = "none" /\ o \notin localRecovery \cup Completing \cup Waiting}

\* Local promises nobody works on.
Orphans ==
    {o \in LocalDeferred :
       producer[o] = "none" /\ o \notin localRecovery \cup Completing \cup Waiting}

recoveryState ==
    LET failed == errors = "fault" \/ (Cleanup = {} /\ (errors = "terminal" \/ defect))
        work   == (Executable \cap Accepted) \cup Deferred
        live   == {o \in LocalDeferred : producer[o] # "none"}
        parked == /\ work \cup Cleanup # {} /\ work \subseteq Waiting
                  /\ \A o \in Cleanup : cleaner[o] = "waiting"
        running == \/ Cleanup # {}
                   \/ drain.pc = "running" /\ Executable # {}
                   \/ live # {} /\ Executable = {}
    IN  IF failed THEN "failed"
        ELSE IF parked THEN "parked"
        ELSE IF Orphans # {} THEN "orphaned"
        ELSE IF running THEN "running"
        ELSE IF Executable # {} \/ LocalDeferred # {} THEN "pending"
        ELSE IF Deferred = {} THEN "settled"
        ELSE "parked"

-----------------------------------------------------------------------------
(* Callers, deadlines, restarts *)

\* send of a domain event after which the actor proposes an invocation.
Propose(o) ==
    /\ ~defect /\ o \notin proposed
    /\ proposed' = proposed \cup {o} /\ scheduled' = TRUE
    /\ UNCHANGED <<ops, defect, handle, fibres, localRecovery, watched, due, errors, host,
                   history>>

\* cancel: send of EffectCancelled.
CancelEffect(o) ==
    /\ Cancel(o) /\ Committed(cleaner)
    /\ UNCHANGED <<handle, proposed, drain, fibre, producer, errors, host, history>>

DeadlinePasses(o) ==
    /\ o \in Deferred \ (Unbounded \cup due)
    /\ due' = due \cup {o}
    /\ UNCHANGED <<durable, fibres, scheduled, localRecovery, watched, errors, host, history>>

\* A deadline timer fires; the resolver of an external promise answers.
Answer(o) ==
    /\ o \in watched /\ AdmitsPromise(o)
    /\ \/ handle[o] = "external" /\ \E res \in PromiseResults : AppendPromise(o, res)
       \/ handle[o] = "local" /\ o \in due /\ AppendPromise(o, "timedOut")
    /\ UNCHANGED <<proposed, drain, fibre, producer, errors, host, history>>

\* resume: send([]), from a wake or from the watchdog.
Resume ==
    /\ ~defect /\ ~scheduled
    /\ ExpireAll
    /\ Committed(cleaner)
    /\ UNCHANGED <<proposed, drain, fibre, producer, errors, host, history>>

\* The watchdog blocks the thread, or admits it again and resumes it.
SetDrivable(b) ==
    /\ MayBlock /\ drivable # b
    /\ drivable' = b /\ scheduled' = (scheduled \/ b)
    /\ UNCHANGED <<durable, fibres, due, localRecovery, watched, errors, crashes, history>>

\* A crash, or invalidation after a failure, and the startup that follows: the
\* replayed cancellations are queued, local promises are to be rerun.
Restart ==
    /\ crashes < MaxCrashes
    /\ crashes' = crashes + 1
    /\ drain' = Idle /\ fibre' = "none" /\ scheduled' = TRUE
    /\ producer' = [o \in Origins |-> "none"]
    /\ cleaner' = [o \in Origins |-> IF o \in Cleanup THEN "queued" ELSE "none"]
    /\ localRecovery' = LocalDeferred
    /\ watched' = {}
    /\ errors' = IF \E o \in Accepted : ops[o].cleanup \in {"rejected", "died"}
                 THEN "terminal" ELSE "none"
    /\ jobs' = {o \in jobs : handle[o] = "external"}
    /\ lost' = {}
    /\ UNCHANGED <<durable, due, drivable, withdrawn>>

Init ==
    /\ LifecycleInit
    /\ handle = [o \in Origins |-> "none"]
    /\ proposed = {} /\ due = {}
    /\ drain = Idle /\ fibre = "none" /\ scheduled = TRUE
    /\ producer = [o \in Origins |-> "none"]
    /\ cleaner = [o \in Origins |-> "none"]
    /\ localRecovery = {} /\ watched = {}
    /\ errors = "none" /\ drivable = TRUE /\ crashes = 0
    /\ jobs = {} /\ withdrawn = {} /\ lost = {}

DrainSteps ==
    Wake \/ Top \/ SelectRecovery \/ SelectProposal \/ SelectNothing \/ Start \/ Finish
FibreSteps ==
    \/ Return \/ Fork \/ Submit \/ SubmitFails \/ SubmitRecord
    \/ FibreRetry \/ FibreWake \/ FibreInterrupted
ProducerSteps(o) ==
    \/ ProducerReturns(o) \/ ProducerFails(o) \/ ProducerTimesOut(o) \/ ProducerDies(o)
    \/ ProducerRetry(o) \/ ProducerWake(o) \/ ProducerDelivers(o) \/ ProducerQuits(o)
    \/ ProducerInterrupted(o)
CleanerSteps(o) == CleanerReads(o) \/ CleanerRetry(o) \/ CleanerWake(o) \/ CleanerEnds(o)
Environment ==
    \/ \E o \in Origins : Propose(o) \/ CancelEffect(o)
    \/ Resume
    \/ \E b \in BOOLEAN : SetDrivable(b)
    \/ Restart

Next ==
    \/ DrainSteps
    \/ FibreSteps
    \/ \E o \in Origins : ProducerSteps(o) \/ CleanerSteps(o) \/ DeadlinePasses(o) \/ Answer(o)
    \/ Environment

Spec == Init /\ [][Next]_vars

\* Fibres run; attempts end, by their timeout at the latest; retries are finite;
\* deadlines pass and timers fire.
Fairness ==
    /\ WF_vars(DrainSteps) /\ WF_vars(FibreSteps)
    /\ \A o \in Origins :
         /\ WF_vars(ProducerSteps(o)) /\ WF_vars(CleanerSteps(o))
         /\ WF_vars(DeadlinePasses(o)) /\ WF_vars(Answer(o))

FairSpec == Spec /\ Fairness

-----------------------------------------------------------------------------
(* Properties *)

TypeOK ==
    /\ \A o \in Accepted : ops[o] \in StoredOperation
    /\ Accepted \subseteq Origins /\ defect \in BOOLEAN
    /\ handle \in [Origins -> {"none", "local", "external"}]
    /\ proposed \subseteq Origins /\ due \subseteq Accepted
    /\ drain \in [pc : {"idle", "top", "select", "claimed", "running"},
                  ref : Origins \cup {NoRef}, recovering : BOOLEAN, stop : BOOLEAN]
    /\ drain.ref = NoRef <=> drain.pc \notin {"claimed", "running"}
    /\ fibre \in {"none", "run", "forked", "waiting", "submitting", "submitted", "value",
                  "rejected", "local", "external", "died", "interrupted"}
    /\ scheduled \in BOOLEAN
    /\ producer \in [Origins -> {"none", "run", "waiting", "deliver"}]
    /\ cleaner \in [Origins -> {"none", "queued", "wait", "act", "waiting", "done"}]
    /\ localRecovery \subseteq Accepted /\ watched \subseteq Accepted
    /\ errors \in {"none", "terminal", "fault"}

\* A cancelled effect whose cleanup succeeded leaves no external job behind, not even one
\* submitted while the cancellation was on its way: the late handle is admitted and cleanup
\* reads it after it is.  The one exception is a job whose submission ended after another
\* operation's defect: append drops its handle (replay.ts:833), and a later cancellation,
\* taken while some cleanup still runs, cannot withdraw what was not recorded.  A job whose
\* submission failed or timed out is not counted: no handle tells of it.  Cleanup acts
\* alone: neither the execution nor its producer still runs, whatever the order of
\* cancellation, fork, submit, retry and restart.
NoLeakedJob ==
    /\ \A o \in Accepted :
         ops[o].cleanup = "fulfilled" /\ o \in jobs =>
           o \in withdrawn \/ (defect /\ handle[o] = "none")
    /\ \A o \in Origins : cleaner[o] = "act" => producer[o] = "none" /\ o \notin Completing

\* Every owed cleanup has a fibre, or is queued for a drain that will come: also
\* after a restart, and while the host refuses to drive the thread.
CleanupOwned ==
    \A o \in Cleanup :
      \/ cleaner[o] \in {"wait", "act", "waiting"}
      \/ cleaner[o] = "queued" /\ (scheduled \/ drain.pc # "idle" \/ ~drivable)

\* The drain never sleeps on work: when it is idle and nothing is scheduled, no
\* proposal, recovery or cleanup is left for it and every promise is watched.
NoLostWakeup ==
    drain.pc = "idle" /\ ~scheduled /\ (drivable \/ defect) =>
      /\ Executable = {} /\ Recoverable = {}
      /\ \A o \in Origins : cleaner[o] # "queued"
      /\ Deferred \subseteq watched

\* recoveryState is honest: it reports a lost producer only if one was lost (no
\* moment of the hand-over between act, producer, handle and recovery looks like a
\* loss), settled means nothing is left to run or to clean, and neither a live
\* sibling nor a running cleanup masks a lost producer.
HonestRecovery ==
    /\ recoveryState = "orphaned" => lost # {}
    /\ recoveryState = "settled" =>
         Executable = {} /\ Deferred = {} /\ Cleanup = {} /\ ~defect
    /\ recoveryState \in {"running", "pending", "parked", "settled"} =>
         \A o \in LocalDeferred :
           producer[o] # "none" \/ o \in localRecovery \/ o \in Completing

\* Every accepted cancellation is followed by a recorded cleanup outcome.
CancellationEnds ==
    \A o \in Origins : Cancelled(o) ~> (o \in Accepted /\ ops[o].cleanup # "none")

\* Everything the actor proposes is accepted and ends, if the thread does not fail:
\* through its act, its producer, its resolver or its deadline.
WorkEnds ==
    \A o \in Origins :
      o \in proposed ~> (Complete(o) \/ Cancelled(o) \/ defect)
=============================================================================
