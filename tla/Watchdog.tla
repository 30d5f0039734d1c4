------------------------------ MODULE Watchdog ------------------------------
(***************************************************************************)
(* Recovery supervision of core/src/services/watchdog.ts as the Durable    *)
(* Object host runs it: the host's alarm restores the watchdog's wake,     *)
(* claims it through the scheduler and runs watchdog.alarm, which launches *)
(* recovery attempts that go on after the alarm has returned.              *)
(*                                                                         *)
(* Every storage transaction is one step.  Times are what is left of them, *)
(* as in Scheduler.  "wake" is the stored wake with id "watchdog", which   *)
(* the scheduler keeps and delivers (module Scheduler).                    *)
(***************************************************************************)
EXTENDS Integers, FiniteSets

CONSTANTS
    Targets,        \* supervised threads
    Results,        \* what a recovery or a probe may report, see Outcomes
    MaxAttempts, MaxNoProgress,                \* the recovery budget
    AttemptTimeout, KeepAlive, RetryInterval,  \* policy intervals
    MaxRetryInterval, DeliveryRetry,
    MaxDelay,       \* bound on how far ahead a parked thread's wake lies
    MaxGeneration,  \* bound on a target's admissions and renewals
    MaxCursor,      \* bound on progress cursors
    MaxFaults       \* bound on crashes and failed transactions

\* A recovery reports a settled thread, a thread that is running or parked with a
\* wake in the future ("alive"), one with work left ("pending"), or fails.
Outcomes == {"settled", "alive", "pending", "failed", "terminal"}

ASSUME WatchdogAssumption ==
    /\ Results \subseteq Outcomes
    /\ MaxAttempts \in Nat \ {0} /\ MaxNoProgress \in Nat \ {0}
    /\ AttemptTimeout \in 1 .. MaxDelay /\ KeepAlive \in 1 .. MaxDelay
    /\ RetryInterval \in 1 .. MaxRetryInterval /\ MaxRetryInterval \in 1 .. MaxDelay
    /\ DeliveryRetry \in 1 .. MaxDelay
    /\ MaxDelay \in Nat /\ MaxGeneration \in Nat /\ MaxCursor \in Nat /\ MaxFaults \in Nat

VARIABLES
    entries,    \* durable: [Targets -> WatchdogEntry or NoEntry]
    wake,       \* durable: remaining time of the "watchdog" wake, NoWake if absent
    active,     \* volatile: remaining time of a launched attempt, Inactive if none
    work,       \* volatile: [Targets -> the launched attempt]
    cleanup,    \* volatile: the target whose invalidation holds cleanupLock, as a set
    run,        \* volatile: where the alarm's run is
    todo,       \* volatile: the listed entries the run has not visited
    visit,      \* volatile: the listed entry being handled, as a set
    replaced,   \* volatile: the wake was replaced after the run claimed it
    version,    \* the interpreter version of the running host
    up, faults,
    recoveries, \* history: recoveries started under the current budget
    terminal,   \* history: an attempt of the current budget failed terminally
    unseen,     \* history: an admission no recovery or probe result reflects
    remade      \* history: targets whose entry was made anew since the run listed it

runState == <<run, todo, visit>>
attempts == <<active, work, cleanup>>
host == <<version, up, faults>>
history == <<recoveries, terminal, unseen, remade>>
vars == <<entries, wake, replaced, runState, attempts, host, history>>

Delays == 0 .. MaxDelay
Never == MaxDelay + 1   \* no wake, no attempt, the nextWakeAt of a blocked entry
Versions == {1, 2}

WatchdogEntry ==
    [ generation : 1 .. MaxGeneration, budget : 0 .. MaxGeneration, version : Versions,
      cursor : 0 .. MaxCursor, attempts : 0 .. MaxAttempts, noProgress : 0 .. MaxNoProgress,
      wait : Delays \cup {Never}, status : {"pending", "blocked"} ]

NoEntry ==
    [ generation |-> 0, budget |-> 0, version |-> 1, cursor |-> 0, attempts |-> 0,
      noProgress |-> 0, wait |-> Never, status |-> "none" ]

NoWork ==
    [stage |-> "none", generation |-> 0, budget |-> 0, cursor |-> 0, result |-> "none", seen |-> 0]

Present(t) == entries[t] # NoEntry
Lesser(a, b) == IF a < b THEN a ELSE b
Larger(a, b) == IF a < b THEN b ELSE a

\* schedule: every transaction replaces the wake, or cancels it.
schedule(es, act) ==
    LET times == {IF act[t] = Never THEN es[t].wait
                  ELSE Lesser(IF act[t] > 0 THEN act[t] ELSE KeepAlive, KeepAlive)
                    : t \in {x \in Targets : es[x].status = "pending" /\ es[x].wait # Never}}
    IN  /\ wake' = IF times = {} THEN Never ELSE CHOOSE x \in times : \A y \in times : x <= y
        /\ replaced' = TRUE

\* Exponential back-off, capped.
retryDelay(failures) ==
    Lesser(MaxRetryInterval, RetryInterval * 2 ^ Larger(0, failures - 1))

Renewed(e, v) ==
    [e EXCEPT !.version = v, !.generation = @ + 1, !.budget = @ + 1, !.attempts = 0,
              !.noProgress = 0, !.status = "pending", !.wait = 0]

Blocked(e) == [e EXCEPT !.status = "blocked", !.wait = Never]

Exhausted(e) == e.attempts >= MaxAttempts \/ e.noProgress >= MaxNoProgress

\* The histories start afresh with a budget.
ForgetBudget(S) ==
    /\ recoveries' = [t \in Targets |-> IF t \in S THEN 0 ELSE recoveries[t]]
    /\ terminal' = [t \in Targets |-> terminal[t] /\ t \notin S]

-----------------------------------------------------------------------------
(* Admission and renewal *)

\* admit: a journal commit registers its target.  "admission" marks commits that
\* bring new work, "expired" those that record a promise's timeout.
admit(t, cursor, admission, expired) ==
    LET renew == expired /\ entries[t].status = "blocked"
        prev  == IF renew THEN Renewed(entries[t], entries[t].version) ELSE entries[t]
        next  == IF ~Present(t)
                 THEN [NoEntry EXCEPT !.generation = 1, !.version = version, !.cursor = cursor,
                                      !.wait = 0, !.status = "pending"]
                 ELSE [prev EXCEPT
                         !.generation = IF admission THEN @ + 1 ELSE @,
                         !.cursor = Larger(@, cursor),
                         !.noProgress = IF cursor > prev.cursor THEN 0 ELSE @,
                         !.wait = IF admission /\ prev.status # "blocked" THEN 0 ELSE @]
    IN  /\ up
        /\ next.generation <= MaxGeneration
        /\ entries' = [entries EXCEPT ![t] = next]
        /\ schedule(entries', active)
        /\ unseen' = [unseen EXCEPT ![t] = @ \/ admission]
        /\ remade' = IF Present(t) THEN remade ELSE remade \cup {t}
        /\ ForgetBudget(IF renew \/ ~Present(t) THEN {t} ELSE {})
        /\ UNCHANGED <<runState, attempts, host>>

\* Faulty variant of resume: it does not wait for cleanupLock.
resumeUnlocked(t) ==
    /\ up
    /\ Present(t) /\ entries[t].generation < MaxGeneration
    /\ entries' = [entries EXCEPT ![t] = Renewed(@, @.version)]
    /\ schedule(entries', active)
    /\ ForgetBudget({t})
    /\ UNCHANGED <<runState, attempts, host, unseen, remade>>

\* resume: an operator renews the budget; it waits for a running invalidation.
resume(t) ==
    /\ up /\ cleanup = {}
    /\ Present(t) /\ entries[t].generation < MaxGeneration
    /\ entries' = [entries EXCEPT ![t] = Renewed(@, @.version)]
    /\ schedule(entries', active)
    /\ ForgetBudget({t})
    /\ UNCHANGED <<runState, attempts, host, unseen, remade>>

\* Faulty variants of Finished: a settled result deletes whatever it finds, and a
\* failure is charged to whatever budget it finds.
FinishedUnfenced(e, covered, result, seen, charged, w) ==
    IF e.status # "pending" \/ e.budget # covered.budget THEN e
    ELSE CASE result = "settled" -> NoEntry
           [] result \in {"failed", "terminal"} -> Blocked(e)
           [] OTHER -> [e EXCEPT !.wait = w]

FinishedForAnyBudget(e, covered, result, seen, charged, w) ==
    IF e.status # "pending" THEN e
    ELSE CASE result = "settled" /\ e.generation = covered.generation -> NoEntry
           [] result = "terminal" -> Blocked(e)
           [] OTHER -> [e EXCEPT !.wait = w]

\* finish's new entry: what an attempt, or an uncharged probe, that covered an
\* entry makes of the current one.  A later admission or renewal is not undone.
Finished(e, covered, result, seen, charged, w) ==
    LET cursor   == Larger(e.cursor, seen)
        progress == cursor > covered.cursor
        same     == e.generation = covered.generation
    IN  IF e.status # "pending" \/ e.budget # covered.budget THEN e
        ELSE CASE result = "settled" /\ same -> NoEntry
               [] result = "alive" /\ same ->
                    [e EXCEPT !.cursor = cursor, !.wait = w,
                       !.noProgress = IF progress THEN 0
                                      ELSE Larger(0, @ - (IF charged THEN 1 ELSE 0))]
               [] result \in {"failed", "terminal"} ->
                    IF result = "terminal" \/ Exhausted(e) THEN Blocked(e)
                    ELSE [e EXCEPT !.wait = retryDelay(e.noProgress)]
               [] OTHER ->
                    IF e.attempts >= MaxAttempts \/ (~progress /\ e.noProgress >= MaxNoProgress)
                    THEN [Blocked(e) EXCEPT !.cursor = cursor]
                    ELSE [e EXCEPT !.cursor = cursor,
                            !.noProgress = IF progress THEN 0 ELSE @,
                            !.wait = IF progress THEN RetryInterval ELSE retryDelay(e.noProgress)]

-----------------------------------------------------------------------------
(* The host's alarm: watchdog.restore, then scheduler.alarm, which delivers *)
(* a due wake to watchdog.alarm                                             *)

\* restore; it waits for a running invalidation.
Restore ==
    /\ up /\ run = "idle" /\ wake = 0 /\ cleanup = {}
    /\ run' = "restored"
    /\ schedule(entries, active)
    /\ UNCHANGED <<entries, todo, visit, attempts, host, history>>

\* The scheduler claims the wake if it is still due.
ClaimWake ==
    /\ run = "restored"
    /\ IF wake = 0 THEN wake' = DeliveryRetry /\ run' = "claimed" /\ replaced' = FALSE
                   ELSE run' = "idle" /\ UNCHANGED <<wake, replaced>>
    /\ UNCHANGED <<entries, todo, visit, attempts, host, history>>

ListEntries ==
    /\ run = "claimed"
    /\ run' = "visiting"
    /\ todo' = {[target |-> t, entry |-> entries[t]] : t \in {x \in Targets : Present(x)}}
    /\ remade' = {}
    /\ UNCHANGED <<entries, wake, replaced, visit, attempts, host, recoveries, terminal, unseen>>

\* A listed entry of another version, blocked, or not due is passed over.
Pass(s) ==
    /\ run = "visiting" /\ s \in todo
    /\ \/ s.entry.version # version
       \/ active[s.target] = Never /\ (s.entry.status # "pending" \/ s.entry.wait # 0)
    /\ todo' = todo \ {s}
    /\ UNCHANGED <<entries, wake, replaced, run, visit, attempts, host, history>>

\* An attempt in progress only moves the wake.
StillActive(s) ==
    /\ run = "visiting" /\ s \in todo
    /\ s.entry.version = version /\ active[s.target] # Never
    /\ todo' = todo \ {s}
    /\ schedule(entries, active)
    /\ UNCHANGED <<entries, run, visit, attempts, host, history>>

\* probe: a thread that is already settled or alive needs no attempt.
Probe(s, observed, seen) ==
    /\ run = "visiting" /\ s \in todo
    /\ s.entry.version = version /\ active[s.target] = Never
    /\ s.entry.status = "pending" /\ s.entry.wait = 0
    /\ todo' = todo \ {s}
    /\ visit' = {[target |-> s.target, entry |-> s.entry, observed |-> observed, seen |-> seen]}
    /\ run' = "probed"
    /\ unseen' = [unseen EXCEPT ![s.target] = @ /\ observed # "settled"]
    /\ UNCHANGED <<entries, wake, replaced, attempts, host, recoveries, terminal, remade>>

Forgotten(t) == ForgetBudget(IF entries'[t] = NoEntry THEN {t} ELSE {})

FinishProbe(p, w) ==
    /\ run = "probed" /\ p \in visit /\ p.observed \in {"settled", "alive"}
    /\ entries' = [entries EXCEPT ![p.target] =
                     Finished(@, p.entry, p.observed, p.seen, FALSE, w)]
    /\ schedule(entries', active)
    /\ Forgotten(p.target)
    /\ run' = "visiting" /\ visit' = {}
    /\ UNCHANGED <<todo, attempts, host, unseen, remade>>

\* Only an unrenewed, pending and due entry is charged.
Chargeable(p) ==
    LET latest == entries[p.target]
    IN  /\ latest.budget = p.entry.budget /\ latest.version = version
        /\ latest.status = "pending" /\ latest.wait = 0

\* Faulty variant of Charged: the attempt is not counted before it runs.
ChargedLater(e) == [e EXCEPT !.wait = AttemptTimeout]

Charged(e) ==
    [e EXCEPT !.attempts = @ + 1, !.noProgress = @ + 1, !.wait = AttemptTimeout]

\* The precharge: the attempt is paid for durably before it runs.
Precharge(p) ==
    /\ run = "probed" /\ p \in visit /\ p.observed \in {"none", "failed"}
    /\ IF ~Chargeable(p) THEN entries' = entries /\ run' = "visiting" /\ visit' = {}
       ELSE IF Exhausted(entries[p.target])
       THEN /\ entries' = [entries EXCEPT ![p.target] = Blocked(@)]
            /\ run' = "visiting" /\ visit' = {}
       ELSE /\ entries' = [entries EXCEPT ![p.target] = Charged(@)]
            /\ run' = "charged"
            /\ visit' = {[p EXCEPT !.entry = Charged(entries[p.target])]}
    /\ schedule(entries', active)
    /\ UNCHANGED <<todo, attempts, host, history>>

\* launch: the attempt is detached.  A failed probe is the attempt's failure.
Launch(p) ==
    LET t == p.target
    IN  /\ run = "charged" /\ p \in visit
        /\ active' = [active EXCEPT ![t] = p.entry.wait]
        /\ work' = [work EXCEPT ![t] =
                      [stage |-> IF p.observed = "failed" THEN "failed" ELSE "recovering",
                       generation |-> p.entry.generation, budget |-> p.entry.budget,
                       cursor |-> p.entry.cursor, seen |-> 0,
                       result |-> IF p.observed = "failed" THEN "failed" ELSE "none"]]
        /\ schedule(entries, active')
        /\ run' = "visiting" /\ visit' = {}
        /\ recoveries' = [recoveries EXCEPT ![t] =
                            IF p.observed = "none" /\ entries[t].budget = p.entry.budget
                            THEN @ + 1 ELSE @]
        /\ UNCHANGED <<entries, todo, cleanup, host, terminal, unseen, remade>>

\* The run ends; the scheduler deletes the delivered wake unless it was replaced.
Return ==
    /\ run = "visiting" /\ todo = {} /\ visit = {}
    /\ run' = "idle"
    /\ wake' = IF replaced THEN wake ELSE Never
    /\ UNCHANGED <<entries, replaced, todo, visit, attempts, host, history>>

-----------------------------------------------------------------------------
(* A launched attempt *)

RecoverReturns(t, result, seen) ==
    /\ work[t].stage = "recovering"
    /\ work' = [work EXCEPT ![t] =
                  [@ EXCEPT !.result = result, !.seen = seen,
                            !.stage = IF result \in {"failed", "terminal"} THEN "failed"
                                      ELSE "returned"]]
    /\ unseen' = [unseen EXCEPT ![t] = @ /\ result # "settled"]
    /\ terminal' = [terminal EXCEPT ![t] =
                      @ \/ (result = "terminal" /\ entries[t].budget = work[t].budget)]
    /\ UNCHANGED <<entries, wake, replaced, runState, active, cleanup, host, recoveries, remade>>

\* A failed attempt takes cleanupLock and invalidates the runtime, unless the
\* budget was renewed meanwhile.
Invalidate(t) ==
    /\ work[t].stage = "failed" /\ cleanup = {}
    /\ IF Present(t) /\ entries[t].budget = work[t].budget
       THEN cleanup' = {t} /\ work' = [work EXCEPT ![t].stage = "invalidating"]
       ELSE work' = [work EXCEPT ![t].stage = "returned"] /\ UNCHANGED cleanup
    /\ UNCHANGED <<entries, wake, replaced, runState, active, host, history>>

Invalidated(t) ==
    /\ work[t].stage = "invalidating"
    /\ cleanup' = {}
    /\ work' = [work EXCEPT ![t].stage = "returned"]
    /\ UNCHANGED <<entries, wake, replaced, runState, active, host, history>>

\* Faulty variant of Finish: the attempt is never released.
FinishUnreleased(t, w) ==
    /\ work[t].stage = "returned"
    /\ entries' = [entries EXCEPT ![t] =
                     Finished(@, work[t], work[t].result, work[t].seen, TRUE, w)]
    /\ work' = [work EXCEPT ![t] = NoWork]
    /\ schedule(entries', active)
    /\ Forgotten(t)
    /\ UNCHANGED <<runState, active, cleanup, host, unseen, remade>>

\* release and finish: the transaction is issued in the turn of the release.
Finish(t, w) ==
    /\ work[t].stage = "returned"
    /\ entries' = [entries EXCEPT ![t] =
                     Finished(@, work[t], work[t].result, work[t].seen, TRUE, w)]
    /\ active' = [active EXCEPT ![t] = Never]
    /\ work' = [work EXCEPT ![t] = NoWork]
    /\ schedule(entries', active')
    /\ Forgotten(t)
    /\ UNCHANGED <<runState, cleanup, host, unseen, remade>>

-----------------------------------------------------------------------------
(* Faults *)

\* A transaction of the alarm's run fails or its delivery times out; the wake
\* stays.  A launch that fails releases its attempt.
RunFails ==
    /\ run # "idle" /\ faults < MaxFaults
    /\ faults' = faults + 1
    /\ run' = "idle" /\ todo' = {} /\ visit' = {}
    /\ UNCHANGED <<entries, wake, replaced, attempts, version, up, history>>

\* invalidate, or the transaction of finish, fails: nothing is recorded.
AttemptLost(t) ==
    /\ work[t].stage \in {"invalidating", "returned"} /\ faults < MaxFaults
    /\ faults' = faults + 1
    /\ active' = [active EXCEPT ![t] = Never]
    /\ work' = [work EXCEPT ![t] = NoWork]
    /\ cleanup' = cleanup \ {t}
    /\ UNCHANGED <<entries, wake, replaced, runState, version, up, history>>

Crash ==
    /\ up /\ faults < MaxFaults
    /\ faults' = faults + 1
    /\ up' = FALSE
    /\ run' = "idle" /\ todo' = {} /\ visit' = {}
    /\ active' = [t \in Targets |-> Never]
    /\ work' = [t \in Targets |-> NoWork]
    /\ cleanup' = {}
    /\ UNCHANGED <<entries, wake, replaced, version, history>>

\* The constructor runs restore before anything else: entries of another
\* interpreter version get a new budget.
Restart(v) ==
    LET adopt == {t \in Targets : Present(t) /\ entries[t].version # v}
    IN  /\ ~up /\ v >= version
        /\ \A t \in adopt : entries[t].generation < MaxGeneration
        /\ up' = TRUE /\ version' = v
        /\ entries' = [t \in Targets |->
                         IF t \in adopt THEN Renewed(entries[t], v) ELSE entries[t]]
        /\ schedule(entries', active)
        /\ ForgetBudget(adopt)
        /\ UNCHANGED <<runState, attempts, faults, unseen, remade>>

Sooner(t) == IF t \in {0, Never} THEN t ELSE t - 1

Tick ==
    /\ entries' = [t \in Targets |-> [entries[t] EXCEPT !.wait = Sooner(@)]]
    /\ todo' = {[s EXCEPT !.entry.wait = Sooner(@)] : s \in todo}
    /\ visit' = {[p EXCEPT !.entry.wait = Sooner(@)] : p \in visit}
    /\ active' = [t \in Targets |-> Sooner(active[t])]
    /\ wake' = Sooner(wake)
    /\ UNCHANGED <<run, replaced, work, cleanup, host, history>>

Init ==
    /\ entries = [t \in Targets |-> NoEntry]
    /\ wake = Never /\ replaced = FALSE
    /\ run = "idle" /\ todo = {} /\ visit = {}
    /\ active = [t \in Targets |-> Never]
    /\ work = [t \in Targets |-> NoWork]
    /\ cleanup = {}
    /\ version = 1 /\ up = TRUE /\ faults = 0
    /\ recoveries = [t \in Targets |-> 0]
    /\ terminal = [t \in Targets |-> FALSE]
    /\ unseen = [t \in Targets |-> FALSE] /\ remade = {}

Observations == (Results \cap {"settled", "alive", "failed"}) \cup {"none"}

Alarm ==
    \/ Restore \/ ClaimWake \/ ListEntries
    \/ \E s \in todo : Pass(s) \/ StillActive(s)
    \/ \E s \in todo, o \in Observations, c \in 0 .. MaxCursor : Probe(s, o, c)
    \/ \E p \in visit : Precharge(p) \/ Launch(p) \/ \E w \in 1 .. MaxDelay : FinishProbe(p, w)
    \/ Return

Attempt(t) ==
    \/ \E r \in Results, c \in 0 .. MaxCursor : RecoverReturns(t, r, c)
    \/ Invalidate(t) \/ Invalidated(t)
    \/ \E w \in 1 .. MaxDelay : Finish(t, w)

Next ==
    \/ \E t \in Targets, c \in 0 .. MaxCursor, admission, expired \in BOOLEAN :
         admit(t, c, admission, expired)
    \/ \E t \in Targets : resume(t) \/ Attempt(t) \/ AttemptLost(t)
    \/ Alarm
    \/ RunFails
    \/ Crash
    \/ \E v \in Versions : Restart(v)
    \/ Tick

Spec == Init /\ [][Next]_vars

\* Time passes, a due wake reaches the host, started work ends (recover is cut
\* off at attemptTimeoutMs), and a stopped object is constructed again.
Fairness ==
    /\ WF_vars(Tick) /\ WF_vars(Alarm)
    /\ \A t \in Targets : WF_vars(Attempt(t))
    /\ WF_vars(\E v \in Versions : Restart(v))

FairSpec == Spec /\ Fairness

-----------------------------------------------------------------------------
(* Properties *)

TypeOK ==
    /\ entries \in [Targets -> WatchdogEntry \cup {NoEntry}]
    /\ wake \in Delays \cup {Never}
    /\ active \in [Targets -> Delays \cup {Never}]
    /\ run \in {"idle", "restored", "claimed", "visiting", "probed", "charged"}
    /\ \A s \in todo : s.target \in Targets /\ s.entry \in WatchdogEntry
    /\ \A p \in visit : p.target \in Targets /\ p.entry \in WatchdogEntry
    /\ cleanup \subseteq Targets
    /\ version \in Versions
    /\ replaced \in BOOLEAN /\ up \in BOOLEAN
    /\ recoveries \in [Targets -> Nat] /\ terminal \in [Targets -> BOOLEAN]
    /\ unseen \in [Targets -> BOOLEAN] /\ remade \subseteq Targets
    /\ faults \in 0 .. MaxFaults

\* No budget pays for more recoveries than it allows: every recovery that runs was
\* charged before it started, whatever crashes or fails in between
\* (watchdog.ts alarm's precharge).
BoundedRecoveries ==
    \A t \in Targets :
      /\ recoveries[t] <= entries[t].attempts
      /\ entries[t].attempts <= MaxAttempts

\* Work admitted after a recovery or a probe looked is never forgotten: a settled
\* result deletes no entry that a later admission touched (watchdog.ts finish's
\* generation check), unless the entry was made anew under a run that still holds
\* the deleted one, see PreservesLaterAdmissions.
NoForgottenAdmission ==
    [][\A t \in Targets :
         (unseen[t] /\ Present(t) /\ t \notin remade) => entries'[t] # NoEntry]_vars

\* Every unseen admission keeps its entry, as platform/quint/watchdog.qnt says of a
\* pass: "preserving admissions made after the pass snapshot".  It fails: an entry
\* that was deleted and made anew numbers its generations from 1 again and may look
\* like the one the pass listed.
PreservesLaterAdmissions == \A t \in Targets : unseen[t] => Present(t)

\* A runtime is invalidated only on behalf of the budget that is still current: a
\* renewal waits for cleanupLock (watchdog.ts work and resume).
InvalidationFenced ==
    \A t \in cleanup : Present(t) /\ entries[t].budget = work[t].budget

\* An entry is blocked only because its own budget ran out or an attempt of that
\* budget failed for good, never by an attempt a renewal has fenced off.
BlockedByOwnBudget ==
    [][\A t \in Targets :
         (entries[t].status # "blocked" /\ entries'[t].status = "blocked") =>
            Exhausted(entries[t]) \/ terminal[t]]_vars

\* Unless a thread keeps reporting that it is alive, supervision ends: the entry is
\* settled, or blocked when its budget is spent, never retried for ever.
AliveReported(t) ==
    \/ work[t].stage = "returned" /\ work[t].result = "alive"
    \/ \E p \in visit : p.target = t /\ p.observed = "alive"
SupervisionEnds ==
    \A t \in Targets :
      []<>AliveReported(t) \/ ((entries[t].status = "pending") ~> (entries[t].status # "pending"))
=============================================================================
