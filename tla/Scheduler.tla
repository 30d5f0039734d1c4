----------------------------- MODULE Scheduler -----------------------------
(***************************************************************************)
(* Durable wakes and the one physical alarm behind them: core/src/services/*)
(* scheduler.ts over the Durable Object storage or the SQL journal, and    *)
(* the timer of platform/src/bun/alarm.ts.                                 *)
(*                                                                         *)
(* Absolute times are modelled by what is left of them: "wait" is          *)
(* nextWakeAt - now, 0 once the wake is due, and Tick lets time pass.      *)
(***************************************************************************)
EXTENDS Naturals

CONSTANTS
    Ids,            \* wake identifiers
    RetryDelay,     \* deliveryRetryMs, also the alarm's retryIntervalMs
    MaxDelay,       \* bound on how far ahead a wake may be scheduled
    MaxGeneration,  \* the generation counter's limit, Number.MAX_SAFE_INTEGER
    MaxFaults       \* bound on crashes and failed handler runs

ASSUME SchedulerAssumption ==
    /\ RetryDelay \in Nat \ {0}
    /\ MaxDelay \in Nat /\ RetryDelay <= MaxDelay
    /\ MaxGeneration \in Nat
    /\ MaxFaults \in Nat

VARIABLES
    wakes,       \* durable: [Ids -> [generation, wait]], generation 0 is no entry
    generation,  \* durable: the last allocated generation
    alarm,       \* the physical alarm's remaining time, NoAlarm when cleared
    synced,      \* volatile: no journal append awaits its alarm synchronization
    requested,   \* volatile: the alarm fired and a handler run waits for the lock
    phase,       \* volatile: where the running handler is
    todo,        \* volatile: the handler's listed entries not yet visited
    claimed,     \* volatile: the entry being delivered, as a set
    up,          \* the host process is running
    faults,
    owed         \* history: the generation an owner still waits for, 0 for none

vars == <<wakes, generation, alarm, synced, requested, phase, todo, claimed, up, faults, owed>>

Delays == 0 .. MaxDelay
NoAlarm == MaxDelay + 1
Absent == [generation |-> 0, wait |-> 0]
Entry == [id : Ids, generation : 1 .. MaxGeneration]

Stored(w) == {i \in Ids : w[i].generation # 0}

\* schedulerAlarm: the earliest stored wake.
Earliest(w) ==
    IF Stored(w) = {} THEN NoAlarm
    ELSE CHOOSE t \in Delays : /\ \E i \in Stored(w) : w[i].wait = t
                               /\ \A i \in Stored(w) : t <= w[i].wait

schedulerAlarm(w) == alarm' = Earliest(w) /\ synced' = TRUE

\* Faulty variant of scheduleWake: the generation counter is not checked.
scheduleWakeUnchecked(i, d) ==
    /\ generation' = generation + 1
    /\ wakes' = [wakes EXCEPT ![i] = [generation |-> generation + 1, wait |-> d]]
    /\ owed' = [owed EXCEPT ![i] = generation + 1]

scheduleWake(i, d) ==
    /\ generation < MaxGeneration
    /\ generation' = generation + 1
    /\ wakes' = [wakes EXCEPT ![i] = [generation |-> generation + 1, wait |-> d]]
    /\ owed' = [owed EXCEPT ![i] = generation + 1]

cancelWake(i) ==
    /\ wakes' = [wakes EXCEPT ![i] = Absent]
    /\ owed' = [owed EXCEPT ![i] = 0]
    /\ UNCHANGED generation

HandlerUnchanged == UNCHANGED <<requested, phase, todo, claimed, up, faults>>

-----------------------------------------------------------------------------
(* Owners of wakes *)

schedule(i, d) == up /\ scheduleWake(i, d) /\ schedulerAlarm(wakes') /\ HandlerUnchanged

cancel(i) == up /\ wakes[i] # Absent /\ cancelWake(i) /\ schedulerAlarm(wakes') /\ HandlerUnchanged

\* recordRetryWakes: a journal append changes wakes in its own transaction and
\* leaves the alarm to the append's acknowledgement.
recordSchedule(i, d) ==
    /\ up /\ scheduleWake(i, d)
    /\ synced' = FALSE
    /\ UNCHANGED alarm /\ HandlerUnchanged

recordCancel(i) ==
    /\ up /\ wakes[i] # Absent /\ cancelWake(i)
    /\ synced' = FALSE
    /\ UNCHANGED alarm /\ HandlerUnchanged

acknowledge ==
    /\ up /\ ~synced
    /\ schedulerAlarm(wakes)
    /\ UNCHANGED <<wakes, generation, owed>> /\ HandlerUnchanged

-----------------------------------------------------------------------------
(* The alarm handler; its semaphore admits one run at a time *)

\* The timer or the Durable Object alarm fires once and is spent.
Fire ==
    /\ up /\ alarm = 0
    /\ alarm' = NoAlarm
    /\ requested' = TRUE
    /\ UNCHANGED <<wakes, generation, synced, phase, todo, claimed, up, faults, owed>>

\* The first transaction lists every stored entry.
List ==
    /\ up /\ requested /\ phase = "idle"
    /\ requested' = FALSE
    /\ phase' = "listed"
    /\ todo' = {[id |-> i, generation |-> wakes[i].generation] : i \in Stored(wakes)}
    /\ schedulerAlarm(wakes)
    /\ UNCHANGED <<wakes, generation, claimed, up, faults, owed>>

Claimable(e) == wakes[e.id].generation = e.generation /\ wakes[e.id].wait = 0

\* A due, unreplaced entry is pushed back by the retry delay and then delivered.
Claim(e) ==
    /\ phase = "listed" /\ e \in todo
    /\ Claimable(e)
    /\ wakes' = [wakes EXCEPT ![e.id].wait = RetryDelay]
    /\ claimed' = {e}
    /\ todo' = todo \ {e}
    /\ phase' = "delivering"
    /\ schedulerAlarm(wakes')
    /\ UNCHANGED <<generation, requested, up, faults, owed>>

Skip(e) ==
    /\ phase = "listed" /\ e \in todo
    /\ ~Claimable(e)
    /\ todo' = todo \ {e}
    /\ schedulerAlarm(wakes)
    /\ UNCHANGED <<wakes, generation, requested, phase, claimed, up, faults, owed>>

DeliverSucceeds(e) ==
    /\ phase = "delivering" /\ e \in claimed
    /\ phase' = "succeeded"
    /\ owed' = [owed EXCEPT ![e.id] = IF @ = e.generation THEN 0 ELSE @]
    /\ UNCHANGED <<wakes, generation, alarm, synced, requested, todo, claimed, up, faults>>

\* The delivery fails or exceeds deliveryTimeoutMs.
DeliverFails ==
    /\ phase = "delivering"
    /\ phase' = "failed"
    /\ UNCHANGED <<wakes, generation, alarm, synced, requested, todo, claimed, up, faults, owed>>

\* Faulty variant of Settle: the acknowledgement does not compare generations.
SettleUnfenced(e) ==
    /\ phase \in {"succeeded", "failed"} /\ e \in claimed
    /\ wakes' = IF phase = "succeeded" THEN [wakes EXCEPT ![e.id] = Absent] ELSE wakes
    /\ claimed' = {}
    /\ phase' = "listed"
    /\ schedulerAlarm(wakes')
    /\ UNCHANGED <<generation, requested, todo, up, faults, owed>>

\* The second transaction deletes a delivered entry unless it was replaced.
Settle(e) ==
    /\ phase \in {"succeeded", "failed"} /\ e \in claimed
    /\ wakes' = IF phase = "succeeded" /\ wakes[e.id].generation = e.generation
                THEN [wakes EXCEPT ![e.id] = Absent] ELSE wakes
    /\ claimed' = {}
    /\ phase' = "listed"
    /\ schedulerAlarm(wakes')
    /\ UNCHANGED <<generation, requested, todo, up, faults, owed>>

Return ==
    /\ phase = "listed" /\ todo = {}
    /\ phase' = "idle"
    /\ UNCHANGED <<wakes, generation, alarm, synced, requested, todo, claimed, up, faults, owed>>

\* Faulty variant of Fail: nothing sets the spent alarm again.
FailUnarmed ==
    /\ up /\ faults < MaxFaults
    /\ phase # "idle" \/ requested
    /\ faults' = faults + 1
    /\ requested' = (requested /\ phase # "idle")
    /\ phase' = "idle"
    /\ todo' = {} /\ claimed' = {}
    /\ UNCHANGED <<wakes, generation, alarm, synced, up, owed>>

\* A storage transaction of a run fails: the run ends, and the alarm is set to
\* the retry interval when nothing else has set it.
Fail ==
    /\ up /\ faults < MaxFaults
    /\ phase # "idle" \/ requested
    /\ faults' = faults + 1
    /\ requested' = (requested /\ phase # "idle")
    /\ phase' = "idle"
    /\ todo' = {} /\ claimed' = {}
    /\ alarm' = IF alarm = NoAlarm THEN RetryDelay ELSE alarm
    /\ UNCHANGED <<wakes, generation, synced, up, owed>>

\* The process dies.  A timer dies with it; a Durable Object's alarm does not.
Crash ==
    /\ up /\ faults < MaxFaults
    /\ faults' = faults + 1
    /\ up' = FALSE
    /\ alarm' \in {alarm, NoAlarm}
    /\ requested' = FALSE /\ phase' = "idle"
    /\ todo' = {} /\ claimed' = {}
    /\ synced' = FALSE
    /\ UNCHANGED <<wakes, generation, owed>>

\* Faulty variant of restore: the alarm is taken for granted.
restoreUnarmed ==
    /\ ~up
    /\ up' = TRUE /\ synced' = TRUE
    /\ UNCHANGED <<wakes, generation, alarm, requested, phase, todo, claimed, faults, owed>>

\* restore, or the startup acknowledgement of a reopened journal.
restore ==
    /\ ~up
    /\ up' = TRUE
    /\ schedulerAlarm(wakes)
    /\ UNCHANGED <<wakes, generation, requested, phase, todo, claimed, faults, owed>>

Sooner(t) == IF t = 0 THEN 0 ELSE t - 1

Tick ==
    /\ wakes' = [i \in Ids |-> [wakes[i] EXCEPT !.wait = Sooner(@)]]
    /\ alarm' = IF alarm = NoAlarm THEN NoAlarm ELSE Sooner(alarm)
    /\ UNCHANGED <<generation, synced, requested, phase, todo, claimed, up, faults, owed>>

Init ==
    /\ wakes = [i \in Ids |-> Absent]
    /\ generation = 0
    /\ alarm = NoAlarm
    /\ synced = TRUE /\ requested = FALSE
    /\ phase = "idle"
    /\ todo = {} /\ claimed = {}
    /\ up = TRUE /\ faults = 0
    /\ owed = [i \in Ids |-> 0]

Handler ==
    \/ List
    \/ \E e \in todo : Claim(e) \/ Skip(e)
    \/ DeliverFails
    \/ \E e \in claimed : DeliverSucceeds(e) \/ Settle(e)
    \/ Return

Next ==
    \/ \E i \in Ids, d \in Delays : schedule(i, d) \/ recordSchedule(i, d)
    \/ \E i \in Ids : cancel(i) \/ recordCancel(i)
    \/ acknowledge
    \/ Fire
    \/ Handler
    \/ Fail
    \/ Crash
    \/ restore
    \/ Tick

Spec == Init /\ [][Next]_vars

(***************************************************************************)
(* Fairness: time passes, the host restarts and runs what it scheduled, a  *)
(* started run goes on, an append is acknowledged, and a wake delivered    *)
(* again and again is not refused forever.                                 *)
(***************************************************************************)
Fairness ==
    /\ WF_vars(Tick) /\ WF_vars(Fire) /\ WF_vars(Handler)
    /\ WF_vars(acknowledge) /\ WF_vars(restore)
    /\ \A i \in Ids : SF_vars(\E e \in claimed : e.id = i /\ DeliverSucceeds(e))

FairSpec == Spec /\ Fairness

-----------------------------------------------------------------------------
(* Properties *)

TypeOK ==
    /\ wakes \in [Ids -> [generation : 0 .. MaxGeneration, wait : Delays]]
    /\ generation \in 0 .. MaxGeneration
    /\ alarm \in Delays \cup {NoAlarm}
    /\ synced \in BOOLEAN /\ requested \in BOOLEAN /\ up \in BOOLEAN
    /\ phase \in {"idle", "listed", "delivering", "succeeded", "failed"}
    /\ todo \subseteq Entry /\ claimed \subseteq Entry
    /\ faults \in 0 .. MaxFaults
    /\ owed \in [Ids -> 0 .. MaxGeneration]

\* A wake nobody delivered, cancelled or replaced is still stored under its own
\* generation: neither the acknowledgement of an older delivery, nor a failed
\* run, nor a crash removes it (scheduler.ts alarm's generation fence).
NoLostWake == \A i \in Ids : owed[i] # 0 => wakes[i].generation = owed[i]

\* While the host runs and every append is acknowledged, each stored wake has an
\* alarm no later than the wake or the retry delay, unless the alarm was spent on
\* a handler run that is still to start (schedulerAlarm after every transaction;
\* bunAlarm's re-arming when a run fails).
AlarmCovers ==
    (up /\ synced /\ ~(requested /\ alarm = NoAlarm)) =>
      \A i \in Stored(wakes) : alarm <= wakes[i].wait \/ alarm <= RetryDelay

\* A wake is delivered, replaced or cancelled in the end, across failed
\* deliveries, failed runs and crashes.
WakeDelivered ==
    \A i \in Ids : \A g \in 1 .. MaxGeneration : (owed[i] = g) ~> (owed[i] # g)
=============================================================================
