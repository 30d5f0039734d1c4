-------------------------- MODULE SchedulerProofs --------------------------
(***************************************************************************)
(* For every set of identifiers and every bound: a wake that is owed is    *)
(* stored under its own generation, and every stored wake is covered by    *)
(* the physical alarm or a waiting handler run.                            *)
(***************************************************************************)
EXTENDS Scheduler, WellFoundedInduction, TLAPS

Wakes == [Ids -> [generation : 0 .. MaxGeneration, wait : Delays]]

\* A nonempty set of natural numbers has a least element.
LEMMA LeastExists ==
    ASSUME NEW S, S \subseteq Nat, S # {}
    PROVE  \E x \in S : \A y \in S : x <= y
<1>1. PICK x \in S : \A y \in S : ~(<<y, x>> \in OpToRel(<, Nat))
  BY NatLessThanWellFounded, WFMin
<1>2. \A y \in S : x <= y
  <2> TAKE y \in S
  <2>1. x \in Nat /\ y \in Nat
    OBVIOUS
  <2>2. ~(y < x)
    BY <1>1, <2>1 DEF OpToRel
  <2> QED
    BY <2>1, <2>2
<1> QED
  BY <1>2

\* schedulerAlarm picks a time no stored wake precedes (scheduler.ts schedulerAlarm).
LEMMA EarliestCovers ==
    ASSUME NEW w \in Wakes
    PROVE  /\ Earliest(w) \in Delays \cup {NoAlarm}
           /\ \A i \in Stored(w) : Earliest(w) <= w[i].wait
<1>1. CASE Stored(w) = {}
  BY <1>1 DEF Earliest
<1>2. CASE Stored(w) # {}
  <2> DEFINE S == {w[i].wait : i \in Stored(w)}
             P(t) == /\ \E i \in Stored(w) : w[i].wait = t
                     /\ \A i \in Stored(w) : t <= w[i].wait
  <2>1. \A i \in Stored(w) : w[i].wait \in Delays
    BY DEF Wakes, Stored
  <2>2. S # {} /\ S \subseteq Nat
    BY <1>2, <2>1, SchedulerAssumption DEF Delays
  <2>3. PICK t \in S : \A y \in S : t <= y
    BY <2>2, LeastExists
  <2>4. t \in Delays /\ P(t)
    BY <2>1, <2>3
  <2>5. Earliest(w) = CHOOSE x \in Delays : P(x)
    BY <1>2 DEF Earliest
  <2> HIDE DEF P
  <2>6. Earliest(w) \in Delays /\ P(Earliest(w))
    BY <2>4, <2>5
  <2> QED
    BY <2>6 DEF P
<1> QED
  BY <1>1, <1>2

-----------------------------------------------------------------------------
\* The types of the durable entries, of the alarm and of the handler's state.
THEOREM TypeCorrect == Spec => []TypeOK
<1> USE SchedulerAssumption
<1>1. Init => TypeOK
  <2> SUFFICES ASSUME Init PROVE TypeOK
    OBVIOUS
  <2>1. wakes \in Wakes /\ owed \in [Ids -> 0 .. MaxGeneration]
    BY DEF Init, Wakes, Absent, Delays
  <2>2. synced \in BOOLEAN /\ requested \in BOOLEAN /\ up \in BOOLEAN
    BY DEF Init
  <2>3. generation \in 0 .. MaxGeneration /\ faults \in 0 .. MaxFaults
    BY DEF Init
  <2> QED
    BY <2>1, <2>2, <2>3 DEF Init, TypeOK, Wakes
<1>2. TypeOK /\ [Next]_vars => TypeOK'
  <2> SUFFICES ASSUME TypeOK, [Next]_vars PROVE TypeOK'
    OBVIOUS
  <2>0. wakes \in Wakes
    BY DEF TypeOK, Wakes
  <2>1. ASSUME NEW i \in Ids, NEW d \in Delays, schedule(i, d) PROVE TypeOK'
    <3>1. wakes' \in Wakes
      BY <2>1, <2>0 DEF schedule, scheduleWake, TypeOK, Wakes
    <3>2. alarm' \in Delays \cup {NoAlarm}
      BY <2>1, <3>1, EarliestCovers DEF schedule, schedulerAlarm
    <3> QED
      BY <2>1, <3>1, <3>2 DEF schedule, scheduleWake, schedulerAlarm, HandlerUnchanged, TypeOK, Wakes
  <2>2. ASSUME NEW i \in Ids, NEW d \in Delays, recordSchedule(i, d) PROVE TypeOK'
    <3>1. wakes' \in Wakes
      BY <2>2, <2>0 DEF recordSchedule, scheduleWake, TypeOK, Wakes
    <3>2. synced' \in BOOLEAN
      BY <2>2 DEF recordSchedule
    <3> QED
      BY <2>2, <3>1, <3>2 DEF recordSchedule, scheduleWake, HandlerUnchanged, TypeOK, Wakes
  <2>3. ASSUME NEW i \in Ids, cancel(i) PROVE TypeOK'
    <3>1. wakes' \in Wakes
      BY <2>3, <2>0 DEF cancel, cancelWake, TypeOK, Wakes, Absent, Delays
    <3>2. alarm' \in Delays \cup {NoAlarm}
      BY <2>3, <3>1, EarliestCovers DEF cancel, schedulerAlarm
    <3> QED
      BY <2>3, <3>1, <3>2 DEF cancel, cancelWake, schedulerAlarm, HandlerUnchanged, TypeOK, Wakes
  <2>4. ASSUME NEW i \in Ids, recordCancel(i) PROVE TypeOK'
    <3>1. wakes' \in Wakes
      BY <2>4, <2>0 DEF recordCancel, cancelWake, TypeOK, Wakes, Absent, Delays
    <3>2. synced' \in BOOLEAN
      BY <2>4 DEF recordCancel
    <3> QED
      BY <2>4, <3>1, <3>2 DEF recordCancel, cancelWake, HandlerUnchanged, TypeOK, Wakes
  <2>5. ASSUME acknowledge PROVE TypeOK'
    BY <2>0, <2>5, EarliestCovers DEF acknowledge, schedulerAlarm, HandlerUnchanged, TypeOK
  <2>6. ASSUME Fire PROVE TypeOK'
    BY <2>6 DEF Fire, TypeOK
  <2>7. ASSUME List PROVE TypeOK'
    <3>1. todo' \subseteq Entry
      BY <2>7 DEF List, TypeOK, Entry, Stored
    <3> QED
      BY <2>0, <2>7, <3>1, EarliestCovers DEF List, schedulerAlarm, TypeOK
  <2>8. ASSUME NEW e \in todo, Claim(e) PROVE TypeOK'
    <3>0. e \in Entry
      BY DEF TypeOK
    <3>1. wakes' \in Wakes
      BY <2>8, <2>0, <3>0 DEF Claim, Wakes, Delays, Entry
    <3>2. alarm' \in Delays \cup {NoAlarm}
      BY <2>8, <3>1, EarliestCovers DEF Claim, schedulerAlarm
    <3> QED
      BY <2>8, <3>0, <3>1, <3>2 DEF Claim, schedulerAlarm, TypeOK, Wakes
  <2>9. ASSUME NEW e \in todo, Skip(e) PROVE TypeOK'
    BY <2>0, <2>9, EarliestCovers DEF Skip, schedulerAlarm, TypeOK
  <2>10. ASSUME NEW e \in claimed, DeliverSucceeds(e) PROVE TypeOK'
    BY <2>10 DEF DeliverSucceeds, TypeOK, Entry
  <2>11. ASSUME DeliverFails PROVE TypeOK'
    BY <2>11 DEF DeliverFails, TypeOK
  <2>12. ASSUME NEW e \in claimed, Settle(e) PROVE TypeOK'
    <3>1. wakes' \in Wakes
      BY <2>12, <2>0 DEF Settle, Wakes, Delays, Absent, TypeOK, Entry
    <3>2. alarm' \in Delays \cup {NoAlarm}
      BY <2>12, <3>1, EarliestCovers DEF Settle, schedulerAlarm
    <3> QED
      BY <2>12, <3>1, <3>2 DEF Settle, schedulerAlarm, TypeOK, Wakes
  <2>13. ASSUME Return PROVE TypeOK'
    BY <2>13 DEF Return, TypeOK
  <2>14. ASSUME Fail PROVE TypeOK'
    BY <2>14 DEF Fail, TypeOK, Delays
  <2>15. ASSUME Crash PROVE TypeOK'
    <3>1. synced' \in BOOLEAN /\ requested' \in BOOLEAN /\ up' \in BOOLEAN
      BY <2>15 DEF Crash
    <3> QED
      BY <2>15, <3>1 DEF Crash, TypeOK
  <2>16. ASSUME restore PROVE TypeOK'
    BY <2>0, <2>16, EarliestCovers DEF restore, schedulerAlarm, TypeOK
  <2>17. ASSUME Tick PROVE TypeOK'
    <3>1. \A t \in Delays : Sooner(t) \in Delays
      BY DEF Sooner, Delays
    <3> QED
      BY <2>17, <3>1 DEF Tick, TypeOK
  <2>18. CASE UNCHANGED vars
    BY <2>18 DEF vars, TypeOK
  <2> QED
    BY <2>1, <2>2, <2>3, <2>4, <2>5, <2>6, <2>7, <2>8, <2>9, <2>10, <2>11, <2>12, <2>13,
       <2>14, <2>15, <2>16, <2>17, <2>18 DEF Next, Handler
<1> QED
  BY <1>1, <1>2, PTL DEF Spec
-----------------------------------------------------------------------------
(***************************************************************************)
(* NoLostWake is not inductive: a handler's remembered generation must be  *)
(* one already allocated, so that a replacement never reuses it, and a     *)
(* delivery recorded as successful is no longer owed.                      *)
(***************************************************************************)
GenerationFence ==
    /\ \A i \in Ids : wakes[i].generation <= generation
    /\ \A e \in todo \cup claimed : e.generation <= generation
    /\ \A d, e \in claimed : d = e
    /\ phase = "succeeded" => \A e \in claimed : owed[e.id] # e.generation

WakeInv == TypeOK /\ NoLostWake /\ GenerationFence

\* A wake that nobody delivered, cancelled or replaced stays stored, whatever
\* stale acknowledgement, failed run or crash happens (scheduler.ts createScheduler).
THEOREM WakesAreKept == Spec => []NoLostWake
<1> USE SchedulerAssumption
<1>1. Init /\ TypeOK => WakeInv
  BY DEF Init, WakeInv, NoLostWake, GenerationFence, Absent
<1>2. WakeInv /\ TypeOK' /\ [Next]_vars => WakeInv'
  <2> SUFFICES ASSUME WakeInv, TypeOK', [Next]_vars PROVE NoLostWake' /\ GenerationFence'
    BY DEF WakeInv
  <2>0. /\ TypeOK /\ NoLostWake /\ GenerationFence
        /\ generation \in Nat
        /\ \A i \in Ids : wakes[i].generation \in Nat /\ owed[i] \in Nat
        /\ \A e \in todo \cup claimed : e.id \in Ids /\ e.generation \in Nat \ {0}
    BY DEF WakeInv, TypeOK, Entry
  <2>1. ASSUME NEW i \in Ids, NEW d \in Delays, scheduleWake(i, d),
               UNCHANGED <<phase, todo, claimed>>
        PROVE  NoLostWake' /\ GenerationFence'
    <3>1. NoLostWake'
      BY <2>0, <2>1 DEF scheduleWake, NoLostWake, TypeOK
    <3>2. GenerationFence'
      BY <2>0, <2>1 DEF scheduleWake, GenerationFence, TypeOK
    <3> QED
      BY <3>1, <3>2
  <2>2. ASSUME NEW i \in Ids, cancelWake(i), UNCHANGED <<phase, todo, claimed>>
        PROVE  NoLostWake' /\ GenerationFence'
    <3>1. NoLostWake'
      BY <2>0, <2>2 DEF cancelWake, NoLostWake, TypeOK
    <3>2. GenerationFence'
      BY <2>0, <2>2 DEF cancelWake, GenerationFence, TypeOK, Absent
    <3> QED
      BY <3>1, <3>2
  <2>3. ASSUME acknowledge \/ Fire \/ restore \/ UNCHANGED vars
        PROVE  NoLostWake' /\ GenerationFence'
    BY <2>0, <2>3 DEF acknowledge, Fire, restore, HandlerUnchanged, vars, NoLostWake, GenerationFence
  <2>4. ASSUME List PROVE NoLostWake' /\ GenerationFence'
    <3>1. \A e \in todo' : e.generation <= generation
      BY <2>0, <2>4 DEF List, GenerationFence, Stored
    <3> QED
      BY <2>0, <2>4, <3>1 DEF List, NoLostWake, GenerationFence
  <2>5. ASSUME NEW e \in todo, Claim(e) PROVE NoLostWake' /\ GenerationFence'
    <3>1. \A i \in Ids : wakes'[i].generation = wakes[i].generation
      BY <2>0, <2>5 DEF Claim, TypeOK
    <3> QED
      BY <2>0, <2>5, <3>1 DEF Claim, NoLostWake, GenerationFence
  <2>6. ASSUME NEW e \in todo, Skip(e) PROVE NoLostWake' /\ GenerationFence'
    BY <2>0, <2>6 DEF Skip, NoLostWake, GenerationFence
  <2>7. ASSUME NEW e \in claimed, DeliverSucceeds(e) PROVE NoLostWake' /\ GenerationFence'
    <3>1. NoLostWake'
      BY <2>0, <2>7 DEF DeliverSucceeds, NoLostWake, TypeOK
    <3>2. owed'[e.id] # e.generation
      BY <2>0, <2>7 DEF DeliverSucceeds, TypeOK
    <3> QED
      BY <2>0, <2>7, <3>1, <3>2 DEF DeliverSucceeds, GenerationFence
  <2>8. ASSUME DeliverFails \/ Return \/ Fail \/ Crash PROVE NoLostWake' /\ GenerationFence'
    BY <2>0, <2>8 DEF DeliverFails, Return, Fail, Crash, NoLostWake, GenerationFence
  <2>9. ASSUME NEW e \in claimed, Settle(e) PROVE NoLostWake' /\ GenerationFence'
    <3>1. NoLostWake'
      BY <2>0, <2>9 DEF Settle, NoLostWake, GenerationFence, TypeOK, Absent
    <3>2. GenerationFence'
      BY <2>0, <2>9 DEF Settle, GenerationFence, TypeOK, Absent
    <3> QED
      BY <3>1, <3>2
  <2>10. ASSUME Tick PROVE NoLostWake' /\ GenerationFence'
    <3>1. \A i \in Ids : wakes'[i].generation = wakes[i].generation
      BY <2>0, <2>10 DEF Tick, TypeOK
    <3> QED
      BY <2>0, <2>10, <3>1 DEF Tick, NoLostWake, GenerationFence
  <2> QED
    BY <2>1, <2>2, <2>3, <2>4, <2>5, <2>6, <2>7, <2>8, <2>9, <2>10
    DEF Next, Handler, schedule, recordSchedule, cancel, recordCancel, HandlerUnchanged
<1>3. WakeInv => NoLostWake
  BY DEF WakeInv
<1> QED
  BY <1>1, <1>2, <1>3, TypeCorrect, PTL DEF Spec
-----------------------------------------------------------------------------
\* Whenever the host runs and no append awaits its acknowledgement, the alarm will
\* fire in time for every stored wake, unless it was spent on a handler run still
\* to list them (schedulerAlarm after each transaction, bunAlarm's re-arming after
\* a failed run).
THEOREM AlarmsCoverWakes == Spec => []AlarmCovers
<1> USE SchedulerAssumption
<1>1. Init => AlarmCovers
  <2>1. Init => Stored(wakes) = {}
    BY DEF Init, Stored, Absent
  <2> QED
    BY <2>1 DEF AlarmCovers
<1>2. TypeOK /\ TypeOK' /\ AlarmCovers /\ [Next]_vars => AlarmCovers'
  <2> SUFFICES ASSUME TypeOK, TypeOK', AlarmCovers, [Next]_vars PROVE AlarmCovers'
    OBVIOUS
  <2>0. wakes \in Wakes /\ wakes' \in Wakes
    BY DEF TypeOK, Wakes
  \* Every transaction that synchronizes the alarm covers what it stored.
  <2>1. ASSUME alarm' = Earliest(wakes') PROVE AlarmCovers'
    BY <2>0, <2>1, EarliestCovers DEF AlarmCovers
  <2>2. ASSUME NEW i \in Ids, NEW d \in Delays, recordSchedule(i, d) PROVE AlarmCovers'
    BY <2>2 DEF recordSchedule, AlarmCovers
  <2>3. ASSUME NEW i \in Ids, recordCancel(i) PROVE AlarmCovers'
    BY <2>3 DEF recordCancel, AlarmCovers
  <2>4. ASSUME Fire PROVE AlarmCovers'
    BY <2>4 DEF Fire, AlarmCovers
  <2>5. ASSUME DeliverFails \/ Return \/ UNCHANGED vars PROVE AlarmCovers'
    BY <2>5 DEF DeliverFails, Return, vars, AlarmCovers, Stored
  <2>6. ASSUME NEW e \in claimed, DeliverSucceeds(e) PROVE AlarmCovers'
    BY <2>6 DEF DeliverSucceeds, AlarmCovers, Stored
  <2>7. ASSUME Fail PROVE AlarmCovers'
    <3>1. Stored(wakes)' = Stored(wakes) /\ wakes' = wakes /\ synced' = synced /\ up' = up
      BY <2>7 DEF Fail, Stored
    <3>2. CASE alarm = NoAlarm
      BY <2>7, <3>2 DEF Fail, AlarmCovers
    <3>3. CASE alarm # NoAlarm
      <4>1. alarm' = alarm
        BY <2>7, <3>3 DEF Fail
      <4> QED
        BY <3>1, <3>3, <4>1 DEF AlarmCovers
    <3> QED
      BY <3>2, <3>3
  <2>8. ASSUME Crash PROVE AlarmCovers'
    BY <2>8 DEF Crash, AlarmCovers
  <2>9. ASSUME Tick PROVE AlarmCovers'
    <3>1. Stored(wakes') = Stored(wakes)
      BY <2>0, <2>9 DEF Tick, Stored, Wakes
    <3>2. \A i \in Ids : wakes'[i].wait = Sooner(wakes[i].wait)
      BY <2>0, <2>9 DEF Tick, Wakes
    <3>3. CASE alarm = NoAlarm
      BY <2>0, <2>9, <3>1, <3>3 DEF Tick, AlarmCovers, NoAlarm, Delays, Wakes, Stored
    <3>4. CASE alarm \in Delays
      <4>1. alarm' = Sooner(alarm)
        BY <2>9, <3>4 DEF Tick, NoAlarm, Delays
      <4>2. \A i \in Ids : wakes[i].wait \in Delays
        BY <2>0 DEF Wakes
      <4> QED
        BY <2>9, <3>1, <3>2, <3>4, <4>1, <4>2 DEF Tick, AlarmCovers, Sooner, Delays, Stored
    <3> QED
      BY <3>3, <3>4 DEF TypeOK
  <2> QED
    BY <2>1, <2>2, <2>3, <2>4, <2>5, <2>6, <2>7, <2>8, <2>9
    DEF Next, Handler, schedule, cancel, acknowledge, List, Claim, Skip, Settle, restore, schedulerAlarm
<1> QED
  BY <1>1, <1>2, TypeCorrect, PTL DEF Spec
=============================================================================
