--------------------------- MODULE WatchdogProofs ---------------------------
(***************************************************************************)
(* For every set of threads, every policy and every bound: no budget pays  *)
(* for more recoveries than it allows, a runtime is invalidated only for   *)
(* the budget that is current, no admission is forgotten, and an entry is  *)
(* blocked only by its own budget.                                         *)
(*                                                                         *)
(* The waits of entries are left out of the types below: they come from    *)
(* retryDelay, an exponential about which the provers know nothing, and no *)
(* property depends on them.                                               *)
(***************************************************************************)
EXTENDS Watchdog, TLAPS

Fields == {"generation", "budget", "version", "cursor", "attempts", "noProgress", "wait", "status"}

IsEntry(e) ==
    /\ DOMAIN e = Fields
    /\ e.generation \in Nat /\ e.budget \in Nat /\ e.attempts \in Nat
    /\ e.cursor \in Nat /\ e.noProgress \in Nat
    /\ e # NoEntry => e.status \in {"pending", "blocked"}

Stages == {"none", "recovering", "failed", "invalidating", "returned"}

IsWork(w) ==
    /\ DOMAIN w = {"stage", "generation", "budget", "cursor", "result", "seen"}
    /\ w.stage \in Stages
    /\ w.generation \in Nat /\ w.budget \in Nat /\ w.cursor \in Nat /\ w.seen \in Nat

TypeInv ==
    /\ DOMAIN entries = Targets /\ DOMAIN work = Targets /\ DOMAIN active = Targets
    /\ \A t \in Targets : IsEntry(entries[t]) /\ IsWork(work[t])
    /\ \A s \in todo : DOMAIN s = {"target", "entry"} /\ s.target \in Targets /\ IsEntry(s.entry)
    /\ \A p \in visit : /\ DOMAIN p = {"target", "entry", "observed", "seen"}
                        /\ p.target \in Targets /\ IsEntry(p.entry) /\ p.seen \in Nat
    /\ cleanup \subseteq Targets
    /\ recoveries \in [Targets -> Nat] /\ terminal \in [Targets -> BOOLEAN]
    /\ unseen \in [Targets -> BOOLEAN]

\* A stopped host has no run and no attempt; the run holds an entry in two stages only.
RunInv ==
    /\ ~up => /\ run = "idle" /\ todo = {} /\ visit = {} /\ cleanup = {}
              /\ \A t \in Targets : work[t].stage = "none"
    /\ run \notin {"probed", "charged"} => visit = {}

\* The entry in the run's hands has no attempt under way.  Once charged it stays, and
\* as long as its budget is not renewed it has paid for one recovery more than ran.
VisitInv ==
    \A p \in visit :
      LET e == entries[p.target]
      IN  /\ work[p.target].stage = "none"
          /\ run = "charged" =>
               /\ e.status # "none" /\ p.entry.wait \in Delays
               /\ p.entry.generation <= e.generation /\ p.entry.budget <= e.budget
               /\ p.entry.budget = e.budget =>
                    e.status = "pending" /\ recoveries[p.target] < e.attempts

\* What the run has listed or probed is not newer than the entry, unless that was made
\* anew; and it is older when work was admitted after the probe.
ListInv ==
    /\ \A s \in todo :
         LET e == entries[s.target]
         IN  e.status # "none" /\ s.target \notin remade => s.entry.generation <= e.generation
    /\ run = "probed" =>
         \A p \in visit :
           LET e == entries[p.target]
           IN  e.status # "none" /\ p.target \notin remade =>
                 /\ p.entry.generation <= e.generation
                 /\ p.observed = "settled" /\ unseen[p.target] => p.entry.generation < e.generation

\* The entry of an attempt stays, and is pending unless it was renewed.
WorkInv ==
    \A t \in Targets :
      LET e == entries[t]
      IN  work[t].stage # "none" =>
            /\ active[t] \in Delays
            /\ e.status # "none"
            /\ work[t].generation <= e.generation /\ work[t].budget <= e.budget
            /\ work[t].budget = e.budget =>
                 e.status = "pending" /\ (work[t].result = "terminal" => terminal[t])
            /\ work[t].result = "settled" /\ unseen[t] => work[t].generation < e.generation

CleanupInv ==
    /\ \A t \in cleanup : work[t].stage = "invalidating" /\ entries[t].budget = work[t].budget
    /\ \A t \in Targets : work[t].stage = "invalidating" => cleanup = {t}

SupervisionInv ==
    TypeInv /\ RunInv /\ VisitInv /\ ListInv /\ WorkInv /\ CleanupInv /\ BoundedRecoveries

-----------------------------------------------------------------------------
(* What the operators on entries do *)

\* An absent entry, field by field.
LEMMA NoEntryFields ==
    /\ IsEntry(NoEntry) /\ NoEntry.generation = 0 /\ NoEntry.budget = 0
    /\ NoEntry.attempts = 0 /\ NoEntry.status = "none"
  BY DEF IsEntry, NoEntry, Fields

\* An absent attempt.
LEMMA NoWorkFields == IsWork(NoWork) /\ NoWork.stage = "none"
  BY DEF IsWork, NoWork, Stages

\* A renewal numbers generation and budget up and starts the count of attempts again.
LEMMA RenewedFields ==
    ASSUME NEW e, IsEntry(e), NEW v
    PROVE  LET f == Renewed(e, v)
           IN  /\ IsEntry(f) /\ f.generation = e.generation + 1 /\ f.budget = e.budget + 1
               /\ f.attempts = 0 /\ f.status = "pending"
  BY DEF IsEntry, Renewed, Fields

\* Blocking an entry keeps its generation, its budget and what it paid for.
LEMMA BlockedFields ==
    ASSUME NEW e, IsEntry(e)
    PROVE  LET f == Blocked(e)
           IN  /\ IsEntry(f) /\ f.generation = e.generation /\ f.budget = e.budget
               /\ f.attempts = e.attempts /\ f.status = "blocked"
  BY DEF IsEntry, Blocked, Fields

\* Charging an entry pays for one attempt more and renews nothing.
LEMMA ChargedFields ==
    ASSUME NEW e, IsEntry(e), e.status = "pending"
    PROVE  LET f == Charged(e)
           IN  /\ IsEntry(f) /\ f.generation = e.generation /\ f.budget = e.budget
               /\ f.attempts = e.attempts + 1 /\ f.status = "pending" /\ f.wait = AttemptTimeout
  BY DEF IsEntry, Charged, Fields

\* The passing of time changes no other field, and no entry into none.
LEMMA SoonerFields ==
    ASSUME NEW e, IsEntry(e)
    PROVE  LET f == [e EXCEPT !.wait = Sooner(@)]
           IN  /\ IsEntry(f) /\ f.generation = e.generation /\ f.budget = e.budget
               /\ f.attempts = e.attempts /\ f.status = e.status /\ f.wait = Sooner(e.wait)
<1> DEFINE f == [e EXCEPT !.wait = Sooner(@)]
<1>1. CASE e = NoEntry
  <2>1. f = NoEntry
    BY <1>1 DEF NoEntry, Sooner
  <2> QED
    BY <1>1, <2>1 DEF IsEntry, NoEntry, Sooner, Fields
<1>2. CASE e # NoEntry
  BY <1>2 DEF IsEntry, Fields
<1> QED
  BY <1>1, <1>2

\* finish leaves an entry, or takes a settled one that nothing was admitted to, or blocks
\* one whose budget is spent or whose attempt failed for good.
LEMMA FinishedFields ==
    ASSUME NEW e, IsEntry(e), NEW covered, NEW result, NEW seen \in Nat,
           NEW charged, NEW w,
           NEW f, f = Finished(e, covered, result, seen, charged, w)
    PROVE  /\ IsEntry(f)
           /\ \/ f = NoEntry
              \/ f.generation = e.generation /\ f.budget = e.budget /\ f.attempts = e.attempts
           /\ f = NoEntry /\ e # NoEntry =>
                result = "settled" /\ e.generation = covered.generation
           /\ f # NoEntry => e # NoEntry
           /\ f.status = "blocked" /\ e.status # "blocked" =>
                Exhausted(e) \/ (result = "terminal" /\ e.budget = covered.budget)
<1> DEFINE cursor == Larger(e.cursor, seen)
           progress == cursor > covered.cursor
           same == e.generation = covered.generation
<1>0. cursor \in Nat
  BY DEF Larger, IsEntry
<1>1. CASE e.status # "pending" \/ e.budget # covered.budget
  BY <1>1 DEF Finished
<1>2. CASE e.status = "pending" /\ e.budget = covered.budget
  <2>0. e # NoEntry
    BY <1>2 DEF NoEntry
  <2>1. CASE result = "settled" /\ same
    <3>1. f = NoEntry
      BY <1>2, <2>1 DEF Finished
    <3> QED
      BY <1>2, <2>0, <2>1, <3>1, NoEntryFields
  <2>2. CASE result = "alive" /\ same
    <3> DEFINE n == IF progress THEN 0 ELSE Larger(0, e.noProgress - (IF charged THEN 1 ELSE 0))
    <3>1. f = [e EXCEPT !.cursor = cursor, !.wait = w, !.noProgress = n]
      BY <1>2, <2>2 DEF Finished
    <3>2. n \in Nat
      BY DEF Larger, IsEntry
    <3> HIDE DEF n, cursor, progress
    <3>3. /\ DOMAIN f = Fields /\ f.generation = e.generation /\ f.budget = e.budget
          /\ f.attempts = e.attempts /\ f.status = e.status
          /\ f.cursor = cursor /\ f.noProgress = n
      BY <3>1 DEF IsEntry, Fields
    <3> QED
      BY <1>0, <1>2, <2>0, <3>2, <3>3, NoEntryFields DEF IsEntry
  <2>3. CASE result \in {"failed", "terminal"}
    <3>1. CASE result = "terminal" \/ Exhausted(e)
      <4>1. f = Blocked(e)
        BY <1>2, <2>3, <3>1 DEF Finished
      <4> QED
        BY <1>2, <2>0, <3>1, <4>1, BlockedFields, NoEntryFields
    <3>2. CASE ~(result = "terminal" \/ Exhausted(e))
      <4>1. f = [e EXCEPT !.wait = retryDelay(e.noProgress)]
        BY <1>2, <2>3, <3>2 DEF Finished
      <4> QED
        BY <1>2, <2>0, <4>1 DEF IsEntry, Fields, NoEntry
    <3> QED
      BY <3>1, <3>2
  <2>4. CASE ~(result = "settled" /\ same) /\ ~(result = "alive" /\ same) /\ result \notin {"failed", "terminal"}
    <3>1. CASE e.attempts >= MaxAttempts \/ (~progress /\ e.noProgress >= MaxNoProgress)
      <4>1. f = [Blocked(e) EXCEPT !.cursor = cursor]
        BY <1>2, <2>4, <3>1 DEF Finished
      <4>2. Exhausted(e)
        BY <3>1 DEF Exhausted
      <4> HIDE DEF cursor
      <4> QED
        BY <1>0, <1>2, <2>0, <4>1, <4>2, BlockedFields DEF IsEntry, Fields, NoEntry
    <3>2. CASE ~(e.attempts >= MaxAttempts \/ (~progress /\ e.noProgress >= MaxNoProgress))
      <4> DEFINE n == IF progress THEN 0 ELSE e.noProgress
                 d == IF progress THEN RetryInterval ELSE retryDelay(e.noProgress)
      <4>1. f = [e EXCEPT !.cursor = cursor, !.noProgress = n, !.wait = d]
        BY <1>2, <2>4, <3>2 DEF Finished
      <4>2. n \in Nat
        BY DEF IsEntry
      <4> HIDE DEF n, d, cursor, progress
      <4>3. /\ DOMAIN f = Fields /\ f.generation = e.generation /\ f.budget = e.budget
            /\ f.attempts = e.attempts /\ f.status = e.status
            /\ f.cursor = cursor /\ f.noProgress = n
        BY <4>1 DEF IsEntry, Fields
      <4> QED
        BY <1>0, <1>2, <2>0, <4>2, <4>3, NoEntryFields DEF IsEntry
    <3> QED
      BY <3>1, <3>2
  <2> QED
    BY <2>1, <2>2, <2>3, <2>4
<1> QED
  BY <1>1, <1>2

\* An entry is absent exactly when its status says so.
LEMMA EntryFacts ==
    ASSUME NEW e, IsEntry(e)
    PROVE  /\ e.generation \in Nat /\ e.budget \in Nat /\ e.attempts \in Nat
           /\ e = NoEntry <=> e.status = "none"
           /\ e.status \in {"none", "pending", "blocked"}
  BY NoEntryFields DEF IsEntry

\* What admit makes of an entry: a new one, a renewed one, or one that is only touched.
LEMMA AdmittedFields ==
    ASSUME TypeInv, NEW t \in Targets, NEW c \in 0 .. MaxCursor,
           NEW admission \in BOOLEAN, NEW expired \in BOOLEAN, admit(t, c, admission, expired)
    PROVE  \E f :
             /\ entries' = [entries EXCEPT ![t] = f]
             /\ IsEntry(f) /\ f.status # "none"
             /\ ~Present(t) => f.attempts = 0 /\ f.status = "pending"
             /\ Present(t) =>
                  /\ entries[t].generation <= f.generation
                  /\ admission => entries[t].generation < f.generation
                  /\ expired /\ entries[t].status = "blocked" =>
                       f.budget = entries[t].budget + 1 /\ f.attempts = 0 /\ f.status = "pending"
                  /\ ~(expired /\ entries[t].status = "blocked") =>
                       /\ f.budget = entries[t].budget /\ f.attempts = entries[t].attempts
                       /\ f.status = entries[t].status
<1> DEFINE e == entries[t]
           renew == expired /\ e.status = "blocked"
<1>0. IsEntry(e) /\ c \in Nat
  BY WatchdogAssumption DEF TypeInv
<1>1. CASE ~Present(t)
  <2> DEFINE f == [NoEntry EXCEPT !.generation = 1, !.version = version, !.cursor = c,
                                  !.wait = 0, !.status = "pending"]
  <2>1. entries' = [entries EXCEPT ![t] = f]
    BY <1>1 DEF admit
  <2>2. IsEntry(f) /\ f.attempts = 0 /\ f.status = "pending"
    BY <1>0 DEF IsEntry, NoEntry, Fields
  <2> QED
    BY <1>1, <2>1, <2>2
<1>2. CASE Present(t)
  <2> DEFINE prev == IF renew THEN Renewed(e, e.version) ELSE e
             generation == IF admission THEN prev.generation + 1 ELSE prev.generation
             cursor == Larger(prev.cursor, c)
             noProgress == IF c > prev.cursor THEN 0 ELSE prev.noProgress
             wait == IF admission /\ prev.status # "blocked" THEN 0 ELSE prev.wait
             f == [prev EXCEPT !.generation = generation, !.cursor = cursor,
                               !.noProgress = noProgress, !.wait = wait]
  <2>1. entries' = [entries EXCEPT ![t] = f]
    BY <1>2 DEF admit
  <2>2. /\ IsEntry(prev) /\ prev.status # "none"
        /\ renew => /\ prev.generation = e.generation + 1 /\ prev.budget = e.budget + 1
                    /\ prev.attempts = 0 /\ prev.status = "pending"
        /\ ~renew => prev = e
    BY <1>0, <1>2, RenewedFields, EntryFacts DEF Present
  <2> HIDE DEF prev
  <2>3. generation \in Nat /\ cursor \in Nat /\ noProgress \in Nat
    BY <1>0, <2>2 DEF IsEntry, Larger
  <2>4. prev.generation <= generation /\ (admission => prev.generation < generation)
    BY <2>2, EntryFacts
  <2> HIDE DEF generation, cursor, noProgress, wait
  <2>5. /\ DOMAIN f = Fields /\ f.generation = generation /\ f.budget = prev.budget
        /\ f.attempts = prev.attempts /\ f.status = prev.status
        /\ f.cursor = cursor /\ f.noProgress = noProgress
    BY <2>2 DEF IsEntry, Fields
  <2> HIDE DEF f
  <2>6. IsEntry(f)
    BY <2>2, <2>3, <2>5, EntryFacts DEF IsEntry
  <2>7. e.generation <= f.generation /\ (admission => e.generation < f.generation)
    BY <1>0, <2>2, <2>3, <2>4, <2>5, EntryFacts
  <2>8. renew => f.budget = e.budget + 1 /\ f.attempts = 0 /\ f.status = "pending"
    BY <2>2, <2>5
  <2>9. ~renew => f.budget = e.budget /\ f.attempts = e.attempts /\ f.status = e.status
    BY <2>2, <2>5
  <2> QED
    BY <1>2, <2>1, <2>2, <2>5, <2>6, <2>7, <2>8, <2>9
<1> QED
  BY <1>1, <1>2

-----------------------------------------------------------------------------
(* The invariant is inductive *)

\* Supervision starts consistent.
LEMMA SupervisionInit == Init => SupervisionInv
  BY WatchdogAssumption, NoEntryFields, NoWorkFields DEF Init, SupervisionInv, TypeInv, RunInv,
     VisitInv, ListInv, WorkInv, CleanupInv, BoundedRecoveries

\* Every step keeps supervision consistent, action by action.
LEMMA SupervisionStep == SupervisionInv /\ [Next]_vars => SupervisionInv'
<1> SUFFICES ASSUME SupervisionInv, [Next]_vars PROVE SupervisionInv'
  OBVIOUS
<1> USE DEF SupervisionInv
<1>0. /\ \A t \in Targets : IsEntry(entries[t]) /\ IsWork(work[t])
      /\ \A t \in Targets : /\ entries[t].generation \in Nat /\ entries[t].budget \in Nat
                            /\ entries[t].attempts \in Nat /\ recoveries[t] \in Nat
                            /\ entries[t] = NoEntry <=> entries[t].status = "none"
                            /\ entries[t].status \in {"none", "pending", "blocked"}
                            /\ work[t].generation \in Nat /\ work[t].budget \in Nat
      /\ \A p \in visit : p.target \in Targets /\ p.entry.generation \in Nat /\ p.entry.budget \in Nat
      /\ \A s \in todo : s.target \in Targets /\ s.entry.generation \in Nat
      /\ MaxAttempts \in Nat
  BY EntryFacts, WatchdogAssumption DEF TypeInv, IsWork
<1>1. ASSUME NEW t \in Targets, NEW c \in 0 .. MaxCursor,
             NEW admission \in BOOLEAN, NEW expired \in BOOLEAN, admit(t, c, admission, expired)
      PROVE  SupervisionInv'
  <2>1. PICK f :
             /\ entries' = [entries EXCEPT ![t] = f]
             /\ IsEntry(f) /\ f.status # "none"
             /\ ~Present(t) => f.attempts = 0 /\ f.status = "pending"
             /\ Present(t) =>
                  /\ entries[t].generation <= f.generation
                  /\ admission => entries[t].generation < f.generation
                  /\ expired /\ entries[t].status = "blocked" =>
                       f.budget = entries[t].budget + 1 /\ f.attempts = 0 /\ f.status = "pending"
                  /\ ~(expired /\ entries[t].status = "blocked") =>
                       /\ f.budget = entries[t].budget /\ f.attempts = entries[t].attempts
                       /\ f.status = entries[t].status
    BY <1>1, AdmittedFields
  <2>2. f.generation \in Nat /\ f.budget \in Nat /\ f.attempts \in Nat
    BY <2>1, EntryFacts
  <2>11. /\ unseen' = [unseen EXCEPT ![t] = @ \/ admission]
         /\ remade' = IF Present(t) THEN remade ELSE remade \cup {t}
         /\ ForgetBudget(IF (expired /\ entries[t].status = "blocked") \/ ~Present(t) THEN {t} ELSE {})
         /\ UNCHANGED <<runState, attempts, host>>
    BY <1>1 DEF admit
  <2>3. /\ entries'[t] = f /\ \A x \in Targets \ {t} : entries'[x] = entries[x]
        /\ UNCHANGED <<run, todo, visit, active, work, cleanup, up>>
        /\ \A x \in Targets \ {t} : /\ recoveries'[x] = recoveries[x] /\ terminal'[x] = terminal[x]
                                    /\ unseen'[x] = unseen[x]
        /\ remade \subseteq remade'
    <3>1. entries'[t] = f /\ \A x \in Targets \ {t} : entries'[x] = entries[x]
      BY <2>1 DEF TypeInv
    <3>2. UNCHANGED <<run, todo, visit, active, work, cleanup, up>>
      BY <2>11 DEF runState, attempts, host
    <3>3. \A x \in Targets \ {t} : recoveries'[x] = recoveries[x] /\ terminal'[x] = terminal[x]
      BY <2>11 DEF ForgetBudget, TypeInv
    <3>4. \A x \in Targets \ {t} : unseen'[x] = unseen[x]
      BY <2>11 DEF TypeInv
    <3> QED
      BY <2>11, <3>1, <3>2, <3>3, <3>4
  <2>10. TypeInv' /\ RunInv'
    <3>1. TypeInv'
      BY <2>1, <2>11 DEF ForgetBudget, runState, attempts, TypeInv
    <3>2. RunInv'
      BY <2>3 DEF RunInv
    <3> QED
      BY <3>1, <3>2
  <2>4. CASE entries[t].status = "none"
    <3>1. recoveries'[t] = 0 /\ t \in remade' /\ f.attempts = 0
      BY <1>1, <2>1, <2>4 DEF admit, ForgetBudget
    <3>2. VisitInv' /\ ListInv'
      BY <1>0, <2>2, <2>3, <2>4, <3>1 DEF VisitInv, ListInv
    <3>3. WorkInv' /\ CleanupInv' /\ BoundedRecoveries'
      BY <1>0, <2>2, <2>3, <2>4, <3>1 DEF TypeInv, WorkInv, CleanupInv, BoundedRecoveries
    <3> QED
      BY <2>10, <3>2, <3>3
  <2>5. CASE entries[t].status # "none" /\ expired /\ entries[t].status = "blocked"
    <3>1. /\ recoveries'[t] = 0 /\ remade' = remade /\ entries[t].generation <= f.generation
          /\ unseen'[t] => unseen[t] \/ entries[t].generation < f.generation
          /\ f.budget = entries[t].budget + 1 /\ f.attempts = 0 /\ f.status = "pending"
      BY <1>0, <1>1, <2>1, <2>5 DEF admit, ForgetBudget, Present
    <3>2. VisitInv'
      BY <1>0, <2>2, <2>3, <2>5, <3>1 DEF VisitInv
    <3>3. ListInv'
      BY <1>0, <2>2, <2>3, <2>5, <3>1 DEF ListInv
    <3>4. WorkInv'
      BY <1>0, <2>2, <2>3, <2>5, <3>1 DEF WorkInv
    <3>5. CleanupInv' /\ BoundedRecoveries'
      BY <1>0, <2>2, <2>3, <2>5, <3>1 DEF TypeInv, WorkInv, CleanupInv, BoundedRecoveries
    <3> QED
      BY <2>10, <3>2, <3>3, <3>4, <3>5
  <2>6. CASE entries[t].status # "none" /\ ~(expired /\ entries[t].status = "blocked")
    <3>1. /\ recoveries'[t] = recoveries[t] /\ terminal'[t] = terminal[t] /\ remade' = remade
          /\ entries[t].generation <= f.generation
          /\ unseen'[t] => unseen[t] \/ entries[t].generation < f.generation
          /\ f.budget = entries[t].budget /\ f.attempts = entries[t].attempts
          /\ f.status = entries[t].status
      <4>1. Present(t)
        BY <1>0, <2>6 DEF Present
      <4>2. recoveries'[t] = recoveries[t] /\ terminal'[t] = terminal[t] /\ remade' = remade
        BY <2>6, <2>11, <4>1 DEF ForgetBudget, TypeInv
      <4>3. unseen'[t] => unseen[t] \/ entries[t].generation < f.generation
        BY <2>1, <2>11, <4>1 DEF TypeInv
      <4> QED
        BY <2>1, <2>6, <4>1, <4>2, <4>3
    <3>2. VisitInv'
      BY <1>0, <2>2, <2>3, <2>6, <3>1 DEF VisitInv
    <3>3. ListInv'
      BY <1>0, <2>2, <2>3, <2>6, <3>1 DEF ListInv
    <3>4. WorkInv'
      BY <1>0, <2>2, <2>3, <2>6, <3>1 DEF WorkInv
    <3>5. CleanupInv' /\ BoundedRecoveries'
      BY <2>2, <2>3, <2>6, <3>1 DEF TypeInv, CleanupInv, BoundedRecoveries
    <3> QED
      BY <2>10, <3>2, <3>3, <3>4, <3>5
  <2> QED
    BY <2>4, <2>5, <2>6
<1>2. ASSUME NEW t \in Targets, resume(t) PROVE SupervisionInv'
  <2>1. /\ entries'[t] = Renewed(entries[t], entries[t].version)
        /\ \A x \in Targets \ {t} : entries'[x] = entries[x] /\ recoveries'[x] = recoveries[x]
        /\ entries[t].status # "none" /\ recoveries'[t] = 0 /\ cleanup = {}
        /\ UNCHANGED <<run, todo, visit, work, cleanup, unseen, remade>>
    BY <1>0, <1>2 DEF resume, ForgetBudget, Present, runState, attempts, TypeInv
  <2>2. /\ entries'[t].generation = entries[t].generation + 1
        /\ entries'[t].budget = entries[t].budget + 1
        /\ entries'[t].attempts = 0 /\ entries'[t].status = "pending"
    BY <1>0, <2>1, RenewedFields
  <2>11. TypeInv'
    BY <1>2, RenewedFields DEF resume, ForgetBudget, runState, attempts, TypeInv
  <2>12. RunInv'
    BY <1>2, RenewedFields DEF resume, runState, host, RunInv
  <2>13. VisitInv'
    BY <1>0, <2>1, <2>2 DEF VisitInv
  <2>14. ListInv'
    BY <1>0, <2>1, <2>2 DEF ListInv
  <2>15. WorkInv'
    BY <1>0, <1>2, RenewedFields DEF resume, ForgetBudget, attempts, TypeInv, WorkInv
  <2>16. CleanupInv'
    BY <1>2, RenewedFields DEF resume, attempts, CleanupInv
  <2>17. BoundedRecoveries'
    BY <1>0, <1>2, RenewedFields DEF resume, ForgetBudget, BoundedRecoveries
  <2> QED
    BY <2>11, <2>12, <2>13, <2>14, <2>15, <2>16, <2>17
<1>3. ASSUME Restore PROVE SupervisionInv'
  <2>11. TypeInv'
    BY <1>3 DEF Restore, attempts, history, TypeInv
  <2>12. RunInv'
    BY <1>3 DEF Restore, host, RunInv
  <2>13. VisitInv'
    BY <1>3 DEF Restore, attempts, VisitInv
  <2>14. ListInv'
    BY <1>3 DEF Restore, history, ListInv
  <2>15. WorkInv'
    BY <1>3 DEF Restore, attempts, history, WorkInv
  <2>16. CleanupInv'
    BY <1>3 DEF Restore, attempts, CleanupInv
  <2>17. BoundedRecoveries'
    BY <1>3 DEF Restore, history, BoundedRecoveries
  <2> QED
    BY <2>11, <2>12, <2>13, <2>14, <2>15, <2>16, <2>17
<1>4. ASSUME ClaimWake PROVE SupervisionInv'
  <2>11. TypeInv'
    BY <1>4 DEF ClaimWake, attempts, history, TypeInv
  <2>12. RunInv'
    BY <1>4 DEF ClaimWake, host, RunInv
  <2>13. VisitInv'
    BY <1>4 DEF ClaimWake, attempts, VisitInv
  <2>14. ListInv'
    BY <1>4 DEF ClaimWake, history, ListInv
  <2>15. WorkInv'
    BY <1>4 DEF ClaimWake, attempts, history, WorkInv
  <2>16. CleanupInv'
    BY <1>4 DEF ClaimWake, attempts, CleanupInv
  <2>17. BoundedRecoveries'
    BY <1>4 DEF ClaimWake, history, BoundedRecoveries
  <2> QED
    BY <2>11, <2>12, <2>13, <2>14, <2>15, <2>16, <2>17
<1>5. ASSUME ListEntries PROVE SupervisionInv'
  <2>11. TypeInv'
    BY <1>5 DEF ListEntries, attempts, TypeInv
  <2>12. RunInv'
    BY <1>5 DEF ListEntries, host, RunInv
  <2>13. VisitInv'
    BY <1>5 DEF ListEntries, attempts, VisitInv
  <2>14. ListInv'
    BY <1>0, <1>5 DEF ListEntries, ListInv
  <2>15. WorkInv'
    BY <1>5 DEF ListEntries, attempts, WorkInv
  <2>16. CleanupInv'
    BY <1>5 DEF ListEntries, attempts, CleanupInv
  <2>17. BoundedRecoveries'
    BY <1>5 DEF ListEntries, BoundedRecoveries
  <2> QED
    BY <2>11, <2>12, <2>13, <2>14, <2>15, <2>16, <2>17
<1>6. ASSUME NEW s \in todo, Pass(s) PROVE SupervisionInv'
  <2>11. TypeInv'
    BY <1>6 DEF Pass, attempts, history, TypeInv
  <2>12. RunInv'
    BY <1>6 DEF Pass, host, RunInv
  <2>13. VisitInv'
    BY <1>6 DEF Pass, attempts, VisitInv
  <2>14. ListInv'
    BY <1>6 DEF Pass, history, ListInv
  <2>15. WorkInv'
    BY <1>6 DEF Pass, attempts, history, WorkInv
  <2>16. CleanupInv'
    BY <1>6 DEF Pass, attempts, CleanupInv
  <2>17. BoundedRecoveries'
    BY <1>6 DEF Pass, history, BoundedRecoveries
  <2> QED
    BY <2>11, <2>12, <2>13, <2>14, <2>15, <2>16, <2>17
<1>7. ASSUME NEW s \in todo, StillActive(s) PROVE SupervisionInv'
  <2>11. TypeInv'
    BY <1>7 DEF StillActive, attempts, history, TypeInv
  <2>12. RunInv'
    BY <1>7 DEF StillActive, host, RunInv
  <2>13. VisitInv'
    BY <1>7 DEF StillActive, attempts, VisitInv
  <2>14. ListInv'
    BY <1>7 DEF StillActive, history, ListInv
  <2>15. WorkInv'
    BY <1>7 DEF StillActive, attempts, history, WorkInv
  <2>16. CleanupInv'
    BY <1>7 DEF StillActive, attempts, CleanupInv
  <2>17. BoundedRecoveries'
    BY <1>7 DEF StillActive, history, BoundedRecoveries
  <2> QED
    BY <2>11, <2>12, <2>13, <2>14, <2>15, <2>16, <2>17
<1>8. ASSUME NEW s \in todo, NEW o \in Observations, NEW c \in 0 .. MaxCursor, Probe(s, o, c)
      PROVE  SupervisionInv'
  <2>1. /\ s.target \in Targets /\ active[s.target] = Never /\ Never \notin Delays
        /\ visit' = {[target |-> s.target, entry |-> s.entry, observed |-> o, seen |-> c]}
        /\ unseen'[s.target] = (unseen[s.target] /\ o # "settled")
        /\ run' = "probed" /\ todo' = todo \ {s} /\ UNCHANGED <<entries, work, remade>>
    BY <1>8, WatchdogAssumption DEF Probe, attempts, TypeInv, Never, Delays
  <2>2. \A p \in visit' : /\ p.target = s.target /\ p.entry = s.entry /\ p.observed = o
    BY <2>1
  <2>11. TypeInv'
    BY <1>8, <2>1 DEF Probe, attempts, TypeInv
  <2>12. RunInv'
    BY <1>8, <2>1 DEF Probe, host, RunInv
  <2>13. VisitInv'
    BY <2>1, <2>2 DEF WorkInv, VisitInv
  <2>14. ListInv'
    BY <2>1, <2>2 DEF ListInv
  <2>15. WorkInv'
    BY <1>8, <2>1 DEF Probe, attempts, WorkInv
  <2>16. CleanupInv'
    BY <1>8, <2>1 DEF Probe, attempts, CleanupInv
  <2>17. BoundedRecoveries'
    BY <1>8, <2>1 DEF Probe, BoundedRecoveries
  <2> QED
    BY <2>11, <2>12, <2>13, <2>14, <2>15, <2>16, <2>17
<1>9. ASSUME NEW p \in visit, NEW w \in 1 .. MaxDelay, FinishProbe(p, w) PROVE SupervisionInv'
  <2> DEFINE t == p.target
  <2>0. t \in Targets /\ p.seen \in Nat /\ work[t].stage = "none"
    BY DEF TypeInv, VisitInv
  <2>1. PICK f, charged : /\ entries' = [entries EXCEPT ![t] = f]
                          /\ f = Finished(entries[t], p.entry, p.observed, p.seen, charged, w)
    BY <1>9, Zenon DEF FinishProbe
  <2>2. entries' = [entries EXCEPT ![t] = f]
    BY <2>1
  <2>3. /\ IsEntry(f)
        /\ \/ f = NoEntry
           \/ /\ f.generation = entries[t].generation /\ f.budget = entries[t].budget
              /\ f.attempts = entries[t].attempts
        /\ f # NoEntry => entries[t] # NoEntry
    BY <1>0, <2>0, <2>1, FinishedFields
  <2>4. entries'[t] = f /\ \A x \in Targets \ {t} : entries'[x] = entries[x]
    BY <2>0, <2>2 DEF TypeInv
  <2>5. /\ recoveries'[t] = IF f = NoEntry THEN 0 ELSE recoveries[t]
        /\ \A x \in Targets \ {t} : recoveries'[x] = recoveries[x] /\ terminal'[x] = terminal[x]
    <3>1. Forgotten(t)
      BY <1>9 DEF FinishProbe
    <3> QED
      BY <2>0, <2>4, <3>1 DEF Forgotten, ForgetBudget, TypeInv
  <2>6. run' = "visiting" /\ visit' = {} /\ UNCHANGED <<todo, work, active, cleanup, up, unseen, remade>>
    BY <1>9 DEF FinishProbe, attempts, host
  <2>11. TypeInv'
    BY <1>9, <2>3, <2>2 DEF FinishProbe, Forgotten, ForgetBudget, attempts, TypeInv
  <2>12. RunInv'
    BY <1>9, <2>3, <2>2 DEF FinishProbe, Forgotten, host, RunInv
  <2>13. VisitInv'
    BY <2>0, <2>3, <2>4, <2>5, <2>6 DEF VisitInv
  <2>14. ListInv'
    BY <1>0, <2>0, <2>3, <2>4, <2>5, <2>6, NoEntryFields DEF ListInv
  <2>15. WorkInv'
    BY <2>0, <2>3, <2>4, <2>5, <2>6 DEF WorkInv
  <2>16. CleanupInv'
    BY <2>0, <2>3, <2>4, <2>5, <2>6 DEF TypeInv, CleanupInv
  <2>17. BoundedRecoveries'
    BY <1>0, <2>0, <2>3, <2>4, <2>5, <2>6, NoEntryFields DEF BoundedRecoveries
  <2> QED
    BY <2>11, <2>12, <2>13, <2>14, <2>15, <2>16, <2>17
<1>10. ASSUME NEW p \in visit, Precharge(p) PROVE SupervisionInv'
  <2> DEFINE t == p.target
             e == entries[t]
  <2>0. /\ t \in Targets /\ DOMAIN p = {"target", "entry", "observed", "seen"} /\ p.seen \in Nat
        /\ work[t].stage = "none" /\ AttemptTimeout \in Delays /\ MaxAttempts \in Nat
        /\ e.status = "pending" => IsEntry(Blocked(e)) /\ IsEntry(Charged(e))
    BY BlockedFields, ChargedFields, WatchdogAssumption DEF TypeInv, VisitInv, Delays
  <2>1. /\ UNCHANGED <<todo, active, work, cleanup, up, recoveries, terminal, unseen, remade>>
        /\ run = "probed"
    BY <1>10 DEF Precharge, attempts, host, history
  <2>2. CASE ~Chargeable(p)
    <3>1. entries' = entries /\ run' = "visiting" /\ visit' = {}
      BY <1>10, <2>2 DEF Precharge
    <3> QED
      BY <2>1, <3>1 DEF TypeInv, RunInv, VisitInv, ListInv, WorkInv, CleanupInv, BoundedRecoveries
  <2>3. CASE Chargeable(p) /\ Exhausted(e)
    <3>1. /\ entries' = [entries EXCEPT ![t] = Blocked(e)] /\ run' = "visiting" /\ visit' = {}
          /\ e.status = "pending"
      BY <1>10, <2>3 DEF Precharge, Chargeable
    <3>2. /\ IsEntry(Blocked(e)) /\ Blocked(e).generation = e.generation
          /\ Blocked(e).budget = e.budget /\ Blocked(e).attempts = e.attempts
          /\ Blocked(e).status = "blocked"
      BY <1>0, <2>0, BlockedFields
    <3>3. TypeInv' /\ RunInv' /\ VisitInv'
      BY <2>0, <2>1, <3>1, <3>2 DEF TypeInv, RunInv, VisitInv
    <3>4. ListInv'
      BY <2>0, <2>1, <3>1, <3>2 DEF ListInv
    <3>5. WorkInv' /\ CleanupInv' /\ BoundedRecoveries'
      BY <2>0, <2>1, <3>1, <3>2 DEF WorkInv, CleanupInv, BoundedRecoveries
    <3> QED
      BY <3>3, <3>4, <3>5
  <2>4. CASE Chargeable(p) /\ ~Exhausted(e)
    <3>1. /\ entries' = [entries EXCEPT ![t] = Charged(e)] /\ run' = "charged"
          /\ visit' = {[p EXCEPT !.entry = Charged(e)]}
          /\ e.status = "pending" /\ e.attempts < MaxAttempts
      BY <1>0, <2>0, <1>10, <2>4 DEF Precharge, Chargeable, Exhausted
    <3>2. /\ IsEntry(Charged(e)) /\ Charged(e).generation = e.generation
          /\ Charged(e).budget = e.budget /\ Charged(e).attempts = e.attempts + 1
          /\ Charged(e).status = "pending" /\ Charged(e).wait = AttemptTimeout
      BY <1>0, <2>0, <3>1, ChargedFields
    <3>3. \A q \in visit' : /\ DOMAIN q = {"target", "entry", "observed", "seen"} /\ q.seen \in Nat
                            /\ q.target = t /\ q.entry = Charged(e)
      BY <2>0, <3>1
    <3>4. TypeInv' /\ RunInv'
      <4>1. \A x \in Targets : IsEntry(entries'[x])
        BY <1>0, <2>0, <3>1, <3>2
      <4> QED
        BY <2>0, <2>1, <3>1, <3>2, <3>3, <4>1 DEF TypeInv, RunInv
    <3>5. VisitInv'
      BY <1>0, <2>0, <2>1, <3>1, <3>2, <3>3 DEF TypeInv, BoundedRecoveries, VisitInv
    <3>6. ListInv'
      BY <2>0, <2>1, <3>1, <3>2 DEF ListInv
    <3>7. WorkInv' /\ CleanupInv' /\ BoundedRecoveries'
      BY <1>0, <2>0, <2>1, <3>1, <3>2 DEF WorkInv, CleanupInv, BoundedRecoveries
    <3> QED
      BY <3>4, <3>5, <3>6, <3>7
  <2> QED
    BY <2>2, <2>3, <2>4
<1>11. ASSUME NEW p \in visit, Launch(p) PROVE SupervisionInv'
  <2>1. \A x \in Targets : IsWork(work'[x])
    BY <1>11 DEF Launch, TypeInv, IsWork, IsEntry, Stages
  <2>2. recoveries' \in [Targets -> Nat]
    BY <1>11 DEF Launch, TypeInv
  <2>11. TypeInv'
    BY <1>11, <2>1, <2>2 DEF Launch, TypeInv
  <2>12. RunInv'
    BY <1>11, <2>1 DEF Launch, host, RunInv
  <2>13. VisitInv'
    BY <1>11, <2>1 DEF Launch, VisitInv
  <2>14. ListInv'
    BY <1>11, <2>1 DEF Launch, ListInv
  <2>15. WorkInv'
    BY <1>11, <2>1 DEF Launch, TypeInv, VisitInv, WorkInv
  <2>16. CleanupInv'
    BY <1>11, <2>1 DEF Launch, CleanupInv, VisitInv
  <2>17. BoundedRecoveries'
    BY <1>0, <1>11, <2>1 DEF Launch, BoundedRecoveries, VisitInv
  <2> QED
    BY <2>11, <2>12, <2>13, <2>14, <2>15, <2>16, <2>17
<1>12. ASSUME Return PROVE SupervisionInv'
  <2>11. TypeInv'
    BY <1>12 DEF Return, attempts, history, TypeInv
  <2>12. RunInv'
    BY <1>12 DEF Return, host, RunInv
  <2>13. VisitInv'
    BY <1>12 DEF Return, VisitInv
  <2>14. ListInv'
    BY <1>12 DEF Return, ListInv
  <2>15. WorkInv'
    BY <1>12 DEF Return, attempts, history, WorkInv
  <2>16. CleanupInv'
    BY <1>12 DEF Return, attempts, CleanupInv
  <2>17. BoundedRecoveries'
    BY <1>12 DEF Return, history, BoundedRecoveries
  <2> QED
    BY <2>11, <2>12, <2>13, <2>14, <2>15, <2>16, <2>17
<1>13. ASSUME NEW t \in Targets, NEW r \in Results, NEW c \in 0 .. MaxCursor, RecoverReturns(t, r, c)
      PROVE  SupervisionInv'
  <2>0. c \in Nat
    BY WatchdogAssumption
  <2> DEFINE stage == IF r \in {"failed", "terminal"} THEN "failed" ELSE "returned"
  <2>5. stage \in {"failed", "returned"}
    OBVIOUS
  <2> HIDE DEF stage
  <2>1. /\ work'[t] = [work[t] EXCEPT !.result = r, !.seen = c, !.stage = stage]
        /\ \A x \in Targets \ {t} : work'[x] = work[x]
        /\ UNCHANGED <<entries, active>>
        /\ \A x \in Targets \ {t} : unseen'[x] = unseen[x] /\ terminal'[x] = terminal[x]
        /\ unseen'[t] = (unseen[t] /\ r # "settled")
        /\ terminal'[t] = (terminal[t] \/ (r = "terminal" /\ entries[t].budget = work[t].budget))
    BY <1>13 DEF RecoverReturns, TypeInv, stage
  <2>2. /\ DOMAIN work'[t] = {"stage", "generation", "budget", "cursor", "result", "seen"}
        /\ work'[t].stage \in {"failed", "returned"} /\ work'[t].result = r /\ work'[t].seen = c
        /\ work'[t].generation = work[t].generation /\ work'[t].budget = work[t].budget
        /\ work'[t].cursor = work[t].cursor /\ work[t].stage = "recovering"
    <3>1. DOMAIN work[t] = {"stage", "generation", "budget", "cursor", "result", "seen"}
      BY <1>0 DEF IsWork
    <3>2. work[t].stage = "recovering"
      BY <1>13 DEF RecoverReturns
    <3> QED
      BY <2>1, <2>5, <3>1, <3>2
  <2>3. \A x \in Targets : IsWork(work'[x])
    <3>1. IsWork(work'[t])
      BY <1>0, <2>0, <2>2 DEF IsWork, Stages
    <3> QED
      BY <1>0, <2>1, <3>1
  <2>6. \A x \in Targets : /\ work'[x].generation = work[x].generation
                           /\ work'[x].budget = work[x].budget
    BY <2>1, <2>2
  <2>4. terminal' \in [Targets -> BOOLEAN] /\ unseen' \in [Targets -> BOOLEAN]
    BY <1>13, Zenon DEF RecoverReturns, TypeInv
  <2>11. TypeInv'
    BY <1>13, <2>3, <2>4 DEF RecoverReturns, TypeInv, runState
  <2>12. RunInv'
    BY <1>13 DEF RecoverReturns, runState, host, RunInv
  <2>13. VisitInv'
    BY <1>13 DEF RecoverReturns, runState, VisitInv
  <2>14. ListInv'
    BY <1>13 DEF RecoverReturns, runState, TypeInv, ListInv
  <2>15. WorkInv'
    <3>1. SUFFICES ASSUME NEW x \in Targets, work'[x].stage # "none"
                   PROVE  /\ active[x] \in Delays /\ entries[x].status # "none"
                          /\ work[x].generation <= entries[x].generation /\ work[x].budget <= entries[x].budget
                          /\ work[x].budget = entries[x].budget =>
                               /\ entries[x].status = "pending"
                               /\ work'[x].result = "terminal" => terminal'[x]
                          /\ work'[x].result = "settled" /\ unseen'[x] => work[x].generation < entries[x].generation
      BY <2>1, <2>6 DEF WorkInv
    <3>2. CASE x = t
      BY <2>1, <2>2, <3>2 DEF WorkInv
    <3>3. CASE x # t
      BY <2>1, <3>1, <3>3 DEF WorkInv
    <3> QED
      BY <3>2, <3>3
  <2>16. CleanupInv'
    BY <1>13 DEF RecoverReturns, CleanupInv
  <2>17. BoundedRecoveries'
    BY <1>13 DEF RecoverReturns, BoundedRecoveries
  <2> QED
    BY <2>11, <2>12, <2>13, <2>14, <2>15, <2>16, <2>17
<1>14. ASSUME NEW t \in Targets, Invalidate(t) PROVE SupervisionInv'
  <2>1. /\ \A x \in Targets \ {t} : work'[x] = work[x]
        /\ DOMAIN work'[t] = DOMAIN work[t] /\ work'[t].stage \in {"invalidating", "returned"}
        /\ work'[t].generation = work[t].generation /\ work'[t].budget = work[t].budget
        /\ work'[t].cursor = work[t].cursor /\ work'[t].seen = work[t].seen
        /\ work'[t].result = work[t].result /\ work[t].stage # "none"
    BY <1>14 DEF Invalidate, TypeInv, IsWork
  <2>2. \A x \in Targets : IsWork(work'[x])
    BY <1>0, <2>1 DEF IsWork, Stages
  <2>3. /\ cleanup = {} /\ UNCHANGED <<entries, active, terminal, unseen>>
        /\ \/ work'[t].stage = "invalidating" /\ cleanup' = {t} /\ entries[t].budget = work[t].budget
           \/ work'[t].stage = "returned" /\ cleanup' = {}
    BY <1>14 DEF Invalidate, TypeInv, IsWork, history
  <2>11. TypeInv'
    BY <1>14, <2>2 DEF Invalidate, runState, history, TypeInv
  <2>12. RunInv'
    BY <1>14 DEF Invalidate, runState, host, RunInv
  <2>13. VisitInv'
    BY <1>14 DEF Invalidate, runState, history, TypeInv, VisitInv
  <2>14. ListInv'
    BY <1>14 DEF Invalidate, runState, history, ListInv
  <2>15. WorkInv'
    BY <2>1, <2>3 DEF WorkInv
  <2>16. CleanupInv'
    BY <2>1, <2>3 DEF CleanupInv
  <2>17. BoundedRecoveries'
    BY <1>14 DEF Invalidate, history, BoundedRecoveries
  <2> QED
    BY <2>11, <2>12, <2>13, <2>14, <2>15, <2>16, <2>17
<1>15. ASSUME NEW t \in Targets, Invalidated(t) PROVE SupervisionInv'
  <2>1. /\ \A x \in Targets \ {t} : work'[x] = work[x]
        /\ DOMAIN work'[t] = DOMAIN work[t] /\ work'[t].stage \in {"returned"}
        /\ work'[t].generation = work[t].generation /\ work'[t].budget = work[t].budget
        /\ work'[t].cursor = work[t].cursor /\ work'[t].seen = work[t].seen
        /\ work'[t].result = work[t].result /\ work[t].stage # "none"
    BY <1>15 DEF Invalidated, TypeInv, IsWork
  <2>2. \A x \in Targets : IsWork(work'[x])
    BY <1>0, <2>1 DEF IsWork, Stages
  <2>11. TypeInv'
    BY <1>15, <2>2 DEF Invalidated, runState, history, TypeInv
  <2>12. RunInv'
    BY <1>15 DEF Invalidated, runState, host, RunInv
  <2>13. VisitInv'
    BY <1>15 DEF Invalidated, runState, history, VisitInv
  <2>14. ListInv'
    BY <1>15 DEF Invalidated, runState, history, ListInv
  <2>15. WorkInv'
    BY <1>15 DEF Invalidated, history, WorkInv
  <2>16. CleanupInv'
    BY <1>15 DEF Invalidated, TypeInv, CleanupInv, WorkInv
  <2>17. BoundedRecoveries'
    BY <1>15 DEF Invalidated, history, BoundedRecoveries
  <2> QED
    BY <2>11, <2>12, <2>13, <2>14, <2>15, <2>16, <2>17
<1>16. ASSUME NEW t \in Targets, NEW w \in 1 .. MaxDelay, Finish(t, w) PROVE SupervisionInv'
  <2>1. PICK f, charged : /\ entries' = [entries EXCEPT ![t] = f]
                          /\ f = Finished(entries[t], work[t], work[t].result, work[t].seen, charged, w)
    BY <1>16, Zenon DEF Finish
  <2>2. entries' = [entries EXCEPT ![t] = f]
    BY <2>1
  <2>3. /\ IsEntry(f)
        /\ \/ f = NoEntry
           \/ /\ f.generation = entries[t].generation /\ f.budget = entries[t].budget
              /\ f.attempts = entries[t].attempts
        /\ f # NoEntry => entries[t] # NoEntry
    <3>1. work[t].seen \in Nat
      BY <1>0 DEF IsWork
    <3> QED
      BY <1>0, <2>1, <3>1, FinishedFields
  <2>4. entries'[t] = f /\ \A x \in Targets \ {t} : entries'[x] = entries[x]
    BY <2>2 DEF TypeInv
  <2>5. /\ recoveries'[t] = IF f = NoEntry THEN 0 ELSE recoveries[t]
        /\ \A x \in Targets \ {t} : recoveries'[x] = recoveries[x] /\ terminal'[x] = terminal[x]
    <3>1. Forgotten(t)
      BY <1>16 DEF Finish
    <3> QED
      BY <2>4, <3>1 DEF Forgotten, ForgetBudget, TypeInv
  <2>6. /\ work[t].stage = "returned" /\ work'[t].stage = "none"
        /\ \A x \in Targets \ {t} : work'[x] = work[x] /\ active'[x] = active[x]
        /\ UNCHANGED <<run, todo, visit, cleanup, unseen, remade>>
    BY <1>16, NoWorkFields DEF Finish, runState, TypeInv
  <2>11. TypeInv'
    BY <1>16, <2>3, <2>2, NoWorkFields DEF Finish, Forgotten, ForgetBudget, runState, TypeInv
  <2>12. RunInv'
    BY <1>16, <2>3, <2>2 DEF Finish, Forgotten, runState, host, RunInv
  <2>13. VisitInv'
    BY <1>0, <2>3, <2>4, <2>5, <2>6 DEF VisitInv
  <2>14. ListInv'
    BY <1>0, <2>3, <2>4, <2>5, <2>6, NoEntryFields DEF ListInv
  <2>15. WorkInv'
    BY <2>3, <2>4, <2>5, <2>6 DEF WorkInv
  <2>16. CleanupInv'
    BY <2>3, <2>4, <2>5, <2>6 DEF TypeInv, CleanupInv
  <2>17. BoundedRecoveries'
    BY <1>0, <2>3, <2>4, <2>5, <2>6, NoEntryFields DEF BoundedRecoveries
  <2> QED
    BY <2>11, <2>12, <2>13, <2>14, <2>15, <2>16, <2>17
<1>17. ASSUME RunFails PROVE SupervisionInv'
  <2>11. TypeInv'
    BY <1>17 DEF RunFails, attempts, history, TypeInv
  <2>12. RunInv'
    BY <1>17 DEF RunFails, RunInv
  <2>13. VisitInv'
    BY <1>17 DEF RunFails, VisitInv
  <2>14. ListInv'
    BY <1>17 DEF RunFails, ListInv
  <2>15. WorkInv'
    BY <1>17 DEF RunFails, attempts, history, WorkInv
  <2>16. CleanupInv'
    BY <1>17 DEF RunFails, attempts, CleanupInv
  <2>17. BoundedRecoveries'
    BY <1>17 DEF RunFails, history, BoundedRecoveries
  <2> QED
    BY <2>11, <2>12, <2>13, <2>14, <2>15, <2>16, <2>17
<1>18. ASSUME NEW t \in Targets, AttemptLost(t) PROVE SupervisionInv'
  <2>11. TypeInv'
    BY <1>18, NoWorkFields DEF AttemptLost, runState, history, TypeInv
  <2>12. RunInv'
    BY <1>18 DEF AttemptLost, runState, RunInv
  <2>13. VisitInv'
    BY <1>18 DEF AttemptLost, runState, history, VisitInv
  <2>14. ListInv'
    BY <1>18 DEF AttemptLost, runState, history, ListInv
  <2>15. WorkInv'
    BY <1>18, NoWorkFields DEF AttemptLost, history, TypeInv, WorkInv
  <2>16. CleanupInv'
    BY <1>18, NoWorkFields DEF AttemptLost, TypeInv, CleanupInv
  <2>17. BoundedRecoveries'
    BY <1>18 DEF AttemptLost, history, BoundedRecoveries
  <2> QED
    BY <2>11, <2>12, <2>13, <2>14, <2>15, <2>16, <2>17
<1>19. ASSUME Crash PROVE SupervisionInv'
  <2>11. TypeInv'
    BY <1>19, NoWorkFields DEF Crash, history, TypeInv
  <2>12. RunInv'
    BY <1>19, NoWorkFields DEF Crash, RunInv
  <2>13. VisitInv'
    BY <1>19 DEF Crash, VisitInv
  <2>14. ListInv'
    BY <1>19 DEF Crash, ListInv
  <2>15. WorkInv'
    BY <1>19, NoWorkFields DEF Crash, WorkInv
  <2>16. CleanupInv'
    BY <1>19, NoWorkFields DEF Crash, CleanupInv
  <2>17. BoundedRecoveries'
    BY <1>19 DEF Crash, history, BoundedRecoveries
  <2> QED
    BY <2>11, <2>12, <2>13, <2>14, <2>15, <2>16, <2>17
<1>20. ASSUME NEW v \in Versions, Restart(v) PROVE SupervisionInv'
  <2>11. TypeInv'
    BY <1>20, RenewedFields DEF Restart, ForgetBudget, runState, attempts, TypeInv
  <2>12. RunInv'
    BY <1>20, RenewedFields DEF Restart, runState, RunInv
  <2>13. VisitInv'
    BY <1>0, <1>20, RenewedFields DEF Restart, ForgetBudget, runState, attempts, VisitInv
  <2>14. ListInv'
    BY <1>0, <1>20, RenewedFields DEF Restart, Present, runState, ListInv
  <2>15. WorkInv'
    BY <1>0, <1>20, RenewedFields DEF Restart, ForgetBudget, attempts, TypeInv, WorkInv
  <2>16. CleanupInv'
    BY <1>20 DEF Restart, attempts, RunInv, CleanupInv
  <2>17. BoundedRecoveries'
    BY <1>0, <1>20, RenewedFields DEF Restart, ForgetBudget, BoundedRecoveries
  <2> QED
    BY <2>11, <2>12, <2>13, <2>14, <2>15, <2>16, <2>17
<1>21. ASSUME Tick PROVE SupervisionInv'
  <2>1. /\ \A x \in Targets : /\ entries'[x].generation = entries[x].generation
                              /\ entries'[x].budget = entries[x].budget
                              /\ entries'[x].attempts = entries[x].attempts
                              /\ entries'[x].status = entries[x].status
        /\ UNCHANGED <<run, work, cleanup, up, recoveries, terminal, unseen, remade>>
    BY <1>0, <1>21, SoonerFields DEF Tick, host, history
  <2>2. \A q \in visit' : \E p \in visit :
          /\ q.target = p.target /\ q.observed = p.observed /\ p.target \in Targets
          /\ q.entry.generation = p.entry.generation /\ q.entry.budget = p.entry.budget
          /\ q.entry.wait = Sooner(p.entry.wait)
          /\ DOMAIN q = {"target", "entry", "observed", "seen"} /\ q.seen \in Nat /\ IsEntry(q.entry)
    <3>1. SUFFICES ASSUME NEW p \in visit, NEW q, q = [p EXCEPT !.entry.wait = Sooner(@)]
                   PROVE  /\ q.target = p.target /\ q.observed = p.observed
                          /\ q.entry.generation = p.entry.generation
                          /\ q.entry.budget = p.entry.budget
                          /\ q.entry.wait = Sooner(p.entry.wait)
                          /\ DOMAIN q = {"target", "entry", "observed", "seen"}
                          /\ q.seen \in Nat /\ IsEntry(q.entry)
      BY <1>0, <1>21 DEF Tick
    <3>2. /\ q.target = p.target /\ q.observed = p.observed
          /\ DOMAIN q = {"target", "entry", "observed", "seen"} /\ q.seen \in Nat
          /\ q.entry = [p.entry EXCEPT !.wait = Sooner(@)]
      BY <3>1 DEF TypeInv
    <3>3. IsEntry(p.entry)
      BY DEF TypeInv
    <3> QED
      BY <3>2, <3>3, SoonerFields
  <2>3. \A q \in todo' : \E s \in todo :
          q.target = s.target /\ q.entry.generation = s.entry.generation /\ s.target \in Targets
            /\ DOMAIN q = {"target", "entry"} /\ IsEntry(q.entry)
    <3>1. SUFFICES ASSUME NEW s \in todo, NEW q, q = [s EXCEPT !.entry.wait = Sooner(@)]
                   PROVE  /\ q.target = s.target /\ q.entry.generation = s.entry.generation
                          /\ DOMAIN q = {"target", "entry"} /\ IsEntry(q.entry)
      BY <1>0, <1>21 DEF Tick
    <3>2. /\ q.target = s.target /\ q.entry = [s.entry EXCEPT !.wait = Sooner(@)]
          /\ DOMAIN q = {"target", "entry"}
      BY <3>1 DEF TypeInv
    <3>3. IsEntry(s.entry)
      BY DEF TypeInv
    <3> QED
      BY <3>2, <3>3, SoonerFields
  <2>4. \A d \in Delays : Sooner(d) \in Delays
    BY WatchdogAssumption DEF Sooner, Delays, Never
  <2>5. \A x \in Targets : active[x] \in Delays => active'[x] \in Delays
    BY <1>21, <2>4 DEF Tick
  <2>6. /\ \A x \in Targets : IsEntry(entries'[x])
        /\ DOMAIN entries' = Targets /\ DOMAIN active' = Targets
    BY <1>0, <1>21, SoonerFields DEF Tick
  <2>11. TypeInv'
    BY <2>1, <2>2, <2>3, <2>6 DEF TypeInv
  <2>12. RunInv'
    BY <1>21, SoonerFields DEF Tick, host, RunInv
  <2>13. VisitInv'
    BY <2>1, <2>2, <2>3, <2>4, <2>5 DEF VisitInv
  <2>14. ListInv'
    BY <2>1, <2>2, <2>3, <2>4, <2>5 DEF ListInv
  <2>15. WorkInv'
    BY <2>1, <2>2, <2>3, <2>4, <2>5 DEF WorkInv
  <2>16. CleanupInv'
    BY <1>21, SoonerFields DEF Tick, TypeInv, CleanupInv
  <2>17. BoundedRecoveries'
    BY <1>0, <1>21, SoonerFields DEF Tick, history, BoundedRecoveries
  <2> QED
    BY <2>11, <2>12, <2>13, <2>14, <2>15, <2>16, <2>17
<1>22. CASE UNCHANGED vars
  BY <1>22 DEF vars, runState, attempts, host, history, TypeInv, RunInv, VisitInv, ListInv,
     WorkInv, CleanupInv, BoundedRecoveries
<1> QED
  BY <1>1, <1>2, <1>3, <1>4, <1>5, <1>6, <1>7, <1>8, <1>9, <1>10, <1>11, <1>12, <1>13, <1>14,
     <1>15, <1>16, <1>17, <1>18, <1>19, <1>20, <1>21, <1>22 DEF Next, Alarm, Attempt

-----------------------------------------------------------------------------
(* The theorems *)

\* So it is consistent for ever.
LEMMA SupervisionHolds == Spec => []SupervisionInv
  BY SupervisionInit, SupervisionStep, PTL DEF Spec

\* However often a host crashes, an alarm's run fails or an attempt is lost, a budget
\* pays for at most MaxAttempts recoveries (watchdog.ts alarm's precharge).
THEOREM RecoveriesAreBounded == Spec => []BoundedRecoveries
<1>1. SupervisionInv => BoundedRecoveries
  BY DEF SupervisionInv
<1> QED
  BY <1>1, SupervisionHolds, PTL

\* While an attempt invalidates a runtime, its target keeps its entry and its budget: a
\* renewal waits for cleanupLock (watchdog.ts work and resume).
THEOREM InvalidationIsFenced == Spec => []InvalidationFenced
<1>1. SupervisionInv => InvalidationFenced
  BY EntryFacts DEF SupervisionInv, TypeInv, WorkInv, CleanupInv, InvalidationFenced, Present
<1> QED
  BY <1>1, SupervisionHolds, PTL

\* Two kinds of step delete an entry or block it: the transaction of finish and that of
\* the precharge.  Every other step leaves the statuses alone or makes them pending.
LEMMA StatusKept ==
    ASSUME SupervisionInv, [Next]_vars
    PROVE  \/ \A t \in Targets : entries'[t].status \in {entries[t].status, "pending"}
           \/ \E p \in visit : Precharge(p) \/ \E w \in 1 .. MaxDelay : FinishProbe(p, w)
           \/ \E t \in Targets, w \in 1 .. MaxDelay : Finish(t, w)
<1> DEFINE Kept == \A t \in Targets : entries'[t].status \in {entries[t].status, "pending"}
<1>0. TypeInv /\ \A t \in Targets : IsEntry(entries[t])
  BY DEF SupervisionInv, TypeInv
<1>1. ASSUME UNCHANGED entries PROVE Kept
  BY <1>1
<1>2. ASSUME NEW t \in Targets, NEW c \in 0 .. MaxCursor,
             NEW admission \in BOOLEAN, NEW expired \in BOOLEAN, admit(t, c, admission, expired)
      PROVE  Kept
  <2>1. PICK f :
          /\ entries' = [entries EXCEPT ![t] = f]
          /\ f.status \in {entries[t].status, "pending"}
    BY <1>0, <1>2, AdmittedFields
  <2> QED
    BY <2>1
<1>3. ASSUME NEW t \in Targets, resume(t) PROVE Kept
  BY <1>0, <1>3, RenewedFields DEF resume
<1>4. ASSUME NEW v \in Versions, Restart(v) PROVE Kept
  BY <1>0, <1>4, RenewedFields DEF Restart
<1>5. ASSUME Tick PROVE Kept
  BY <1>0, <1>5, SoonerFields DEF Tick
<1>6. ASSUME \/ Restore \/ ClaimWake \/ ListEntries \/ Return \/ RunFails \/ Crash
             \/ \E s \in todo : Pass(s) \/ StillActive(s)
             \/ \E s \in todo, o \in Observations, c \in 0 .. MaxCursor : Probe(s, o, c)
             \/ \E p \in visit : Launch(p)
             \/ \E t \in Targets : Invalidate(t) \/ Invalidated(t) \/ AttemptLost(t)
             \/ \E t \in Targets, r \in Results, c \in 0 .. MaxCursor : RecoverReturns(t, r, c)
             \/ UNCHANGED vars
      PROVE  UNCHANGED entries
  BY <1>6 DEF Restore, ClaimWake, ListEntries, Return, RunFails, Crash, Pass, StillActive, Probe,
     Launch, Invalidate, Invalidated, AttemptLost, RecoverReturns, vars
<1> HIDE DEF Kept
<1>7. Kept \/ (\E p \in visit : Precharge(p) \/ \E w \in 1 .. MaxDelay : FinishProbe(p, w))
           \/ (\E t \in Targets, w \in 1 .. MaxDelay : Finish(t, w))
  BY <1>1, <1>2, <1>3, <1>4, <1>5, <1>6 DEF Next, Alarm, Attempt
<1> QED
  BY <1>7 DEF Kept

\* What a step may do to an entry: the bodies of the two action properties.
Keeps ==
    \A t \in Targets : (unseen[t] /\ Present(t) /\ t \notin remade) => entries'[t] # NoEntry

BlocksOwn ==
    \A t \in Targets :
      (entries[t].status # "blocked" /\ entries'[t].status = "blocked") =>
         Exhausted(entries[t]) \/ terminal[t]

\* finish obeys both when the result it records is fenced by generation and by budget.
LEMMA FinishKeeps ==
    ASSUME SupervisionInv, NEW t \in Targets, NEW covered, NEW result, NEW seen \in Nat,
           NEW charged, NEW w,
           entries' = [entries EXCEPT ![t] = Finished(@, covered, result, seen, charged, w)],
           result = "settled" /\ entries[t].generation = covered.generation =>
             ~(unseen[t] /\ Present(t) /\ t \notin remade),
           result = "terminal" /\ entries[t].budget = covered.budget => terminal[t]
    PROVE  Keeps /\ BlocksOwn
<1>1. PICK f : f = Finished(entries[t], covered, result, seen, charged, w)
  OBVIOUS
<1>2. entries'[t] = f /\ \A x \in Targets \ {t} : entries'[x] = entries[x]
  BY <1>1 DEF SupervisionInv, TypeInv
<1>3. IsEntry(entries[t])
  BY DEF SupervisionInv, TypeInv
<1>4. /\ f = NoEntry /\ entries[t] # NoEntry =>
           result = "settled" /\ entries[t].generation = covered.generation
      /\ f.status = "blocked" /\ entries[t].status # "blocked" =>
           Exhausted(entries[t]) \/ (result = "terminal" /\ entries[t].budget = covered.budget)
  BY <1>1, <1>3, FinishedFields
<1> QED
  BY <1>2, <1>4 DEF Keeps, BlocksOwn, Present

\* No step forgets an unseen admission or blocks an entry on another budget's account.
LEMMA StepKeeps == ASSUME SupervisionInv, [Next]_vars PROVE Keeps /\ BlocksOwn
<1>0. /\ \A t \in Targets : IsEntry(entries[t]) /\ IsWork(work[t])
      /\ \A p \in visit : p.target \in Targets /\ p.seen \in Nat /\ IsEntry(p.entry)
  BY DEF SupervisionInv, TypeInv
<1>1. CASE \A t \in Targets : entries'[t].status \in {entries[t].status, "pending"}
  <2>1. \A t \in Targets : Present(t) => entries'[t] # NoEntry
    BY <1>0, <1>1, EntryFacts, NoEntryFields DEF Present
  <2> QED
    BY <1>1, <2>1 DEF Keeps, BlocksOwn
<1>2. ASSUME NEW p \in visit, Precharge(p) PROVE Keeps /\ BlocksOwn
  <2>1. p.target \in Targets /\ DOMAIN entries = Targets
    BY DEF SupervisionInv, TypeInv
  <2>2. /\ Blocked(entries[p.target]) # NoEntry
        /\ entries[p.target].status = "pending" =>
             Charged(entries[p.target]) # NoEntry /\ Charged(entries[p.target]).status = "pending"
    BY <1>0, <2>1, BlockedFields, ChargedFields, NoEntryFields
  <2> QED
    BY <1>2, <2>1, <2>2 DEF Precharge, Chargeable, Keeps, BlocksOwn, Present
<1>3. ASSUME NEW p \in visit, NEW w \in 1 .. MaxDelay, FinishProbe(p, w) PROVE Keeps /\ BlocksOwn
  <2>1. PICK charged :
          entries' = [entries EXCEPT ![p.target] =
                        Finished(@, p.entry, p.observed, p.seen, charged, w)]
    BY <1>3, Zenon DEF FinishProbe
  <2>2. p.target \in Targets /\ p.seen \in Nat /\ run = "probed" /\ p.observed # "terminal"
    BY <1>0, <1>3 DEF FinishProbe
  <2>3. p.observed = "settled" /\ entries[p.target].generation = p.entry.generation =>
          ~(unseen[p.target] /\ Present(p.target) /\ p.target \notin remade)
    BY <1>0, <2>2, EntryFacts DEF SupervisionInv, ListInv, Present
  <2> QED
    BY <2>1, <2>2, <2>3, FinishKeeps
<1>4. ASSUME NEW t \in Targets, NEW w \in 1 .. MaxDelay, Finish(t, w) PROVE Keeps /\ BlocksOwn
  <2>1. PICK charged :
          entries' = [entries EXCEPT ![t] =
                        Finished(@, work[t], work[t].result, work[t].seen, charged, w)]
    BY <1>4, Zenon DEF Finish
  <2>2. work[t].seen \in Nat /\ work[t].stage # "none"
    BY <1>0, <1>4 DEF IsWork, Finish
  <2>3. work[t].result = "settled" /\ entries[t].generation = work[t].generation => ~unseen[t]
    BY <1>0, <2>2, EntryFacts DEF SupervisionInv, WorkInv
  <2>4. work[t].result = "terminal" /\ entries[t].budget = work[t].budget => terminal[t]
    BY <2>2 DEF SupervisionInv, WorkInv
  <2> QED
    BY <2>1, <2>2, <2>3, <2>4, FinishKeeps
<1> QED
  BY <1>1, <1>2, <1>3, <1>4, StatusKept

\* A settled result deletes no entry that an admission touched after the recovery or the
\* probe had looked (watchdog.ts finish's generation check).
THEOREM AdmissionsAreKept == Spec => NoForgottenAdmission
<1>1. SupervisionInv /\ [Next]_vars =>
        [\A t \in Targets : (unseen[t] /\ Present(t) /\ t \notin remade) => entries'[t] # NoEntry]_vars
  BY StepKeeps DEF Keeps
<1> QED
  BY <1>1, SupervisionHolds, PTL DEF Spec, NoForgottenAdmission

\* An attempt that a renewal has fenced off blocks no entry: one is blocked only when its
\* own budget is spent or its own attempt failed for good (watchdog.ts alarm and finish).
THEOREM BlockingIsOwn == Spec => BlockedByOwnBudget
<1>1. SupervisionInv /\ [Next]_vars =>
        [\A t \in Targets :
           (entries[t].status # "blocked" /\ entries'[t].status = "blocked") =>
              Exhausted(entries[t]) \/ terminal[t]]_vars
  BY StepKeeps DEF BlocksOwn
<1> QED
  BY <1>1, SupervisionHolds, PTL DEF Spec, BlockedByOwnBudget
=============================================================================
