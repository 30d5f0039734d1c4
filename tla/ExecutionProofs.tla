-------------------------- MODULE ExecutionProofs --------------------------
(***************************************************************************)
(* For every set of invocations and every bound: the execution part of a   *)
(* thread owns every owed cleanup, leaks no external job, never sleeps on  *)
(* work and reports its recovery state honestly.  And for the objects of   *)
(* the older Cloudflare host: what they answered for is covered by an      *)
(* alarm, and threads run as they were allocated.                          *)
(*                                                                         *)
(* The properties are not inductive.  ExecutionInv adds what they rest on: *)
(* the records of an operation agree with each other and with the handles  *)
(* (RecordInv); cleanup fibres mirror the cleanups that are owed           *)
(* (FibreInv); what the drain may assume of the work it claimed (WorkInv); *)
(* where a submitted job is until its handle is recorded (JobInv); what a  *)
(* drain that is about to sleep has seen (WakeInv); who works on a local   *)
(* promise (OrphanInv).                                                    *)
(*                                                                         *)
(* The proof first says how the table of operations evolves (Evolves, with *)
(* one lemma per record of Lifecycle), then what a commit does on the      *)
(* volatile side (Commits), and then takes the actions group by group,     *)
(* each group through one lemma about what its actions leave alone.        *)
(***************************************************************************)
EXTENDS Execution, DurableObjects, WellFoundedInduction, TLAPS

\* An operation, field by field.
IsOp(op) ==
    /\ DOMAIN op = {"origin", "outcome", "deferred", "promise", "retry", "cancelled",
                    "cleanup", "cleanupRetry"}
    /\ op.origin \in Origins
    /\ op.outcome \in Settlements \cup {"died", "none"}
    /\ op.deferred \in Settlements \cup {"none"}
    /\ op.promise \in PromiseResults \cup {"none"}
    /\ op.retry \in Nat /\ op.cleanupRetry \in Nat
    /\ op.cancelled \in BOOLEAN
    /\ op.cleanup \in CleanupOutcomes \cup {"none"}

\* An operation whose execution may still go on.
Live(op) == ~operationComplete(op) /\ ~op.cancelled

Handles == {"none", "local", "external"}
ProducerStates == {"none", "run", "waiting", "deliver"}
CleanerStates == {"none", "queued", "wait", "act", "waiting", "done"}
Busy == {"claimed", "running"}

DurableTypes ==
    /\ Accepted \subseteq Origins
    /\ ops = [o \in Accepted |-> ops[o]]
    /\ \A o \in Accepted : IsOp(ops[o])
    /\ defect \in BOOLEAN
    /\ handle \in [Origins -> Handles]
    /\ proposed \subseteq Origins

VolatileTypes ==
    /\ DOMAIN drain = {"pc", "ref", "recovering", "stop"}
    /\ drain.pc \in {"idle", "top", "select"} \cup Busy
    /\ drain.recovering \in BOOLEAN /\ drain.stop \in BOOLEAN
    /\ IF drain.pc \in Busy THEN drain.ref \in Accepted ELSE drain.ref = NoRef
    /\ fibre \in {"none", "run", "forked", "waiting", "submitting", "submitted", "value",
                  "rejected", "local", "external", "died", "interrupted"}
    /\ fibre # "none" <=> drain.pc = "running"
    /\ scheduled \in BOOLEAN /\ drivable \in BOOLEAN
    /\ producer \in [Origins -> ProducerStates]
    /\ cleaner \in [Origins -> CleanerStates]
    /\ localRecovery \subseteq Accepted /\ watched \subseteq Accepted /\ due \subseteq Accepted
    /\ errors \in {"none", "terminal", "fault"}

\* The records of an operation agree with each other and with the handles.
RecordInv ==
    /\ \A o \in Accepted : ops[o].cleanup # "none" => ops[o].cancelled
    /\ \A o \in Accepted : ops[o].outcome = "died" => defect
    /\ \A o \in Accepted : ops[o].outcome # "died" => ops[o].deferred = "none"
    /\ \A o \in Origins : handle[o] # "none" => o \in Accepted /\ ops[o].outcome # "none"

\* Cleanup fibres exist exactly for the cleanups that are owed.
FibreInv ==
    /\ \A o \in Origins :
         cleaner[o] \in {"queued", "wait", "act", "waiting"} <=> o \in Cleanup
    /\ \A o \in Origins : cleaner[o] = "done" => o \in Accepted /\ ops[o].cleanup # "none"
    /\ \A o \in Origins : cleaner[o] = "act" => producer[o] = "none" /\ o \notin Completing
    /\ \A o \in Origins : cleaner[o] = "queued" =>
         /\ drain.pc \in {"idle", "top"}
         /\ scheduled \/ drain.pc = "top" \/ (~drivable /\ ~defect)

\* What the drain holds while it works on an operation.
WorkInv ==
    /\ drain.pc \in Busy => ops[drain.ref].cleanup # "fulfilled"
    /\ drain.pc \in Busy /\ ~drain.recovering =>
         /\ handle[drain.ref] # "local"
         /\ fibre \in {"none", "run", "forked", "waiting", "submitting"} =>
              ops[drain.ref].outcome \in {"none", "died"}
    /\ drain.recovering => fibre \notin {"submitting", "submitted", "external"}
    /\ drain.stop => drain.pc = "running" /\ defect /\ scheduled
    /\ fibre = "interrupted" => ~Running(drain.ref) \/ (defect /\ scheduled)
    /\ fibre \in {"forked", "local"} =>
         \/ producer[drain.ref] # "none" \/ drain.ref \in lost
         \/ ~Running(drain.ref) \/ defect

\* Every submitted job is recorded, about to be recorded, or lost to a defect.
JobInv ==
    /\ \A o \in jobs :
         /\ o \in Accepted /\ o \notin ReplyOrigins
         /\ \/ handle[o] = "external"
            \/ drain.ref = o /\ fibre = "submitting"
            \/ /\ defect /\ handle[o] = "none"
               /\ drain.ref = o => fibre \in {"submitted", "external", "interrupted"}
    /\ \A o \in jobs : cleaner[o] = "act" => o \in withdrawn \/ (defect /\ handle[o] = "none")
    /\ \A o \in jobs : ops[o].cleanup = "fulfilled" =>
         o \in withdrawn \/ (defect /\ handle[o] = "none")

\* A drain that sleeps, or is about to, has seen all there is.
WakeInv ==
    /\ drain.pc = "idle" /\ ~scheduled /\ (drivable \/ defect) =>
         Executable = {} /\ Recoverable = {} /\ Deferred \subseteq watched
    /\ drain.pc = "select" /\ ~scheduled => Deferred \subseteq watched

\* Somebody works on every local promise, or its producer was lost.
OrphanInv ==
    \A o \in LocalDeferred :
      producer[o] # "none" \/ o \in localRecovery \cup Completing \cup lost

ExecutionInv ==
    /\ DurableTypes /\ VolatileTypes
    /\ RecordInv /\ FibreInv /\ WorkInv /\ JobInv /\ WakeInv /\ OrphanInv
-----------------------------------------------------------------------------
(* The table of operations *)

TableTypes ==
    /\ Accepted \subseteq Origins
    /\ ops = [o \in Accepted |-> ops[o]]
    /\ \A o \in Accepted : IsOp(ops[o])
    /\ defect \in BOOLEAN

\* How one operation may move in a step (the guards are those of Lifecycle).
Kept(x) ==
    /\ ops'[x].promise = ops[x].promise /\ ops'[x].cancelled = ops[x].cancelled
    /\ ops'[x].cleanup = ops[x].cleanup
OpNext(x) ==
    \/ Kept(x) /\ ops'[x].outcome = ops[x].outcome /\ ops'[x].deferred = ops[x].deferred
    \/ /\ Kept(x) /\ \E s \in Settlements : AdmitsSettlement(x, s) /\ ops'[x].outcome = s
       /\ ops'[x].deferred = ops[x].deferred
    \/ /\ AdmitsPromise(x) /\ ops'[x].promise # "none"
       /\ ops'[x].outcome = ops[x].outcome /\ ops'[x].deferred = ops[x].deferred
       /\ ops'[x].cancelled = ops[x].cancelled /\ ops'[x].cleanup = ops[x].cleanup
    \/ Kept(x) /\ AdmitsDefect(x) /\ ops'[x].outcome = "died" /\ defect'
    \/ /\ AdmitsCancellation(x) /\ ops'[x].cancelled
       /\ ops'[x].outcome = ops[x].outcome /\ ops'[x].deferred = ops[x].deferred
       /\ ops'[x].promise = ops[x].promise /\ ops'[x].cleanup = ops[x].cleanup
    \/ /\ AdmitsCleanup(x) /\ ops'[x].cleanup # "none"
       /\ ops'[x].outcome = ops[x].outcome /\ ops'[x].deferred = ops[x].deferred
       /\ ops'[x].promise = ops[x].promise /\ ops'[x].cancelled = ops[x].cancelled

\* A step of the table moves every operation that way and opens new ones.
Evolves ==
    /\ TableTypes'
    /\ Accepted \subseteq Accepted'
    /\ defect => defect'
    /\ \A x \in Accepted : OpNext(x)
    /\ \A x \in Accepted' \ Accepted : ops'[x] = NewOperation(x)

\* All operations but o stay as they are.
Only(o) ==
    /\ Accepted' = Accepted
    /\ \A x \in Accepted \ {o} : ops'[x] = ops[x]

\* Settling, resolving, killing, retrying, cancelling or cleaning up o moves o only.
LEMMA OneMoves ==
    ASSUME TableTypes, NEW o \in Accepted, NEW op, IsOp(op), ops' = With(o, op),
           defect' \in BOOLEAN, defect => defect'
    PROVE  /\ TableTypes' /\ Only(o) /\ ops'[o] = op
           /\ OpNext(o) => Evolves
<1>1. Accepted' = Accepted /\ ops' = [x \in Accepted |-> IF x = o THEN op ELSE ops[x]]
  BY DEF With, Accepted
<1>2. Only(o) /\ ops'[o] = op
  BY <1>1 DEF Only
<1>3. TableTypes'
  <2>1. \A x \in Accepted' : IsOp(ops'[x])
    BY <1>1, <1>2 DEF TableTypes, Only
  <2>2. ops' = [x \in Accepted' |-> ops'[x]]
    BY <1>1
  <2> QED
    BY <1>1, <2>1, <2>2 DEF TableTypes, IsOp
<1>4. ASSUME OpNext(o) PROVE Evolves
  <2>1. \A x \in Accepted \ {o} : OpNext(x)
    BY <1>2 DEF Only, OpNext, Kept
  <2> QED
    BY <1>1, <1>3, <1>4, <2>1 DEF Evolves
<1> QED
  BY <1>2, <1>3, <1>4

\* A settlement gives its operation its first outcome.
LEMMA SettleMoves ==
    ASSUME TableTypes, NEW o \in Origins, NEW s \in Settlements, Settle(o, s)
    PROVE  /\ Evolves /\ Only(o) /\ Kept(o) /\ defect' = defect
           /\ o \in Accepted /\ ops[o].outcome = "none" /\ ops'[o].outcome = s
<1>1. o \in Accepted /\ AdmitsSettlement(o, s) /\ ops[o].outcome = "none" /\ defect' = defect
  BY DEF Settle, AdmitsSettlement
<1> DEFINE op == [ops[o] EXCEPT !.outcome = s]
<1>2. IsOp(ops[o])
  BY <1>1 DEF TableTypes
<1>3. IsOp(op) /\ op.outcome = s /\ op.deferred = ops[o].deferred
      /\ op.promise = ops[o].promise /\ op.cancelled = ops[o].cancelled
      /\ op.cleanup = ops[o].cleanup
  BY <1>2 DEF IsOp
<1>4. ops' = With(o, op)
  <2>1. Fold(ops[o], EffectSettled(o, s)) = op
    BY <1>2, Zenon DEF Fold, EffectSettled, Record
  <2> QED
    BY <2>1 DEF Settle, Folded
<1> HIDE DEF op
<1>5. Only(o) /\ ops'[o] = op /\ (OpNext(o) => Evolves)
  BY <1>1, <1>3, <1>4, OneMoves DEF TableTypes
<1>6. Kept(o) /\ OpNext(o)
  BY <1>1, <1>3, <1>5 DEF OpNext, Kept
<1> QED
  BY <1>1, <1>3, <1>5, <1>6

\* A promise's result completes the operation that waits for it.
LEMMA ResolveMoves ==
    ASSUME TableTypes, NEW o \in Origins, NEW res \in PromiseResults, Resolve(o, res)
    PROVE  /\ Evolves /\ Only(o) /\ defect' = defect
           /\ AdmitsPromise(o) /\ ops'[o].outcome = ops[o].outcome
           /\ ops'[o].promise # "none" /\ ops'[o].cleanup = ops[o].cleanup
           /\ ops'[o].cancelled = ops[o].cancelled
<1>1. o \in Accepted /\ AdmitsPromise(o) /\ defect' = defect
  BY DEF Resolve, AdmitsPromise
<1> DEFINE op == [ops[o] EXCEPT !.promise = res]
<1>2. IsOp(ops[o])
  BY <1>1 DEF TableTypes
<1>3. IsOp(op) /\ op.outcome = ops[o].outcome /\ op.deferred = ops[o].deferred
      /\ op.promise = res /\ op.cancelled = ops[o].cancelled /\ op.cleanup = ops[o].cleanup
  BY <1>2 DEF IsOp
<1>4. ops' = With(o, op)
  <2>1. Fold(ops[o], PromiseSettled(o, res)) = op
    BY <1>2, Zenon DEF Fold, PromiseSettled, Record
  <2> QED
    BY <2>1 DEF Resolve, Folded
<1> HIDE DEF op
<1>5. Only(o) /\ ops'[o] = op /\ (OpNext(o) => Evolves)
  BY <1>1, <1>3, <1>4, OneMoves DEF TableTypes
<1>6. res # "none"
  BY DEF PromiseResults
<1>7. OpNext(o)
  BY <1>1, <1>3, <1>5, <1>6 DEF OpNext
<1> QED
  BY <1>1, <1>3, <1>5, <1>6, <1>7

\* A defect kills its operation and is recorded for the thread.
LEMMA DieMoves ==
    ASSUME TableTypes, NEW o \in Origins, Die(o)
    PROVE  /\ Evolves /\ Only(o) /\ Kept(o) /\ defect'
           /\ AdmitsDefect(o) /\ ops'[o].outcome = "died"
<1>1. o \in Accepted /\ AdmitsDefect(o) /\ defect'
  BY DEF Die, AdmitsDefect
<1> DEFINE settled == operationSettlement(ops[o])
           op == [ops[o] EXCEPT !.outcome = "died", !.deferred = settled]
<1>2. IsOp(ops[o])
  BY <1>1 DEF TableTypes
<1>3. settled \in Settlements \cup {"none"}
  BY <1>2 DEF IsOp, operationSettlement
<1>4. ops' = With(o, op)
  BY <1>2, Zenon DEF Die, Folded, Fold, EffectDied, Record
<1> HIDE DEF settled
<1>5. IsOp(op) /\ op.outcome = "died"
      /\ op.promise = ops[o].promise /\ op.cancelled = ops[o].cancelled
      /\ op.cleanup = ops[o].cleanup
  BY <1>2, <1>3 DEF IsOp
<1> HIDE DEF op
<1>6. defect' \in BOOLEAN
  BY DEF Die
<1>7. Only(o) /\ ops'[o] = op /\ (OpNext(o) => Evolves)
  BY <1>1, <1>4, <1>5, <1>6, OneMoves
<1>8. Kept(o) /\ OpNext(o)
  BY <1>1, <1>5, <1>7 DEF OpNext, Kept
<1> QED
  BY <1>1, <1>5, <1>7, <1>8

\* A scheduled retry changes no outcome.
LEMMA RetryMoves ==
    ASSUME TableTypes, NEW o \in Origins, NEW phase \in {"execution", "cancellation"},
           Retry(o, phase)
    PROVE  /\ Evolves /\ Only(o) /\ Kept(o) /\ defect' = defect
           /\ o \in Accepted /\ ops'[o].outcome = ops[o].outcome
<1>1. o \in Accepted /\ AdmitsRetry(o, phase) /\ defect' = defect
  BY DEF Retry, AdmitsRetry
<1>2. IsOp(ops[o])
  BY <1>1 DEF TableTypes
<1> DEFINE n == Retries(o, phase) + 1
<1>3. n \in Nat
  BY <1>2 DEF IsOp, Retries
<1> DEFINE op == IF phase = "execution" THEN [ops[o] EXCEPT !.retry = n]
                 ELSE [ops[o] EXCEPT !.cleanupRetry = n]
<1>4. ops' = With(o, op)
  <2>1. CASE phase = "execution"
    <3>1. Fold(ops[o], RetryScheduled(o, "execution", n)) = op
      BY <1>2, <2>1, Zenon DEF Fold, RetryScheduled, Record
    <3> QED
      BY <2>1, <3>1 DEF Retry, Folded
  <2>2. CASE phase = "cancellation"
    <3>1. ops[o].cancelled
      BY <1>1, <2>2 DEF AdmitsRetry, cleanupRunnable
    <3>2. Fold(ops[o], RetryScheduled(o, "cancellation", n)) = op
      BY <1>2, <2>2, <3>1, Zenon DEF Fold, RetryScheduled, Record
    <3> QED
      BY <2>2, <3>2 DEF Retry, Folded
  <2> QED
    BY <2>1, <2>2
<1> HIDE DEF n
<1>5. IsOp(op) /\ op.outcome = ops[o].outcome /\ op.deferred = ops[o].deferred
      /\ op.promise = ops[o].promise /\ op.cancelled = ops[o].cancelled
      /\ op.cleanup = ops[o].cleanup
  BY <1>2, <1>3 DEF IsOp
<1> HIDE DEF op
<1>6. Only(o) /\ ops'[o] = op /\ (OpNext(o) => Evolves)
  BY <1>1, <1>4, <1>5, OneMoves DEF TableTypes
<1>7. Kept(o) /\ OpNext(o)
  BY <1>1, <1>5, <1>6 DEF OpNext, Kept
<1> QED
  BY <1>1, <1>5, <1>6, <1>7

\* A cancellation leaves outcome and cleanup as they are.
LEMMA CancelMoves ==
    ASSUME TableTypes, NEW o \in Origins, Cancel(o)
    PROVE  /\ Evolves /\ Only(o) /\ defect' = defect
           /\ AdmitsCancellation(o) /\ ops'[o].cancelled
           /\ ops'[o].outcome = ops[o].outcome /\ ops'[o].cleanup = ops[o].cleanup
<1>1. o \in Accepted /\ AdmitsCancellation(o) /\ defect' = defect
  BY DEF Cancel, AdmitsCancellation
<1> DEFINE op == [ops[o] EXCEPT !.cancelled = TRUE]
<1>2. IsOp(ops[o])
  BY <1>1 DEF TableTypes
<1>3. IsOp(op) /\ op.outcome = ops[o].outcome /\ op.deferred = ops[o].deferred
      /\ op.promise = ops[o].promise /\ op.cancelled = TRUE /\ op.cleanup = ops[o].cleanup
  BY <1>2 DEF IsOp
<1>4. ops' = With(o, op)
  BY <1>2, Zenon DEF Cancel, Folded, Fold, EffectCancelled, Record
<1> HIDE DEF op
<1>5. Only(o) /\ ops'[o] = op /\ (OpNext(o) => Evolves)
  BY <1>1, <1>3, <1>4, OneMoves DEF TableTypes
<1>6. OpNext(o)
  BY <1>1, <1>3, <1>5 DEF OpNext
<1> QED
  BY <1>1, <1>3, <1>5, <1>6

\* A cleanup outcome is recorded once, for a cleanup that is owed.
LEMMA CleanUpMoves ==
    ASSUME TableTypes, NEW o \in Origins, NEW k \in CleanupOutcomes, CleanUp(o, k)
    PROVE  /\ Evolves /\ Only(o) /\ defect' = defect
           /\ AdmitsCleanup(o) /\ ops'[o].cleanup = k /\ k # "none"
           /\ ops'[o].outcome = ops[o].outcome /\ ops'[o].cancelled = ops[o].cancelled
<1>1. o \in Accepted /\ AdmitsCleanup(o) /\ ops[o].cancelled /\ defect' = defect
  BY DEF CleanUp, AdmitsCleanup, cleanupRunnable
<1> DEFINE op == [ops[o] EXCEPT !.cleanup = k]
<1>2. IsOp(ops[o])
  BY <1>1 DEF TableTypes
<1>3. IsOp(op) /\ op.outcome = ops[o].outcome /\ op.deferred = ops[o].deferred
      /\ op.promise = ops[o].promise /\ op.cancelled = ops[o].cancelled /\ op.cleanup = k
  BY <1>2 DEF IsOp
<1>4. ops' = With(o, op)
  <2>1. Fold(ops[o], CancellationOutcome(o, k)) = op
    BY <1>1, <1>2, Zenon DEF Fold, CancellationOutcome, Record
  <2> QED
    BY <2>1 DEF CleanUp, Folded
<1> HIDE DEF op
<1>5. Only(o) /\ ops'[o] = op /\ (OpNext(o) => Evolves)
  BY <1>1, <1>3, <1>4, OneMoves DEF TableTypes
<1>6. k # "none"
  BY DEF CleanupOutcomes
<1>7. OpNext(o)
  BY <1>1, <1>3, <1>5, <1>6 DEF OpNext
<1> QED
  BY <1>1, <1>3, <1>5, <1>6, <1>7

\* An accepted request opens one operation and moves no other.
LEMMA RequestMoves ==
    ASSUME TableTypes, NEW o \in Origins, Request(o)
    PROVE  /\ Evolves /\ defect' = defect
           /\ o \notin Accepted /\ Accepted' = Accepted \cup {o}
           /\ \A x \in Accepted : ops'[x] = ops[x]
<1>1. o \notin Accepted /\ defect' = defect /\ ops' = With(o, NewOperation(o))
  BY DEF Request, AdmitsRequest
<1>2. /\ Accepted' = Accepted \cup {o}
      /\ ops' = [x \in Accepted \cup {o} |-> IF x = o THEN NewOperation(o) ELSE ops[x]]
  BY <1>1 DEF With, Accepted
<1>3. IsOp(NewOperation(o))
  BY DEF IsOp, NewOperation
<1>4. \A x \in Accepted : ops'[x] = ops[x]
  BY <1>1, <1>2
<1>5. ops'[o] = NewOperation(o)
  BY <1>2
<1>6. \A x \in Accepted' : IsOp(ops'[x])
  BY <1>2, <1>3, <1>4, <1>5 DEF TableTypes
<1>7. ops' = [x \in Accepted' |-> ops'[x]]
  BY <1>2
<1>8. TableTypes'
  BY <1>1, <1>2, <1>6, <1>7 DEF TableTypes, IsOp
<1>9. \A x \in Accepted : OpNext(x)
  BY <1>4 DEF OpNext, Kept
<1> QED
  BY <1>1, <1>2, <1>4, <1>5, <1>8, <1>9 DEF Evolves

\* expireLocalPromises resolves the expired promises and nothing else.
LEMMA ExpireMoves ==
    ASSUME TableTypes, ExpireAll
    PROVE  /\ Evolves /\ Accepted' = Accepted /\ defect' = defect /\ handle' = handle
           /\ \A x \in Accepted \ Expired : ops'[x] = ops[x]
           /\ \A x \in Expired : ops'[x].promise # "none"
           /\ \A x \in Accepted : /\ ops'[x].outcome = ops[x].outcome
                                  /\ ops'[x].cancelled = ops[x].cancelled
                                  /\ ops'[x].cleanup = ops[x].cleanup
           /\ Expired = {} => ops' = ops
<1> DEFINE timed(x) == [ops[x] EXCEPT !.promise = "timedOut"]
<1>1. \A x \in Accepted : Fold(ops[x], PromiseSettled(x, "timedOut")) = timed(x)
  <2> TAKE x \in Accepted
  <2>1. IsOp(ops[x])
    BY DEF TableTypes
  <2> QED
    BY <2>1, Zenon DEF Fold, PromiseSettled, Record
<1>2. ops' = [x \in Accepted |-> IF x \in Expired THEN timed(x) ELSE ops[x]]
  BY <1>1 DEF ExpireAll
<1>3. Accepted' = Accepted /\ defect' = defect /\ handle' = handle
  BY <1>2 DEF Accepted, ExpireAll
<1>4. ASSUME NEW x \in Accepted
      PROVE  /\ IsOp(timed(x)) /\ timed(x).outcome = ops[x].outcome
             /\ timed(x).deferred = ops[x].deferred /\ timed(x).promise = "timedOut"
             /\ timed(x).cancelled = ops[x].cancelled /\ timed(x).cleanup = ops[x].cleanup
  BY DEF TableTypes, IsOp, PromiseResults
<1>5. ASSUME NEW x \in Expired PROVE x \in Accepted /\ AdmitsPromise(x)
  BY DEF Expired, LocalDeferred, Deferred, Running, AdmitsPromise, Frozen
<1> HIDE DEF timed
<1>6. ASSUME NEW x \in Accepted
      PROVE  /\ IsOp(ops'[x]) /\ ops'[x].outcome = ops[x].outcome
             /\ ops'[x].deferred = ops[x].deferred
             /\ ops'[x].cancelled = ops[x].cancelled /\ ops'[x].cleanup = ops[x].cleanup
             /\ ops'[x] = ops[x] \/ (AdmitsPromise(x) /\ ops'[x].promise # "none")
  <2>1. CASE x \in Expired
    BY <1>2, <1>4, <1>5, <2>1
  <2>2. CASE x \notin Expired
    BY <1>2, <2>2 DEF TableTypes
  <2> QED
    BY <2>1, <2>2
<1>7. \A x \in Accepted : OpNext(x)
  BY <1>6 DEF OpNext, Kept
<1>8. ops' = [x \in Accepted' |-> ops'[x]]
  BY <1>2, <1>3
<1>9. TableTypes'
  BY <1>3, <1>6, <1>8 DEF TableTypes
<1>10. Expired = {} => ops' = ops
  BY <1>2 DEF TableTypes
<1>11. \A x \in Expired : ops'[x].promise # "none"
  BY <1>2, <1>4, <1>5
<1>12. \A x \in Accepted \ Expired : ops'[x] = ops[x]
  BY <1>2
<1> QED
  BY <1>3, <1>6, <1>7, <1>9, <1>10, <1>11, <1>12 DEF Evolves

-----------------------------------------------------------------------------
(* What a step may do to the durable state *)

\* The table evolves, and a handle is recorded only with its settlement.
DurableStep ==
    /\ Evolves
    /\ handle' \in [Origins -> Handles]
    /\ proposed' \subseteq Origins
    /\ \A x \in Origins : handle'[x] # handle[x] =>
         x \in Accepted /\ ops[x].outcome = "none" /\ ops'[x].outcome = "promise"

\* An operation only moves forward (operation.ts and the filter of append).
LEMMA Monotone ==
    ASSUME DurableTypes, RecordInv, DurableStep, NEW x \in Accepted
    PROVE  /\ x \in Accepted' /\ IsOp(ops[x]) /\ IsOp(ops'[x])
           /\ Running(x) <=> Live(ops[x])
           /\ Live(ops'[x]) => Live(ops[x])
           /\ ops[x].cancelled => ops'[x].cancelled
           /\ ops[x].outcome # "none" => ops'[x].outcome # "none"
           /\ ops[x].cleanup # "none" => ops'[x].cleanup = ops[x].cleanup
           /\ ops'[x].cleanup # ops[x].cleanup => x \in Cleanup /\ ops'[x].cancelled
           /\ x \in Cleanup' => ops[x].cleanup = "none"
           /\ x \in Cleanup /\ ops'[x].cleanup = ops[x].cleanup => x \in Cleanup'
           /\ ops'[x].outcome # ops[x].outcome /\ ops'[x].outcome # "died" =>
                ops[x].outcome = "none" /\ ops'[x].outcome \in Settlements
           /\ ops'[x].outcome = "died" => ops[x].outcome = "died" \/ defect'
           /\ ops'[x].outcome # "died" =>
                ops[x].outcome # "died" /\ ops'[x].deferred = ops[x].deferred
           /\ x \in Deferred' => x \in Deferred \/ ops[x].outcome = "none"
           /\ handle[x] # "none" => handle'[x] = handle[x]
<1>1. x \in Accepted' /\ OpNext(x) /\ IsOp(ops[x]) /\ IsOp(ops'[x]) /\ x \in Origins
  BY DEF DurableStep, Evolves, DurableTypes, TableTypes
<1>2. defect => defect'
  BY DEF DurableStep, Evolves
<1>3. Running(x) <=> Live(ops[x])
  BY <1>1 DEF Running, Active, Complete, Live
<1>4. Live(ops'[x]) => Live(ops[x])
  <2>1. ops[x].outcome # "died" => ops[x].deferred = "none"
    BY DEF RecordInv
  <2> QED
    BY <1>1, <2>1 DEF Live, IsOp, OpNext, Kept, AdmitsSettlement, AdmitsPromise, AdmitsDefect,
        AdmitsCancellation, AdmitsCleanup, Complete, cleanupRunnable, operationComplete,
        operationSettlement, settlementCompletesExecution, Settlements
<1>5. /\ ops[x].cancelled => ops'[x].cancelled
      /\ ops[x].outcome # "none" => ops'[x].outcome # "none"
      /\ ops[x].cleanup # "none" => ops'[x].cleanup = ops[x].cleanup
      /\ ops'[x].outcome # ops[x].outcome /\ ops'[x].outcome # "died" =>
           ops[x].outcome = "none" /\ ops'[x].outcome \in Settlements
      /\ ops'[x].outcome = "died" => ops[x].outcome = "died" \/ defect'
      /\ ops'[x].outcome # "died" => ops[x].outcome # "died" /\ ops'[x].deferred = ops[x].deferred
  BY <1>1 DEF IsOp, OpNext, Kept, AdmitsSettlement, AdmitsPromise, AdmitsDefect,
              AdmitsCancellation, AdmitsCleanup, cleanupRunnable, Settlements
<1>6. /\ ops'[x].cleanup # ops[x].cleanup => x \in Cleanup /\ ops'[x].cancelled
      /\ x \in Cleanup' => ops[x].cleanup = "none"
      /\ x \in Cleanup /\ ops'[x].cleanup = ops[x].cleanup => x \in Cleanup'
  BY <1>1, <1>5 DEF IsOp, OpNext, Kept, AdmitsSettlement, AdmitsPromise, AdmitsDefect,
              AdmitsCancellation, AdmitsCleanup, cleanupRunnable, Cleanup
<1>7. x \in Deferred' => x \in Deferred \/ ops[x].outcome = "none"
  <2>1. SUFFICES ASSUME x \in Deferred' PROVE x \in Deferred \/ ops[x].outcome = "none"
    OBVIOUS
  <2>2. ~defect' /\ Live(ops'[x]) /\ ops'[x].outcome = "promise" /\ ops'[x].promise = "none"
    BY <2>1 DEF Deferred, Running, Active, Complete, Live
  <2>3. ops[x].promise = "none"
    BY <1>1, <2>2 DEF IsOp, OpNext, Kept, AdmitsPromise, AdmitsCleanup, AdmitsCancellation
  <2> QED
    BY <1>2, <1>3, <1>4, <1>5, <2>2, <2>3 DEF Deferred
<1>8. handle[x] # "none" => handle'[x] = handle[x]
  BY <1>1 DEF DurableStep, RecordInv
<1> QED
  BY <1>1, <1>3, <1>4, <1>5, <1>6, <1>7, <1>8

\* The durable part of the invariant survives every such step.
LEMMA DurableKept ==
    ASSUME DurableTypes, RecordInv, DurableStep
    PROVE  DurableTypes' /\ RecordInv'
<1>1. DurableTypes'
  BY DEF DurableStep, Evolves, DurableTypes, TableTypes
<1>2. ASSUME NEW x \in Accepted'
      PROVE  /\ ops'[x].cleanup # "none" => ops'[x].cancelled
             /\ ops'[x].outcome = "died" => defect'
             /\ ops'[x].outcome # "died" => ops'[x].deferred = "none"
  <2>1. CASE x \in Accepted
    <3>1. /\ ops[x].cleanup # "none" => ops'[x].cleanup = ops[x].cleanup
          /\ ops[x].cancelled => ops'[x].cancelled
          /\ ops'[x].cleanup # ops[x].cleanup => ops'[x].cancelled
          /\ ops'[x].outcome = "died" => ops[x].outcome = "died" \/ defect'
          /\ ops'[x].outcome # "died" =>
               ops[x].outcome # "died" /\ ops'[x].deferred = ops[x].deferred
      BY <2>1, Monotone
    <3>2. defect => defect'
      BY DEF DurableStep, Evolves
    <3> QED
      BY <2>1, <3>1, <3>2 DEF RecordInv
  <2>2. CASE x \notin Accepted
    <3>1. ops'[x] = NewOperation(x)
      BY <2>2 DEF DurableStep, Evolves
    <3> QED
      BY <3>1 DEF NewOperation
  <2> QED
    BY <2>1, <2>2
<1>3. ASSUME NEW x \in Origins, handle'[x] # "none"
      PROVE  x \in Accepted' /\ ops'[x].outcome # "none"
  <2>1. x \in Accepted
    BY <1>3 DEF DurableStep, RecordInv
  <2>2. x \in Accepted' /\ (ops[x].outcome # "none" => ops'[x].outcome # "none")
    BY <2>1, Monotone
  <2> QED
    BY <1>3, <2>1, <2>2 DEF DurableStep, RecordInv
<1> QED
  BY <1>1, <1>2, <1>3 DEF RecordInv

\* A step that leaves the durable state alone.
LEMMA StillDurable ==
    ASSUME DurableTypes, UNCHANGED <<ops, defect, handle>>, proposed' \subseteq Origins
    PROVE  DurableStep
  BY DEF DurableStep, Evolves, DurableTypes, TableTypes, OpNext, Kept, Accepted, IsOp, Handles,
         Settlements, PromiseResults, CleanupOutcomes

-----------------------------------------------------------------------------
(* What follows a record on the volatile side *)

Owned == {"queued", "wait", "act", "waiting"}

\* After cleanCancellations every owed cleanup has its fibre and none is queued.
CleanersFollow ==
    /\ cleaner' \in [Origins -> CleanerStates]
    /\ \A x \in Origins : cleaner'[x] \in Owned <=> x \in Cleanup'
    /\ \A x \in Origins : cleaner'[x] = "done" => x \in Accepted' /\ ops'[x].cleanup # "none"
    /\ \A x \in Origins : cleaner'[x] # "queued"
    /\ \A x \in Origins : cleaner'[x] = "act" => cleaner[x] = "act"

\* cleanCancellations starts what is owed and has no fibre yet.
StartedFrom(x, c) == IF x \in Cleanup' /\ c \in {"none", "queued"} THEN "wait" ELSE c

\* The fibre of one cleanup after cleanCancellations.
LEMMA StartedOne ==
    ASSUME DurableTypes, VolatileTypes, RecordInv, FibreInv, DurableStep, NEW x \in Origins,
           x \in Accepted => ops'[x].cleanup = ops[x].cleanup,
           NEW c, c = StartedFrom(x, cleaner[x])
    PROVE  /\ c \in Owned <=> x \in Cleanup'
           /\ c = "done" => x \in Accepted' /\ ops'[x].cleanup # "none"
           /\ c # "queued"
           /\ c = "act" => cleaner[x] = "act"
<1>1. /\ cleaner[x] \in Owned <=> x \in Cleanup
      /\ cleaner[x] = "done" => x \in Accepted /\ ops[x].cleanup # "none"
  BY DEF FibreInv, Owned
<1>2. cleaner[x] \in CleanerStates
  BY DEF VolatileTypes
<1>3. CASE x \in Accepted
  <2>1. /\ x \in Accepted' /\ ops'[x].cleanup = ops[x].cleanup
        /\ x \in Cleanup' => ops[x].cleanup = "none"
        /\ x \in Cleanup => x \in Cleanup'
    BY <1>3, Monotone
  <2> QED
    BY <1>1, <1>2, <2>1 DEF CleanerStates, Owned, StartedFrom
<1>4. CASE x \notin Accepted
  <2>1. x \notin Cleanup
    BY <1>4 DEF Cleanup
  <2>2. x \in Accepted' => ops'[x] = NewOperation(x)
    BY <1>4 DEF DurableStep, Evolves
  <2>3. x \notin Cleanup'
    BY <2>2 DEF Cleanup, cleanupRunnable, NewOperation
  <2> QED
    BY <1>1, <1>2, <1>4, <2>1, <2>3 DEF CleanerStates, Owned, StartedFrom
<1> QED
  BY <1>3, <1>4

\* cleanCancellations makes the cleanup fibres follow the table.
LEMMA StartedFollow ==
    ASSUME DurableTypes, VolatileTypes, RecordInv, FibreInv, DurableStep,
           cleaner' = Started(cleaner),
           \A x \in Accepted : ops'[x].cleanup = ops[x].cleanup
    PROVE  CleanersFollow
<1>1. \A x \in Origins : cleaner'[x] = StartedFrom(x, cleaner[x])
  BY DEF Started, StartedFrom, Cleanup, Accepted
<1>2. cleaner' \in [Origins -> CleanerStates]
  BY DEF Started, CleanerStates, VolatileTypes
<1>3. ASSUME NEW x \in Origins
      PROVE  /\ cleaner'[x] \in Owned <=> x \in Cleanup'
             /\ cleaner'[x] = "done" => x \in Accepted' /\ ops'[x].cleanup # "none"
             /\ cleaner'[x] # "queued"
             /\ cleaner'[x] = "act" => cleaner[x] = "act"
  BY <1>1, StartedOne
<1> QED
  BY <1>2, <1>3 DEF CleanersFollow

\* A record that was admitted, and what commit does after it.
Commits ==
    /\ DurableStep
    /\ \A x \in Accepted : ops'[x].cleanup = "fulfilled" =>
         ops[x].cleanup = "fulfilled" \/ cleaner[x] = "act"
    /\ CleanersFollow
    /\ scheduled' = TRUE
    /\ localRecovery' \subseteq localRecovery /\ watched' \subseteq watched /\ due' \subseteq due
    /\ \A x \in localRecovery : Live(ops'[x]) => x \in localRecovery'

\* What commit does after its transaction, for a record that ends no cleanup.
LEMMA CommittedCommits ==
    ASSUME DurableTypes, VolatileTypes, RecordInv, FibreInv, DurableStep, Committed(cleaner),
           \A x \in Accepted : ops'[x].cleanup = ops[x].cleanup
    PROVE  Commits
<1>1. /\ cleaner' = Started(cleaner) /\ scheduled' = TRUE
      /\ localRecovery' = localRecovery \ {o \in DOMAIN ops' : operationComplete(ops'[o])}
      /\ watched' \subseteq watched /\ due' \subseteq due
  BY DEF Committed
<1>2. CleanersFollow
  BY <1>1, StartedFollow
<1>3. \A x \in localRecovery : Live(ops'[x]) => x \in localRecovery'
  BY <1>1 DEF Live
<1> QED
  BY <1>1, <1>2, <1>3 DEF Commits

\* appendNow of a settlement: recorded together with its handle, or dropped.
LEMMA SettlementAppended ==
    ASSUME ExecutionInv, NEW o \in Origins, NEW s \in Settlements, NEW h \in Handles,
           AppendSettlement(o, s, h), proposed' = proposed
    PROVE  \/ ~AdmitsSettlement(o, s) /\ Uncommitted
           \/ /\ AdmitsSettlement(o, s) /\ Commits /\ Only(o) /\ Kept(o)
              /\ defect' = defect /\ ops'[o].outcome = s
              /\ handle' = IF s = "promise" THEN [handle EXCEPT ![o] = h] ELSE handle
<1>1. CASE ~AdmitsSettlement(o, s)
  BY <1>1 DEF AppendSettlement
<1>2. CASE AdmitsSettlement(o, s)
  <2>1. /\ Settle(o, s) /\ Committed(cleaner)
        /\ handle' = IF s = "promise" THEN [handle EXCEPT ![o] = h] ELSE handle
    BY <1>2 DEF AppendSettlement
  <2>2. /\ Evolves /\ Only(o) /\ Kept(o) /\ defect' = defect
        /\ o \in Accepted /\ ops[o].outcome = "none" /\ ops'[o].outcome = s
    BY <2>1, SettleMoves DEF ExecutionInv, DurableTypes, TableTypes
  <2>3. DurableStep
    BY <2>1, <2>2 DEF DurableStep, ExecutionInv, DurableTypes
  <2>4. \A x \in Accepted : ops'[x].cleanup = ops[x].cleanup
    BY <2>2 DEF Only, Kept
  <2>5. Commits
    BY <2>1, <2>3, <2>4, CommittedCommits DEF ExecutionInv
  <2> QED
    BY <1>2, <2>1, <2>2, <2>5
<1> QED
  BY <1>1, <1>2

\* appendNow of a promise's result.
LEMMA PromiseAppended ==
    ASSUME ExecutionInv, NEW o \in Origins, NEW res \in PromiseResults,
           AppendPromise(o, res), proposed' = proposed
    PROVE  \/ ~AdmitsPromise(o) /\ Uncommitted
           \/ /\ AdmitsPromise(o) /\ Commits /\ Only(o) /\ defect' = defect /\ handle' = handle
              /\ ops'[o].outcome = ops[o].outcome /\ ops'[o].promise # "none"
              /\ ops'[o].cleanup = ops[o].cleanup
<1>1. CASE ~AdmitsPromise(o)
  BY <1>1 DEF AppendPromise
<1>2. CASE AdmitsPromise(o)
  <2>1. Resolve(o, res) /\ Committed(cleaner) /\ handle' = handle
    BY <1>2 DEF AppendPromise
  <2>2. /\ Evolves /\ Only(o) /\ defect' = defect /\ ops'[o].outcome = ops[o].outcome
        /\ ops'[o].promise # "none" /\ ops'[o].cleanup = ops[o].cleanup
    BY <2>1, ResolveMoves DEF ExecutionInv, DurableTypes, TableTypes
  <2>3. DurableStep
    BY <2>1, <2>2 DEF DurableStep, ExecutionInv, DurableTypes
  <2>4. \A x \in Accepted : ops'[x].cleanup = ops[x].cleanup
    BY <2>2 DEF Only
  <2>5. Commits
    BY <2>1, <2>3, <2>4, CommittedCommits DEF ExecutionInv
  <2> QED
    BY <1>2, <2>1, <2>2, <2>5
<1> QED
  BY <1>1, <1>2

\* recordDeath: the defect is recorded, or comes after the operation's end.
LEMMA DeathAppended ==
    ASSUME ExecutionInv, NEW o \in Origins, RecordDeath(o), proposed' = proposed
    PROVE  \/ ~AdmitsDefect(o) /\ Uncommitted
           \/ /\ AdmitsDefect(o) /\ Commits /\ Only(o) /\ defect' /\ handle' = handle
              /\ ops'[o].outcome = "died" /\ ops'[o].cleanup = ops[o].cleanup
<1>1. CASE ~AdmitsDefect(o)
  BY <1>1 DEF RecordDeath
<1>2. CASE AdmitsDefect(o)
  <2>1. Die(o) /\ Committed(cleaner) /\ handle' = handle
    BY <1>2 DEF RecordDeath
  <2>2. Evolves /\ Only(o) /\ Kept(o) /\ defect' /\ ops'[o].outcome = "died"
    BY <2>1, DieMoves DEF ExecutionInv, DurableTypes, TableTypes
  <2>3. DurableStep
    BY <2>1, <2>2 DEF DurableStep, ExecutionInv, DurableTypes
  <2>4. \A x \in Accepted : ops'[x].cleanup = ops[x].cleanup
    BY <2>2 DEF Only, Kept
  <2>5. Commits
    BY <2>1, <2>3, <2>4, CommittedCommits DEF ExecutionInv
  <2> QED
    BY <1>2, <2>1, <2>2, <2>5 DEF Kept
<1> QED
  BY <1>1, <1>2

\* A recorded retry changes no outcome and no handle.
LEMMA RetryAppended ==
    ASSUME ExecutionInv, NEW o \in Origins, AppendRetry(o, "execution", cleaner),
           proposed' = proposed
    PROVE  /\ Commits /\ Accepted' = Accepted /\ defect' = defect /\ handle' = handle
           /\ \A x \in Accepted : ops'[x].outcome = ops[x].outcome
<1>1. Retry(o, "execution") /\ Committed(cleaner) /\ handle' = handle
  BY DEF AppendRetry
<1>2. /\ Evolves /\ Only(o) /\ Kept(o) /\ defect' = defect
      /\ ops'[o].outcome = ops[o].outcome
  BY <1>1, RetryMoves DEF ExecutionInv, DurableTypes, TableTypes
<1>3. DurableStep
  BY <1>1, <1>2 DEF DurableStep, ExecutionInv, DurableTypes
<1>4. \A x \in Accepted : ops'[x].cleanup = ops[x].cleanup
  BY <1>2 DEF Only, Kept
<1>5. Commits
  BY <1>1, <1>3, <1>4, CommittedCommits DEF ExecutionInv
<1> QED
  BY <1>1, <1>2, <1>5 DEF Only

-----------------------------------------------------------------------------
(* Steps beside the drain: producers, callers, deadlines *)

\* A step that leaves the drain's work alone, settles nothing and starts no producer keeps
\* the invariant, if a producer it ends is accounted for: its promise has a result, its
\* operation ended, or the loss is noted.
LEMMA AsideKept ==
    ASSUME ExecutionInv, Uncommitted \/ Commits,
           proposed' = proposed, UNCHANGED <<fibre, drivable, jobs, withdrawn>>,
           drain' = drain \/ drain' = Stop(drain),
           Accepted' = Accepted, handle' = handle,
           \A x \in Accepted : ops'[x].outcome \in {ops[x].outcome, "died"},
           errors' \in {"none", "terminal", "fault"},
           lost \subseteq lost',
           producer' \in [Origins -> ProducerStates],
           \A x \in Origins : producer'[x] # producer[x] =>
             /\ producer[x] # "none"
             /\ \/ producer'[x] # "none" \/ x \in lost' \/ defect'
                \/ ~(x \in Accepted /\ Live(ops'[x]))
    PROVE  ExecutionInv'
<1>1. DurableStep
  <2>1. CASE Uncommitted
    BY <2>1, StillDurable DEF Uncommitted, ExecutionInv, DurableTypes
  <2>2. CASE Commits
    BY <2>2 DEF Commits
  <2> QED
    BY <2>1, <2>2
<1>2. DurableTypes' /\ RecordInv'
  BY <1>1, DurableKept DEF ExecutionInv
<1>3. /\ DOMAIN drain' = DOMAIN drain /\ drain'.pc = drain.pc /\ drain'.ref = drain.ref
      /\ drain'.recovering = drain.recovering
      /\ drain'.stop \in BOOLEAN
      /\ drain'.stop => drain.stop \/ (~defect /\ defect' /\ drain.pc = "running")
  BY DEF Stop, ExecutionInv, VolatileTypes
<1>4. Completing' = Completing
  BY <1>3 DEF Completing
<1>5. VolatileTypes'
  <2>1. /\ scheduled' \in BOOLEAN /\ cleaner' \in [Origins -> CleanerStates]
        /\ localRecovery' \subseteq Accepted /\ watched' \subseteq Accepted
        /\ due' \subseteq Accepted
    BY DEF Uncommitted, Commits, CleanersFollow, ExecutionInv, VolatileTypes
  <2> QED
    BY <1>3, <2>1 DEF ExecutionInv, VolatileTypes
<1>6. \A x \in Accepted :
        /\ Running(x) <=> Live(ops[x])
        /\ Live(ops'[x]) => Live(ops[x])
        /\ x \in Deferred' => x \in Deferred
  <2> TAKE x \in Accepted
  <2>1. /\ Running(x) <=> Live(ops[x])
        /\ Live(ops'[x]) => Live(ops[x])
        /\ x \in Deferred' => x \in Deferred \/ ops[x].outcome = "none"
    BY <1>1, Monotone DEF ExecutionInv
  <2>2. x \in Deferred' => ops'[x].outcome = "promise"
    BY DEF Deferred
  <2> QED
    BY <2>1, <2>2
<1>7. \A x \in Accepted : Running(x)' <=> Live(ops'[x])
  BY DEF Running, Active, Complete, Live
<1>8. defect => defect'
  BY <1>1 DEF DurableStep, Evolves
<1>9. FibreInv'
  <2>1. \A x \in Origins : producer[x] = "none" => producer'[x] = "none"
    OBVIOUS
  <2>2. CASE Uncommitted
    <3>1. Cleanup' = Cleanup /\ Accepted' = Accepted
      BY <2>2 DEF Uncommitted, Cleanup, Accepted
    <3> QED
      BY <1>3, <1>4, <2>1, <2>2, <3>1 DEF Uncommitted, ExecutionInv, FibreInv
  <2>3. CASE Commits
    BY <1>4, <2>1, <2>3 DEF Commits, CleanersFollow, Owned, ExecutionInv, FibreInv
  <2> QED
    BY <2>2, <2>3
<1>10. defect' # defect => scheduled'
  BY DEF Uncommitted, Commits
<1>11. scheduled => scheduled'
  BY DEF Uncommitted, Commits
<1>12. drain.pc \in Busy => drain.ref \in Accepted /\ drain.ref \in Origins
  BY DEF ExecutionInv, VolatileTypes, DurableTypes
<1>13. WorkInv'
  <2>1. drain.pc \in Busy => ops'[drain.ref].cleanup # "fulfilled"
    <3>1. drain.pc \in Busy => cleaner[drain.ref] # "act" /\ ops[drain.ref].cleanup # "fulfilled"
      BY <1>12 DEF ExecutionInv, FibreInv, WorkInv, Completing, Busy
    <3> QED
      BY <1>12, <3>1 DEF Uncommitted, Commits
  <2>2. fibre # "none" => drain.pc = "running"
    BY DEF ExecutionInv, VolatileTypes
  <2>3. fibre = "interrupted" => ~Running(drain.ref)' \/ (defect' /\ scheduled')
    BY <1>3, <1>6, <1>7, <1>8, <1>11, <1>12, <2>2 DEF ExecutionInv, WorkInv, Busy
  <2>4. fibre \in {"forked", "local"} =>
          \/ producer'[drain.ref] # "none" \/ drain.ref \in lost'
          \/ ~Running(drain.ref)' \/ defect'
    BY <1>3, <1>6, <1>7, <1>8, <1>12, <2>2 DEF ExecutionInv, WorkInv, Busy
  <2>5. drain.pc \in Busy => ops'[drain.ref].outcome \in {ops[drain.ref].outcome, "died"}
    BY <1>12
  <2>6. drain'.stop => drain'.pc = "running" /\ defect' /\ scheduled'
    BY <1>3, <1>8, <1>10, <1>11 DEF ExecutionInv, WorkInv
  <2> QED
    BY <1>3, <2>1, <2>3, <2>4, <2>5, <2>6 DEF ExecutionInv, WorkInv
<1>14. JobInv'
  <2>1. \A x \in Origins : cleaner'[x] = "act" => cleaner[x] = "act"
    BY DEF Uncommitted, Commits, CleanersFollow
  <2>2. \A x \in Accepted : ops'[x].cleanup = "fulfilled" =>
          ops[x].cleanup = "fulfilled" \/ cleaner[x] = "act"
    BY DEF Uncommitted, Commits
  <2>3. \A x \in jobs : x \in Origins
    BY DEF ExecutionInv, JobInv, DurableTypes
  <2> QED
    BY <1>3, <1>8, <2>1, <2>2, <2>3 DEF ExecutionInv, JobInv
<1>15. WakeInv'
  <2>1. CASE Commits
    BY <2>1 DEF Commits, WakeInv
  <2>2. CASE Uncommitted
    <3>1. Executable' = Executable /\ Deferred' = Deferred /\ Recoverable' = Recoverable
      BY <2>2 DEF Uncommitted, Executable, Pending, Frozen, Deferred, Recoverable, Running,
                  Active, Complete, Accepted
    <3> QED
      BY <1>3, <2>2, <3>1 DEF Uncommitted, ExecutionInv, WakeInv
  <2> QED
    BY <2>1, <2>2
<1>16. OrphanInv'
  <2>1. SUFFICES ASSUME NEW x \in LocalDeferred'
                 PROVE  producer'[x] # "none" \/ x \in (localRecovery \cup Completing \cup lost)'
    BY DEF OrphanInv
  <2>2. x \in Accepted /\ x \in Deferred' /\ handle[x] = "local" /\ ~defect' /\ Live(ops'[x])
        /\ x \in Origins
    BY <1>2, <1>7 DEF LocalDeferred, Deferred, DurableTypes
  <2>3. x \in LocalDeferred
    BY <1>6, <2>2 DEF LocalDeferred
  <2>4. x \in localRecovery => x \in localRecovery'
    BY <2>2 DEF Uncommitted, Commits
  <2> QED
    BY <1>4, <2>2, <2>3, <2>4 DEF ExecutionInv, OrphanInv
<1> QED
  BY <1>2, <1>5, <1>9, <1>13, <1>14, <1>15, <1>16 DEF ExecutionInv

\* One producer changes state; what it leaves is accounted for.
LEMMA ProducerKept ==
    ASSUME ExecutionInv, Uncommitted \/ Commits,
           NEW o \in Origins, NEW from, NEW to \in ProducerStates, from # "none",
           ProducerStep(o, from, to),
           drain' = drain \/ drain' = Stop(drain),
           Accepted' = Accepted, handle' = handle,
           \A x \in Accepted : ops'[x].outcome \in {ops[x].outcome, "died"},
           errors' \in {"none", "terminal", "fault"},
           lost \subseteq lost',
           \/ to # "none" \/ o \in lost' \/ defect'
           \/ ~(o \in Accepted /\ Live(ops'[o]))
    PROVE  ExecutionInv'
<1>1. /\ producer[o] = from /\ producer' = [producer EXCEPT ![o] = to]
      /\ proposed' = proposed /\ UNCHANGED <<fibre, drivable, jobs, withdrawn>>
  BY DEF ProducerStep, host
<1>2. producer \in [Origins -> ProducerStates]
  BY DEF ExecutionInv, VolatileTypes
<1>3. producer' \in [Origins -> ProducerStates]
  BY <1>1, <1>2
<1>4. \A x \in Origins : producer'[x] # producer[x] => x = o /\ producer'[o] = to
  BY <1>1, <1>2
<1> QED
  BY <1>1, <1>3, <1>4, AsideKept

\* The promise of an operation that is not done takes its result once it is deferred.
LEMMA ResultEnds ==
    ASSUME DurableTypes, RecordInv, NEW o \in Accepted, ~AdmitsPromise(o), ~defect,
           ops[o].outcome # "none"
    PROVE  ~Live(ops[o])
<1>1. IsOp(ops[o]) /\ (ops[o].outcome = "died" => defect)
  BY DEF DurableTypes, RecordInv
<1> QED
  BY <1>1 DEF AdmitsPromise, Frozen, Live, operationComplete, operationSettlement,
              settlementCompletesExecution, IsOp, Settlements, PromiseResults

\* The producer that appends its promise's result has ended the promise.
LEMMA PromiseProducer ==
    ASSUME ExecutionInv, NEW o \in Origins, AppendPromise(o, "result"), proposed' = proposed,
           \/ defect \/ ~Running(o) \/ (o \in Accepted => ops[o].outcome # "none")
    PROVE  /\ Uncommitted \/ Commits
           /\ Accepted' = Accepted /\ handle' = handle
           /\ \A x \in Accepted : ops'[x].outcome \in {ops[x].outcome, "died"}
           /\ defect' \/ ~(o \in Accepted /\ Live(ops'[o]))
<1>0. "result" \in PromiseResults
  BY DEF PromiseResults
<1>1. CASE ~AdmitsPromise(o) /\ Uncommitted
  <2>1. UNCHANGED <<ops, defect, handle>> /\ Accepted' = Accepted
    BY <1>1 DEF Uncommitted, Accepted
  <2>2. o \in Accepted => (Running(o) <=> Live(ops[o]))
    BY DEF Running, Active, Complete, Live
  <2>3. defect \/ ~(o \in Accepted /\ Live(ops[o]))
    BY <1>1, <2>2, ResultEnds DEF ExecutionInv
  <2> QED
    BY <1>1, <2>1, <2>3
<1>2. CASE /\ AdmitsPromise(o) /\ Commits /\ Only(o) /\ defect' = defect /\ handle' = handle
           /\ ops'[o].outcome = ops[o].outcome /\ ops'[o].promise # "none"
  <2>1. ~Live(ops'[o])
    BY <1>2 DEF Live, operationComplete
  <2> QED
    BY <1>2, <2>1 DEF Only
<1> QED
  BY <1>0, <1>1, <1>2, PromiseAppended

\* Whatever a forked producer does keeps the invariant.
LEMMA ProducersKeep ==
    ASSUME ExecutionInv, NEW o \in Origins, ProducerSteps(o)
    PROVE  ExecutionInv'
<1>0. errors \in {"none", "terminal", "fault"} /\ "fault" \in {"none", "terminal", "fault"}
  BY DEF ExecutionInv, VolatileTypes
<1>1. {"none", "run", "waiting", "deliver"} = ProducerStates
  BY DEF ProducerStates
<1>2. ASSUME Uncommitted PROVE /\ Accepted' = Accepted /\ handle' = handle
                               /\ defect' = defect /\ ops' = ops
  BY <1>2 DEF Uncommitted, Accepted
<1>3. ASSUME NEW from, NEW to, ProducerStep(o, from, to) PROVE proposed' = proposed
  BY <1>3 DEF ProducerStep
<1>4. o \in Accepted => (Running(o) <=> Live(ops[o]))
  BY DEF Running, Active, Complete, Live
<1>5. CASE ProducerReturns(o)
  <2>1. ProducerStep(o, "run", "deliver") /\ Uncommitted /\ UNCHANGED <<drain, errors, lost>>
    BY <1>5 DEF ProducerReturns
  <2> QED
    BY <1>0, <1>1, <1>2, <2>1, ProducerKept
<1>6. CASE ProducerFails(o)
  <2>1. /\ ProducerStep(o, "run", "none") /\ Uncommitted /\ drain' = drain
        /\ errors' = "fault" /\ lost' = lost \cup {o}
    BY <1>6 DEF ProducerFails
  <2> QED
    BY <1>0, <1>1, <1>2, <2>1, ProducerKept
<1>7. CASE ProducerTimesOut(o)
  <2>1. /\ ProducerStep(o, "run", "none") /\ AppendPromise(o, "result")
        /\ ops[o].outcome # "none" \/ ~Running(o)
        /\ UNCHANGED <<drain, errors, lost>>
    BY <1>7 DEF ProducerTimesOut
  <2>2. /\ Uncommitted \/ Commits
        /\ Accepted' = Accepted /\ handle' = handle
        /\ \A x \in Accepted : ops'[x].outcome \in {ops[x].outcome, "died"}
        /\ defect' \/ ~(o \in Accepted /\ Live(ops'[o]))
    BY <1>3, <2>1, PromiseProducer
  <2> QED
    BY <1>0, <1>1, <2>1, <2>2, ProducerKept
<1>8. CASE ProducerDies(o)
  <2>1. /\ ProducerStep(o, "run", "none") /\ RecordDeath(o) /\ drain' = Stop(drain)
        /\ UNCHANGED <<errors, lost>>
    BY <1>8 DEF ProducerDies
  <2>2. CASE ~AdmitsDefect(o) /\ Uncommitted
    <3>1. defect \/ ~(o \in Accepted /\ Live(ops[o]))
      BY <2>2 DEF AdmitsDefect, Live, Complete
    <3> QED
      BY <1>0, <1>1, <1>2, <2>1, <2>2, <3>1, ProducerKept
  <2>3. CASE /\ AdmitsDefect(o) /\ Commits /\ Only(o) /\ defect' /\ handle' = handle
             /\ ops'[o].outcome = "died"
    <3>1. /\ Accepted' = Accepted
          /\ \A x \in Accepted : ops'[x].outcome \in {ops[x].outcome, "died"}
      BY <2>3 DEF Only
    <3> QED
      BY <1>0, <1>1, <2>1, <2>3, <3>1, ProducerKept
  <2> QED
    BY <1>3, <2>1, <2>2, <2>3, DeathAppended
<1>9. CASE ProducerRetry(o)
  <2>1. /\ ProducerStep(o, "run", "waiting") /\ AppendRetry(o, "execution", cleaner)
        /\ UNCHANGED <<drain, errors, lost>>
    BY <1>9 DEF ProducerRetry
  <2>2. /\ Commits /\ Accepted' = Accepted /\ handle' = handle
        /\ \A x \in Accepted : ops'[x].outcome = ops[x].outcome
    BY <1>3, <2>1, RetryAppended
  <2> QED
    BY <1>0, <1>1, <2>1, <2>2, ProducerKept
<1>10. CASE ProducerWake(o)
  <2>1. ProducerStep(o, "waiting", "run") /\ Uncommitted /\ UNCHANGED <<drain, errors, lost>>
    BY <1>10 DEF ProducerWake
  <2> QED
    BY <1>0, <1>1, <1>2, <2>1, ProducerKept
<1>11. CASE ProducerDelivers(o)
  <2>1. /\ ProducerStep(o, "deliver", "none") /\ AppendPromise(o, "result")
        /\ defect \/ ~Running(o) \/ ops[o].outcome # "none"
        /\ errors' = IF defect THEN "fault" ELSE errors
        /\ UNCHANGED <<drain, lost>>
    BY <1>11 DEF ProducerDelivers
  <2>2. /\ Uncommitted \/ Commits
        /\ Accepted' = Accepted /\ handle' = handle
        /\ \A x \in Accepted : ops'[x].outcome \in {ops[x].outcome, "died"}
        /\ defect' \/ ~(o \in Accepted /\ Live(ops'[o]))
    BY <1>3, <2>1, PromiseProducer
  <2>3. errors' \in {"none", "terminal", "fault"}
    BY <1>0, <2>1
  <2> QED
    BY <1>1, <2>1, <2>2, <2>3, ProducerKept
<1>12. CASE ProducerQuits(o)
  <2>1. PICK from \in {"run", "waiting", "deliver"} : ProducerStep(o, from, "none")
    BY <1>12 DEF ProducerQuits
  <2>2. Uncommitted /\ lost' = lost \cup {o} /\ UNCHANGED <<drain, errors>>
    BY <1>12 DEF ProducerQuits
  <2> QED
    BY <1>0, <1>1, <1>2, <2>1, <2>2, ProducerKept
<1>13. CASE ProducerInterrupted(o)
  <2>1. PICK from \in {"run", "waiting", "deliver"} : ProducerStep(o, from, "none")
    BY <1>13 DEF ProducerInterrupted
  <2>2. /\ Uncommitted /\ UNCHANGED <<drain, errors, lost>>
        /\ defect \/ Cancelled(o) \/ ops[o].promise # "none"
    BY <1>13 DEF ProducerInterrupted
  <2>3. defect \/ ~(o \in Accepted /\ Live(ops[o]))
    BY <2>2 DEF Cancelled, Live, operationComplete
  <2> QED
    BY <1>0, <1>1, <1>2, <2>1, <2>2, <2>3, ProducerKept
<1> QED
  BY <1>5, <1>6, <1>7, <1>8, <1>9, <1>10, <1>11, <1>12, <1>13 DEF ProducerSteps

\* Cancelling, answering and resuming leave producers alone.
LEMMA CallerKept ==
    ASSUME ExecutionInv, Uncommitted \/ Commits, Accepted' = Accepted, handle' = handle,
           \A x \in Accepted : ops'[x].outcome = ops[x].outcome,
           UNCHANGED <<proposed, drain, fibre, producer, errors, drivable, jobs, withdrawn, lost>>
    PROVE  ExecutionInv'
<1>1. errors \in {"none", "terminal", "fault"} /\ producer \in [Origins -> ProducerStates]
  BY DEF ExecutionInv, VolatileTypes
<1> QED
  BY <1>1, AsideKept

\* A caller cancels an effect.
LEMMA CancelKept ==
    ASSUME ExecutionInv, NEW o \in Origins, CancelEffect(o)
    PROVE  ExecutionInv'
<1>1. /\ Cancel(o) /\ Committed(cleaner) /\ handle' = handle
      /\ UNCHANGED <<proposed, drain, fibre, producer, errors, drivable, jobs, withdrawn, lost>>
  BY DEF CancelEffect, host, history
<1>2. /\ Evolves /\ Only(o) /\ ops'[o].outcome = ops[o].outcome
      /\ ops'[o].cleanup = ops[o].cleanup
  BY <1>1, CancelMoves DEF ExecutionInv, DurableTypes, TableTypes
<1>3. /\ Accepted' = Accepted
      /\ \A x \in Accepted : ops'[x].outcome = ops[x].outcome /\ ops'[x].cleanup = ops[x].cleanup
  BY <1>2 DEF Only
<1>4. DurableStep
  BY <1>1, <1>2 DEF DurableStep, ExecutionInv, DurableTypes
<1>5. Commits
  BY <1>1, <1>3, <1>4, CommittedCommits DEF ExecutionInv
<1> QED
  BY <1>1, <1>3, <1>5, CallerKept

\* A timer or the promise resolver answers.
LEMMA AnswerKept ==
    ASSUME ExecutionInv, NEW o \in Origins, Answer(o)
    PROVE  ExecutionInv'
<1>1. PICK res \in PromiseResults : AppendPromise(o, res)
  <2>1. "timedOut" \in PromiseResults
    BY DEF PromiseResults
  <2> QED
    BY <2>1 DEF Answer
<1>2. UNCHANGED <<proposed, drain, fibre, producer, errors, drivable, jobs, withdrawn, lost>>
  BY DEF Answer, host, history
<1>3. CASE Uncommitted
  BY <1>2, <1>3, CallerKept DEF Uncommitted, Accepted
<1>4. CASE Commits /\ Only(o) /\ handle' = handle /\ ops'[o].outcome = ops[o].outcome
  <2>1. Accepted' = Accepted /\ \A x \in Accepted : ops'[x].outcome = ops[x].outcome
    BY <1>4 DEF Only
  <2> QED
    BY <1>2, <1>4, <2>1, CallerKept
<1> QED
  BY <1>1, <1>2, <1>3, <1>4, PromiseAppended

\* resume expires what is due and schedules the drain.
LEMMA ResumeKept ==
    ASSUME ExecutionInv, Resume
    PROVE  ExecutionInv'
<1>1. /\ ExpireAll /\ Committed(cleaner)
      /\ UNCHANGED <<proposed, drain, fibre, producer, errors, drivable, jobs, withdrawn, lost>>
  BY DEF Resume, host, history
<1>2. /\ Evolves /\ Accepted' = Accepted /\ handle' = handle
      /\ \A x \in Accepted : ops'[x].outcome = ops[x].outcome /\ ops'[x].cleanup = ops[x].cleanup
  BY <1>1, ExpireMoves DEF ExecutionInv, DurableTypes, TableTypes
<1>3. DurableStep
  BY <1>1, <1>2 DEF DurableStep, ExecutionInv, DurableTypes
<1>4. Commits
  BY <1>1, <1>2, <1>3, CommittedCommits DEF ExecutionInv
<1> QED
  BY <1>1, <1>2, <1>4, CallerKept

\* What depends on the durable state only, when that state stays.
LEMMA Still ==
    ASSUME UNCHANGED <<ops, defect, handle>>
    PROVE  /\ Accepted' = Accepted /\ Cleanup' = Cleanup /\ Deferred' = Deferred
           /\ LocalDeferred' = LocalDeferred
           /\ proposed' = proposed => Executable' = Executable
           /\ localRecovery' = localRecovery => Recoverable' = Recoverable
           /\ drain' = drain => (Running(drain.ref)' <=> Running(drain.ref))
<1>1. /\ Accepted' = Accepted /\ Cleanup' = Cleanup /\ Deferred' = Deferred
      /\ LocalDeferred' = LocalDeferred
  BY DEF Accepted, Cleanup, Deferred, LocalDeferred, Running, Active, Complete
<1>2. proposed' = proposed => Executable' = Executable
  BY <1>1 DEF Executable, Pending, Frozen
<1>3. localRecovery' = localRecovery => Recoverable' = Recoverable
  BY <1>1 DEF Recoverable, Running, Active, Complete
<1>4. drain' = drain => (Running(drain.ref)' <=> Running(drain.ref))
  BY <1>1 DEF Running, Active, Complete
<1> QED
  BY <1>1, <1>2, <1>3, <1>4

\* A proposal, a deadline and the watchdog's block change neither the table nor any fibre.
LEMMA SignalKept ==
    ASSUME ExecutionInv,
           UNCHANGED <<ops, defect, handle, drain, fibre, producer, cleaner, localRecovery,
                       watched, errors, jobs, withdrawn, lost>>,
           proposed' \subseteq Origins, due' \subseteq Accepted,
           scheduled' \in BOOLEAN, drivable' \in BOOLEAN, scheduled => scheduled',
           proposed' # proposed \/ (drivable' /\ ~drivable) => scheduled'
    PROVE  ExecutionInv'
<1>1. DurableTypes' /\ RecordInv'
  BY StillDurable, DurableKept DEF ExecutionInv
<1>2. /\ Accepted' = Accepted /\ Cleanup' = Cleanup /\ Deferred' = Deferred
      /\ LocalDeferred' = LocalDeferred
      /\ proposed' = proposed => Executable' = Executable
      /\ Recoverable' = Recoverable
      /\ Running(drain.ref)' <=> Running(drain.ref)
  BY Still
<1>3. Completing' = Completing
  BY DEF Completing
<1>4. VolatileTypes'
  BY <1>2 DEF ExecutionInv, VolatileTypes
<1>5. drivable \in BOOLEAN /\ scheduled \in BOOLEAN
  BY DEF ExecutionInv, VolatileTypes
<1>6. FibreInv'
  BY <1>2, <1>3, <1>5 DEF ExecutionInv, FibreInv
<1>7. WorkInv'
  BY <1>2 DEF ExecutionInv, WorkInv
<1>8. JobInv'
  BY <1>2 DEF ExecutionInv, JobInv
<1>9. WakeInv'
  BY <1>2, <1>5 DEF ExecutionInv, WakeInv
<1>10. OrphanInv'
  BY <1>2, <1>3 DEF ExecutionInv, OrphanInv
<1> QED
  BY <1>1, <1>4, <1>6, <1>7, <1>8, <1>9, <1>10 DEF ExecutionInv

\* A domain event makes the actor propose an invocation.
LEMMA ProposeKept ==
    ASSUME ExecutionInv, NEW o \in Origins, Propose(o)
    PROVE  ExecutionInv'
<1>1. proposed' \subseteq Origins /\ due' \subseteq Accepted /\ scheduled' = TRUE
      /\ drivable' \in BOOLEAN /\ ~(drivable' /\ ~drivable)
  BY DEF Propose, host, ExecutionInv, DurableTypes, VolatileTypes
<1> QED
  BY <1>1, SignalKept DEF Propose, fibres, host, history

\* A recorded deadline passes; nobody has seen it yet.
LEMMA DeadlineKept ==
    ASSUME ExecutionInv, NEW o \in Origins, DeadlinePasses(o)
    PROVE  ExecutionInv'
<1>1. /\ proposed' = proposed /\ proposed \subseteq Origins /\ due' \subseteq Accepted
      /\ scheduled' = scheduled /\ drivable' = drivable
      /\ scheduled \in BOOLEAN /\ drivable \in BOOLEAN
  BY DEF DeadlinePasses, Deferred, durable, host, ExecutionInv, DurableTypes, VolatileTypes
<1> QED
  BY <1>1, SignalKept DEF DeadlinePasses, durable, fibres, host, history

\* The watchdog blocks the thread or admits it again.
LEMMA DrivableKept ==
    ASSUME ExecutionInv, NEW b \in BOOLEAN, SetDrivable(b)
    PROVE  ExecutionInv'
<1>1. /\ proposed' = proposed /\ proposed \subseteq Origins /\ due' \subseteq Accepted
      /\ scheduled' \in BOOLEAN /\ drivable' \in BOOLEAN
      /\ (scheduled => scheduled') /\ (drivable' => scheduled')
  BY DEF SetDrivable, durable, ExecutionInv, DurableTypes, VolatileTypes
<1> QED
  BY <1>1, SignalKept DEF SetDrivable, durable, fibres, history

-----------------------------------------------------------------------------
(* The execution fibre *)

FibreStates == {"none", "run", "forked", "waiting", "submitting", "submitted", "value",
                "rejected", "local", "external", "died", "interrupted"}

\* While the drain waits for its fibre, whatever the fibre does concerns its own operation,
\* which the completion boundary covers.
LEMMA FibreSide ==
    ASSUME ExecutionInv, Uncommitted \/ Commits,
           drain.pc = "running", drain' = drain, fibre' \in FibreStates \ {"none"},
           UNCHANGED <<proposed, errors, drivable, withdrawn, lost>>,
           Accepted' = Accepted,
           \A x \in Accepted \ {drain.ref} : ops'[x].outcome = ops[x].outcome,
           \A x \in Origins \ {drain.ref} : handle'[x] = handle[x],
           producer' \in [Origins -> ProducerStates],
           \A x \in Origins \ {drain.ref} : producer'[x] = producer[x]
    PROVE  /\ DurableTypes' /\ VolatileTypes' /\ RecordInv' /\ FibreInv' /\ WakeInv' /\ OrphanInv'
<1>1. DurableStep
  <2>1. CASE Uncommitted
    BY <2>1, StillDurable DEF Uncommitted, ExecutionInv, DurableTypes
  <2>2. CASE Commits
    BY <2>2 DEF Commits
  <2> QED
    BY <2>1, <2>2
<1>2. DurableTypes' /\ RecordInv'
  BY <1>1, DurableKept DEF ExecutionInv
<1>3. Completing = {drain.ref} /\ Completing' = {drain.ref}
  BY DEF Completing
<1>4. VolatileTypes'
  <2>1. /\ scheduled' \in BOOLEAN /\ cleaner' \in [Origins -> CleanerStates]
        /\ localRecovery' \subseteq Accepted /\ watched' \subseteq Accepted
        /\ due' \subseteq Accepted
    BY DEF Uncommitted, Commits, CleanersFollow, ExecutionInv, VolatileTypes
  <2> QED
    BY <2>1 DEF ExecutionInv, VolatileTypes, FibreStates
<1>5. FibreInv'
  <2>1. CASE Uncommitted
    <3>1. Cleanup' = Cleanup
      BY <2>1, Still DEF Uncommitted
    <3> QED
      BY <1>3, <2>1, <3>1 DEF Uncommitted, ExecutionInv, FibreInv
  <2>2. CASE Commits
    BY <1>3, <2>2 DEF Commits, CleanersFollow, Owned, ExecutionInv, FibreInv
  <2> QED
    BY <2>1, <2>2
<1>6. WakeInv'
  BY DEF WakeInv
<1>7. OrphanInv'
  <2>1. SUFFICES ASSUME NEW x \in LocalDeferred', x # drain.ref
                 PROVE  producer'[x] # "none" \/ x \in (localRecovery \cup Completing \cup lost)'
    BY <1>3 DEF OrphanInv
  <2>2. /\ x \in Accepted /\ x \in Origins /\ x \in Deferred' /\ handle[x] = "local"
        /\ Live(ops'[x]) /\ ops'[x].outcome = "promise"
    BY <1>2, <2>1 DEF LocalDeferred, Deferred, DurableTypes, Running, Active, Complete, Live
  <2>3. x \in LocalDeferred
    <3>1. x \in Deferred \/ ops[x].outcome = "none"
      BY <1>1, <2>2, Monotone DEF ExecutionInv
    <3> QED
      BY <2>1, <2>2, <3>1 DEF LocalDeferred
  <2>4. x \in localRecovery => x \in localRecovery'
    BY <2>2 DEF Uncommitted, Commits
  <2> QED
    BY <1>3, <2>1, <2>2, <2>3, <2>4 DEF ExecutionInv, OrphanInv
<1> QED
  BY <1>2, <1>4, <1>5, <1>6, <1>7

\* The fibre goes on and the table stays.
LEMMA FibreGoes ==
    ASSUME ExecutionInv, Uncommitted, NEW from \in FibreStates, NEW to \in FibreStates \ {"none"},
           FibreStep(from, to), UNCHANGED <<proposed, errors, drivable, withdrawn, lost>>,
           producer' \in [Origins -> ProducerStates],
           \A x \in Origins \ {drain.ref} : producer'[x] = producer[x],
           producer'[drain.ref] = "none" => producer[drain.ref] = "none",
           \/ jobs' = jobs
           \/ jobs' = jobs \cup {drain.ref} /\ to = "submitting" /\ drain.ref \notin ReplyOrigins
           \/ jobs' = jobs \ {drain.ref},
           to \in {"run", "forked", "waiting", "submitting"} =>
             from \in {"none", "run", "forked", "waiting", "submitting"},
           to \in {"submitting", "submitted", "external"} =>
             from \in {"submitting", "submitted", "external"} \/ ~drain.recovering,
           to = "forked" => producer'[drain.ref] # "none",
           to = "local" => from \in {"forked", "local"},
           to = "interrupted" => drain.stop \/ ~Running(drain.ref),
           from = "submitting" =>
             to = "submitting" \/ (jobs' = jobs \ {drain.ref} /\ to \in {"value", "rejected", "interrupted"}),
           from \in {"submitted", "external", "interrupted"} =>
             to \in {"submitted", "external", "interrupted"}
    PROVE  ExecutionInv'
<1>1. drain.pc = "running" /\ fibre = from /\ fibre' = to /\ drain' = drain
  BY DEF FibreStep
<1>2. UNCHANGED <<ops, defect, handle, scheduled, cleaner, localRecovery, watched, due>>
  BY DEF Uncommitted
<1>3. Accepted' = Accepted /\ (Running(drain.ref)' <=> Running(drain.ref))
  BY <1>1, <1>2, Still
<1>4. DurableTypes' /\ VolatileTypes' /\ RecordInv' /\ FibreInv' /\ WakeInv' /\ OrphanInv'
  BY <1>1, <1>2, <1>3, FibreSide
<1>5. drain.ref \in Accepted /\ drain.ref \in Origins /\ drain.pc \in Busy
  BY <1>1 DEF ExecutionInv, VolatileTypes, DurableTypes, Busy
<1>6. WorkInv'
  BY <1>1, <1>2, <1>3, <1>5 DEF ExecutionInv, WorkInv
<1>7. JobInv'
  <2>1. cleaner[drain.ref] # "act"
    BY <1>1, <1>5 DEF ExecutionInv, FibreInv, Completing
  <2>2. ops[drain.ref].cleanup # "fulfilled"
    BY <1>5 DEF ExecutionInv, WorkInv
  <2> QED
    BY <1>1, <1>2, <1>3, <1>5, <2>1, <2>2 DEF ExecutionInv, JobInv
<1> QED
  BY <1>4, <1>6, <1>7 DEF ExecutionInv

\* Whatever the execution fibre does keeps the invariant.
LEMMA FibresKeep ==
    ASSUME ExecutionInv, FibreSteps
    PROVE  ExecutionInv'
<1>1. producer \in [Origins -> ProducerStates]
  BY DEF ExecutionInv, VolatileTypes
<1>2. drain.pc = "running" => drain.ref \in Accepted /\ drain.ref \in Origins /\ drain.pc \in Busy
  BY DEF ExecutionInv, VolatileTypes, DurableTypes, Busy
<1>3. CASE Return
  <2>1. /\ Uncommitted
        /\ UNCHANGED <<producer, proposed, errors, drivable, jobs, withdrawn, lost>>
    BY <1>3 DEF Return, DrainOnly, host, history
  <2>2. CASE \E res \in {"value", "rejected", "died"} : FibreStep("run", res)
    BY <1>1, <2>1, <2>2, FibreGoes DEF FibreStates
  <2>3. CASE \E res \in {"local", "value", "rejected", "died"} : FibreStep("forked", res)
    BY <1>1, <2>1, <2>3, FibreGoes DEF FibreStates
  <2>4. CASE FibreStep("submitted", "external")
    BY <1>1, <2>1, <2>4, FibreGoes DEF FibreStates
  <2> QED
    BY <1>3, <2>2, <2>3, <2>4 DEF Return
<1>4. CASE Fork
  <2>1. /\ FibreStep("run", IF producer[drain.ref] = "none" THEN "forked" ELSE "rejected")
        /\ producer' = [producer EXCEPT ![drain.ref] = IF @ = "none" THEN "run" ELSE @]
        /\ Uncommitted /\ UNCHANGED <<proposed, errors, drivable, jobs, withdrawn, lost>>
    BY <1>4 DEF Fork, DrainOnly, host, history
  <2>2. drain.ref \in Origins
    BY <1>2, <2>1 DEF FibreStep
  <2>3. /\ producer' \in [Origins -> ProducerStates] /\ producer'[drain.ref] # "none"
        /\ \A x \in Origins \ {drain.ref} : producer'[x] = producer[x]
    BY <1>1, <2>1, <2>2 DEF ProducerStates
  <2>4. CASE producer[drain.ref] = "none"
    BY <2>1, <2>3, <2>4, FibreGoes DEF FibreStates
  <2>5. CASE producer[drain.ref] # "none"
    BY <2>1, <2>3, <2>5, FibreGoes DEF FibreStates
  <2> QED
    BY <2>4, <2>5
<1>5. CASE Submit
  <2>1. /\ FibreStep("run", "submitting") /\ Uncommitted /\ ~drain.recovering
        /\ drain.ref \notin ReplyOrigins /\ jobs' = jobs \cup {drain.ref}
        /\ UNCHANGED <<producer, proposed, errors, drivable, withdrawn, lost>>
    BY <1>5 DEF Submit, host
  <2> QED
    BY <1>1, <2>1, FibreGoes DEF FibreStates
<1>51. CASE SubmitFails
  <2>1. /\ Uncommitted /\ jobs' = jobs \ {drain.ref}
        /\ UNCHANGED <<producer, proposed, errors, drivable, withdrawn, lost>>
    BY <1>51 DEF SubmitFails, host
  <2>2. CASE \E res \in {"value", "rejected"} : FibreStep("submitting", res)
    BY <1>1, <2>1, <2>2, FibreGoes DEF FibreStates
  <2>3. CASE (drain.stop \/ ~Running(drain.ref)) /\ FibreStep("submitting", "interrupted")
    BY <1>1, <2>1, <2>3, FibreGoes DEF FibreStates
  <2> QED
    BY <1>51, <2>2, <2>3 DEF SubmitFails
<1>6. CASE SubmitRecord
  <2>1. /\ FibreStep("submitting", "submitted")
        /\ AppendSettlement(drain.ref, "promise", "external")
        /\ UNCHANGED <<producer, proposed, errors, drivable, jobs, withdrawn, lost>>
    BY <1>6 DEF SubmitRecord, DrainOnly, host, history
  <2>2. /\ drain.pc = "running" /\ fibre = "submitting" /\ fibre' = "submitted" /\ drain' = drain
        /\ drain.ref \in Accepted /\ drain.ref \in Origins /\ drain.pc \in Busy
        /\ fibre' \in FibreStates \ {"none"}
    BY <1>2, <2>1 DEF FibreStep, FibreStates
  <2>3. /\ ~drain.recovering /\ handle[drain.ref] # "local"
        /\ ops[drain.ref].outcome \in {"none", "died"} /\ ops[drain.ref].cleanup # "fulfilled"
    BY <2>2 DEF ExecutionInv, WorkInv
  <2>4. ~drain.stop \/ (defect /\ scheduled)
    BY DEF ExecutionInv, WorkInv
  <2>5. "promise" \in Settlements /\ "external" \in Handles
    BY DEF Settlements, Handles
  <2>6. CASE ~AdmitsSettlement(drain.ref, "promise") /\ Uncommitted
    <3>1. UNCHANGED <<ops, defect, handle, scheduled, cleaner, localRecovery, watched, due>>
      BY <2>6 DEF Uncommitted
    <3>2. Accepted' = Accepted
      BY <3>1, Still
    <3>3. DurableTypes' /\ VolatileTypes' /\ RecordInv' /\ FibreInv' /\ WakeInv' /\ OrphanInv'
      BY <1>1, <2>1, <2>2, <2>6, <3>1, <3>2, FibreSide
    <3>4. defect
      BY <2>2, <2>3, <2>6
         DEF AdmitsSettlement, cleanupOwed, cleanupSucceeded, Frozen, ExecutionInv, RecordInv
    <3>5. WorkInv'
      BY <2>2, <2>3, <2>4, <3>1 DEF ExecutionInv, WorkInv
    <3>6. handle[drain.ref] \in {"none", "external"}
      BY <2>2, <2>3 DEF ExecutionInv, DurableTypes, Handles
    <3>7. JobInv'
      BY <2>1, <2>2, <3>1, <3>2, <3>4, <3>6 DEF ExecutionInv, JobInv
    <3> QED
      BY <3>3, <3>5, <3>7 DEF ExecutionInv
  <2>7. CASE /\ AdmitsSettlement(drain.ref, "promise") /\ Commits /\ Only(drain.ref)
             /\ Kept(drain.ref) /\ defect' = defect
             /\ handle' = [handle EXCEPT ![drain.ref] = "external"]
    <3>1. /\ Accepted' = Accepted
          /\ \A x \in Accepted \ {drain.ref} : ops'[x].outcome = ops[x].outcome
          /\ \A x \in Accepted : ops'[x].cleanup = "fulfilled" =>
               ops[x].cleanup = "fulfilled" \/ cleaner[x] = "act"
          /\ scheduled' = TRUE
          /\ \A x \in Origins : cleaner'[x] = "act" => cleaner[x] = "act"
      BY <2>7 DEF Only, Commits, CleanersFollow
    <3>2. /\ \A x \in Origins \ {drain.ref} : handle'[x] = handle[x]
          /\ handle'[drain.ref] = "external"
      BY <2>2, <2>7 DEF ExecutionInv, DurableTypes
    <3>3. DurableTypes' /\ VolatileTypes' /\ RecordInv' /\ FibreInv' /\ WakeInv' /\ OrphanInv'
      BY <1>1, <2>1, <2>2, <2>7, <3>1, <3>2, FibreSide
    <3>4. cleaner[drain.ref] # "act"
      BY <2>2 DEF ExecutionInv, FibreInv, Completing
    <3>5. WorkInv'
      BY <2>2, <2>3, <2>4, <2>7, <3>1, <3>2, <3>4 DEF WorkInv
    <3>6. \A x \in jobs : x \in Origins /\ x \in Accepted
      BY DEF ExecutionInv, JobInv, DurableTypes
    <3>7. JobInv'
      BY <2>1, <2>2, <2>3, <2>7, <3>1, <3>2, <3>4, <3>6 DEF ExecutionInv, JobInv
    <3> QED
      BY <3>3, <3>5, <3>7 DEF ExecutionInv
  <2> QED
    BY <2>1, <2>2, <2>5, <2>6, <2>7, SettlementAppended
<1>7. CASE FibreRetry
  <2>1. /\ FibreStep("run", "waiting") /\ AppendRetry(drain.ref, "execution", cleaner)
        /\ UNCHANGED <<producer, proposed, errors, drivable, jobs, withdrawn, lost>>
    BY <1>7 DEF FibreRetry, DrainOnly, host, history
  <2>2. /\ drain.pc = "running" /\ fibre = "run" /\ fibre' = "waiting" /\ drain' = drain
        /\ drain.ref \in Accepted /\ drain.ref \in Origins /\ drain.pc \in Busy
        /\ fibre' \in FibreStates \ {"none"}
    BY <1>2, <2>1 DEF FibreStep, FibreStates
  <2>3. /\ Commits /\ Accepted' = Accepted /\ defect' = defect /\ handle' = handle
        /\ \A x \in Accepted : ops'[x].outcome = ops[x].outcome
    BY <2>1, <2>2, RetryAppended
  <2>4. /\ \A x \in Accepted : ops'[x].cleanup = "fulfilled" =>
             ops[x].cleanup = "fulfilled" \/ cleaner[x] = "act"
        /\ cleaner[drain.ref] # "act"
        /\ scheduled' = TRUE
        /\ \A x \in Origins : cleaner'[x] = "act" => cleaner[x] = "act"
    BY <2>2, <2>3 DEF Commits, CleanersFollow, ExecutionInv, FibreInv, Completing
  <2>5. DurableTypes' /\ VolatileTypes' /\ RecordInv' /\ FibreInv' /\ WakeInv' /\ OrphanInv'
    BY <1>1, <2>1, <2>2, <2>3, FibreSide
  <2>6. WorkInv'
    BY <2>2, <2>3, <2>4 DEF ExecutionInv, WorkInv
  <2>7. \A x \in jobs : x \in Origins /\ x \in Accepted
    BY DEF ExecutionInv, JobInv, DurableTypes
  <2>8. JobInv'
    BY <2>1, <2>2, <2>3, <2>4, <2>7 DEF ExecutionInv, JobInv
  <2> QED
    BY <2>5, <2>6, <2>8 DEF ExecutionInv
<1>8. CASE FibreWake
  <2>1. /\ FibreStep("waiting", "run") /\ Uncommitted
        /\ UNCHANGED <<producer, proposed, errors, drivable, jobs, withdrawn, lost>>
    BY <1>8 DEF FibreWake, DrainOnly, host, history
  <2> QED
    BY <1>1, <2>1, FibreGoes DEF FibreStates
<1>9. CASE FibreInterrupted
  <2>1. PICK from \in {"run", "forked", "waiting", "submitted"} : FibreStep(from, "interrupted")
    BY <1>9 DEF FibreInterrupted
  <2>2. /\ Uncommitted /\ (drain.stop \/ ~Running(drain.ref))
        /\ UNCHANGED <<producer, proposed, errors, drivable, jobs, withdrawn, lost>>
    BY <1>9 DEF FibreInterrupted, DrainOnly, host, history
  <2> QED
    BY <1>1, <2>1, <2>2, FibreGoes DEF FibreStates
<1> QED
  BY <1>3, <1>4, <1>5, <1>51, <1>6, <1>7, <1>8, <1>9 DEF FibreSteps

-----------------------------------------------------------------------------
(* Cleanup fibres and restarts *)

\* A cleanup fibre records its retry or its outcome and goes on to c.
LEMMA CleanerRecords ==
    ASSUME ExecutionInv, NEW o \in Origins, NEW c \in {"waiting", "done"},
           Evolves, Only(o), handle' = handle, o \in Accepted,
           ops'[o].outcome = ops[o].outcome,
           ops'[o].cleanup = "fulfilled" => ops[o].cleanup = "fulfilled" \/ cleaner[o] = "act",
           c = "waiting" => o \in Cleanup',
           c = "done" => o \notin Cleanup' /\ ops'[o].cleanup # "none",
           Committed([cleaner EXCEPT ![o] = c]),
           errors' \in {"none", "terminal", "fault"},
           UNCHANGED <<proposed, drain, fibre, producer, drivable, jobs, withdrawn, lost>>
    PROVE  ExecutionInv'
<1>1. /\ cleaner' = Started([cleaner EXCEPT ![o] = c]) /\ scheduled' = TRUE
      /\ localRecovery' = localRecovery \ {x \in DOMAIN ops' : operationComplete(ops'[x])}
      /\ watched' \subseteq watched /\ due' \subseteq due
  BY DEF Committed
<1>2. cleaner \in [Origins -> CleanerStates] /\ producer \in [Origins -> ProducerStates]
  BY DEF ExecutionInv, VolatileTypes
<1>3. DurableStep
  BY DEF DurableStep, ExecutionInv, DurableTypes
<1>4. /\ \A x \in Origins \ {o} : cleaner'[x] = StartedFrom(x, cleaner[x])
      /\ cleaner'[o] = c
      /\ cleaner' \in [Origins -> CleanerStates]
  BY <1>1, <1>2 DEF Started, StartedFrom, Cleanup, Accepted, CleanerStates
<1>5. ASSUME NEW x \in Origins \ {o}
      PROVE  /\ cleaner'[x] \in Owned <=> x \in Cleanup'
             /\ cleaner'[x] = "done" => x \in Accepted' /\ ops'[x].cleanup # "none"
             /\ cleaner'[x] # "queued"
             /\ cleaner'[x] = "act" => cleaner[x] = "act"
  <2>1. x \in Accepted => ops'[x].cleanup = ops[x].cleanup
    BY DEF Only
  <2> QED
    BY <1>3, <1>4, <2>1, StartedOne DEF ExecutionInv
<1>6. CleanersFollow
  BY <1>4, <1>5 DEF CleanersFollow, Owned, Only
<1>7. Commits
  <2>1. \A x \in localRecovery : Live(ops'[x]) => x \in localRecovery'
    BY <1>1 DEF Live
  <2>2. \A x \in Accepted : ops'[x].cleanup = "fulfilled" =>
          ops[x].cleanup = "fulfilled" \/ cleaner[x] = "act"
    BY DEF Only
  <2> QED
    BY <1>1, <1>3, <1>6, <2>1, <2>2 DEF Commits
<1>8. /\ Accepted' = Accepted
      /\ \A x \in Accepted : ops'[x].outcome \in {ops[x].outcome, "died"}
  BY DEF Only
<1> QED
  BY <1>2, <1>7, <1>8, AsideKept

\* Whatever a cleanup fibre does keeps the invariant.
LEMMA CleanersKeep ==
    ASSUME ExecutionInv, NEW o \in Origins, CleanerSteps(o)
    PROVE  ExecutionInv'
<1>0. cleaner \in [Origins -> CleanerStates] /\ scheduled \in BOOLEAN
  BY DEF ExecutionInv, VolatileTypes
<1>1. CASE CleanerReads(o)
  <2>1. /\ cleaner[o] = "wait" /\ o \notin Completing /\ producer[o] = "none"
        /\ cleaner' = [cleaner EXCEPT ![o] = "act"]
        /\ withdrawn' = IF handle[o] = "external" THEN withdrawn \cup {o} ELSE withdrawn
        /\ UNCHANGED <<ops, defect, handle, proposed, due, drain, fibre, scheduled, producer,
                       localRecovery, watched, errors, drivable, jobs, lost>>
    BY <1>1 DEF CleanerReads, CleanerStep, host
  <2>2. DurableTypes' /\ RecordInv'
    BY <2>1, StillDurable, DurableKept DEF ExecutionInv, DurableTypes
  <2>3. /\ Accepted' = Accepted /\ Cleanup' = Cleanup /\ Deferred' = Deferred
        /\ LocalDeferred' = LocalDeferred /\ Executable' = Executable
        /\ Recoverable' = Recoverable /\ (Running(drain.ref)' <=> Running(drain.ref))
    BY <2>1, Still
  <2>4. Completing' = Completing
    BY <2>1 DEF Completing
  <2>5. /\ cleaner'[o] = "act" /\ cleaner' \in [Origins -> CleanerStates]
        /\ \A x \in Origins \ {o} : cleaner'[x] = cleaner[x]
    BY <1>0, <2>1 DEF CleanerStates
  <2>6. VolatileTypes'
    BY <2>1, <2>3, <2>5 DEF ExecutionInv, VolatileTypes
  <2>7. FibreInv'
    BY <2>1, <2>3, <2>4, <2>5 DEF ExecutionInv, FibreInv
  <2>8. WorkInv'
    BY <2>1, <2>3 DEF ExecutionInv, WorkInv
  <2>9. JobInv'
    <3>1. \A x \in jobs : x \in Origins
      BY DEF ExecutionInv, JobInv, DurableTypes
    <3>2. drain.pc \in Busy => drain.ref # o
      BY <2>1 DEF Completing, Busy
    <3>3. fibre = "submitting" => drain.pc \in Busy
      BY DEF ExecutionInv, VolatileTypes, Busy
    <3>4. o \in jobs => o \in withdrawn' \/ (defect /\ handle[o] = "none")
      BY <2>1, <3>2, <3>3 DEF ExecutionInv, JobInv
    <3> QED
      BY <2>1, <2>3, <2>5, <3>1, <3>4 DEF ExecutionInv, JobInv
  <2>10. WakeInv'
    BY <2>1, <2>3 DEF ExecutionInv, WakeInv
  <2>11. OrphanInv'
    BY <2>1, <2>3, <2>4 DEF ExecutionInv, OrphanInv
  <2> QED
    BY <2>2, <2>6, <2>7, <2>8, <2>9, <2>10, <2>11 DEF ExecutionInv
<1>2. CASE CleanerWake(o)
  <2>1. /\ cleaner[o] = "waiting" /\ cleaner' = [cleaner EXCEPT ![o] = "wait"]
        /\ UNCHANGED <<ops, defect, handle, proposed, due, drain, fibre, scheduled, producer,
                       localRecovery, watched, errors, drivable, jobs, withdrawn, lost>>
    BY <1>2 DEF CleanerWake, CleanerStep, host
  <2>2. DurableTypes' /\ RecordInv'
    BY <2>1, StillDurable, DurableKept DEF ExecutionInv, DurableTypes
  <2>3. /\ Accepted' = Accepted /\ Cleanup' = Cleanup /\ Deferred' = Deferred
        /\ LocalDeferred' = LocalDeferred /\ Executable' = Executable
        /\ Recoverable' = Recoverable /\ (Running(drain.ref)' <=> Running(drain.ref))
    BY <2>1, Still
  <2>4. Completing' = Completing
    BY <2>1 DEF Completing
  <2>5. /\ cleaner'[o] = "wait" /\ cleaner' \in [Origins -> CleanerStates]
        /\ \A x \in Origins \ {o} : cleaner'[x] = cleaner[x]
    BY <1>0, <2>1 DEF CleanerStates
  <2>6. VolatileTypes'
    BY <2>1, <2>3, <2>5 DEF ExecutionInv, VolatileTypes
  <2>7. FibreInv'
    BY <2>1, <2>3, <2>4, <2>5 DEF ExecutionInv, FibreInv
  <2>8. WorkInv'
    BY <2>1, <2>3 DEF ExecutionInv, WorkInv
  <2>9. JobInv'
    <3>1. \A x \in jobs : x \in Origins
      BY DEF ExecutionInv, JobInv, DurableTypes
    <3> QED
      BY <2>1, <2>3, <2>5, <3>1 DEF ExecutionInv, JobInv
  <2>10. WakeInv'
    BY <2>1, <2>3 DEF ExecutionInv, WakeInv
  <2>11. OrphanInv'
    BY <2>1, <2>3, <2>4 DEF ExecutionInv, OrphanInv
  <2> QED
    BY <2>2, <2>6, <2>7, <2>8, <2>9, <2>10, <2>11 DEF ExecutionInv
<1>3. CASE CleanerRetry(o)
  <2>1. /\ Retry(o, "cancellation") /\ Committed([cleaner EXCEPT ![o] = "waiting"])
        /\ handle' = handle
        /\ UNCHANGED <<proposed, drain, fibre, producer, errors, drivable, jobs, withdrawn, lost>>
    BY <1>3 DEF CleanerRetry, CleanerStep, AppendRetry, host
  <2>2. /\ Evolves /\ Only(o) /\ Kept(o) /\ o \in Accepted /\ ops'[o].outcome = ops[o].outcome
    BY <2>1, RetryMoves DEF ExecutionInv, DurableTypes, TableTypes
  <2>3. ops'[o].cleanup = ops[o].cleanup /\ o \in Cleanup'
    BY <2>1, <2>2 DEF Kept, Only, Retry, AdmitsRetry, Cleanup, cleanupRunnable
  <2>4. errors' \in {"none", "terminal", "fault"}
    BY <2>1 DEF ExecutionInv, VolatileTypes
  <2> QED
    BY <2>1, <2>2, <2>3, <2>4, CleanerRecords
<1>4. CASE CleanerEnds(o)
  <2>1. PICK k \in CleanupOutcomes :
          /\ k = "fulfilled" => cleaner[o] = "act"
          /\ CleanUp(o, k)
          /\ errors' = IF k = "fulfilled" \/ errors = "fault" THEN errors ELSE "terminal"
    BY <1>4 DEF CleanerEnds
  <2>2. /\ Committed([cleaner EXCEPT ![o] = "done"]) /\ handle' = handle
        /\ UNCHANGED <<proposed, drain, fibre, producer, drivable, jobs, withdrawn, lost>>
    BY <1>4 DEF CleanerEnds, CleanerStep, host
  <2>3. /\ Evolves /\ Only(o) /\ AdmitsCleanup(o) /\ ops'[o].cleanup = k /\ k # "none"
        /\ ops'[o].outcome = ops[o].outcome
    BY <2>1, CleanUpMoves DEF ExecutionInv, DurableTypes, TableTypes
  <2>4. o \in Accepted /\ o \notin Cleanup'
    BY <2>3 DEF AdmitsCleanup, Cleanup, cleanupRunnable
  <2>5. errors' \in {"none", "terminal", "fault"}
    BY <2>1 DEF ExecutionInv, VolatileTypes
  <2> QED
    BY <2>1, <2>2, <2>3, <2>4, <2>5, CleanerRecords
<1> QED
  BY <1>1, <1>2, <1>3, <1>4 DEF CleanerSteps

\* Startup rebuilds the volatile state from the durable one.
LEMMA RestartKept ==
    ASSUME ExecutionInv, Restart
    PROVE  ExecutionInv'
<1>1. /\ drain' = Idle /\ fibre' = "none" /\ scheduled' = TRUE
      /\ producer' = [o \in Origins |-> "none"]
      /\ cleaner' = [o \in Origins |-> IF o \in Cleanup THEN "queued" ELSE "none"]
      /\ localRecovery' = LocalDeferred /\ watched' = {}
      /\ jobs' = {o \in jobs : handle[o] = "external"} /\ lost' = {}
      /\ UNCHANGED <<ops, defect, handle, proposed, due, drivable, withdrawn>>
  BY DEF Restart, durable
<1>2. DurableTypes' /\ RecordInv'
  BY <1>1, StillDurable, DurableKept DEF ExecutionInv, DurableTypes
<1>3. Accepted' = Accepted /\ Cleanup' = Cleanup /\ LocalDeferred' = LocalDeferred
  BY <1>1, Still
<1>4. /\ DOMAIN drain' = {"pc", "ref", "recovering", "stop"} /\ drain'.pc = "idle"
      /\ drain'.ref = NoRef /\ drain'.recovering = FALSE /\ drain'.stop = FALSE
  BY <1>1 DEF Idle
<1>5. \A x \in Origins : cleaner'[x] = IF x \in Cleanup THEN "queued" ELSE "none"
  BY <1>1
<1>6. VolatileTypes'
  <2>1. errors' \in {"none", "terminal", "fault"}
    BY DEF Restart
  <2>2. localRecovery' \subseteq Accepted
    BY <1>1 DEF LocalDeferred, Deferred
  <2> QED
    BY <1>1, <1>3, <1>4, <2>1, <2>2
       DEF ExecutionInv, VolatileTypes, Busy, ProducerStates, CleanerStates
<1>7. FibreInv'
  BY <1>1, <1>3, <1>4, <1>5 DEF FibreInv, Completing
<1>8. WorkInv'
  BY <1>1, <1>4 DEF WorkInv, Busy
<1>9. JobInv'
  <2>1. \A x \in jobs : x \in Origins
    BY DEF ExecutionInv, JobInv, DurableTypes
  <2> QED
    BY <1>1, <1>3, <1>5, <2>1 DEF ExecutionInv, JobInv
<1>10. WakeInv'
  BY <1>1, <1>4 DEF WakeInv
<1>11. OrphanInv'
  BY <1>1, <1>3 DEF OrphanInv
<1> QED
  BY <1>2, <1>6, <1>7, <1>8, <1>9, <1>10, <1>11 DEF ExecutionInv

-----------------------------------------------------------------------------
(* The drain loop *)

\* The drain holds no work and is at step pc.
RestsAt(pc, d) ==
    /\ DOMAIN d = {"pc", "ref", "recovering", "stop"}
    /\ d.pc = pc /\ d.ref = NoRef /\ d.recovering = FALSE /\ d.stop = FALSE

\* The steps of a drain without work.
LEMMA AtRests ==
    /\ \A pc : RestsAt(pc, At(pc))
    /\ RestsAt("idle", Idle)
  BY DEF RestsAt, At, Idle

\* The drain lets go of its work, or has none: what does not depend on its next step.
LEMMA DrainRests ==
    ASSUME ExecutionInv, DurableStep, Accepted' = Accepted,
           NEW pc \in {"idle", "top", "select"}, RestsAt(pc, drain'),
           fibre # "submitting", fibre' = "none",
           UNCHANGED <<producer, errors, drivable, jobs, withdrawn, lost>>,
           \A x \in Accepted : ops'[x].cleanup = ops[x].cleanup,
           scheduled' \in BOOLEAN, cleaner' \in [Origins -> CleanerStates],
           \A x \in Origins : cleaner'[x] = "act" => cleaner[x] = "act",
           localRecovery' \subseteq localRecovery, watched' \subseteq Accepted,
           due' \subseteq Accepted,
           \A x \in localRecovery : Live(ops'[x]) /\ ~defect' => x \in localRecovery',
           \A x \in Accepted \ {drain.ref} : /\ ops'[x].outcome = ops[x].outcome
                                             /\ handle'[x] = handle[x],
           drain.ref \in jobs => handle'[drain.ref] \in {handle[drain.ref], "external"},
           drain.ref \in LocalDeferred' => producer[drain.ref] # "none" \/ drain.ref \in lost
    PROVE  DurableTypes' /\ VolatileTypes' /\ RecordInv' /\ WorkInv' /\ JobInv' /\ OrphanInv'
<1>1. DurableTypes' /\ RecordInv'
  BY DurableKept DEF ExecutionInv
<1>2. /\ DOMAIN drain' = {"pc", "ref", "recovering", "stop"} /\ drain'.pc = pc
      /\ drain'.ref = NoRef /\ drain'.recovering = FALSE /\ drain'.stop = FALSE
  BY DEF RestsAt
<1>3. VolatileTypes'
  BY <1>2 DEF ExecutionInv, VolatileTypes, Busy
<1>4. WorkInv'
  BY <1>2 DEF WorkInv, Busy
<1>5. JobInv'
  <2>1. \A x \in jobs : x \in Origins /\ x \in Accepted
    BY DEF ExecutionInv, JobInv, DurableTypes
  <2>2. defect => defect'
    BY DEF DurableStep, Evolves
  <2>3. NoRef \notin Origins
    BY ExecutionAssumption
  <2>4. \A x \in jobs : handle'[x] \in {handle[x], "external"}
    BY <2>1
  <2>5. jobs' = jobs /\ withdrawn' = withdrawn
    OBVIOUS
  <2>6. ASSUME NEW x \in jobs
        PROVE  /\ x \in Accepted' /\ x \notin ReplyOrigins /\ drain'.ref # x
               /\ handle'[x] = "external" \/ (defect' /\ handle'[x] = "none")
               /\ cleaner'[x] = "act" => x \in withdrawn \/ (defect' /\ handle'[x] = "none")
               /\ ops'[x].cleanup = "fulfilled" =>
                    x \in withdrawn \/ (defect' /\ handle'[x] = "none")
    <3>1. /\ x \in Accepted /\ x \notin ReplyOrigins
          /\ handle[x] = "external" \/ (defect /\ handle[x] = "none")
          /\ cleaner[x] = "act" => x \in withdrawn \/ (defect /\ handle[x] = "none")
          /\ ops[x].cleanup = "fulfilled" => x \in withdrawn \/ (defect /\ handle[x] = "none")
      BY DEF ExecutionInv, JobInv
    <3>2. x = drain.ref => cleaner[x] # "act" /\ ops[x].cleanup # "fulfilled"
      <4>1. x = drain.ref => drain.pc \in Busy
        BY <2>1, <2>3 DEF ExecutionInv, VolatileTypes
      <4> QED
        BY <2>1, <4>1 DEF ExecutionInv, FibreInv, WorkInv, Completing, Busy
    <3> QED
      BY <1>2, <2>1, <2>2, <2>3, <2>4, <3>1, <3>2
  <2> QED
    BY <2>5, <2>6 DEF JobInv
<1>6. OrphanInv'
  <2>1. SUFFICES ASSUME NEW x \in LocalDeferred', x # drain.ref
                 PROVE  producer'[x] # "none" \/ x \in (localRecovery \cup Completing \cup lost)'
    BY DEF OrphanInv
  <2>2. /\ x \in Accepted /\ x \in Deferred' /\ handle[x] = "local" /\ ~defect'
        /\ Live(ops'[x]) /\ ops'[x].outcome = "promise"
    BY <2>1 DEF LocalDeferred, Deferred, Running, Active, Complete, Live
  <2>3. x \in LocalDeferred
    <3>1. x \in Deferred \/ ops[x].outcome = "none"
      BY <2>2, Monotone DEF ExecutionInv
    <3> QED
      BY <2>1, <2>2, <3>1 DEF LocalDeferred
  <2>4. x \in localRecovery => x \in localRecovery'
    BY <2>2
  <2>5. x \notin Completing
    BY <2>1 DEF Completing
  <2> QED
    BY <2>3, <2>4, <2>5 DEF ExecutionInv, OrphanInv
<1> QED
  BY <1>1, <1>3, <1>4, <1>5, <1>6

\* The drain claims operation o, which is neither cancelled nor frozen.
LEMMA ClaimKept ==
    ASSUME ExecutionInv, DurableStep, drain.pc = "select", NEW o \in Accepted',
           DOMAIN drain' = {"pc", "ref", "recovering", "stop"}, drain'.pc = "claimed",
           drain'.ref = o, drain'.recovering \in BOOLEAN, drain'.stop = FALSE,
           UNCHANGED <<defect, handle, fibre, producer, errors, drivable, jobs, withdrawn, lost>>,
           \A x \in Accepted : ops'[x] = ops[x],
           \A x \in Accepted' \ Accepted : ops'[x].outcome = "none",
           CleanersFollow, scheduled' \in BOOLEAN,
           localRecovery' \subseteq localRecovery, watched' \subseteq watched,
           due' \subseteq due,
           \A x \in localRecovery \ {o} : Live(ops'[x]) /\ ~defect => x \in localRecovery',
           ops'[o].cancelled = FALSE,
           ~drain'.recovering => ops'[o].outcome = "none",
           o \in ReplyOrigins \/ ~defect
    PROVE  ExecutionInv'
<1>1. DurableTypes' /\ RecordInv'
  BY DurableKept DEF ExecutionInv
<1>2. Accepted \subseteq Accepted' /\ o \in Origins
  BY <1>1 DEF DurableStep, Evolves, DurableTypes
<1>3. fibre = "none" /\ drain.ref = NoRef /\ NoRef \notin Origins
  BY ExecutionAssumption DEF ExecutionInv, VolatileTypes, Busy
<1>4. VolatileTypes'
  <2>1. cleaner' \in [Origins -> CleanerStates]
    BY DEF CleanersFollow
  <2> QED
    BY <1>2, <1>3, <2>1 DEF ExecutionInv, VolatileTypes, Busy
<1>5. Completing' = {o} /\ Completing = {}
  BY DEF Completing
<1>6. o \notin Cleanup' /\ ops'[o].cleanup # "fulfilled"
  BY <1>1 DEF Cleanup, cleanupRunnable, RecordInv
<1>7. FibreInv'
  BY <1>3, <1>5, <1>6 DEF CleanersFollow, Owned, ExecutionInv, FibreInv
<1>8. WorkInv'
  BY <1>1, <1>2, <1>3, <1>6 DEF WorkInv, RecordInv, Busy
<1>9. JobInv'
  <2>1. \A x \in jobs : x \in Origins /\ x \in Accepted
    BY DEF ExecutionInv, JobInv, DurableTypes
  <2>2. \A x \in Origins : cleaner'[x] = "act" => cleaner[x] = "act"
    BY DEF CleanersFollow
  <2> QED
    BY <1>2, <1>3, <2>1, <2>2 DEF ExecutionInv, JobInv
<1>10. WakeInv'
  BY DEF WakeInv
<1>11. OrphanInv'
  <2>1. SUFFICES ASSUME NEW x \in LocalDeferred', x # o
                 PROVE  producer'[x] # "none" \/ x \in (localRecovery \cup Completing \cup lost)'
    BY <1>5 DEF OrphanInv
  <2>2. /\ x \in Accepted' /\ handle[x] = "local" /\ ~defect
        /\ Live(ops'[x]) /\ ops'[x].outcome = "promise" /\ ops'[x].promise = "none"
    BY <2>1 DEF LocalDeferred, Deferred, Running, Active, Complete, Live
  <2>3. x \in Accepted /\ ops'[x] = ops[x]
    BY <2>2
  <2>4. x \in LocalDeferred
    BY <2>2, <2>3 DEF LocalDeferred, Deferred, Running, Active, Complete, Live
  <2>5. x \in localRecovery => x \in localRecovery'
    BY <2>1, <2>2
  <2> QED
    BY <1>5, <2>4, <2>5 DEF ExecutionInv, OrphanInv
<1> QED
  BY <1>1, <1>4, <1>7, <1>8, <1>9, <1>10, <1>11 DEF ExecutionInv

\* The cleanup fibres follow a step that changes none of them while none is queued.
LEMMA CleanersStay ==
    ASSUME ExecutionInv, UNCHANGED <<ops, defect, handle, cleaner>>,
           drain.pc \in Busy \cup {"select"}
    PROVE  CleanersFollow
<1>1. Accepted' = Accepted /\ Cleanup' = Cleanup
  BY Still
<1>2. \A x \in Origins : cleaner[x] # "queued"
  BY DEF ExecutionInv, FibreInv, Busy
<1> QED
  BY <1>1, <1>2 DEF ExecutionInv, VolatileTypes, FibreInv, CleanersFollow, Owned

\* The processing loop wakes the drain.
LEMMA WakeKept ==
    ASSUME ExecutionInv, Wake
    PROVE  ExecutionInv'
<1>1. /\ drain.pc = "idle" /\ drain' = At("top") /\ scheduled' = FALSE
      /\ UNCHANGED <<ops, defect, handle, proposed, fibre, producer, cleaner, localRecovery,
                     watched, due, errors, drivable, jobs, withdrawn, lost>>
  BY DEF Wake, DrainOnly, host, history
<1>2. /\ Accepted' = Accepted /\ Cleanup' = Cleanup /\ LocalDeferred' = LocalDeferred
  BY <1>1, Still
<1>3. DurableStep
  BY <1>1, StillDurable DEF ExecutionInv, DurableTypes
<1>4. /\ cleaner \in [Origins -> CleanerStates] /\ watched \subseteq Accepted
      /\ due \subseteq Accepted /\ fibre = "none" /\ drain.ref = NoRef
  BY <1>1 DEF ExecutionInv, VolatileTypes, Busy
<1>5. NoRef \notin Accepted
  BY ExecutionAssumption DEF ExecutionInv, DurableTypes
<1>6. NoRef \notin jobs /\ NoRef \notin LocalDeferred
  BY <1>5 DEF ExecutionInv, JobInv, LocalDeferred, Deferred
<1>7. RestsAt("top", drain')
  BY <1>1, AtRests
<1>8. DurableTypes' /\ VolatileTypes' /\ RecordInv' /\ WorkInv' /\ JobInv' /\ OrphanInv'
  BY <1>1, <1>2, <1>3, <1>4, <1>6, <1>7, DrainRests
<1>9. FibreInv'
  BY <1>1, <1>2, <1>7 DEF ExecutionInv, FibreInv, Completing, RestsAt
<1>10. WakeInv'
  BY <1>7 DEF WakeInv, RestsAt
<1> QED
  BY <1>8, <1>9, <1>10 DEF ExecutionInv

\* One turn of the drain: with nothing expired, it has seen every promise.
LEMMA TopKept ==
    ASSUME ExecutionInv, Top
    PROVE  ExecutionInv'
<1>1. /\ drain.pc = "top" /\ ExpireAll
      /\ UNCHANGED <<proposed, fibre, producer, errors, drivable, jobs, withdrawn, lost>>
  BY DEF Top, DrainOnly, host, history
<1> DEFINE drives == defect \/ drivable
           gone == {o \in Accepted : operationComplete(ops'[o])}
           pc == IF drives THEN "select" ELSE "idle"
<1>2. /\ drain' = At(pc)
      /\ cleaner' = IF drives \/ Expired # {} THEN Started(cleaner) ELSE cleaner
      /\ watched' = Observed \ gone /\ localRecovery' = localRecovery \ gone
      /\ due' = due \ gone /\ scheduled' = (scheduled \/ Expired # {})
  BY DEF Top
<1>3. pc \in {"idle", "top", "select"}
  OBVIOUS
<1>4. /\ Evolves /\ Accepted' = Accepted /\ defect' = defect /\ handle' = handle
      /\ \A x \in Accepted : /\ ops'[x].outcome = ops[x].outcome
                             /\ ops'[x].cancelled = ops[x].cancelled
                             /\ ops'[x].cleanup = ops[x].cleanup
      /\ Expired = {} => ops' = ops
  BY <1>1, ExpireMoves DEF ExecutionInv, DurableTypes, TableTypes
<1>5. DurableStep
  BY <1>1, <1>4 DEF DurableStep, ExecutionInv, DurableTypes
<1>6. /\ cleaner \in [Origins -> CleanerStates] /\ watched \subseteq Accepted
      /\ due \subseteq Accepted /\ fibre = "none" /\ drain.ref = NoRef
      /\ scheduled \in BOOLEAN /\ drivable \in BOOLEAN /\ defect \in BOOLEAN
  BY <1>1 DEF ExecutionInv, DurableTypes, VolatileTypes, Busy
<1>7. NoRef \notin Accepted
  BY ExecutionAssumption DEF ExecutionInv, DurableTypes
<1>8. NoRef \notin jobs /\ NoRef \notin LocalDeferred'
  BY <1>4, <1>7 DEF ExecutionInv, JobInv, LocalDeferred, Deferred
<1>9. cleaner' = Started(cleaner) => CleanersFollow
  BY <1>4, <1>5, StartedFollow DEF ExecutionInv
<1>10. /\ cleaner' \in [Origins -> CleanerStates]
       /\ \A x \in Origins : cleaner'[x] = "act" => cleaner[x] = "act"
  <2>1. CASE cleaner' = Started(cleaner)
    BY <1>9, <2>1 DEF CleanersFollow
  <2>2. CASE cleaner' = cleaner
    BY <1>6, <2>2
  <2> QED
    BY <1>2, <2>1, <2>2
<1>11. watched' \subseteq Accepted /\ due' \subseteq Accepted /\ scheduled' \in BOOLEAN
  BY <1>2, <1>6 DEF Observed, Deferred
<1>12. \A x \in localRecovery : Live(ops'[x]) => x \in localRecovery'
  BY <1>2 DEF Live
<1>13. Cleanup' = Cleanup
  BY <1>4 DEF Cleanup, cleanupRunnable
<1>14. RestsAt(pc, drain') /\ drain'.pc = pc
  BY <1>2, AtRests DEF RestsAt
<1>15. localRecovery' \subseteq localRecovery
  BY <1>2
<1>16. Expired = {} => Deferred' \subseteq watched'
  <2>1. SUFFICES ASSUME Expired = {}, NEW x \in Deferred' PROVE x \in watched'
    OBVIOUS
  <2>2. x \in Accepted /\ Live(ops'[x]) /\ ops' = ops /\ x \in Deferred
    BY <1>4, <2>1 DEF Deferred, Running, Active, Complete, Live
  <2> QED
    BY <1>2, <2>2 DEF Observed, Live
<1> HIDE DEF pc, gone
<1>17. DurableTypes' /\ VolatileTypes' /\ RecordInv' /\ WorkInv' /\ JobInv' /\ OrphanInv'
  BY <1>1, <1>2, <1>3, <1>4, <1>5, <1>6, <1>8, <1>10, <1>11, <1>12, <1>14,
     <1>15, DrainRests
<1>18. Completing' = {} /\ Completing = {}
  BY <1>1, <1>3, <1>14 DEF Completing
<1>19. FibreInv'
  <2>1. CASE cleaner' = Started(cleaner)
    BY <1>1, <1>9, <1>18, <2>1 DEF CleanersFollow, Owned, ExecutionInv, FibreInv
  <2>2. CASE ~drives /\ cleaner' = cleaner
    <3>1. drain'.pc = "idle" /\ ~drivable' /\ ~defect'
      BY <1>1, <1>4, <1>14, <2>2 DEF pc
    <3> QED
      BY <1>1, <1>4, <1>13, <1>18, <2>2, <3>1 DEF ExecutionInv, FibreInv
  <2> QED
    BY <1>2, <2>1, <2>2
<1>20. WakeInv'
  BY <1>1, <1>2, <1>4, <1>14, <1>16 DEF WakeInv, pc
<1> QED
  BY <1>17, <1>19, <1>20 DEF ExecutionInv

\* A local promise is rerun, or times out because its deadline passed meanwhile.
LEMMA SelectRecoveryKept ==
    ASSUME ExecutionInv, SelectRecovery
    PROVE  ExecutionInv'
<1>1. /\ drain.pc = "select"
      /\ UNCHANGED <<proposed, fibre, producer, errors, drivable, jobs, withdrawn, lost>>
  BY DEF SelectRecovery, DrainOnly, host, history
<1>2. PICK o \in Recoverable :
        /\ localRecovery' = Recoverable \ {o}
        /\ IF o \in due
           THEN /\ Resolve(o, "timedOut") /\ UNCHANGED <<handle, drain>>
                /\ cleaner' = Started(cleaner) /\ scheduled' = TRUE
                /\ watched' = watched \ {o} /\ due' = due \ {o}
           ELSE /\ Claim(o, TRUE)
                /\ UNCHANGED <<ops, defect, handle, scheduled, cleaner, watched, due>>
  BY DEF SelectRecovery
<1>3. /\ o \in Accepted /\ o \in Origins /\ ~defect /\ ~ops[o].cancelled
      /\ localRecovery' \subseteq localRecovery
      /\ \A x \in localRecovery : x \in Accepted /\ (Running(x) <=> Live(ops[x]))
  BY <1>2 DEF Recoverable, Running, Active, Complete, Live, ExecutionInv, VolatileTypes,
              DurableTypes
<1>4. \A x \in localRecovery \ {o} : Live(ops[x]) => x \in localRecovery'
  BY <1>2, <1>3 DEF Recoverable
<1>5. /\ cleaner \in [Origins -> CleanerStates] /\ watched \subseteq Accepted
      /\ due \subseteq Accepted /\ fibre = "none" /\ drain.ref = NoRef
      /\ scheduled \in BOOLEAN
  BY <1>1 DEF ExecutionInv, VolatileTypes, Busy
<1>6. CASE o \in due
  <2>1. /\ Resolve(o, "timedOut") /\ UNCHANGED <<handle, drain>>
        /\ cleaner' = Started(cleaner) /\ scheduled' = TRUE
        /\ watched' = watched \ {o} /\ due' = due \ {o}
    BY <1>2, <1>6
  <2>2. "timedOut" \in PromiseResults
    BY DEF PromiseResults
  <2>3. /\ Evolves /\ Only(o) /\ defect' = defect /\ ops'[o].outcome = ops[o].outcome
        /\ ops'[o].promise # "none" /\ ops'[o].cleanup = ops[o].cleanup
        /\ ops'[o].cancelled = ops[o].cancelled
    BY <1>3, <2>1, <2>2, ResolveMoves DEF ExecutionInv, DurableTypes, TableTypes
  <2>4. DurableStep
    BY <1>1, <2>1, <2>3 DEF DurableStep, ExecutionInv, DurableTypes
  <2>5. /\ Accepted' = Accepted
        /\ \A x \in Accepted : ops'[x].cleanup = ops[x].cleanup /\ ops'[x].outcome = ops[x].outcome
    BY <2>3 DEF Only
  <2>6. CleanersFollow
    BY <2>1, <2>4, <2>5, StartedFollow DEF ExecutionInv
  <2>7. Commits
    <3>1. \A x \in localRecovery : Live(ops'[x]) => x \in localRecovery'
      <4>1. ~Live(ops'[o])
        BY <1>3, <2>3 DEF Live, operationComplete
      <4> QED
        BY <1>3, <1>4, <2>3, <4>1 DEF Only
    <3>2. watched' \subseteq watched /\ due' \subseteq due
      BY <2>1
    <3> QED
      BY <1>3, <2>1, <2>4, <2>5, <2>6, <3>1, <3>2 DEF Commits
  <2> QED
    BY <1>1, <2>1, <2>5, <2>7, CallerKept
<1>7. CASE o \notin due
  <2>1. /\ Claim(o, TRUE)
        /\ UNCHANGED <<ops, defect, handle, scheduled, cleaner, watched, due>>
    BY <1>2, <1>7
  <2>2. /\ DOMAIN drain' = {"pc", "ref", "recovering", "stop"} /\ drain'.pc = "claimed"
        /\ drain'.ref = o /\ drain'.recovering = TRUE /\ drain'.stop = FALSE
    BY <2>1 DEF Claim
  <2>3. DurableStep /\ Accepted' = Accepted
    BY <1>1, <2>1, StillDurable, Still DEF ExecutionInv, DurableTypes
  <2>4. CleanersFollow
    BY <1>1, <2>1, CleanersStay
  <2>5. ops'[o].cancelled = FALSE
    BY <1>3, <2>1 DEF ExecutionInv, DurableTypes, IsOp
  <2> QED
    BY <1>1, <1>3, <1>4, <1>5, <2>1, <2>2, <2>3, <2>4, <2>5, ClaimKept
<1> QED
  BY <1>6, <1>7

\* A proposal is accepted, or an accepted one claimed again.
LEMMA SelectProposalKept ==
    ASSUME ExecutionInv, SelectProposal
    PROVE  ExecutionInv'
<1>1. /\ drain.pc = "select" /\ Recoverable = {}
      /\ UNCHANGED <<proposed, fibre, producer, errors, drivable, jobs, withdrawn, lost>>
  BY DEF SelectProposal, DrainOnly, host, history
<1>2. PICK o \in Executable :
        /\ Claim(o, FALSE)
        /\ IF o \in Accepted THEN Uncommitted
           ELSE Request(o) /\ Committed(cleaner) /\ UNCHANGED handle
  BY DEF SelectProposal
<1>3. /\ DOMAIN drain' = {"pc", "ref", "recovering", "stop"} /\ drain'.pc = "claimed"
      /\ drain'.ref = o /\ drain'.recovering = FALSE /\ drain'.stop = FALSE
  BY <1>2 DEF Claim
<1>4. o \in Origins /\ (o \in ReplyOrigins \/ ~defect) /\ (o \in Accepted => o \in Pending)
  BY <1>2 DEF Executable, Pending, Frozen, ExecutionInv, DurableTypes
<1>5. CASE o \in Accepted
  <2>1. UNCHANGED <<ops, defect, handle, scheduled, cleaner, localRecovery, watched, due>>
    BY <1>2, <1>5 DEF Uncommitted
  <2>2. DurableStep /\ Accepted' = Accepted
    BY <1>1, <2>1, StillDurable, Still DEF ExecutionInv, DurableTypes
  <2>3. CleanersFollow
    BY <1>1, <2>1, CleanersStay
  <2>4. ops[o].cancelled = FALSE /\ ops[o].outcome = "none" /\ scheduled \in BOOLEAN
    BY <1>4, <1>5 DEF Pending, ExecutionInv, DurableTypes, VolatileTypes, IsOp
  <2> QED
    BY <1>1, <1>3, <1>4, <1>5, <2>1, <2>2, <2>3, <2>4, ClaimKept
<1>6. CASE o \notin Accepted
  <2>1. Request(o) /\ Committed(cleaner) /\ handle' = handle
    BY <1>2, <1>6
  <2>2. /\ Evolves /\ defect' = defect /\ Accepted' = Accepted \cup {o}
        /\ \A x \in Accepted : ops'[x] = ops[x]
    BY <1>4, <2>1, RequestMoves DEF ExecutionInv, DurableTypes, TableTypes
  <2>3. DurableStep
    BY <1>1, <2>1, <2>2 DEF DurableStep, ExecutionInv, DurableTypes
  <2>4. Commits
    BY <2>1, <2>2, <2>3, CommittedCommits DEF ExecutionInv
  <2>5. ops'[o] = NewOperation(o)
    BY <1>6, <2>2 DEF Evolves
  <2>6. /\ ops'[o].cancelled = FALSE
        /\ \A x \in Accepted' \ Accepted : ops'[x].outcome = "none"
    BY <2>2, <2>5 DEF NewOperation
  <2>7. /\ CleanersFollow /\ scheduled' = TRUE
        /\ localRecovery' \subseteq localRecovery /\ watched' \subseteq watched /\ due' \subseteq due
        /\ \A x \in localRecovery : Live(ops'[x]) => x \in localRecovery'
    BY <2>4 DEF Commits
  <2> QED
    BY <1>1, <1>3, <1>4, <1>6, <2>1, <2>2, <2>3, <2>6, <2>7, ClaimKept
<1> QED
  BY <1>5, <1>6

\* With nothing to select the drain goes to sleep, having seen all there is.
LEMMA SelectNothingKept ==
    ASSUME ExecutionInv, SelectNothing
    PROVE  ExecutionInv'
<1>1. /\ drain.pc = "select" /\ Recoverable = {} /\ Executable = {}
      /\ RestsAt("idle", drain') /\ localRecovery' = {}
      /\ UNCHANGED <<ops, defect, handle, proposed, scheduled, cleaner, watched, due, fibre,
                     producer, errors, drivable, jobs, withdrawn, lost>>
  BY AtRests DEF SelectNothing, DrainOnly, host, history
<1>2. /\ Accepted' = Accepted /\ Cleanup' = Cleanup /\ LocalDeferred' = LocalDeferred
      /\ Deferred' = Deferred /\ Executable' = Executable
  BY <1>1, Still
<1>3. DurableStep
  BY <1>1, StillDurable DEF ExecutionInv, DurableTypes
<1>4. /\ cleaner \in [Origins -> CleanerStates] /\ watched \subseteq Accepted
      /\ due \subseteq Accepted /\ fibre = "none" /\ drain.ref = NoRef /\ scheduled \in BOOLEAN
      /\ localRecovery \subseteq Accepted
  BY <1>1 DEF ExecutionInv, VolatileTypes, Busy
<1>5. NoRef \notin Accepted
  BY ExecutionAssumption DEF ExecutionInv, DurableTypes
<1>6. NoRef \notin jobs /\ NoRef \notin LocalDeferred
  BY <1>5 DEF ExecutionInv, JobInv, LocalDeferred, Deferred
<1>7. \A x \in localRecovery : ~(Live(ops[x]) /\ ~defect)
  BY <1>1, <1>4 DEF Recoverable, Running, Active, Complete, Live
<1>8. localRecovery' \subseteq localRecovery
  BY <1>1
<1>9. DurableTypes' /\ VolatileTypes' /\ RecordInv' /\ WorkInv' /\ JobInv' /\ OrphanInv'
  BY <1>1, <1>2, <1>3, <1>4, <1>6, <1>7, <1>8, DrainRests
<1>10. drain'.pc = "idle"
  BY <1>1 DEF RestsAt
<1>11. FibreInv'
  BY <1>1, <1>2, <1>10 DEF ExecutionInv, FibreInv, Completing
<1>12. WakeInv'
  <2>1. Recoverable' = {}
    BY <1>1 DEF Recoverable
  <2> QED
    BY <1>1, <1>2, <1>10, <2>1 DEF ExecutionInv, WakeInv
<1> QED
  BY <1>9, <1>11, <1>12 DEF ExecutionInv

\* Claimed work starts, or is dropped.
LEMMA StartKept ==
    ASSUME ExecutionInv, Start
    PROVE  ExecutionInv'
<1>1. /\ drain.pc = "claimed"
      /\ UNCHANGED <<ops, defect, handle, proposed, scheduled, cleaner, localRecovery, watched,
                     due, producer, errors, drivable, jobs, withdrawn, lost>>
  BY DEF Start, Uncommitted, DrainOnly, host, history
<1>2. /\ Accepted' = Accepted /\ Cleanup' = Cleanup /\ LocalDeferred' = LocalDeferred
  BY <1>1, Still
<1>3. DurableStep
  BY <1>1, StillDurable DEF ExecutionInv, DurableTypes
<1>4. /\ cleaner \in [Origins -> CleanerStates] /\ watched \subseteq Accepted
      /\ due \subseteq Accepted /\ fibre = "none" /\ drain.ref \in Accepted
      /\ scheduled \in BOOLEAN /\ drain.pc \in Busy
  BY <1>1 DEF ExecutionInv, VolatileTypes, Busy
<1>5. CASE Running(drain.ref)
  <2>1. drain' = [drain EXCEPT !.pc = "running"] /\ fibre' = "run"
    BY <1>5 DEF Start
  <2>2. /\ DOMAIN drain' = DOMAIN drain /\ drain'.pc = "running" /\ drain'.ref = drain.ref
        /\ drain'.recovering = drain.recovering /\ drain'.stop = drain.stop
    BY <2>1 DEF ExecutionInv, VolatileTypes
  <2>3. Completing' = Completing
    BY <1>1, <2>2 DEF Completing
  <2>4. DurableTypes' /\ RecordInv'
    BY <1>3, DurableKept DEF ExecutionInv
  <2>5. VolatileTypes'
    BY <1>1, <1>2, <1>4, <2>1, <2>2 DEF ExecutionInv, VolatileTypes, Busy
  <2>6. FibreInv'
    BY <1>1, <1>2, <2>2, <2>3 DEF ExecutionInv, FibreInv
  <2>7. WorkInv'
    BY <1>1, <1>4, <2>1, <2>2 DEF ExecutionInv, WorkInv
  <2>8. JobInv'
    BY <1>1, <1>2, <1>4, <2>1, <2>2 DEF ExecutionInv, JobInv
  <2>9. WakeInv'
    BY <2>2 DEF WakeInv
  <2>10. OrphanInv'
    BY <1>1, <1>2, <2>3 DEF ExecutionInv, OrphanInv
  <2> QED
    BY <2>4, <2>5, <2>6, <2>7, <2>8, <2>9, <2>10 DEF ExecutionInv
<1>6. CASE ~Running(drain.ref)
  <2>1. RestsAt("top", drain') /\ fibre' = "none"
    BY <1>4, <1>6, AtRests DEF Start
  <2>2. drain.ref \notin LocalDeferred
    BY <1>6 DEF LocalDeferred, Deferred
  <2>3. DurableTypes' /\ VolatileTypes' /\ RecordInv' /\ WorkInv' /\ JobInv' /\ OrphanInv'
    BY <1>1, <1>2, <1>3, <1>4, <2>1, <2>2, DrainRests
  <2>4. drain'.pc = "top"
    BY <2>1 DEF RestsAt
  <2>5. FibreInv'
    BY <1>1, <1>2, <2>4 DEF ExecutionInv, FibreInv, Completing
  <2>6. WakeInv'
    BY <2>4 DEF WakeInv
  <2> QED
    BY <2>3, <2>5, <2>6 DEF ExecutionInv
<1> QED
  BY <1>5, <1>6

\* The drain ends its wait: the fibre's result was admitted or dropped.
LEMMA FinishedKept ==
    ASSUME ExecutionInv, Uncommitted \/ Commits, drain.pc = "running",
           fibre # "submitting", fibre' = "none",
           NEW pc \in {"idle", "top"}, RestsAt(pc, drain'), pc = "idle" => scheduled',
           UNCHANGED <<proposed, producer, errors, drivable, jobs, withdrawn, lost>>,
           Accepted' = Accepted,
           \A x \in Accepted : ops'[x].cleanup = ops[x].cleanup,
           \A x \in Accepted \ {drain.ref} : /\ ops'[x].outcome = ops[x].outcome
                                             /\ handle'[x] = handle[x],
           drain.ref \in jobs => handle'[drain.ref] \in {handle[drain.ref], "external"},
           drain.ref \in LocalDeferred' => producer[drain.ref] # "none" \/ drain.ref \in lost
    PROVE  ExecutionInv'
<1>1. DurableStep /\ CleanersFollow
  <2>1. CASE Uncommitted
    BY <2>1, StillDurable, CleanersStay DEF Uncommitted, ExecutionInv, DurableTypes, Busy
  <2>2. CASE Commits
    BY <2>2 DEF Commits
  <2> QED
    BY <2>1, <2>2
<1>2. /\ scheduled' \in BOOLEAN /\ localRecovery' \subseteq localRecovery
      /\ watched' \subseteq Accepted /\ due' \subseteq Accepted
      /\ \A x \in localRecovery : Live(ops'[x]) /\ ~defect' => x \in localRecovery'
  BY DEF Uncommitted, Commits, ExecutionInv, VolatileTypes
<1>3. /\ cleaner' \in [Origins -> CleanerStates]
      /\ \A x \in Origins : cleaner'[x] = "act" => cleaner[x] = "act"
  BY <1>1 DEF CleanersFollow
<1>4. DurableTypes' /\ VolatileTypes' /\ RecordInv' /\ WorkInv' /\ JobInv' /\ OrphanInv'
  <2>1. pc \in {"idle", "top", "select"}
    OBVIOUS
  <2> QED
    BY <1>1, <1>2, <1>3, <2>1, DrainRests
<1>5. drain'.pc = pc
  BY DEF RestsAt
<1>6. FibreInv'
  BY <1>1, <1>5 DEF CleanersFollow, Owned, ExecutionInv, FibreInv, Completing
<1>7. WakeInv'
  BY <1>5 DEF WakeInv
<1> QED
  BY <1>4, <1>6, <1>7 DEF ExecutionInv

\* A fibre that ends with nothing to record, or whose record came too late.
LEMMA DroppedKept ==
    ASSUME ExecutionInv, Uncommitted, drain.pc = "running",
           fibre # "submitting", fibre' = "none",
           NEW pc \in {"idle", "top"}, RestsAt(pc, drain'), pc = "idle" => scheduled,
           UNCHANGED <<proposed, producer, errors, drivable, jobs, withdrawn, lost>>,
           drain.ref \in LocalDeferred => producer[drain.ref] # "none" \/ drain.ref \in lost
    PROVE  ExecutionInv'
<1>1. UNCHANGED <<ops, defect, handle, scheduled>>
  BY DEF Uncommitted
<1>2. Accepted' = Accepted /\ LocalDeferred' = LocalDeferred
  BY <1>1, Still
<1> QED
  BY <1>1, <1>2, FinishedKept

\* The fibre's result is admitted and the completion boundary ends.
LEMMA FinishKept ==
    ASSUME ExecutionInv, Finish
    PROVE  ExecutionInv'
<1> DEFINE ref == drain.ref
           pc == IF fibre = "interrupted" /\ Running(ref) THEN "idle" ELSE "top"
<1>1. /\ drain.pc = "running" /\ fibre' = "none" /\ RestsAt(pc, drain')
      /\ UNCHANGED <<proposed, producer, errors, drivable, jobs, withdrawn, lost>>
  BY AtRests DEF Finish, DrainOnly, host, history
<1>2. /\ ref \in Accepted /\ ref \in Origins /\ drain.pc \in Busy
      /\ drain.recovering \in BOOLEAN /\ handle \in [Origins -> Handles]
  BY <1>1 DEF ExecutionInv, VolatileTypes, DurableTypes, Busy
<1>3. /\ pc \in {"idle", "top"}
      /\ pc = "idle" => fibre = "interrupted" /\ defect /\ scheduled
  BY DEF ExecutionInv, WorkInv
<1>4. ref \in LocalDeferred => /\ ~defect /\ Running(ref) /\ handle[ref] = "local"
                               /\ AdmitsPromise(ref) /\ AdmitsDefect(ref)
  BY <1>2 DEF LocalDeferred, Deferred, Running, Active, AdmitsPromise, AdmitsDefect, Frozen
<1>5. ref \in LocalDeferred' => /\ ~defect' /\ Live(ops'[ref]) /\ handle'[ref] = "local"
                                /\ ops'[ref].promise = "none"
  BY DEF LocalDeferred, Deferred, Running, Active, Complete, Live
<1>6. ~drain.recovering => handle[ref] # "local"
  BY <1>2 DEF ExecutionInv, WorkInv
<1>7. ASSUME Commits PROVE DurableStep /\ scheduled' = TRUE
  BY <1>7 DEF Commits
<1>8. ASSUME Only(ref)
      PROVE  /\ Accepted' = Accepted
             /\ \A x \in Accepted \ {ref} : /\ ops'[x].outcome = ops[x].outcome
                                            /\ ops'[x].cleanup = ops[x].cleanup
  BY <1>8 DEF Only
<1> HIDE DEF pc
<1>10. CASE fibre \in {"value", "rejected"} /\ drain.recovering
  <2>1. AppendPromise(ref, "result")
    BY <1>10 DEF Finish
  <2>2. "result" \in PromiseResults
    BY DEF PromiseResults
  <2>3. CASE ~AdmitsPromise(ref) /\ Uncommitted
    BY <1>1, <1>3, <1>4, <1>10, <2>3, DroppedKept
  <2>4. CASE /\ AdmitsPromise(ref) /\ Commits /\ Only(ref) /\ handle' = handle
             /\ ops'[ref].promise # "none" /\ ops'[ref].cleanup = ops[ref].cleanup
    <3>1. ref \notin LocalDeferred'
      BY <1>5, <2>4
    <3> QED
      BY <1>1, <1>3, <1>7, <1>8, <1>10, <2>4, <3>1, FinishedKept
  <2> QED
    BY <1>1, <1>2, <2>1, <2>2, <2>3, <2>4, PromiseAppended
<1>11. CASE fibre \in {"value", "rejected"} /\ ~drain.recovering
  <2>1. AppendSettlement(ref, fibre, "none")
    BY <1>11 DEF Finish
  <2>2. fibre \in Settlements /\ "none" \in Handles /\ fibre # "promise"
    BY <1>11 DEF Settlements, Handles
  <2>3. CASE Uncommitted
    BY <1>1, <1>3, <1>4, <1>6, <1>11, <2>3, DroppedKept
  <2>4. CASE Commits /\ Only(ref) /\ Kept(ref) /\ handle' = handle
    <3>1. ref \notin LocalDeferred'
      BY <1>5, <1>6, <1>11, <2>4
    <3>2. ops'[ref].cleanup = ops[ref].cleanup
      BY <2>4 DEF Kept
    <3> QED
      BY <1>1, <1>3, <1>7, <1>8, <1>11, <2>4, <3>1, <3>2, FinishedKept
  <2> QED
    BY <1>1, <1>2, <2>1, <2>2, <2>3, <2>4, SettlementAppended
<1>12. CASE fibre \in {"local", "external"} /\ drain.recovering
  <2>1. Uncommitted
    BY <1>12 DEF Finish
  <2>2. fibre = "local"
    BY <1>12 DEF ExecutionInv, WorkInv
  <2>3. ref \in LocalDeferred => producer[ref] # "none" \/ ref \in lost
    BY <1>4, <2>2 DEF ExecutionInv, WorkInv
  <2> QED
    BY <1>1, <1>3, <2>1, <2>2, <2>3, DroppedKept
<1>13. CASE fibre \in {"local", "external"} /\ ~drain.recovering
  <2>1. AppendSettlement(ref, "promise", fibre)
    BY <1>13 DEF Finish
  <2>2. "promise" \in Settlements /\ fibre \in Handles
    BY <1>13 DEF Settlements, Handles
  <2>3. CASE Uncommitted
    BY <1>1, <1>3, <1>4, <1>6, <1>13, <2>3, DroppedKept
  <2>4. CASE /\ AdmitsSettlement(ref, "promise") /\ Commits /\ Only(ref) /\ Kept(ref)
             /\ defect' = defect /\ handle' = [handle EXCEPT ![ref] = fibre]
    <3>1. handle'[ref] = fibre /\ \A x \in Accepted \ {ref} : handle'[x] = handle[x]
      BY <1>2, <2>4 DEF ExecutionInv, DurableTypes
    <3>2. ref \in LocalDeferred' => producer[ref] # "none" \/ ref \in lost
      <4>1. SUFFICES ASSUME ref \in LocalDeferred' PROVE producer[ref] # "none" \/ ref \in lost
        OBVIOUS
      <4>2. fibre = "local" /\ ~defect /\ Live(ops'[ref])
        BY <1>5, <2>4, <3>1, <4>1
      <4>3. Running(ref)
        BY <1>2, <1>7, <2>4, <4>2, Monotone DEF ExecutionInv
      <4> QED
        BY <4>2, <4>3 DEF ExecutionInv, WorkInv
    <3>3. ref \in jobs => fibre = "external"
      <4>1. handle[ref] # "external"
        BY <1>2, <2>4 DEF AdmitsSettlement, ExecutionInv, RecordInv
      <4> QED
        BY <1>13, <4>1 DEF ExecutionInv, JobInv
    <3>4. ops'[ref].cleanup = ops[ref].cleanup
      BY <2>4 DEF Kept
    <3> QED
      BY <1>1, <1>3, <1>7, <1>8, <1>13, <2>4, <3>1, <3>2, <3>3, <3>4, FinishedKept
  <2> QED
    BY <1>1, <1>2, <2>1, <2>2, <2>3, <2>4, SettlementAppended
<1>14. CASE fibre = "died"
  <2>1. RecordDeath(ref)
    BY <1>14 DEF Finish
  <2>2. CASE ~AdmitsDefect(ref) /\ Uncommitted
    BY <1>1, <1>3, <1>4, <1>14, <2>2, DroppedKept
  <2>3. CASE /\ Commits /\ Only(ref) /\ defect' /\ handle' = handle
             /\ ops'[ref].cleanup = ops[ref].cleanup
    <3>1. ref \notin LocalDeferred'
      BY <1>5, <2>3
    <3> QED
      BY <1>1, <1>3, <1>7, <1>8, <1>14, <2>3, <3>1, FinishedKept
  <2> QED
    BY <1>1, <1>2, <2>1, <2>2, <2>3, DeathAppended
<1>15. CASE fibre = "interrupted"
  <2>1. Uncommitted
    BY <1>15 DEF Finish
  <2>2. ref \notin LocalDeferred
    BY <1>4, <1>15 DEF ExecutionInv, WorkInv
  <2> QED
    BY <1>1, <1>3, <1>15, <2>1, <2>2, DroppedKept
<1> QED
  BY <1>2, <1>10, <1>11, <1>12, <1>13, <1>14, <1>15 DEF Finish

\* Whatever the drain does keeps the invariant.
LEMMA DrainsKeep ==
    ASSUME ExecutionInv, DrainSteps
    PROVE  ExecutionInv'
  BY WakeKept, TopKept, SelectRecoveryKept, SelectProposalKept, SelectNothingKept, StartKept,
     FinishKept DEF DrainSteps

-----------------------------------------------------------------------------
(* The theorems *)

\* An empty thread.
LEMMA InitKept == Init => ExecutionInv
<1> SUFFICES ASSUME Init PROVE ExecutionInv
  OBVIOUS
<1>1. /\ Accepted = {} /\ defect = FALSE /\ ops = [o \in Accepted |-> ops[o]]
  BY DEF Init, LifecycleInit, Accepted
<1>2. Cleanup = {} /\ LocalDeferred = {}
  BY <1>1 DEF Cleanup, LocalDeferred, Deferred
<1>3. RestsAt("idle", drain)
  BY AtRests DEF Init
<1>4. DurableTypes /\ VolatileTypes
  BY <1>1, <1>3 DEF Init, RestsAt, DurableTypes, VolatileTypes, Busy, Handles, ProducerStates,
                    CleanerStates
<1>5. RecordInv /\ JobInv /\ OrphanInv
  BY <1>1, <1>2 DEF Init, RecordInv, JobInv, OrphanInv
<1>6. FibreInv /\ WorkInv /\ WakeInv
  BY <1>2, <1>3 DEF Init, RestsAt, FibreInv, WorkInv, WakeInv, Busy
<1> QED
  BY <1>4, <1>5, <1>6 DEF ExecutionInv

\* The invariant is inductive.
LEMMA NextKept == ExecutionInv /\ [Next]_vars => ExecutionInv'
<1> SUFFICES ASSUME ExecutionInv, [Next]_vars PROVE ExecutionInv'
  OBVIOUS
<1>1. CASE DrainSteps
  BY <1>1, DrainsKeep
<1>2. CASE FibreSteps
  BY <1>2, FibresKeep
<1>3. ASSUME NEW o \in Origins,
             ProducerSteps(o) \/ CleanerSteps(o) \/ DeadlinePasses(o) \/ Answer(o)
      PROVE  ExecutionInv'
  BY <1>3, ProducersKeep, CleanersKeep, DeadlineKept, AnswerKept
<1>4. CASE Environment
  BY <1>4, ProposeKept, CancelKept, ResumeKept, DrivableKept, RestartKept DEF Environment
<1>5. CASE UNCHANGED vars
  <2>1. UNCHANGED <<ops, defect, handle, proposed, due, drain, fibre, scheduled, producer, cleaner,
                    localRecovery, watched, errors, drivable, jobs, withdrawn, lost>>
    BY <1>5 DEF vars
  <2>2. /\ proposed \subseteq Origins /\ due \subseteq Accepted
        /\ scheduled \in BOOLEAN /\ drivable \in BOOLEAN
    BY DEF ExecutionInv, DurableTypes, VolatileTypes
  <2> QED
    BY <2>1, <2>2, SignalKept
<1> QED
  BY <1>1, <1>2, <1>3, <1>4, <1>5 DEF Next

\* Whatever the order of execution, hand-over, cancellation, defect, deadline and restart, the
\* running part of a thread (execution.ts) stays consistent with the operations it recorded.
THEOREM ExecutionIsConsistent == Spec => []ExecutionInv
  BY InitKept, NextKept, PTL DEF Spec

\* Every owed cleanup has a fibre or is queued for a drain that will come (queueCleanup and
\* cleanCancellations of execution.ts, and the startup that replays cancellations).
THEOREM CleanupIsOwned == Spec => []CleanupOwned
<1>1. ExecutionInv => CleanupOwned
  <2> SUFFICES ASSUME ExecutionInv, NEW o \in Cleanup
               PROVE  \/ cleaner[o] \in {"wait", "act", "waiting"}
                      \/ cleaner[o] = "queued" /\ (scheduled \/ drain.pc # "idle" \/ ~drivable)
    BY DEF CleanupOwned
  <2>1. o \in Origins
    BY DEF Cleanup, ExecutionInv, DurableTypes
  <2> QED
    BY <2>1 DEF ExecutionInv, FibreInv
<1> QED
  BY <1>1, ExecutionIsConsistent, PTL

\* A successful cleanup leaves no external job behind and acts alone, whatever the order in
\* which execution.submit, the cancellation and the cleanup fibre reach the admission queue.
THEOREM NoJobLeaks == Spec => []NoLeakedJob
<1>1. ExecutionInv => NoLeakedJob
  BY DEF ExecutionInv, JobInv, FibreInv, NoLeakedJob
<1> QED
  BY <1>1, ExecutionIsConsistent, PTL

\* The drain never sleeps on work it could do (the processing queue, observePromises and
\* selectWork of execution.ts).
THEOREM WakeupsAreKept == Spec => []NoLostWakeup
<1>1. ExecutionInv => NoLostWakeup
  BY DEF ExecutionInv, WakeInv, FibreInv, NoLostWakeup
<1> QED
  BY <1>1, ExecutionIsConsistent, PTL

\* The recovery state the watchdog probes never invents and never hides a lost producer, and
\* settled means that nothing is left (recoveryState of execution.ts).
THEOREM RecoveryIsHonest == Spec => []HonestRecovery
<1>1. ExecutionInv => HonestRecovery
  <2> SUFFICES ASSUME ExecutionInv PROVE HonestRecovery
    OBVIOUS
  <2> DEFINE failed == errors = "fault" \/ (Cleanup = {} /\ (errors = "terminal" \/ defect))
             work == (Executable \cap Accepted) \cup Deferred
             live == {o \in LocalDeferred : producer[o] # "none"}
             parked == /\ work \cup Cleanup # {} /\ work \subseteq Waiting
                       /\ \A o \in Cleanup : cleaner[o] = "waiting"
             running == \/ Cleanup # {}
                        \/ drain.pc = "running" /\ Executable # {}
                        \/ live # {} /\ Executable = {}
  <2>1. recoveryState = IF failed THEN "failed"
                        ELSE IF parked THEN "parked"
                        ELSE IF Orphans # {} THEN "orphaned"
                        ELSE IF running THEN "running"
                        ELSE IF Executable # {} \/ LocalDeferred # {} THEN "pending"
                        ELSE IF Deferred = {} THEN "settled"
                        ELSE "parked"
    BY DEF recoveryState
  <2>2. recoveryState = "orphaned" => lost # {}
    <3>1. recoveryState = "orphaned" => Orphans # {}
      BY <2>1
    <3>2. Orphans \subseteq lost
      BY DEF Orphans, ExecutionInv, OrphanInv
    <3> QED
      BY <3>1, <3>2
  <2>3. recoveryState = "settled" =>
          Executable = {} /\ Deferred = {} /\ Cleanup = {} /\ ~defect
    BY <2>1
  <2>4. ASSUME NEW o \in LocalDeferred, o \in Waiting
        PROVE  producer[o] # "none" \/ o \in Completing
    <3>1. fibre = "waiting" => drain.pc = "running"
      BY DEF ExecutionInv, VolatileTypes
    <3> QED
      BY <2>4, <3>1 DEF Waiting, Completing
  <2>5. ASSUME recoveryState \in {"running", "pending", "parked", "settled"},
               NEW o \in LocalDeferred
        PROVE  producer[o] # "none" \/ o \in localRecovery \/ o \in Completing
    <3>1. parked \/ Orphans = {}
      BY <2>1, <2>5
    <3>2. parked => o \in Waiting
      BY DEF LocalDeferred
    <3>3. Orphans = {} => producer[o] # "none" \/ o \in localRecovery \cup Completing \cup Waiting
      BY DEF Orphans
    <3> QED
      BY <2>4, <3>1, <3>2, <3>3
  <2> QED
    BY <2>2, <2>3, <2>5 DEF HonestRecovery
<1> QED
  BY <1>1, ExecutionIsConsistent, PTL

-----------------------------------------------------------------------------
(***************************************************************************)
(* The objects of the older Cloudflare host (DurableObjects).  ObjectsSound*)
(* is not inductive: ObjectsInv adds the order in which a thread comes     *)
(* about (DirectoryInv), what an admission, a waiter and a client stand    *)
(* for (AdmissionInv, WaitInv, ClientInv), the alarm a pass leaves behind  *)
(* (AlarmInv, NextInv), and that what was answered for is stored (AckInv). *)
(***************************************************************************)

\* Where a pass can stand: in the effect for one thread, or not.
Creating == {"created", "committing", "committed"}
Readied == {"ready", "driving", "serving", "worked"}
PassSteps == {"idle", "fired", "armed", "asking", "failed"} \cup Readied
Passes == [step : PassSteps] \cup [step : Creating, thread : Threads]

\* Where a client can stand, and what an admission can be for.
ClientSteps == {"idle", "reserving", "reserved", "forParent", "forThread", "answered", "refused", "failed"}
ClientRecords == [step : ClientSteps, thread : Threads \cup {Root}]
Admissions == {Idling} \cup
    [step : {"staged"}, what : {"reserve", "wake", "commit"} \cup Messages, who : Callers]

\* Every variable of the objects that the argument reads, with its set of values.
ObjectsType ==
    /\ directory \in [Threads -> {Wants[c] : c \in Clients} \cup {Free}]
    /\ registered \subseteq Threads
    /\ lineage \in [Threads -> Threads \cup {Root, Uncreated}]
    /\ items \in [Threads -> SUBSET Items]
    /\ served \in [Threads -> SUBSET Items]
    /\ left \in [Threads -> [Timed -> Times \cup {Closed}]]
    /\ alarm \in [Objects -> Times \cup {Unset}]
    /\ admission \in [Objects -> Admissions]
    /\ admitted \in [Objects -> BOOLEAN]
    /\ pass \in [Objects -> Passes]
    /\ seen \in [Threads -> SUBSET Items]
    /\ waiting \in [Callers -> {"no", "next", "covered"}]
    /\ clients \in [Clients -> ClientRecords]

(* The directory *)

\* A thread is created only when it is reserved, under the parent of its reservation, and
\* registered only when it is created; only a registered thread works and serves.
DirectoryInv ==
    /\ \A t \in Threads : lineage[t] # Uncreated => directory[t] # Free /\ lineage[t] = directory[t].parent
    /\ \A t \in registered : lineage[t] # Uncreated
    /\ pass["actor"].step \in Creating => lineage[pass["actor"].thread] # Uncreated
    /\ \A t \in Threads : pass[t].step \in Readied => t \in registered
    /\ \A t \in Threads : served[t] # {} => t \in registered

(* Who waits for what *)

\* The client c waits for a pass of the actor, for its parent's thread or its own.
Owes(c) == clients[c].step \in {"forParent", "forThread"}
\* An admission under way is one that o can hold, and what it stands for is still there:
\* the caller that will wait does not wait yet, and a delivery is in the log.
AdmissionFits(o) ==
    admission[o] # Idling =>
      /\ admission[o].what = "reserve" => o = "actor" /\ admission[o].who \in Clients
      /\ admission[o].what = "wake" =>
           /\ o = "actor" /\ waiting[admission[o].who] = "no"
           /\ admission[o].who \in Clients => Owes(admission[o].who)
      /\ admission[o].what = "commit" => o \in Threads
      /\ admission[o].what \in Messages => o \in Threads /\ admission[o].who = o /\ <<"message", admission[o].what>> \in items[o]

\* Every admission under way fits.
AdmissionInv == \A o \in Objects : AdmissionFits(o)
\* Whoever waits for the actor is where a wait begins.
WaitInv ==
    /\ \A c \in Clients : waiting[c] # "no" => Owes(c)
    /\ \A t \in Threads : waiting[t] # "no" => pass[t].step = "asking"
\* A client names the thread that is reserved for its very request.
ClientInv ==
    \A c \in Clients :
      /\ clients[c].step \in {"reserving", "reserved", "forThread", "answered"} =>
           clients[c].thread \in Threads /\ directory[clients[c].thread] = Wants[c]
      /\ clients[c].step = "answered" => clients[c].thread \in registered

(* Alarms *)

\* A pass that has begun to work has left an alarm behind; one that fired or failed may have none.
AlarmInv ==
    \A o \in Objects :
      /\ pass[o].step \notin {"idle", "fired", "failed"} => alarm[o] <= RecoveryDelay
      /\ pass[o].step \in {"fired", "failed"} => alarm[o] <= RecoveryDelay \/ alarm[o] = Unset
\* Whoever came after the pass began has changed the version.
NextInv ==
    \A x \in Callers : waiting[x] = "next" /\ pass["actor"].step \notin {"idle", "fired"} => admitted["actor"]

(* Answers *)

\* What was answered for is in storage: a reservation in the directory, a delivery in the log.
AckInv ==
    /\ \A t \in Threads : <<"actor", t>> \in acked => directory[t] # Free
    /\ \A t \in Threads, m \in Messages : <<t, m>> \in acked => <<"message", m>> \in items[t]

\* The inductive invariant of the objects.
ObjectsInv ==
    /\ ObjectsType /\ DirectoryInv
    /\ AdmissionInv /\ WaitInv /\ ClientInv
    /\ AlarmInv /\ NextInv /\ WaitersCovered
    /\ AckInv /\ WorkCovered

-----------------------------------------------------------------------------
\* Times are naturals below Unset, and the two delays are times.
LEMMA TimeFacts ==
    /\ Times \subseteq Nat /\ 0 \in Times /\ RecoveryDelay \in Times /\ Deadline \in Times
    /\ Unset \in Nat /\ Unset \notin Times /\ Closed \notin Times
    /\ \A d \in Times : d < Unset
    /\ RecoveryDelay \in Nat /\ RecoveryDelay < Unset
BY ObjectsAssumption DEF Times, Unset, Closed

\* What a tick makes of an alarm, and of a deadline b that it stands for.
LEMMA TickFacts ==
    ASSUME NEW a \in Times \cup {Unset}, NEW d, d = IF a \in Times \ {0} THEN a - 1 ELSE a
    PROVE  /\ a <= RecoveryDelay => d <= RecoveryDelay
           /\ a = Unset => d = Unset
           /\ a = 0 => d = 0
           /\ \A b \in Times : a <= b => d <= RecoveryDelay \/ d <= (IF b \in Times \ {0} THEN b - 1 ELSE b)
<1>1. CASE a = Unset
  <2>1. d = Unset
    BY <1>1, TimeFacts
  <2>2. \A b \in Times : ~(Unset <= b)
    BY TimeFacts
  <2> QED
    BY <1>1, <2>1, <2>2, TimeFacts
<1>2. CASE a = 0
  BY <1>2, TimeFacts
<1>3. CASE a \in Times \ {0}
  <2>1. a \in Nat /\ a # 0 /\ d = a - 1 /\ d \in Nat /\ a # Unset
    BY <1>3, TimeFacts
  <2>2. ASSUME NEW b \in Times, a <= b PROVE d <= IF b \in Times \ {0} THEN b - 1 ELSE b
    <3>1. b \in Nat /\ b # 0
      BY <2>1, <2>2, TimeFacts
    <3>2. (IF b \in Times \ {0} THEN b - 1 ELSE b) = b - 1
      BY <3>1
    <3>3. d <= b - 1
      BY <2>1, <2>2, <3>1
    <3> QED
      BY <3>2, <3>3
  <2>3. a <= RecoveryDelay => d <= RecoveryDelay
    BY <2>1, TimeFacts
  <2> QED
    BY <1>3, <2>1, <2>2, <2>3
<1> QED
  BY <1>1, <1>2, <1>3

\* The alarm a pass leaves behind is a time within the recovery delay (armAt).
LEMMA ArmFits ==
    ASSUME NEW time \in Times \cup {Unset}
    PROVE  armAt(time) \in Times /\ armAt(time) <= RecoveryDelay
BY TimeFacts DEF armAt

\* With work left the next alarm is within the recovery delay, and at rest it is the deadline
\* (scheduledAlarmAt).
LEMMA ScheduledFits ==
    ASSUME NEW current \in Times \cup {Unset}, NEW resting \in BOOLEAN, NEW wakeAt \in Times \cup {Unset}
    PROVE  /\ scheduledAlarmAt(current, resting, wakeAt) \in Times \cup {Unset}
           /\ ~resting => scheduledAlarmAt(current, resting, wakeAt) <= RecoveryDelay
           /\ resting => scheduledAlarmAt(current, resting, wakeAt) = wakeAt
BY TimeFacts DEF scheduledAlarmAt

\* A set of naturals that is not empty has a least element.
LEMMA LeastTime ==
    ASSUME NEW S, S \subseteq Nat, S # {}
    PROVE  \E x \in S : \A y \in S : x <= y
<1>1. PICK x \in S : \A y \in S : ~(<<y, x>> \in OpToRel(<, Nat))
  BY NatLessThanWellFounded, WFMin
<1>2. ASSUME NEW y \in S PROVE x <= y
  <2>1. x \in Nat /\ y \in Nat /\ ~(y < x)
    BY <1>1, <1>2 DEF OpToRel
  <2> QED
    BY <2>1
<1> QED
  BY <1>2

\* nextAlarmDeadline is a time or Unset, and no open timed message has less left.
LEMMA DeadlineFits ==
    ASSUME ObjectsType, NEW t \in Threads
    PROVE  /\ nextAlarmDeadline(t) \in Times \cup {Unset}
           /\ \A m \in Open(t) : nextAlarmDeadline(t) <= left[t][m]
<1>1. CASE Open(t) = {}
  BY <1>1 DEF nextAlarmDeadline
<1>2. CASE Open(t) # {}
  <2> DEFINE S == {left[t][m] : m \in Open(t)}
             P(d) == (\E m \in Open(t) : left[t][m] = d) /\ (\A m \in Open(t) : d <= left[t][m])
  <2>1. S \subseteq Times /\ S # {}
    <3>1. \A m \in Open(t) : left[t][m] \in Times \cup {Closed} /\ left[t][m] # Closed
      BY DEF ObjectsType, Open
    <3> QED
      BY <1>2, <3>1
  <2>2. PICK d \in S : \A e \in S : d <= e
    BY <2>1, TimeFacts, LeastTime
  <2>3. d \in Times /\ P(d)
    BY <2>1, <2>2
  <2>4. nextAlarmDeadline(t) = CHOOSE x \in Times : P(x)
    BY <1>2 DEF nextAlarmDeadline
  <2> HIDE DEF P, S
  <2>5. nextAlarmDeadline(t) \in Times /\ P(nextAlarmDeadline(t))
    BY <2>3, <2>4
  <2> QED
    BY <2>5 DEF P
<1> QED
  BY <1>1, <1>2

\* What a pass asks of its alarm in the end is a time or Unset (synchronizeAlarm).
LEMMA NeededFits ==
    ASSUME ObjectsType, NEW o \in Objects
    PROVE  Needed(o) \in Times \cup {Unset}
<1>1. alarm[o] \in Times \cup {Unset}
  BY DEF ObjectsType
<1>2. o # "actor" => nextAlarmDeadline(o) \in Times \cup {Unset}
  BY DeadlineFits DEF Objects
<1>3. (Requested = {}) \in BOOLEAN /\ (~marked[o] /\ items[o] \subseteq served[o]) \in BOOLEAN
  OBVIOUS
<1> QED
  BY <1>1, <1>2, <1>3, ScheduledFits DEF Needed

-----------------------------------------------------------------------------
\* The records of passes and clients are closed under the updates of the actions.
LEMMA Records ==
    /\ \A x \in PassSteps : [step |-> x] \in Passes
    /\ \A x \in Creating, t \in Threads : [step |-> x, thread |-> t] \in Passes
    /\ Idling \in Passes
    /\ \A r \in ClientRecords, x \in ClientSteps :
         /\ [r EXCEPT !.step = x] \in ClientRecords
         /\ [r EXCEPT !.step = x].step = x /\ [r EXCEPT !.step = x].thread = r.thread
    /\ \A r \in ClientRecords : r.step \in ClientSteps /\ r.thread \in Threads \cup {Root}
    /\ \A p \in Passes : p.step \in PassSteps \cup Creating /\ (p.step \in Creating => p.thread \in Threads)
BY DEF Passes, PassSteps, Readied, Creating, ClientRecords, ClientSteps, Idling

\* The answer to an admission leaves callers, waiters and passes in their sets (Told).
LEMMA ToldFits ==
    ASSUME ObjectsType, AdmissionInv, NEW o \in Objects, admission[o] # Idling, NEW ok \in BOOLEAN, Told(admission[o], ok)
    PROVE  /\ clients' \in [Clients -> ClientRecords]
           /\ waiting' \in [Callers -> {"no", "next", "covered"}]
           /\ pass' \in [Objects -> Passes]
<1> DEFINE a == admission[o]
<1>1. a.what \in {"reserve", "wake", "commit"} \cup Messages /\ a.who \in Callers
  BY DEF ObjectsType, Admissions
<1>2. \A x \in {"reserved", "failed"} : x \in ClientSteps
  BY DEF ClientSteps
<1>3. {"failed", "committed"} \subseteq PassSteps \cup Creating /\ "failed" \in PassSteps /\ "committed" \in Creating
  BY DEF PassSteps, Creating
<1>4. "actor" \in Objects /\ Threads \subseteq Objects
  BY DEF Objects
<1>5. clients \in [Clients -> ClientRecords] /\ pass \in [Objects -> Passes] /\ waiting \in [Callers -> {"no", "next", "covered"}]
  BY DEF ObjectsType
<1>6. CASE a.what = "reserve"
  <2>1. a.who \in Clients
    BY <1>6, AdmissionInv DEF AdmissionInv, AdmissionFits
  <2>2. clients' = (IF clients[a.who].step # "reserving" THEN clients
                    ELSE [clients EXCEPT ![a.who].step = IF ok THEN "reserved" ELSE "failed"]) /\ waiting' = waiting /\ pass' = pass
    BY <1>6, ObjectsAssumption DEF Told
  <2> QED
    BY <1>2, <1>5, <2>1, <2>2, Records
<1>7. CASE a.what = "wake"
  <2>1. /\ waiting' = IF ok /\ Asking(a.who) THEN [waiting EXCEPT ![a.who] = "next"] ELSE waiting
        /\ clients' = IF ok \/ a.who \notin Clients THEN clients ELSE [clients EXCEPT ![a.who].step = "failed"]
        /\ pass' = IF ok \/ a.who \notin Threads \/ ~Asking(a.who) THEN pass ELSE [pass EXCEPT ![a.who] = [step |-> "failed"]]
    BY <1>7, ObjectsAssumption DEF Told
  <2>2. waiting' \in [Callers -> {"no", "next", "covered"}]
    BY <2>1, <1>1, <1>5
  <2>3. clients' \in [Clients -> ClientRecords]
    BY <2>1, <1>2, <1>5, Records
  <2>4. pass' \in [Objects -> Passes]
    BY <2>1, <1>3, <1>4, <1>5, Records
  <2> QED
    BY <2>2, <2>3, <2>4
<1>8. CASE a.what = "commit"
  <2>1. /\ pass' = IF pass["actor"] # [step |-> "committing", thread |-> a.who] THEN pass
                   ELSE [pass EXCEPT !["actor"] = IF ok THEN [step |-> "committed", thread |-> a.who] ELSE [step |-> "failed"]]
        /\ clients' = clients /\ waiting' = waiting
    BY <1>8, ObjectsAssumption DEF Told
  <2>2. ASSUME pass["actor"] = [step |-> "committing", thread |-> a.who] PROVE a.who \in Threads
    BY <2>2, <1>4, <1>5, Records DEF Creating
  <2> QED
    BY <2>1, <2>2, <1>3, <1>4, <1>5, Records
<1>9. CASE a.what \in Messages
  BY <1>9, <1>5, ObjectsAssumption DEF Told
<1> QED
  BY <1>1, <1>6, <1>7, <1>8, <1>9

\* A caller that is told: what becomes of it.
LEMMA HeardFits ==
    ASSUME ObjectsType, NEW ok \in BOOLEAN
    PROVE  /\ \A t \in Threads : Heard(t, ok) = [step |-> IF ok /\ t \in registered THEN "ready" ELSE "failed"] /\ Heard(t, ok) \in Passes
           /\ \A c \in Clients : Heard(c, ok) \in ClientRecords
<1>1. ASSUME NEW t \in Threads
      PROVE  Heard(t, ok) = [step |-> IF ok /\ t \in registered THEN "ready" ELSE "failed"] /\ Heard(t, ok) \in Passes
  BY Records DEF Heard, PassSteps, Readied
<1>2. ASSUME NEW c \in Clients PROVE Heard(c, ok) \in ClientRecords
  <2>1. c \notin Threads /\ clients[c] \in ClientRecords
    BY ObjectsAssumption DEF ObjectsType
  <2>2. {"failed", "answered", "idle"} \subseteq ClientSteps
    BY DEF ClientSteps
  <2>3. [step |-> "idle", thread |-> Root] \in ClientRecords
    BY <2>2 DEF ClientRecords
  <2> QED
    BY <2>1, <2>2, <2>3, Records DEF Heard
<1> QED
  BY <1>1, <1>2

\* So does the end of a pass (End).
LEMMA EndFits ==
    ASSUME ObjectsType, NEW o \in Objects, NEW ok \in BOOLEAN, NEW next \in Times \cup {Unset}, End(o, ok, next)
    PROVE  /\ alarm' \in [Objects -> Times \cup {Unset}]
           /\ clients' \in [Clients -> ClientRecords]
           /\ waiting' \in [Callers -> {"no", "next", "covered"}]
           /\ pass' \in [Objects -> Passes]
<1> DEFINE told == IF o = "actor" THEN {x \in Callers : waiting[x] = "covered"} ELSE {}
<1>1. /\ alarm' = [alarm EXCEPT ![o] = next]
      /\ waiting' = [x \in Callers |-> IF x \in told THEN "no" ELSE waiting[x]]
      /\ clients' = [c \in Clients |-> IF c \in told THEN Heard(c, ok) ELSE clients[c]]
      /\ pass' = [x \in Objects |-> IF x = o THEN Idling ELSE IF x \in told THEN Heard(x, ok) ELSE pass[x]]
  BY DEF End
<1>2. told \subseteq Callers /\ (o # "actor" => told = {})
  OBVIOUS
<1>3. \A x \in Objects : x # o /\ x \in told => x \in Threads
  BY <1>2 DEF Objects
<1> HIDE DEF told
<1>4. alarm' \in [Objects -> Times \cup {Unset}]
  BY <1>1 DEF ObjectsType
<1>5. waiting' \in [Callers -> {"no", "next", "covered"}]
  BY <1>1 DEF ObjectsType
<1>6. clients' \in [Clients -> ClientRecords]
  BY <1>1, HeardFits DEF ObjectsType
<1>7. pass' \in [Objects -> Passes]
  BY <1>1, <1>3, HeardFits, Records DEF ObjectsType
<1> QED
  BY <1>4, <1>5, <1>6, <1>7

\* Every action keeps every variable in its set.
LEMMA TypeStep ==
    ASSUME ObjectsType, DirectoryInv, AdmissionInv, ClientInv, ObjectsNext
    PROVE  ObjectsType'
<1>1. ASSUME NEW c \in Clients, reserveThread(c) PROVE ObjectsType'
  BY <1>1, TimeFacts, ObjectsAssumption DEF reserveThread, Candidates, Assigned, Admitting, ObjectsType, Objects, Callers, PassSteps, Readied, Creating, Passes, ClientSteps, ClientRecords, Admissions, stored, Items, Requested, Idling
<1>2. ASSUME NEW c \in Clients, Refuse(c) PROVE ObjectsType'
  <2>1. clients' \in [Clients -> ClientRecords]
    BY <1>2, Records DEF Refuse, ObjectsType, ClientSteps
  <2> QED
    BY <1>2, <2>1 DEF Refuse, ObjectsType, stored
<1>3. ASSUME NEW c \in Clients, Wait(c) PROVE ObjectsType'
  BY <1>3, TimeFacts, ObjectsAssumption DEF Wait, Awaited, Admitting, ObjectsType, Objects, Callers, PassSteps, Readied, Creating, Passes, ClientSteps, ClientRecords, Admissions, stored, Items, Requested, Idling
<1>4. ASSUME NEW c \in Clients, FinishAllocation(c) PROVE ObjectsType'
  BY <1>4, TimeFacts, ObjectsAssumption DEF FinishAllocation, ObjectsType, Objects, Callers, PassSteps, Readied, Creating, Passes, ClientSteps, ClientRecords, Admissions, stored, Items, Requested, Idling
<1>5. ASSUME NEW c \in Clients, Again(c) PROVE ObjectsType'
  BY <1>5, TimeFacts, ObjectsAssumption DEF Again, ObjectsType, Objects, Callers, PassSteps, Readied, Creating, Passes, ClientSteps, ClientRecords, Admissions, stored, Items, Requested, Idling
<1>6. ASSUME NEW t \in Threads, NEW m \in Messages, deliver(t, m) PROVE ObjectsType'
  BY <1>6, TimeFacts, ObjectsAssumption DEF deliver, Admitting, ObjectsType, Objects, Callers, PassSteps, Readied, Creating, Passes, ClientSteps, ClientRecords, Admissions, stored, Items, Requested, Idling
<1>7. ASSUME NEW o \in Objects, Publish(o) PROVE ObjectsType'
  <2>1. /\ clients' \in [Clients -> ClientRecords]
        /\ waiting' \in [Callers -> {"no", "next", "covered"}]
        /\ pass' \in [Objects -> Passes]
    BY <1>7, ToldFits DEF Publish
  <2>2. admission' \in [Objects -> Admissions]
    BY <1>7 DEF Publish, ObjectsType, Admissions
  <2>3. alarm' \in [Objects -> Times \cup {Unset}] /\ admitted' \in [Objects -> BOOLEAN]
    BY <1>7, TimeFacts DEF Publish, ObjectsType
  <2> QED
    BY <1>7, <2>1, <2>2, <2>3 DEF Publish, ObjectsType, stored
<1>8. ASSUME NEW o \in Objects, AdmissionFails(o) PROVE ObjectsType'
  <2>1. /\ clients' \in [Clients -> ClientRecords]
        /\ waiting' \in [Callers -> {"no", "next", "covered"}]
        /\ pass' \in [Objects -> Passes]
    BY <1>8, ToldFits DEF AdmissionFails
  <2>2. admission' \in [Objects -> Admissions]
    BY <1>8 DEF AdmissionFails, ObjectsType, Admissions
  <2>3. alarm' \in [Objects -> Times \cup {Unset}] /\ admitted' \in [Objects -> BOOLEAN]
    BY <1>8, TimeFacts DEF AdmissionFails, ObjectsType
  <2> QED
    BY <1>8, <2>1, <2>2, <2>3 DEF AdmissionFails, ObjectsType, stored
<1>9. ASSUME NEW o \in Objects, Fire(o) PROVE ObjectsType'
  BY <1>9, TimeFacts, ObjectsAssumption DEF Fire, Go, ObjectsType, Objects, Callers, PassSteps, Readied, Creating, Passes, ClientSteps, ClientRecords, Admissions, stored, Items, Requested, Idling
<1>10. ASSUME NEW o \in Objects, Arm(o) PROVE ObjectsType'
  <2>1. waiting' \in [Callers -> {"no", "next", "covered"}]
    BY <1>10 DEF Arm, Covering, ObjectsType
  <2>2. alarm' \in [Objects -> Times \cup {Unset}] /\ admitted' \in [Objects -> BOOLEAN]
    BY <1>10, ArmFits DEF Arm, ObjectsType
  <2>3. pass' \in [Objects -> Passes]
    BY <1>10, Records DEF Arm, Go, ObjectsType, PassSteps
  <2> QED
    BY <1>10, <2>1, <2>2, <2>3 DEF Arm, ObjectsType, stored
<1>11. ASSUME NEW o \in Objects, Synchronize(o) PROVE ObjectsType'
  <2>1. Needed(o) \in Times \cup {Unset} /\ alarm[o] \in Times \cup {Unset}
    BY NeededFits DEF ObjectsType
  <2>2. (IF admitted[o] THEN alarm[o] ELSE Needed(o)) \in Times \cup {Unset}
    BY <2>1
  <2>3. /\ alarm' \in [Objects -> Times \cup {Unset}]
        /\ clients' \in [Clients -> ClientRecords]
        /\ waiting' \in [Callers -> {"no", "next", "covered"}]
        /\ pass' \in [Objects -> Passes]
    BY <1>11, <2>2, EndFits DEF Synchronize
  <2> QED
    BY <1>11, <2>3 DEF Synchronize, ObjectsType, stored
<1>12. ASSUME NEW o \in Objects, Fail(o) PROVE ObjectsType'
  <2>1. (IF alarm[o] = Unset THEN 0 ELSE alarm[o]) \in Times \cup {Unset}
    BY TimeFacts DEF ObjectsType
  <2>2. /\ alarm' \in [Objects -> Times \cup {Unset}]
        /\ clients' \in [Clients -> ClientRecords]
        /\ waiting' \in [Callers -> {"no", "next", "covered"}]
        /\ pass' \in [Objects -> Passes]
    BY <1>12, <2>1, EndFits DEF Fail
  <2> QED
    BY <1>12, <2>2 DEF Fail, ObjectsType, stored
<1>13. ASSUME NEW o \in Objects, Break(o) PROVE ObjectsType'
  BY <1>13, TimeFacts, ObjectsAssumption DEF Break, Covering, Go, ObjectsType, Objects, Callers, PassSteps, Readied, Creating, Passes, ClientSteps, ClientRecords, Admissions, stored, Items, Requested, Idling
<1>14. ASSUME NEW o \in Objects, Evict(o) PROVE ObjectsType'
  <2>1. alarm' \in [Objects -> Times \cup {Unset}]
    BY <1>14, TimeFacts DEF Evict, ObjectsType
  <2>2. admission' \in [Objects -> Admissions] /\ admitted' \in [Objects -> BOOLEAN]
    BY <1>14 DEF Evict, ObjectsType, Admissions
  <2>3. seen' \in [Threads -> SUBSET Items]
    BY <1>14 DEF Evict, ObjectsType
  <2>4. waiting' \in [Callers -> {"no", "next", "covered"}]
    BY <1>14 DEF Evict, ObjectsType
  <2>5. clients' \in [Clients -> ClientRecords]
    BY <1>14, Records DEF Evict, ObjectsType, ClientSteps
  <2>6. pass' \in [Objects -> Passes]
    BY <1>14, Records DEF Evict, ObjectsType, PassSteps
  <2> QED
    BY <1>14, <2>1, <2>2, <2>3, <2>4, <2>5, <2>6 DEF Evict, ObjectsType, stored
<1>15. ASSUME NEW t \in Threads, create(t) PROVE ObjectsType'
  <2>1. lineage' \in [Threads -> Threads \cup {Root, Uncreated}]
    <3>1. directory[t].parent \in Threads \cup {Root}
      BY <1>15, ObjectsAssumption DEF create, Requested, ObjectsType
    <3> QED
      BY <1>15, <3>1 DEF create, ObjectsType
  <2>2. pass' \in [Objects -> Passes]
    BY <1>15, Records DEF create, ObjectsType, Creating, Readied
  <2> QED
    BY <1>15, <2>1, <2>2 DEF create, ObjectsType
<1>16. ASSUME NEW t \in Threads, commitCreation(t) PROVE ObjectsType'
  BY <1>16, TimeFacts, ObjectsAssumption DEF commitCreation, Admitting, ObjectsType, Objects, Callers, PassSteps, Readied, Creating, Passes, ClientSteps, ClientRecords, Admissions, stored, Items, Requested, Idling
<1>17. ASSUME NEW t \in Threads, ThreadRegistered(t) PROVE ObjectsType'
  BY <1>17, TimeFacts, ObjectsAssumption DEF ThreadRegistered, Go, ObjectsType, Objects, Callers, PassSteps, Readied, Creating, Passes, ClientSteps, ClientRecords, Admissions, stored, Items, Requested, Idling
<1>18. ASSUME Reconciled PROVE ObjectsType'
  BY <1>18, TimeFacts, ObjectsAssumption DEF Reconciled, Go, ObjectsType, Objects, Callers, PassSteps, Readied, Creating, Passes, ClientSteps, ClientRecords, Admissions, stored, Items, Requested, Idling
<1>19. ASSUME NEW t \in Threads, ensureThreadReady(t) PROVE ObjectsType'
  <2>1. admission' \in [Objects -> Admissions]
    BY <1>19 DEF ensureThreadReady, Admitting, ObjectsType, Admissions, Callers
  <2>2. PICK x \in {"ready", "asking"} : pass' = [pass EXCEPT ![t] = [step |-> x]]
    BY <1>19 DEF ensureThreadReady, Go
  <2>3. x \in PassSteps
    BY DEF PassSteps, Readied
  <2>4. pass' \in [Objects -> Passes]
    BY <2>2, <2>3, Records DEF ObjectsType
  <2> QED
    BY <1>19, <2>1, <2>4 DEF ensureThreadReady, ObjectsType, stored
<1>20. ASSUME NEW t \in Threads, recordAlarm(t) PROVE ObjectsType'
  BY <1>20, TimeFacts, ObjectsAssumption DEF recordAlarm, Go, ObjectsType, Objects, Callers, PassSteps, Readied, Creating, Passes, ClientSteps, ClientRecords, Admissions, stored, Items, Requested, Idling
<1>21. ASSUME NEW t \in Threads, Serve(t) PROVE ObjectsType'
  BY <1>21, TimeFacts, ObjectsAssumption DEF Serve, Go, ObjectsType, Objects, Callers, PassSteps, Readied, Creating, Passes, ClientSteps, ClientRecords, Admissions, stored, Items, Requested, Idling
<1>22. ASSUME NEW t \in Threads, Served(t) PROVE ObjectsType'
  BY <1>22, TimeFacts, ObjectsAssumption DEF Served, Go, ObjectsType, Objects, Callers, PassSteps, Readied, Creating, Passes, ClientSteps, ClientRecords, Admissions, stored, Items, Requested, Idling
<1>23. ASSUME NEW t \in Threads, Drained(t) PROVE ObjectsType'
  BY <1>23, TimeFacts, ObjectsAssumption DEF Drained, Go, ObjectsType, Objects, Callers, PassSteps, Readied, Creating, Passes, ClientSteps, ClientRecords, Admissions, stored, Items, Requested, Idling
<1>24. ASSUME Tick PROVE ObjectsType'
  <2>1. \A d \in Times : d # 0 => d - 1 \in Times
    BY ObjectsAssumption DEF Times
  <2>2. alarm' \in [Objects -> Times \cup {Unset}]
    BY <1>24, <2>1 DEF Tick, ObjectsType
  <2>3. left' \in [Threads -> [Timed -> Times \cup {Closed}]]
    BY <1>24, <2>1 DEF Tick, ObjectsType
  <2> QED
    BY <1>24, <2>2, <2>3 DEF Tick, ObjectsType
<1> QED
  BY <1>1, <1>2, <1>3, <1>4, <1>5, <1>6, <1>7, <1>8, <1>9, <1>10, <1>11, <1>12, <1>13, <1>14, <1>15, <1>16, <1>17, <1>18, <1>19, <1>20, <1>21, <1>22, <1>23, <1>24 DEF ObjectsNext

-----------------------------------------------------------------------------
\* What an answer to an admission of o changes.
ToldPass ==
    \A x \in Objects :
      \/ pass'[x] = pass[x]
      \/ pass'[x].step = "failed" /\ pass[x].step = "asking" /\ x \in Threads /\ waiting[x] = "no" /\ waiting' = waiting
      \/ pass'[x].step = "failed" /\ pass[x].step = "committing" /\ x = "actor"
      \/ pass'[x].step = "committed" /\ pass'[x].thread = pass[x].thread /\ pass[x].step = "committing" /\ x = "actor"
ToldWaiting(o, ok) ==
    \A x \in Callers :
      \/ waiting'[x] = waiting[x]
      \/ /\ ok /\ o = "actor" /\ waiting'[x] = "next" /\ clients' = clients /\ pass' = pass
         /\ x \in Clients => Owes(x)
         /\ x \in Threads => pass[x].step = "asking"
ToldClients(o) ==
    \A c \in Clients :
      \/ clients'[c] = clients[c]
      \/ /\ o = "actor" /\ waiting' = waiting
         /\ \/ clients'[c].step = "failed" /\ (waiting[c] = "no" \/ clients[c].step = "reserving")
            \/ clients'[c].step = "reserved" /\ clients'[c].thread = clients[c].thread /\ clients[c].step = "reserving"
ToldAcked(o, ok) ==
    \A e \in acked' :
      \/ e \in acked
      \/ ok /\ o = "actor" /\ \E c \in Clients : clients[c].step = "reserving" /\ e = <<"actor", clients[c].thread>>
      \/ ok /\ o \in Threads /\ \E m \in Messages : e = <<o, m>> /\ <<"message", m>> \in items[o]

\* What the answer to the admission of o does to passes, waiters, clients and answers.
LEMMA ToldMoves ==
    ASSUME ObjectsType, AdmissionInv, NEW o \in Objects, admission[o] # Idling, NEW ok \in BOOLEAN, Told(admission[o], ok)
    PROVE  ToldPass /\ ToldWaiting(o, ok) /\ ToldClients(o) /\ ToldAcked(o, ok)
<1> DEFINE a == admission[o]
<1>1. a.what \in {"reserve", "wake", "commit"} \cup Messages /\ a.who \in Callers
  BY DEF ObjectsType, Admissions
<1>2. clients \in [Clients -> ClientRecords] /\ pass \in [Objects -> Passes] /\ waiting \in [Callers -> {"no", "next", "covered"}]
  BY DEF ObjectsType
<1>3. "actor" \in Objects /\ "actor" \notin Threads /\ Threads \subseteq Objects /\ Callers = Clients \cup Threads /\ Clients \cap Threads = {}
  BY ObjectsAssumption DEF Objects, Callers
<1>4. {"reserved", "failed"} \subseteq ClientSteps
  BY DEF ClientSteps
<1>5. CASE a.what = "reserve"
  <2>1. a.who \in Clients /\ o = "actor"
    BY <1>5 DEF AdmissionInv, AdmissionFits
  <2>2. /\ clients' = (IF clients[a.who].step # "reserving" THEN clients
                       ELSE [clients EXCEPT ![a.who].step = IF ok THEN "reserved" ELSE "failed"])
        /\ acked' = IF ok /\ clients[a.who].step = "reserving" THEN acked \cup {<<"actor", clients[a.who].thread>>} ELSE acked
        /\ waiting' = waiting /\ pass' = pass
    BY <1>5, ObjectsAssumption DEF Told
  <2>3. \A c \in Clients : \/ clients'[c] = clients[c]
                           \/ clients'[c] = [clients[c] EXCEPT !.step = IF ok THEN "reserved" ELSE "failed"] /\ clients[c].step = "reserving"
    BY <1>2, <2>1, <2>2
  <2>4. ASSUME NEW c \in Clients
        PROVE   \/ clients'[c] = clients[c]
                \/ clients'[c].step = "failed" /\ clients[c].step = "reserving"
                \/ /\ clients'[c].step = "reserved" /\ clients'[c].thread = clients[c].thread
                   /\ clients[c].step = "reserving"
    <3>1. clients[c] \in ClientRecords
      BY <1>2
    <3>2. CASE ok
      BY <1>4, <2>3, <3>1, <3>2 DEF ClientRecords
    <3>3. CASE ~ok
      BY <1>4, <2>3, <3>1, <3>3 DEF ClientRecords
    <3> QED
      BY <3>2, <3>3
  <2> HIDE DEF a
  <2> QED
    BY <2>1, <2>2, <2>4 DEF ToldPass, ToldWaiting, ToldClients, ToldAcked
<1>6. CASE a.what = "wake"
  <2>1. /\ waiting' = IF ok /\ Asking(a.who) THEN [waiting EXCEPT ![a.who] = "next"] ELSE waiting
        /\ clients' = IF ok \/ a.who \notin Clients THEN clients ELSE [clients EXCEPT ![a.who].step = "failed"]
        /\ pass' = IF ok \/ a.who \notin Threads \/ ~Asking(a.who) THEN pass ELSE [pass EXCEPT ![a.who] = [step |-> "failed"]]
        /\ acked' = acked
    BY <1>6, ObjectsAssumption DEF Told
  <2>2. o = "actor" /\ waiting[a.who] = "no" /\ (a.who \in Clients => Owes(a.who))
    BY <1>6 DEF AdmissionInv, AdmissionFits
  <2>3. a.who \in Threads /\ Asking(a.who) => pass[a.who].step = "asking"
    BY <1>3 DEF Asking
  <2> HIDE DEF a
  <2>4. CASE ok
    <3>1. clients' = clients /\ pass' = pass
      BY <2>1, <2>4
    <3>2. \A x \in Callers : waiting'[x] = waiting[x] \/ (x = a.who /\ waiting'[x] = "next" /\ Asking(a.who))
      BY <1>1, <1>2, <2>1, <2>4
    <3> QED
      BY <2>1, <2>2, <2>3, <2>4, <3>1, <3>2 DEF ToldPass, ToldWaiting, ToldClients, ToldAcked
  <2>5. CASE ~ok
    <3>1. waiting' = waiting
      BY <2>1, <2>5
    <3>2. \A c \in Clients : clients'[c] = clients[c] \/ (c = a.who /\ clients'[c] = [clients[c] EXCEPT !.step = "failed"])
      BY <1>2, <2>1, <2>5
    <3>3. \A c \in Clients : clients'[c] = clients[c] \/ (c = a.who /\ clients'[c].step = "failed")
      BY <1>2, <1>4, <3>2 DEF ClientRecords
    <3>4. \A x \in Objects : pass'[x] = pass[x] \/ (x = a.who /\ x \in Threads /\ Asking(x) /\ pass'[x] = [step |-> "failed"])
      BY <1>2, <2>1, <2>5
    <3>5. \A x \in Objects : pass'[x] = pass[x] \/ (x = a.who /\ x \in Threads /\ Asking(a.who) /\ pass'[x].step = "failed")
      BY <3>4
    <3> QED
      BY <2>1, <2>2, <2>3, <3>1, <3>3, <3>5 DEF ToldPass, ToldWaiting, ToldClients, ToldAcked
  <2> QED
    BY <2>4, <2>5
<1>7. CASE a.what = "commit"
  <2>1. /\ pass' = IF pass["actor"] # [step |-> "committing", thread |-> a.who] THEN pass
                   ELSE [pass EXCEPT !["actor"] = IF ok THEN [step |-> "committed", thread |-> a.who] ELSE [step |-> "failed"]]
        /\ clients' = clients /\ waiting' = waiting /\ acked' = acked
    BY <1>7, ObjectsAssumption DEF Told
  <2> HIDE DEF a
  <2>2. \A x \in Objects : \/ pass'[x] = pass[x]
                           \/ /\ x = "actor" /\ pass[x] = [step |-> "committing", thread |-> a.who]
                              /\ pass'[x] = IF ok THEN [step |-> "committed", thread |-> a.who] ELSE [step |-> "failed"]
    BY <1>2, <2>1
  <2>3. \A x \in Objects : \/ pass'[x] = pass[x]
                           \/ /\ x = "actor" /\ pass[x].step = "committing" /\ pass[x].thread = a.who
                              /\ \/ pass'[x].step = "committed" /\ pass'[x].thread = a.who
                                 \/ pass'[x].step = "failed"
    BY <2>2
  <2> QED
    BY <2>1, <2>3 DEF ToldPass, ToldWaiting, ToldClients, ToldAcked
<1>8. CASE a.what \in Messages
  <2>1. acked' = (IF ok THEN acked \cup {<<a.who, a.what>>} ELSE acked) /\ clients' = clients /\ waiting' = waiting /\ pass' = pass
    BY <1>8, ObjectsAssumption DEF Told
  <2>2. o \in Threads /\ a.who = o /\ <<"message", a.what>> \in items[o]
    BY <1>8 DEF AdmissionInv, AdmissionFits
  <2> HIDE DEF a
  <2> QED
    BY <1>8, <2>1, <2>2 DEF ToldPass, ToldWaiting, ToldClients, ToldAcked
<1> QED
  BY <1>1, <1>5, <1>6, <1>7, <1>8

\* What the end of a pass of o changes.
EndPass(o) ==
    \A x \in Objects :
      \/ x # o /\ pass'[x] = pass[x] /\ (o = "actor" /\ x \in Threads => waiting[x] # "covered")
      \/ x = o /\ pass'[x].step = "idle"
      \/ /\ x # o /\ o = "actor" /\ x \in Threads /\ waiting[x] = "covered"
         /\ pass'[x].step = "failed" \/ (pass'[x].step = "ready" /\ x \in registered)
EndCallers(o, ok) ==
    /\ o # "actor" => waiting' = waiting /\ clients' = clients
    /\ o = "actor" =>
         /\ \A x \in Callers : IF waiting[x] = "covered" THEN waiting'[x] = "no" ELSE waiting'[x] = waiting[x]
         /\ \A c \in Clients : IF waiting[c] = "covered" THEN clients'[c] = Heard(c, ok) ELSE clients'[c] = clients[c]

\* What the end of a pass of o does to passes, waiters and clients.
LEMMA EndMoves ==
    ASSUME ObjectsType, NEW o \in Objects, NEW ok \in BOOLEAN, NEW next, End(o, ok, next)
    PROVE  alarm' = [alarm EXCEPT ![o] = next] /\ EndPass(o) /\ EndCallers(o, ok)
<1> DEFINE told == IF o = "actor" THEN {x \in Callers : waiting[x] = "covered"} ELSE {}
<1>1. /\ alarm' = [alarm EXCEPT ![o] = next]
      /\ waiting' = [x \in Callers |-> IF x \in told THEN "no" ELSE waiting[x]]
      /\ clients' = [c \in Clients |-> IF c \in told THEN Heard(c, ok) ELSE clients[c]]
      /\ pass' = [x \in Objects |-> IF x = o THEN Idling ELSE IF x \in told THEN Heard(x, ok) ELSE pass[x]]
  BY DEF End
<1>2. Callers = Clients \cup Threads /\ Objects = {"actor"} \cup Threads
  BY DEF Callers, Objects
<1>3. o # "actor" => told = {}
  OBVIOUS
<1>4. o = "actor" => told = {x \in Callers : waiting[x] = "covered"}
  OBVIOUS
<1> HIDE DEF told
<1>5. o # "actor" => waiting' = waiting /\ clients' = clients
  BY <1>1, <1>3 DEF ObjectsType
<1>6. o = "actor" =>
        /\ \A x \in Callers : IF waiting[x] = "covered" THEN waiting'[x] = "no" ELSE waiting'[x] = waiting[x]
        /\ \A c \in Clients : IF waiting[c] = "covered" THEN clients'[c] = Heard(c, ok) ELSE clients'[c] = clients[c]
  BY <1>1, <1>2, <1>4
<1>7. \A x \in Threads : Heard(x, ok).step = "failed" \/ (Heard(x, ok).step = "ready" /\ x \in registered)
  BY HeardFits
<1>8. \A x \in Objects :
        \/ x # o /\ pass'[x] = pass[x] /\ (o = "actor" /\ x \in Threads => waiting[x] # "covered")
        \/ x = o /\ pass'[x] = Idling
        \/ x # o /\ o = "actor" /\ x \in Threads /\ waiting[x] = "covered" /\ pass'[x] = Heard(x, ok)
  BY <1>1, <1>2, <1>3, <1>4
<1>9. \A x \in Objects :
        \/ x # o /\ pass'[x] = pass[x] /\ (o = "actor" /\ x \in Threads => waiting[x] # "covered")
        \/ x = o /\ pass'[x].step = "idle"
        \/ /\ x # o /\ o = "actor" /\ x \in Threads /\ waiting[x] = "covered"
           /\ pass'[x].step = "failed" \/ (pass'[x].step = "ready" /\ x \in registered)
  BY <1>7, <1>8 DEF Idling
<1> QED
  BY <1>1, <1>5, <1>6, <1>9 DEF EndPass, EndCallers

-----------------------------------------------------------------------------
\* Every action keeps the order of reservation, creation, registration and service.
LEMMA DirectoryStep ==
    ASSUME ObjectsType, ObjectsType', DirectoryInv, AdmissionInv, ObjectsNext
    PROVE  DirectoryInv'
<1>1. ASSUME NEW c \in Clients, reserveThread(c) PROVE DirectoryInv'
  BY <1>1, ObjectsAssumption DEF reserveThread, Candidates, Assigned, Admitting, stored, DirectoryInv, Creating, Readied, ObjectsType, Objects, Requested
<1>2. ASSUME NEW c \in Clients, Refuse(c) PROVE DirectoryInv'
  BY <1>2, ObjectsAssumption DEF Refuse, stored, DirectoryInv, Creating, Readied, ObjectsType, Objects, Requested
<1>3. ASSUME NEW c \in Clients, Wait(c) PROVE DirectoryInv'
  BY <1>3, ObjectsAssumption DEF Wait, Awaited, Admitting, stored, DirectoryInv, Creating, Readied, ObjectsType, Objects, Requested
<1>4. ASSUME NEW c \in Clients, FinishAllocation(c) PROVE DirectoryInv'
  BY <1>4, ObjectsAssumption DEF FinishAllocation, stored, DirectoryInv, Creating, Readied, ObjectsType, Objects, Requested
<1>5. ASSUME NEW c \in Clients, Again(c) PROVE DirectoryInv'
  BY <1>5, ObjectsAssumption DEF Again, stored, DirectoryInv, Creating, Readied, ObjectsType, Objects, Requested
<1>6. ASSUME NEW t \in Threads, NEW m \in Messages, deliver(t, m) PROVE DirectoryInv'
  BY <1>6, ObjectsAssumption DEF deliver, Admitting, stored, DirectoryInv, Creating, Readied, ObjectsType, Objects, Requested
<1>7. ASSUME NEW o \in Objects, Publish(o) PROVE DirectoryInv'
  <2>1. \A x \in Objects :
           \/ pass'[x] = pass[x]
           \/ pass'[x].step = "failed"
           \/ pass'[x].step = "committed" /\ pass'[x].thread = pass[x].thread /\ pass[x].step = "committing" /\ x = "actor"
    BY <1>7, ToldMoves DEF Publish, ToldPass
  <2>2. UNCHANGED stored
    BY <1>7 DEF Publish
  <2> QED
    BY <2>1, <2>2, ObjectsAssumption DEF stored, DirectoryInv, Creating, Readied, Objects
<1>8. ASSUME NEW o \in Objects, AdmissionFails(o) PROVE DirectoryInv'
  <2>1. \A x \in Objects :
           \/ pass'[x] = pass[x]
           \/ pass'[x].step = "failed"
           \/ pass'[x].step = "committed" /\ pass'[x].thread = pass[x].thread /\ pass[x].step = "committing" /\ x = "actor"
    BY <1>8, ToldMoves DEF AdmissionFails, ToldPass
  <2>2. UNCHANGED stored
    BY <1>8 DEF AdmissionFails
  <2> QED
    BY <2>1, <2>2, ObjectsAssumption DEF stored, DirectoryInv, Creating, Readied, Objects
<1>9. ASSUME NEW o \in Objects, Fire(o) PROVE DirectoryInv'
  BY <1>9, ObjectsAssumption DEF Fire, Go, stored, DirectoryInv, Creating, Readied, ObjectsType, Objects, Requested
<1>10. ASSUME NEW o \in Objects, Arm(o) PROVE DirectoryInv'
  BY <1>10, ObjectsAssumption DEF Arm, Covering, Go, stored, DirectoryInv, Creating, Readied, ObjectsType, Objects, Requested
<1>11. ASSUME NEW o \in Objects, Synchronize(o) PROVE DirectoryInv'
  <2>1. \A x \in Objects :
           \/ pass'[x] = pass[x]
           \/ pass'[x].step \in {"idle", "failed"}
           \/ x \in Threads /\ pass'[x].step = "ready" /\ x \in registered
    BY <1>11, EndMoves DEF Synchronize, EndPass
  <2>2. UNCHANGED stored
    BY <1>11 DEF Synchronize
  <2> QED
    BY <2>1, <2>2, ObjectsAssumption DEF stored, DirectoryInv, Creating, Readied, Objects
<1>12. ASSUME NEW o \in Objects, Fail(o) PROVE DirectoryInv'
  <2>1. \A x \in Objects :
           \/ pass'[x] = pass[x]
           \/ pass'[x].step \in {"idle", "failed"}
           \/ x \in Threads /\ pass'[x].step = "ready" /\ x \in registered
    BY <1>12, EndMoves DEF Fail, EndPass
  <2>2. UNCHANGED stored
    BY <1>12 DEF Fail
  <2> QED
    BY <2>1, <2>2, ObjectsAssumption DEF stored, DirectoryInv, Creating, Readied, Objects
<1>13. ASSUME NEW o \in Objects, Break(o) PROVE DirectoryInv'
  BY <1>13, ObjectsAssumption DEF Break, Covering, Go, stored, DirectoryInv, Creating, Readied, ObjectsType, Objects, Requested
<1>14. ASSUME NEW o \in Objects, Evict(o) PROVE DirectoryInv'
  <2>1. \A x \in Objects : pass'[x] = pass[x] \/ pass'[x] \in {Idling, [step |-> "failed"]}
    BY <1>14 DEF Evict
  <2>2. \A x \in Objects : pass'[x] = pass[x] \/ pass'[x].step \in {"idle", "failed"}
    BY <2>1 DEF Idling
  <2>3. UNCHANGED stored
    BY <1>14 DEF Evict
  <2> QED
    BY <2>2, <2>3, ObjectsAssumption DEF stored, DirectoryInv, Creating, Readied, Objects
<1>15. ASSUME NEW t \in Threads, create(t) PROVE DirectoryInv'
  BY <1>15, ObjectsAssumption DEF create, stored, DirectoryInv, Creating, Readied, ObjectsType, Objects, Requested
<1>16. ASSUME NEW t \in Threads, commitCreation(t) PROVE DirectoryInv'
  BY <1>16, ObjectsAssumption DEF commitCreation, Admitting, stored, DirectoryInv, Creating, Readied, ObjectsType, Objects, Requested
<1>17. ASSUME NEW t \in Threads, ThreadRegistered(t) PROVE DirectoryInv'
  BY <1>17, ObjectsAssumption DEF ThreadRegistered, Go, stored, DirectoryInv, Creating, Readied, ObjectsType, Objects, Requested
<1>18. ASSUME Reconciled PROVE DirectoryInv'
  BY <1>18, ObjectsAssumption DEF Reconciled, Go, stored, DirectoryInv, Creating, Readied, ObjectsType, Objects, Requested
<1>19. ASSUME NEW t \in Threads, ensureThreadReady(t) PROVE DirectoryInv'
  <2>1. PICK y \in {"ready", "asking"} : /\ pass' = [pass EXCEPT ![t] = [step |-> y]]
                                         /\ y = "ready" => t \in registered
    BY <1>19 DEF ensureThreadReady, Go
  <2>2. pass'[t].step = y /\ \A x \in Objects : x # t => pass'[x] = pass[x]
    BY <2>1 DEF ObjectsType, Objects
  <2>3. t # "actor" /\ UNCHANGED stored
    BY <1>19, ObjectsAssumption DEF ensureThreadReady, stored
  <2> QED
    BY <2>1, <2>2, <2>3 DEF DirectoryInv, Objects, Readied, stored
<1>20. ASSUME NEW t \in Threads, recordAlarm(t) PROVE DirectoryInv'
  <2>1. pass[t].step \in Readied /\ pass'[t].step = "driving" /\ \A x \in Objects : x # t => pass'[x] = pass[x]
    BY <1>20 DEF recordAlarm, Go, PassAt, ObjectsType, Objects, Readied
  <2>2. t # "actor" /\ t \in registered /\ UNCHANGED <<directory, registered, lineage>>
    BY <1>20, <2>1, ObjectsAssumption DEF recordAlarm, DirectoryInv, stored
  <2>3. \A u \in Threads : u # t => served'[u] = served[u]
    BY <1>20 DEF recordAlarm, stored, ObjectsType
  <2> QED
    BY <2>1, <2>2, <2>3 DEF DirectoryInv, Objects
<1>21. ASSUME NEW t \in Threads, Serve(t) PROVE DirectoryInv'
  <2>1. pass[t].step \in Readied /\ pass'[t].step = "serving" /\ \A x \in Objects : x # t => pass'[x] = pass[x]
    BY <1>21 DEF Serve, Go, PassAt, ObjectsType, Objects, Readied
  <2>2. t # "actor" /\ t \in registered /\ UNCHANGED <<directory, registered, lineage>>
    BY <1>21, <2>1, ObjectsAssumption DEF Serve, DirectoryInv, stored
  <2>3. \A u \in Threads : u # t => served'[u] = served[u]
    BY <1>21 DEF Serve, stored, ObjectsType
  <2> QED
    BY <2>1, <2>2, <2>3 DEF DirectoryInv, Objects
<1>22. ASSUME NEW t \in Threads, Served(t) PROVE DirectoryInv'
  <2>1. pass[t].step \in Readied /\ pass'[t].step = "driving" /\ \A x \in Objects : x # t => pass'[x] = pass[x]
    BY <1>22 DEF Served, Go, PassAt, ObjectsType, Objects, Readied
  <2>2. t # "actor" /\ t \in registered /\ UNCHANGED <<directory, registered, lineage>>
    BY <1>22, <2>1, ObjectsAssumption DEF Served, DirectoryInv, stored
  <2>3. \A u \in Threads : u # t => served'[u] = served[u]
    BY <1>22 DEF Served, stored, ObjectsType
  <2> QED
    BY <2>1, <2>2, <2>3 DEF DirectoryInv, Objects
<1>23. ASSUME NEW t \in Threads, Drained(t) PROVE DirectoryInv'
  <2>1. pass[t].step \in Readied /\ pass'[t].step = "worked" /\ \A x \in Objects : x # t => pass'[x] = pass[x]
    BY <1>23 DEF Drained, Go, PassAt, ObjectsType, Objects, Readied
  <2>2. t # "actor" /\ t \in registered /\ UNCHANGED <<directory, registered, lineage>>
    BY <1>23, <2>1, ObjectsAssumption DEF Drained, DirectoryInv, stored
  <2>3. \A u \in Threads : u # t => served'[u] = served[u]
    BY <1>23 DEF Drained, stored, ObjectsType
  <2> QED
    BY <2>1, <2>2, <2>3 DEF DirectoryInv, Objects
<1>24. ASSUME Tick PROVE DirectoryInv'
  BY <1>24, ObjectsAssumption DEF Tick, stored, DirectoryInv, Creating, Readied, ObjectsType, Objects, Requested
<1> QED
  BY <1>1, <1>2, <1>3, <1>4, <1>5, <1>6, <1>7, <1>8, <1>9, <1>10, <1>11, <1>12, <1>13, <1>14, <1>15, <1>16, <1>17, <1>18, <1>19, <1>20, <1>21, <1>22, <1>23, <1>24 DEF ObjectsNext

-----------------------------------------------------------------------------
\* Who waits: the callers' side.
LEMMA WaitStep ==
    ASSUME ObjectsType, ObjectsType', DirectoryInv, AdmissionInv, WaitInv, ClientInv, ObjectsNext
    PROVE  WaitInv' /\ ClientInv'
<1>1. ASSUME NEW c \in Clients, reserveThread(c) PROVE WaitInv' /\ ClientInv'
  BY <1>1, ObjectsAssumption DEF reserveThread, Candidates, Assigned, Admitting, stored, PassAt, WaitInv, ClientInv, Owes, ObjectsType, Objects, Callers, Requested, Idling
<1>2. ASSUME NEW c \in Clients, Refuse(c) PROVE WaitInv' /\ ClientInv'
  BY <1>2, ObjectsAssumption DEF Refuse, stored, PassAt, WaitInv, ClientInv, Owes, ObjectsType, Objects, Callers, Requested, Idling
<1>3. ASSUME NEW c \in Clients, Wait(c) PROVE WaitInv' /\ ClientInv'
  BY <1>3, ObjectsAssumption DEF Wait, Awaited, Admitting, stored, PassAt, WaitInv, ClientInv, Owes, ObjectsType, Objects, Callers, Requested, Idling
<1>4. ASSUME NEW c \in Clients, FinishAllocation(c) PROVE WaitInv' /\ ClientInv'
  BY <1>4, ObjectsAssumption DEF FinishAllocation, stored, PassAt, WaitInv, ClientInv, Owes, ObjectsType, Objects, Callers, Requested, Idling
<1>5. ASSUME NEW c \in Clients, Again(c) PROVE WaitInv' /\ ClientInv'
  BY <1>5, ObjectsAssumption DEF Again, stored, PassAt, WaitInv, ClientInv, Owes, ObjectsType, Objects, Callers, Requested, Idling
<1>6. ASSUME NEW t \in Threads, NEW m \in Messages, deliver(t, m) PROVE WaitInv' /\ ClientInv'
  BY <1>6, ObjectsAssumption DEF deliver, Admitting, stored, PassAt, WaitInv, ClientInv, Owes, ObjectsType, Objects, Callers, Requested, Idling
<1>7. ASSUME NEW o \in Objects, Publish(o) PROVE WaitInv' /\ ClientInv'
  <2>1. UNCHANGED <<directory, registered>> /\ admission[o] # Idling
    BY <1>7 DEF Publish, stored
  <2>2. PICK ok \in BOOLEAN : ToldPass /\ ToldWaiting(o, ok) /\ ToldClients(o)
    BY <1>7, ToldMoves DEF Publish
  <2>3. \A x \in Clients : waiting'[x] # "no" => Owes(x)'
    BY <2>2 DEF WaitInv, ToldWaiting, ToldClients, Owes, Callers
  <2>4. \A x \in Threads : waiting'[x] # "no" => pass'[x].step = "asking"
    <3> SUFFICES ASSUME NEW x \in Threads, waiting'[x] # "no" PROVE pass'[x].step = "asking"
      OBVIOUS
    <3>1. x \in Callers /\ x \in Objects /\ x # "actor"
      BY ObjectsAssumption DEF Callers, Objects
    <3>2. CASE pass' = pass /\ pass[x].step = "asking"
      BY <3>2
    <3>3. CASE waiting'[x] = waiting[x]
      BY <2>2, <3>1, <3>3 DEF ToldPass, WaitInv
    <3> QED
      BY <2>2, <3>1, <3>2, <3>3 DEF ToldWaiting
  <2>5. ClientInv'
    BY <2>1, <2>2 DEF ToldClients, ClientInv
  <2> QED
    BY <2>3, <2>4, <2>5 DEF WaitInv
<1>8. ASSUME NEW o \in Objects, AdmissionFails(o) PROVE WaitInv' /\ ClientInv'
  <2>1. UNCHANGED <<directory, registered>> /\ admission[o] # Idling
    BY <1>8 DEF AdmissionFails, stored
  <2>2. PICK ok \in BOOLEAN : ToldPass /\ ToldWaiting(o, ok) /\ ToldClients(o)
    BY <1>8, ToldMoves DEF AdmissionFails
  <2>3. \A x \in Clients : waiting'[x] # "no" => Owes(x)'
    BY <2>2 DEF WaitInv, ToldWaiting, ToldClients, Owes, Callers
  <2>4. \A x \in Threads : waiting'[x] # "no" => pass'[x].step = "asking"
    <3> SUFFICES ASSUME NEW x \in Threads, waiting'[x] # "no" PROVE pass'[x].step = "asking"
      OBVIOUS
    <3>1. x \in Callers /\ x \in Objects /\ x # "actor"
      BY ObjectsAssumption DEF Callers, Objects
    <3>2. CASE pass' = pass /\ pass[x].step = "asking"
      BY <3>2
    <3>3. CASE waiting'[x] = waiting[x]
      BY <2>2, <3>1, <3>3 DEF ToldPass, WaitInv
    <3> QED
      BY <2>2, <3>1, <3>2, <3>3 DEF ToldWaiting
  <2>5. ClientInv'
    BY <2>1, <2>2 DEF ToldClients, ClientInv
  <2> QED
    BY <2>3, <2>4, <2>5 DEF WaitInv
<1>9. ASSUME NEW o \in Objects, Fire(o) PROVE WaitInv' /\ ClientInv'
  BY <1>9, ObjectsAssumption DEF Fire, Go, stored, PassAt, WaitInv, ClientInv, Owes, ObjectsType, Objects, Callers, Requested, Idling
<1>10. ASSUME NEW o \in Objects, Arm(o) PROVE WaitInv' /\ ClientInv'
  BY <1>10, ObjectsAssumption DEF Arm, Covering, Go, stored, PassAt, WaitInv, ClientInv, Owes, ObjectsType, Objects, Callers, Requested, Idling
<1>11. ASSUME NEW o \in Objects, Synchronize(o) PROVE WaitInv' /\ ClientInv'
  <2>1. UNCHANGED <<directory, registered>>
    BY <1>11 DEF Synchronize, stored
  <2>2. PICK ok \in BOOLEAN : EndPass(o) /\ EndCallers(o, ok)
    BY <1>11, EndMoves DEF Synchronize
  <2>3. \A x \in Clients : waiting'[x] # "no" => Owes(x)'
    BY <2>2 DEF WaitInv, EndCallers, Owes, Callers, ObjectsType
  <2>4. \A x \in Threads : waiting'[x] # "no" => pass'[x].step = "asking"
    <3> SUFFICES ASSUME NEW x \in Threads, waiting'[x] # "no" PROVE pass'[x].step = "asking"
      OBVIOUS
    <3>1. waiting[x] # "no" /\ (o = "actor" => waiting[x] # "covered") /\ pass[x].step = "asking"
      BY <2>2 DEF EndCallers, Callers, WaitInv
    <3>2. x # o
      BY <1>11, <3>1 DEF Synchronize, PassAt
    <3> QED
      BY <2>2, <3>1, <3>2 DEF EndPass, Objects
  <2>5. ASSUME NEW c \in Clients, clients'[c] # clients[c]
        PROVE  /\ Owes(c)
               /\ \/ clients'[c] = [clients[c] EXCEPT !.step = "failed"]
                  \/ clients'[c] = [step |-> "idle", thread |-> Root]
                  \/ /\ clients[c].step # "forParent" /\ clients[c].thread \in registered
                     /\ clients'[c] = [clients[c] EXCEPT !.step = "answered"]
    BY <2>2, <2>5, ObjectsAssumption DEF EndCallers, WaitInv, Heard, Callers
  <2>6. ASSUME NEW c \in Clients, clients'[c] # clients[c]
        PROVE  \/ clients'[c].step \in {"failed", "idle"}
               \/ /\ clients[c].step = "forThread" /\ clients[c].thread \in registered
                  /\ clients'[c].step = "answered" /\ clients'[c].thread = clients[c].thread
    <3>1. clients[c] \in ClientRecords
      BY DEF ObjectsType
    <3>2. clients[c].step \in {"forParent", "forThread"}
      BY <2>5, <2>6 DEF Owes
    <3>3. CASE clients'[c] = [clients[c] EXCEPT !.step = "failed"]
      BY <3>1, <3>3 DEF ClientRecords
    <3>4. CASE clients'[c] = [step |-> "idle", thread |-> Root]
      BY <3>4
    <3>5. CASE /\ clients[c].step # "forParent" /\ clients[c].thread \in registered
               /\ clients'[c] = [clients[c] EXCEPT !.step = "answered"]
      BY <3>1, <3>2, <3>5 DEF ClientRecords
    <3> QED
      BY <2>5, <2>6, <3>3, <3>4, <3>5
  <2>7. ClientInv'
    BY <2>1, <2>6 DEF ClientInv
  <2> QED
    BY <2>3, <2>4, <2>7 DEF WaitInv
<1>12. ASSUME NEW o \in Objects, Fail(o) PROVE WaitInv' /\ ClientInv'
  <2>1. UNCHANGED <<directory, registered>>
    BY <1>12 DEF Fail, stored
  <2>2. PICK ok \in BOOLEAN : EndPass(o) /\ EndCallers(o, ok)
    BY <1>12, EndMoves DEF Fail
  <2>3. \A x \in Clients : waiting'[x] # "no" => Owes(x)'
    BY <2>2 DEF WaitInv, EndCallers, Owes, Callers, ObjectsType
  <2>4. \A x \in Threads : waiting'[x] # "no" => pass'[x].step = "asking"
    <3> SUFFICES ASSUME NEW x \in Threads, waiting'[x] # "no" PROVE pass'[x].step = "asking"
      OBVIOUS
    <3>1. waiting[x] # "no" /\ (o = "actor" => waiting[x] # "covered") /\ pass[x].step = "asking"
      BY <2>2 DEF EndCallers, Callers, WaitInv
    <3>2. x # o
      BY <1>12, <3>1 DEF Fail, PassAt
    <3> QED
      BY <2>2, <3>1, <3>2 DEF EndPass, Objects
  <2>5. ASSUME NEW c \in Clients, clients'[c] # clients[c]
        PROVE  /\ Owes(c)
               /\ \/ clients'[c] = [clients[c] EXCEPT !.step = "failed"]
                  \/ clients'[c] = [step |-> "idle", thread |-> Root]
                  \/ /\ clients[c].step # "forParent" /\ clients[c].thread \in registered
                     /\ clients'[c] = [clients[c] EXCEPT !.step = "answered"]
    BY <2>2, <2>5, ObjectsAssumption DEF EndCallers, WaitInv, Heard, Callers
  <2>6. ASSUME NEW c \in Clients, clients'[c] # clients[c]
        PROVE  \/ clients'[c].step \in {"failed", "idle"}
               \/ /\ clients[c].step = "forThread" /\ clients[c].thread \in registered
                  /\ clients'[c].step = "answered" /\ clients'[c].thread = clients[c].thread
    <3>1. clients[c] \in ClientRecords
      BY DEF ObjectsType
    <3>2. clients[c].step \in {"forParent", "forThread"}
      BY <2>5, <2>6 DEF Owes
    <3>3. CASE clients'[c] = [clients[c] EXCEPT !.step = "failed"]
      BY <3>1, <3>3 DEF ClientRecords
    <3>4. CASE clients'[c] = [step |-> "idle", thread |-> Root]
      BY <3>4
    <3>5. CASE /\ clients[c].step # "forParent" /\ clients[c].thread \in registered
               /\ clients'[c] = [clients[c] EXCEPT !.step = "answered"]
      BY <3>1, <3>2, <3>5 DEF ClientRecords
    <3> QED
      BY <2>5, <2>6, <3>3, <3>4, <3>5
  <2>7. ClientInv'
    BY <2>1, <2>6 DEF ClientInv
  <2> QED
    BY <2>3, <2>4, <2>7 DEF WaitInv
<1>13. ASSUME NEW o \in Objects, Break(o) PROVE WaitInv' /\ ClientInv'
  BY <1>13, ObjectsAssumption DEF Break, Covering, Go, stored, PassAt, WaitInv, ClientInv, Owes, ObjectsType, Objects, Callers, Requested, Idling
<1>14. ASSUME NEW o \in Objects, Evict(o) PROVE WaitInv' /\ ClientInv'
  BY <1>14, ObjectsAssumption DEF Evict, stored, PassAt, WaitInv, ClientInv, Owes, ObjectsType, Objects, Callers, Requested, Idling
<1>15. ASSUME NEW t \in Threads, create(t) PROVE WaitInv' /\ ClientInv'
  BY <1>15, ObjectsAssumption DEF create, stored, PassAt, WaitInv, ClientInv, Owes, ObjectsType, Objects, Callers, Requested, Idling
<1>16. ASSUME NEW t \in Threads, commitCreation(t) PROVE WaitInv' /\ ClientInv'
  BY <1>16, ObjectsAssumption DEF commitCreation, Admitting, stored, PassAt, WaitInv, ClientInv, Owes, ObjectsType, Objects, Callers, Requested, Idling
<1>17. ASSUME NEW t \in Threads, ThreadRegistered(t) PROVE WaitInv' /\ ClientInv'
  BY <1>17, ObjectsAssumption DEF ThreadRegistered, Go, stored, PassAt, WaitInv, ClientInv, Owes, ObjectsType, Objects, Callers, Requested, Idling
<1>18. ASSUME Reconciled PROVE WaitInv' /\ ClientInv'
  BY <1>18, ObjectsAssumption DEF Reconciled, Go, stored, PassAt, WaitInv, ClientInv, Owes, ObjectsType, Objects, Callers, Requested, Idling
<1>19. ASSUME NEW t \in Threads, ensureThreadReady(t) PROVE WaitInv' /\ ClientInv'
  BY <1>19, ObjectsAssumption DEF ensureThreadReady, Admitting, Go, stored, PassAt, WaitInv, ClientInv, Owes, ObjectsType, Objects, Callers, Requested, Idling
<1>20. ASSUME NEW t \in Threads, recordAlarm(t) PROVE WaitInv' /\ ClientInv'
  BY <1>20, ObjectsAssumption DEF recordAlarm, Go, stored, PassAt, WaitInv, ClientInv, Owes, ObjectsType, Objects, Callers, Requested, Idling
<1>21. ASSUME NEW t \in Threads, Serve(t) PROVE WaitInv' /\ ClientInv'
  BY <1>21, ObjectsAssumption DEF Serve, Go, stored, PassAt, WaitInv, ClientInv, Owes, ObjectsType, Objects, Callers, Requested, Idling
<1>22. ASSUME NEW t \in Threads, Served(t) PROVE WaitInv' /\ ClientInv'
  BY <1>22, ObjectsAssumption DEF Served, Go, stored, PassAt, WaitInv, ClientInv, Owes, ObjectsType, Objects, Callers, Requested, Idling
<1>23. ASSUME NEW t \in Threads, Drained(t) PROVE WaitInv' /\ ClientInv'
  BY <1>23, ObjectsAssumption DEF Drained, Go, stored, PassAt, WaitInv, ClientInv, Owes, ObjectsType, Objects, Callers, Requested, Idling
<1>24. ASSUME Tick PROVE WaitInv' /\ ClientInv'
  BY <1>24, ObjectsAssumption DEF Tick, stored, PassAt, WaitInv, ClientInv, Owes, ObjectsType, Objects, Callers, Requested, Idling
<1> QED
  BY <1>1, <1>2, <1>3, <1>4, <1>5, <1>6, <1>7, <1>8, <1>9, <1>10, <1>11, <1>12, <1>13, <1>14, <1>15, <1>16, <1>17, <1>18, <1>19, <1>20, <1>21, <1>22, <1>23, <1>24 DEF ObjectsNext

\* An admission keeps what it stands for while its caller waits for it.
LEMMA AdmissionFrame ==
    ASSUME ObjectsType, AdmissionInv,
           \A o \in Objects : AdmissionFits(o)' \/ admission'[o] \in {admission[o], Idling},
           \A x \in Callers : waiting[x] = "no" => waiting'[x] = "no" \/ admission'["actor"] = Idling,
           \A c \in Clients : Owes(c) /\ waiting[c] = "no" => Owes(c)' \/ admission'["actor"] = Idling,
           \A t \in Threads : items[t] \subseteq items'[t]
    PROVE  AdmissionInv'
<1> SUFFICES ASSUME NEW o \in Objects, admission'[o] = admission[o], admission[o] # Idling PROVE AdmissionFits(o)'
  BY DEF AdmissionInv, AdmissionFits
<1>1. AdmissionFits(o) /\ admission[o].who \in Callers
  BY DEF AdmissionInv, ObjectsType, Admissions
<1> QED
  BY <1>1 DEF AdmissionFits

\* Who waits: the side of the admissions.
LEMMA AdmissionStep ==
    ASSUME ObjectsType, ObjectsType', AdmissionInv, WaitInv, ClientInv, ObjectsNext
    PROVE  AdmissionInv'
<1>1. ASSUME NEW c \in Clients, reserveThread(c) PROVE AdmissionInv'
  <2>1. \A x \in Objects : AdmissionFits(x)' \/ admission'[x] \in {admission[x], Idling}
    BY <1>1, ObjectsAssumption DEF reserveThread, Candidates, Assigned, Admitting, stored, AdmissionFits, Owes, ObjectsType, Idling, Objects, WaitInv, Callers
  <2>2. \A x \in Callers : waiting[x] = "no" => waiting'[x] = "no" \/ admission'["actor"] = Idling
    BY <1>1 DEF reserveThread, Candidates, Assigned, Admitting, stored, Covering, ObjectsType
  <2>3. \A x \in Clients : Owes(x) /\ waiting[x] = "no" => Owes(x)' \/ admission'["actor"] = Idling
    BY <1>1 DEF reserveThread, Candidates, Assigned, Admitting, stored, Owes, ObjectsType
  <2>4. \A x \in Threads : items[x] \subseteq items'[x]
    BY <1>1 DEF reserveThread, Candidates, Assigned, Admitting, stored, ObjectsType
  <2> QED
    BY <2>1, <2>2, <2>3, <2>4, AdmissionFrame
<1>2. ASSUME NEW c \in Clients, Refuse(c) PROVE AdmissionInv'
  <2>1. \A x \in Objects : AdmissionFits(x)' \/ admission'[x] \in {admission[x], Idling}
    BY <1>2 DEF Refuse, stored, AdmissionFits, Owes, ObjectsType, Idling, Objects, WaitInv, Callers
  <2>2. \A x \in Callers : waiting[x] = "no" => waiting'[x] = "no" \/ admission'["actor"] = Idling
    BY <1>2 DEF Refuse, stored, Covering, ObjectsType
  <2>3. \A x \in Clients : Owes(x) /\ waiting[x] = "no" => Owes(x)' \/ admission'["actor"] = Idling
    BY <1>2 DEF Refuse, stored, Owes, ObjectsType
  <2>4. \A x \in Threads : items[x] \subseteq items'[x]
    BY <1>2 DEF Refuse, stored, ObjectsType
  <2> QED
    BY <2>1, <2>2, <2>3, <2>4, AdmissionFrame
<1>3. ASSUME NEW c \in Clients, Wait(c) PROVE AdmissionInv'
  <2>1. \A x \in Objects : AdmissionFits(x)' \/ admission'[x] \in {admission[x], Idling}
    BY <1>3, ObjectsAssumption DEF Wait, Awaited, Admitting, stored, AdmissionFits, Owes, ObjectsType, Idling, Objects, WaitInv, Callers
  <2>2. \A x \in Callers : waiting[x] = "no" => waiting'[x] = "no" \/ admission'["actor"] = Idling
    BY <1>3 DEF Wait, Awaited, Admitting, stored, Covering, ObjectsType
  <2>3. \A x \in Clients : Owes(x) /\ waiting[x] = "no" => Owes(x)' \/ admission'["actor"] = Idling
    BY <1>3 DEF Wait, Awaited, Admitting, stored, Owes, ObjectsType
  <2>4. \A x \in Threads : items[x] \subseteq items'[x]
    BY <1>3 DEF Wait, Awaited, Admitting, stored, ObjectsType
  <2> QED
    BY <2>1, <2>2, <2>3, <2>4, AdmissionFrame
<1>4. ASSUME NEW c \in Clients, FinishAllocation(c) PROVE AdmissionInv'
  <2>1. \A x \in Objects : AdmissionFits(x)' \/ admission'[x] \in {admission[x], Idling}
    BY <1>4 DEF FinishAllocation, stored, AdmissionFits, Owes, ObjectsType, Idling, Objects, WaitInv, Callers
  <2>2. \A x \in Callers : waiting[x] = "no" => waiting'[x] = "no" \/ admission'["actor"] = Idling
    BY <1>4 DEF FinishAllocation, stored, Covering, ObjectsType
  <2>3. \A x \in Clients : Owes(x) /\ waiting[x] = "no" => Owes(x)' \/ admission'["actor"] = Idling
    BY <1>4 DEF FinishAllocation, stored, Owes, ObjectsType
  <2>4. \A x \in Threads : items[x] \subseteq items'[x]
    BY <1>4 DEF FinishAllocation, stored, ObjectsType
  <2> QED
    BY <2>1, <2>2, <2>3, <2>4, AdmissionFrame
<1>5. ASSUME NEW c \in Clients, Again(c) PROVE AdmissionInv'
  <2>1. \A x \in Objects : AdmissionFits(x)' \/ admission'[x] \in {admission[x], Idling}
    BY <1>5 DEF Again, stored, AdmissionFits, Owes, ObjectsType, Idling, Objects, WaitInv, Callers
  <2>2. \A x \in Callers : waiting[x] = "no" => waiting'[x] = "no" \/ admission'["actor"] = Idling
    BY <1>5 DEF Again, stored, Covering, ObjectsType
  <2>3. \A x \in Clients : Owes(x) /\ waiting[x] = "no" => Owes(x)' \/ admission'["actor"] = Idling
    BY <1>5 DEF Again, stored, Owes, ObjectsType
  <2>4. \A x \in Threads : items[x] \subseteq items'[x]
    BY <1>5 DEF Again, stored, ObjectsType
  <2> QED
    BY <2>1, <2>2, <2>3, <2>4, AdmissionFrame
<1>6. ASSUME NEW t \in Threads, NEW m \in Messages, deliver(t, m) PROVE AdmissionInv'
  <2>1. \A x \in Objects : AdmissionFits(x)' \/ admission'[x] \in {admission[x], Idling}
    BY <1>6, ObjectsAssumption DEF deliver, Admitting, stored, AdmissionFits, Owes, ObjectsType, Idling, Objects, WaitInv, Callers
  <2>2. \A x \in Callers : waiting[x] = "no" => waiting'[x] = "no" \/ admission'["actor"] = Idling
    BY <1>6 DEF deliver, Admitting, stored, Covering, ObjectsType
  <2>3. \A x \in Clients : Owes(x) /\ waiting[x] = "no" => Owes(x)' \/ admission'["actor"] = Idling
    BY <1>6 DEF deliver, Admitting, stored, Owes, ObjectsType
  <2>4. \A x \in Threads : items[x] \subseteq items'[x]
    BY <1>6 DEF deliver, Admitting, stored, ObjectsType
  <2> QED
    BY <2>1, <2>2, <2>3, <2>4, AdmissionFrame
<1>7. ASSUME NEW o \in Objects, Publish(o) PROVE AdmissionInv'
  <2>5. PICK ok \in BOOLEAN : ToldWaiting(o, ok) /\ ToldClients(o)
    BY <1>7, ToldMoves DEF Publish
  <2>1. \A x \in Objects : AdmissionFits(x)' \/ admission'[x] \in {admission[x], Idling}
    BY <1>7 DEF Publish, ObjectsType
  <2>2. \A x \in Callers : waiting[x] = "no" => waiting'[x] = "no" \/ admission'["actor"] = Idling
    BY <1>7, <2>5 DEF Publish, ToldWaiting, ObjectsType, Objects
  <2>3. \A x \in Clients : Owes(x) /\ waiting[x] = "no" => Owes(x)' \/ admission'["actor"] = Idling
    BY <1>7, <2>5 DEF Publish, ToldClients, Owes, ObjectsType, Objects
  <2>4. \A x \in Threads : items[x] \subseteq items'[x]
    BY <1>7 DEF Publish, stored, ObjectsType
  <2> QED
    BY <2>1, <2>2, <2>3, <2>4, AdmissionFrame
<1>8. ASSUME NEW o \in Objects, AdmissionFails(o) PROVE AdmissionInv'
  <2>5. PICK ok \in BOOLEAN : ToldWaiting(o, ok) /\ ToldClients(o)
    BY <1>8, ToldMoves DEF AdmissionFails
  <2>1. \A x \in Objects : AdmissionFits(x)' \/ admission'[x] \in {admission[x], Idling}
    BY <1>8 DEF AdmissionFails, ObjectsType
  <2>2. \A x \in Callers : waiting[x] = "no" => waiting'[x] = "no" \/ admission'["actor"] = Idling
    BY <1>8, <2>5 DEF AdmissionFails, ToldWaiting, ObjectsType, Objects
  <2>3. \A x \in Clients : Owes(x) /\ waiting[x] = "no" => Owes(x)' \/ admission'["actor"] = Idling
    BY <1>8, <2>5 DEF AdmissionFails, ToldClients, Owes, ObjectsType, Objects
  <2>4. \A x \in Threads : items[x] \subseteq items'[x]
    BY <1>8 DEF AdmissionFails, stored, ObjectsType
  <2> QED
    BY <2>1, <2>2, <2>3, <2>4, AdmissionFrame
<1>9. ASSUME NEW o \in Objects, Fire(o) PROVE AdmissionInv'
  <2>1. \A x \in Objects : AdmissionFits(x)' \/ admission'[x] \in {admission[x], Idling}
    BY <1>9 DEF Fire, Go, stored, AdmissionFits, Owes, ObjectsType, Idling, Objects, WaitInv, Callers
  <2>2. \A x \in Callers : waiting[x] = "no" => waiting'[x] = "no" \/ admission'["actor"] = Idling
    BY <1>9 DEF Fire, Go, stored, Covering, ObjectsType
  <2>3. \A x \in Clients : Owes(x) /\ waiting[x] = "no" => Owes(x)' \/ admission'["actor"] = Idling
    BY <1>9 DEF Fire, Go, stored, Owes, ObjectsType
  <2>4. \A x \in Threads : items[x] \subseteq items'[x]
    BY <1>9 DEF Fire, Go, stored, ObjectsType
  <2> QED
    BY <2>1, <2>2, <2>3, <2>4, AdmissionFrame
<1>10. ASSUME NEW o \in Objects, Arm(o) PROVE AdmissionInv'
  <2>1. \A x \in Objects : AdmissionFits(x)' \/ admission'[x] \in {admission[x], Idling}
    BY <1>10 DEF Arm, Covering, Go, stored, AdmissionFits, Owes, ObjectsType, Idling, Objects, WaitInv, Callers
  <2>2. \A x \in Callers : waiting[x] = "no" => waiting'[x] = "no" \/ admission'["actor"] = Idling
    BY <1>10 DEF Arm, Covering, Go, stored, Covering, ObjectsType
  <2>3. \A x \in Clients : Owes(x) /\ waiting[x] = "no" => Owes(x)' \/ admission'["actor"] = Idling
    BY <1>10 DEF Arm, Covering, Go, stored, Owes, ObjectsType
  <2>4. \A x \in Threads : items[x] \subseteq items'[x]
    BY <1>10 DEF Arm, Covering, Go, stored, ObjectsType
  <2> QED
    BY <2>1, <2>2, <2>3, <2>4, AdmissionFrame
<1>11. ASSUME NEW o \in Objects, Synchronize(o) PROVE AdmissionInv'
  <2>5. PICK ok \in BOOLEAN : EndCallers(o, ok)
    BY <1>11, EndMoves DEF Synchronize
  <2>1. \A x \in Objects : AdmissionFits(x)' \/ admission'[x] \in {admission[x], Idling}
    BY <1>11 DEF Synchronize
  <2>2. \A x \in Callers : waiting[x] = "no" => waiting'[x] = "no" \/ admission'["actor"] = Idling
    BY <1>11, <2>5 DEF EndCallers, ObjectsType
  <2>3. \A x \in Clients : Owes(x) /\ waiting[x] = "no" => Owes(x)' \/ admission'["actor"] = Idling
    BY <1>11, <2>5 DEF EndCallers, Owes, Callers
  <2>4. \A x \in Threads : items[x] \subseteq items'[x]
    BY <1>11 DEF Synchronize, stored
  <2> QED
    BY <2>1, <2>2, <2>3, <2>4, AdmissionFrame
<1>12. ASSUME NEW o \in Objects, Fail(o) PROVE AdmissionInv'
  <2>5. PICK ok \in BOOLEAN : EndCallers(o, ok)
    BY <1>12, EndMoves DEF Fail
  <2>1. \A x \in Objects : AdmissionFits(x)' \/ admission'[x] \in {admission[x], Idling}
    BY <1>12 DEF Fail
  <2>2. \A x \in Callers : waiting[x] = "no" => waiting'[x] = "no" \/ admission'["actor"] = Idling
    BY <1>12, <2>5 DEF EndCallers, ObjectsType
  <2>3. \A x \in Clients : Owes(x) /\ waiting[x] = "no" => Owes(x)' \/ admission'["actor"] = Idling
    BY <1>12, <2>5 DEF EndCallers, Owes, Callers
  <2>4. \A x \in Threads : items[x] \subseteq items'[x]
    BY <1>12 DEF Fail, stored
  <2> QED
    BY <2>1, <2>2, <2>3, <2>4, AdmissionFrame
<1>13. ASSUME NEW o \in Objects, Break(o) PROVE AdmissionInv'
  <2>1. \A x \in Objects : AdmissionFits(x)' \/ admission'[x] \in {admission[x], Idling}
    BY <1>13 DEF Break, Covering, Go, stored, AdmissionFits, Owes, ObjectsType, Idling, Objects, WaitInv, Callers
  <2>2. \A x \in Callers : waiting[x] = "no" => waiting'[x] = "no" \/ admission'["actor"] = Idling
    BY <1>13 DEF Break, Covering, Go, stored, Covering, ObjectsType
  <2>3. \A x \in Clients : Owes(x) /\ waiting[x] = "no" => Owes(x)' \/ admission'["actor"] = Idling
    BY <1>13 DEF Break, Covering, Go, stored, Owes, ObjectsType
  <2>4. \A x \in Threads : items[x] \subseteq items'[x]
    BY <1>13 DEF Break, Covering, Go, stored, ObjectsType
  <2> QED
    BY <2>1, <2>2, <2>3, <2>4, AdmissionFrame
<1>14. ASSUME NEW o \in Objects, Evict(o) PROVE AdmissionInv'
  <2>1. \A x \in Objects : AdmissionFits(x)' \/ admission'[x] \in {admission[x], Idling}
    BY <1>14 DEF Evict, stored, AdmissionFits, Owes, ObjectsType, Idling, Objects, WaitInv, Callers
  <2>2. \A x \in Callers : waiting[x] = "no" => waiting'[x] = "no" \/ admission'["actor"] = Idling
    BY <1>14 DEF Evict, stored, Covering, ObjectsType, Callers
  <2>3. \A x \in Clients : Owes(x) /\ waiting[x] = "no" => Owes(x)' \/ admission'["actor"] = Idling
    BY <1>14 DEF Evict, stored, Owes, ObjectsType
  <2>4. \A x \in Threads : items[x] \subseteq items'[x]
    BY <1>14 DEF Evict, stored, ObjectsType
  <2> QED
    BY <2>1, <2>2, <2>3, <2>4, AdmissionFrame
<1>15. ASSUME NEW t \in Threads, create(t) PROVE AdmissionInv'
  <2>1. \A x \in Objects : AdmissionFits(x)' \/ admission'[x] \in {admission[x], Idling}
    BY <1>15 DEF create, stored, AdmissionFits, Owes, ObjectsType, Idling, Objects, WaitInv, Callers
  <2>2. \A x \in Callers : waiting[x] = "no" => waiting'[x] = "no" \/ admission'["actor"] = Idling
    BY <1>15 DEF create, stored, Covering, ObjectsType
  <2>3. \A x \in Clients : Owes(x) /\ waiting[x] = "no" => Owes(x)' \/ admission'["actor"] = Idling
    BY <1>15 DEF create, stored, Owes, ObjectsType
  <2>4. \A x \in Threads : items[x] \subseteq items'[x]
    BY <1>15 DEF create, stored, ObjectsType
  <2> QED
    BY <2>1, <2>2, <2>3, <2>4, AdmissionFrame
<1>16. ASSUME NEW t \in Threads, commitCreation(t) PROVE AdmissionInv'
  <2>1. \A x \in Objects : AdmissionFits(x)' \/ admission'[x] \in {admission[x], Idling}
    BY <1>16, ObjectsAssumption DEF commitCreation, Admitting, stored, AdmissionFits, Owes, ObjectsType, Idling, Objects, WaitInv, Callers
  <2>2. \A x \in Callers : waiting[x] = "no" => waiting'[x] = "no" \/ admission'["actor"] = Idling
    BY <1>16 DEF commitCreation, Admitting, stored, Covering, ObjectsType
  <2>3. \A x \in Clients : Owes(x) /\ waiting[x] = "no" => Owes(x)' \/ admission'["actor"] = Idling
    BY <1>16 DEF commitCreation, Admitting, stored, Owes, ObjectsType
  <2>4. \A x \in Threads : items[x] \subseteq items'[x]
    BY <1>16 DEF commitCreation, Admitting, stored, ObjectsType
  <2> QED
    BY <2>1, <2>2, <2>3, <2>4, AdmissionFrame
<1>17. ASSUME NEW t \in Threads, ThreadRegistered(t) PROVE AdmissionInv'
  <2>1. \A x \in Objects : AdmissionFits(x)' \/ admission'[x] \in {admission[x], Idling}
    BY <1>17 DEF ThreadRegistered, Go, stored, AdmissionFits, Owes, ObjectsType, Idling, Objects, WaitInv, Callers
  <2>2. \A x \in Callers : waiting[x] = "no" => waiting'[x] = "no" \/ admission'["actor"] = Idling
    BY <1>17 DEF ThreadRegistered, Go, stored, Covering, ObjectsType
  <2>3. \A x \in Clients : Owes(x) /\ waiting[x] = "no" => Owes(x)' \/ admission'["actor"] = Idling
    BY <1>17 DEF ThreadRegistered, Go, stored, Owes, ObjectsType
  <2>4. \A x \in Threads : items[x] \subseteq items'[x]
    BY <1>17 DEF ThreadRegistered, Go, stored, ObjectsType
  <2> QED
    BY <2>1, <2>2, <2>3, <2>4, AdmissionFrame
<1>18. ASSUME Reconciled PROVE AdmissionInv'
  <2>1. \A x \in Objects : AdmissionFits(x)' \/ admission'[x] \in {admission[x], Idling}
    BY <1>18 DEF Reconciled, Go, stored, AdmissionFits, Owes, ObjectsType, Idling, Objects, WaitInv, Callers
  <2>2. \A x \in Callers : waiting[x] = "no" => waiting'[x] = "no" \/ admission'["actor"] = Idling
    BY <1>18 DEF Reconciled, Go, stored, Covering, ObjectsType
  <2>3. \A x \in Clients : Owes(x) /\ waiting[x] = "no" => Owes(x)' \/ admission'["actor"] = Idling
    BY <1>18 DEF Reconciled, Go, stored, Owes, ObjectsType
  <2>4. \A x \in Threads : items[x] \subseteq items'[x]
    BY <1>18 DEF Reconciled, Go, stored, ObjectsType
  <2> QED
    BY <2>1, <2>2, <2>3, <2>4, AdmissionFrame
<1>19. ASSUME NEW t \in Threads, ensureThreadReady(t) PROVE AdmissionInv'
  <2>5. CASE t \in registered /\ admission' = admission
    BY <1>19, <2>5 DEF ensureThreadReady, stored, AdmissionInv, AdmissionFits, Owes, ObjectsType
  <2>6. CASE Admitting("actor", "wake", t) /\ pass[t].step = "armed"
    <3>1. waiting[t] = "no" /\ t \notin Clients /\ UNCHANGED <<waiting, clients, items>>
      BY <1>19, <2>6, ObjectsAssumption DEF ensureThreadReady, stored, WaitInv, ObjectsType, Callers
    <3>2. admission' = [admission EXCEPT !["actor"] = [step |-> "staged", what |-> "wake", who |-> t]]
      BY <2>6 DEF Admitting
    <3>3. \A x \in Objects : x # "actor" => admission'[x] = admission[x]
      BY <3>2 DEF ObjectsType
    <3>4. admission'["actor"].what = "wake" /\ admission'["actor"].who = t
      BY <3>2 DEF ObjectsType, Objects
    <3>5. AdmissionFits("actor")'
      BY <3>1, <3>4, ObjectsAssumption DEF AdmissionFits
    <3> QED
      BY <3>1, <3>3, <3>5, AdmissionFrame DEF Owes
  <2> QED
    BY <1>19, <2>5, <2>6 DEF ensureThreadReady, PassAt
<1>20. ASSUME NEW t \in Threads, recordAlarm(t) PROVE AdmissionInv'
  <2>1. \A x \in Objects : AdmissionFits(x)' \/ admission'[x] \in {admission[x], Idling}
    BY <1>20 DEF recordAlarm, Go, stored, AdmissionFits, Owes, ObjectsType, Idling, Objects, WaitInv, Callers
  <2>2. \A x \in Callers : waiting[x] = "no" => waiting'[x] = "no" \/ admission'["actor"] = Idling
    BY <1>20 DEF recordAlarm, Go, stored, Covering, ObjectsType
  <2>3. \A x \in Clients : Owes(x) /\ waiting[x] = "no" => Owes(x)' \/ admission'["actor"] = Idling
    BY <1>20 DEF recordAlarm, Go, stored, Owes, ObjectsType
  <2>4. \A x \in Threads : items[x] \subseteq items'[x]
    BY <1>20 DEF recordAlarm, Go, stored, ObjectsType
  <2> QED
    BY <2>1, <2>2, <2>3, <2>4, AdmissionFrame
<1>21. ASSUME NEW t \in Threads, Serve(t) PROVE AdmissionInv'
  <2>1. \A x \in Objects : AdmissionFits(x)' \/ admission'[x] \in {admission[x], Idling}
    BY <1>21 DEF Serve, Go, stored, AdmissionFits, Owes, ObjectsType, Idling, Objects, WaitInv, Callers
  <2>2. \A x \in Callers : waiting[x] = "no" => waiting'[x] = "no" \/ admission'["actor"] = Idling
    BY <1>21 DEF Serve, Go, stored, Covering, ObjectsType
  <2>3. \A x \in Clients : Owes(x) /\ waiting[x] = "no" => Owes(x)' \/ admission'["actor"] = Idling
    BY <1>21 DEF Serve, Go, stored, Owes, ObjectsType
  <2>4. \A x \in Threads : items[x] \subseteq items'[x]
    BY <1>21 DEF Serve, Go, stored, ObjectsType
  <2> QED
    BY <2>1, <2>2, <2>3, <2>4, AdmissionFrame
<1>22. ASSUME NEW t \in Threads, Served(t) PROVE AdmissionInv'
  <2>1. \A x \in Objects : AdmissionFits(x)' \/ admission'[x] \in {admission[x], Idling}
    BY <1>22 DEF Served, Go, stored, AdmissionFits, Owes, ObjectsType, Idling, Objects, WaitInv, Callers
  <2>2. \A x \in Callers : waiting[x] = "no" => waiting'[x] = "no" \/ admission'["actor"] = Idling
    BY <1>22 DEF Served, Go, stored, Covering, ObjectsType
  <2>3. \A x \in Clients : Owes(x) /\ waiting[x] = "no" => Owes(x)' \/ admission'["actor"] = Idling
    BY <1>22 DEF Served, Go, stored, Owes, ObjectsType
  <2>4. \A x \in Threads : items[x] \subseteq items'[x]
    BY <1>22 DEF Served, Go, stored, ObjectsType
  <2> QED
    BY <2>1, <2>2, <2>3, <2>4, AdmissionFrame
<1>23. ASSUME NEW t \in Threads, Drained(t) PROVE AdmissionInv'
  <2>1. \A x \in Objects : AdmissionFits(x)' \/ admission'[x] \in {admission[x], Idling}
    BY <1>23 DEF Drained, Go, stored, AdmissionFits, Owes, ObjectsType, Idling, Objects, WaitInv, Callers
  <2>2. \A x \in Callers : waiting[x] = "no" => waiting'[x] = "no" \/ admission'["actor"] = Idling
    BY <1>23 DEF Drained, Go, stored, Covering, ObjectsType
  <2>3. \A x \in Clients : Owes(x) /\ waiting[x] = "no" => Owes(x)' \/ admission'["actor"] = Idling
    BY <1>23 DEF Drained, Go, stored, Owes, ObjectsType
  <2>4. \A x \in Threads : items[x] \subseteq items'[x]
    BY <1>23 DEF Drained, Go, stored, ObjectsType
  <2> QED
    BY <2>1, <2>2, <2>3, <2>4, AdmissionFrame
<1>24. ASSUME Tick PROVE AdmissionInv'
  <2>1. \A x \in Objects : AdmissionFits(x)' \/ admission'[x] \in {admission[x], Idling}
    BY <1>24 DEF Tick, stored, AdmissionFits, Owes, ObjectsType, Idling, Objects, WaitInv, Callers
  <2>2. \A x \in Callers : waiting[x] = "no" => waiting'[x] = "no" \/ admission'["actor"] = Idling
    BY <1>24 DEF Tick, stored, Covering, ObjectsType
  <2>3. \A x \in Clients : Owes(x) /\ waiting[x] = "no" => Owes(x)' \/ admission'["actor"] = Idling
    BY <1>24 DEF Tick, stored, Owes, ObjectsType
  <2>4. \A x \in Threads : items[x] \subseteq items'[x]
    BY <1>24 DEF Tick, stored, ObjectsType
  <2> QED
    BY <2>1, <2>2, <2>3, <2>4, AdmissionFrame
<1> QED
  BY <1>1, <1>2, <1>3, <1>4, <1>5, <1>6, <1>7, <1>8, <1>9, <1>10, <1>11, <1>12, <1>13, <1>14, <1>15, <1>16, <1>17, <1>18, <1>19, <1>20, <1>21, <1>22, <1>23, <1>24 DEF ObjectsNext

\* The alarm after a pass.
LEMMA EndAlarm ==
    ASSUME ObjectsType, NEW o \in Objects
    PROVE  /\ Synchronize(o) =>
                /\ \A x \in Objects : x # o => alarm'[x] = alarm[x]
                /\ alarm'[o] = IF admitted[o] THEN alarm[o] ELSE Needed(o)
           /\ Fail(o) =>
                /\ \A x \in Objects : x # o => alarm'[x] = alarm[x]
                /\ alarm'[o] = IF alarm[o] = Unset THEN 0 ELSE alarm[o]
<1>1. \A next : alarm' = [alarm EXCEPT ![o] = next] =>
        (\A x \in Objects : x # o => alarm'[x] = alarm[x]) /\ alarm'[o] = next
  BY DEF ObjectsType
<1>2. ASSUME Synchronize(o) PROVE alarm' = [alarm EXCEPT ![o] = IF admitted[o] THEN alarm[o] ELSE Needed(o)]
  BY <1>2 DEF Synchronize, End
<1>3. ASSUME Fail(o) PROVE alarm' = [alarm EXCEPT ![o] = IF alarm[o] = Unset THEN 0 ELSE alarm[o]]
  BY <1>3 DEF Fail, End
<1> HIDE DEF Synchronize, Fail
<1> QED
  BY <1>1, <1>2, <1>3

-----------------------------------------------------------------------------
\* A pass that is under way leaves an alarm behind, and its waiters are told.
LEMMA AlarmStep ==
    ASSUME ObjectsType, ObjectsType', AdmissionInv, WaitInv, AlarmInv, NextInv, WaitersCovered, ObjectsNext
    PROVE  AlarmInv' /\ NextInv' /\ WaitersCovered'
<1>1. ASSUME NEW c \in Clients, reserveThread(c) PROVE AlarmInv' /\ NextInv' /\ WaitersCovered'
  BY <1>1, ObjectsAssumption, TimeFacts DEF reserveThread, Candidates, Assigned, Admitting, stored, PassAt, AlarmInv, NextInv, WaitersCovered, ObjectsType, Objects, Callers, Creating, Readied, Idling
<1>2. ASSUME NEW c \in Clients, Refuse(c) PROVE AlarmInv' /\ NextInv' /\ WaitersCovered'
  BY <1>2, ObjectsAssumption, TimeFacts DEF Refuse, stored, PassAt, AlarmInv, NextInv, WaitersCovered, ObjectsType, Objects, Callers, Creating, Readied, Idling
<1>3. ASSUME NEW c \in Clients, Wait(c) PROVE AlarmInv' /\ NextInv' /\ WaitersCovered'
  BY <1>3, ObjectsAssumption, TimeFacts DEF Wait, Awaited, Admitting, stored, PassAt, AlarmInv, NextInv, WaitersCovered, ObjectsType, Objects, Callers, Creating, Readied, Idling
<1>4. ASSUME NEW c \in Clients, FinishAllocation(c) PROVE AlarmInv' /\ NextInv' /\ WaitersCovered'
  BY <1>4, ObjectsAssumption, TimeFacts DEF FinishAllocation, stored, PassAt, AlarmInv, NextInv, WaitersCovered, ObjectsType, Objects, Callers, Creating, Readied, Idling
<1>5. ASSUME NEW c \in Clients, Again(c) PROVE AlarmInv' /\ NextInv' /\ WaitersCovered'
  BY <1>5, ObjectsAssumption, TimeFacts DEF Again, stored, PassAt, AlarmInv, NextInv, WaitersCovered, ObjectsType, Objects, Callers, Creating, Readied, Idling
<1>6. ASSUME NEW t \in Threads, NEW m \in Messages, deliver(t, m) PROVE AlarmInv' /\ NextInv' /\ WaitersCovered'
  BY <1>6, ObjectsAssumption, TimeFacts DEF deliver, Admitting, stored, PassAt, AlarmInv, NextInv, WaitersCovered, ObjectsType, Objects, Callers, Creating, Readied, Idling
<1>7. ASSUME NEW o \in Objects, Publish(o) PROVE AlarmInv' /\ NextInv' /\ WaitersCovered'
  <2>1. ToldPass /\ ToldWaiting(o, TRUE)
    BY <1>7, ToldMoves DEF Publish
  <2>2. /\ \A x \in Objects : x # o => alarm'[x] = alarm[x] /\ admitted'[x] = admitted[x]
        /\ alarm'[o] = 0 /\ admitted'[o]
    BY <1>7 DEF Publish, ObjectsType
  <2>3. o = "actor" \/ \A x \in Callers : waiting'[x] = waiting[x]
    BY <2>1 DEF ToldWaiting
  <2>4. \A x \in Objects : \/ pass'[x].step = pass[x].step
                           \/ pass[x].step \in {"asking", "committing"} /\ pass'[x].step \in {"failed", "committed"}
    BY <2>1 DEF ToldPass
  <2>5. AlarmInv'
    BY <2>2, <2>4, TimeFacts DEF AlarmInv
  <2>6. NextInv'
    BY <2>1, <2>2, <2>3, <2>4 DEF NextInv, ToldWaiting, Objects
  <2>7. WaitersCovered'
    BY <2>1, <2>2, <2>3, <2>4 DEF WaitersCovered, ToldWaiting, Objects, PassAt
  <2> QED
    BY <2>5, <2>6, <2>7
<1>8. ASSUME NEW o \in Objects, AdmissionFails(o) PROVE AlarmInv' /\ NextInv' /\ WaitersCovered'
  <2>1. ToldPass /\ ToldWaiting(o, FALSE)
    BY <1>8, ToldMoves DEF AdmissionFails
  <2>2. \A x \in Objects : /\ alarm'[x] = alarm[x] \/ alarm'[x] = 0
                           /\ admitted'[x] = admitted[x]
    BY <1>8 DEF AdmissionFails, ObjectsType
  <2>3. \A x \in Callers : waiting'[x] = waiting[x]
    BY <2>1 DEF ToldWaiting
  <2>4. \A x \in Objects : \/ pass'[x].step = pass[x].step
                           \/ pass[x].step \in {"asking", "committing"} /\ pass'[x].step \in {"failed", "committed"}
    BY <2>1 DEF ToldPass
  <2>5. AlarmInv'
    BY <2>2, <2>4, TimeFacts DEF AlarmInv
  <2>6. NextInv'
    BY <2>1, <2>2, <2>3, <2>4 DEF NextInv, ToldWaiting, Objects
  <2>7. WaitersCovered'
    BY <2>1, <2>2, <2>3, <2>4 DEF WaitersCovered, ToldWaiting, Objects, PassAt
  <2> QED
    BY <2>5, <2>6, <2>7
<1>9. ASSUME NEW o \in Objects, Fire(o) PROVE AlarmInv' /\ NextInv' /\ WaitersCovered'
  BY <1>9, ObjectsAssumption, TimeFacts DEF Fire, Go, stored, PassAt, AlarmInv, NextInv, WaitersCovered, ObjectsType, Objects, Callers, Creating, Readied, Idling
<1>10. ASSUME NEW o \in Objects, Arm(o) PROVE AlarmInv' /\ NextInv' /\ WaitersCovered'
  BY <1>10, ObjectsAssumption, TimeFacts, ArmFits DEF Arm, Covering, Go, stored, PassAt, AlarmInv, NextInv, WaitersCovered, ObjectsType, Objects, Callers, Creating, Readied, Idling
<1>11. ASSUME NEW o \in Objects, Synchronize(o) PROVE AlarmInv' /\ NextInv' /\ WaitersCovered'
  <2>1. PICK ok \in BOOLEAN : EndPass(o) /\ EndCallers(o, ok)
    BY <1>11, EndMoves DEF Synchronize
  <2>2. /\ \A x \in Objects : x # o => alarm'[x] = alarm[x]
        /\ alarm'[o] = (IF admitted[o] THEN alarm[o] ELSE Needed(o))
        /\ admitted' = admitted
    BY <1>11, EndAlarm DEF Synchronize
  <2>3. \A x \in Threads : waiting[x] = "covered" => pass[x].step = "asking"
    BY DEF WaitInv
  <2>4. \A x \in Objects : \/ pass'[x].step = "idle"
                           \/ pass'[x].step = pass[x].step /\ x # o
                           \/ x # o /\ x \in Threads /\ pass[x].step = "asking" /\ pass'[x].step \in {"failed", "ready"}
    BY <2>1, <2>3 DEF EndPass
  <2>5. AlarmInv'
    BY <2>2, <2>4 DEF AlarmInv
  <2>6. IF o = "actor" THEN pass'["actor"].step = "idle" /\ \A x \in Callers : waiting'[x] # "covered" /\ (waiting'[x] = "next" => waiting[x] = "next")
        ELSE pass'["actor"] = pass["actor"] /\ waiting' = waiting
    BY <2>1, ObjectsAssumption DEF EndPass, EndCallers, Objects, ObjectsType
  <2>7. NextInv'
    BY <2>2, <2>6 DEF NextInv
  <2>8. o = "actor" /\ alarm["actor"] = 0 /\ (\E x \in Callers : waiting[x] = "next") => alarm'[o] = 0
    BY <1>11, <2>2, TimeFacts DEF Synchronize, NextInv, PassAt
  <2>9. pass[o].step \notin {"idle", "fired"}
    BY <1>11 DEF Synchronize, PassAt
  <2>10. WaitersCovered'
    BY <2>2, <2>6, <2>8, <2>9 DEF WaitersCovered, PassAt, Objects
  <2> QED
    BY <2>5, <2>7, <2>10
<1>12. ASSUME NEW o \in Objects, Fail(o) PROVE AlarmInv' /\ NextInv' /\ WaitersCovered'
  <2>1. PICK ok \in BOOLEAN : EndPass(o) /\ EndCallers(o, ok)
    BY <1>12, EndMoves DEF Fail
  <2>2. /\ \A x \in Objects : x # o => alarm'[x] = alarm[x]
        /\ alarm'[o] = (IF alarm[o] = Unset THEN 0 ELSE alarm[o])
        /\ admitted' = admitted
    BY <1>12, EndAlarm DEF Fail
  <2>3. \A x \in Threads : waiting[x] = "covered" => pass[x].step = "asking"
    BY DEF WaitInv
  <2>4. \A x \in Objects : \/ pass'[x].step = "idle"
                           \/ pass'[x].step = pass[x].step /\ x # o
                           \/ x # o /\ x \in Threads /\ pass[x].step = "asking" /\ pass'[x].step \in {"failed", "ready"}
    BY <2>1, <2>3 DEF EndPass
  <2>5. AlarmInv'
    BY <2>2, <2>4 DEF AlarmInv
  <2>6. IF o = "actor" THEN pass'["actor"].step = "idle" /\ \A x \in Callers : waiting'[x] # "covered" /\ (waiting'[x] = "next" => waiting[x] = "next")
        ELSE pass'["actor"] = pass["actor"] /\ waiting' = waiting
    BY <2>1, ObjectsAssumption DEF EndPass, EndCallers, Objects, ObjectsType
  <2>7. NextInv'
    BY <2>2, <2>6 DEF NextInv
  <2>8. o = "actor" /\ alarm["actor"] = 0 /\ (\E x \in Callers : waiting[x] = "next") => alarm'[o] = 0
    BY <1>12, <2>2, TimeFacts DEF Fail, NextInv, PassAt
  <2>9. pass[o].step \notin {"idle", "fired"}
    BY <1>12 DEF Fail, PassAt
  <2>10. WaitersCovered'
    BY <2>2, <2>6, <2>8, <2>9 DEF WaitersCovered, PassAt, Objects
  <2> QED
    BY <2>5, <2>7, <2>10
<1>13. ASSUME NEW o \in Objects, Break(o) PROVE AlarmInv' /\ NextInv' /\ WaitersCovered'
  BY <1>13, ObjectsAssumption, TimeFacts DEF Break, Covering, Go, stored, PassAt, AlarmInv, NextInv, WaitersCovered, ObjectsType, Objects, Callers, Creating, Readied, Idling
<1>14. ASSUME NEW o \in Objects, Evict(o) PROVE AlarmInv' /\ NextInv' /\ WaitersCovered'
  <2>1. AlarmInv'
    BY <1>14, TimeFacts DEF Evict, stored, AlarmInv, ObjectsType, Idling
  <2>2. NextInv'
    BY <1>14, ObjectsAssumption DEF Evict, stored, NextInv, ObjectsType, Objects, Callers, Idling
  <2>3. WaitersCovered'
    BY <1>14, ObjectsAssumption, TimeFacts DEF Evict, stored, PassAt, AlarmInv, NextInv, WaitersCovered, ObjectsType, Objects, Callers, Creating, Readied, Idling
  <2> QED
    BY <2>1, <2>2, <2>3
<1>15. ASSUME NEW t \in Threads, create(t) PROVE AlarmInv' /\ NextInv' /\ WaitersCovered'
  BY <1>15, ObjectsAssumption, TimeFacts DEF create, stored, PassAt, AlarmInv, NextInv, WaitersCovered, ObjectsType, Objects, Callers, Creating, Readied, Idling
<1>16. ASSUME NEW t \in Threads, commitCreation(t) PROVE AlarmInv' /\ NextInv' /\ WaitersCovered'
  BY <1>16, ObjectsAssumption, TimeFacts DEF commitCreation, Admitting, stored, PassAt, AlarmInv, NextInv, WaitersCovered, ObjectsType, Objects, Callers, Creating, Readied, Idling
<1>17. ASSUME NEW t \in Threads, ThreadRegistered(t) PROVE AlarmInv' /\ NextInv' /\ WaitersCovered'
  <2>1. /\ pass["actor"].step = "committed" /\ pass'["actor"].step = "armed"
        /\ \A x \in Objects : x # "actor" => pass'[x] = pass[x]
    BY <1>17 DEF ThreadRegistered, Go, ObjectsType, Objects
  <2>2. UNCHANGED <<alarm, admitted, waiting>>
    BY <1>17 DEF ThreadRegistered
  <2> QED
    BY <2>1, <2>2 DEF AlarmInv, NextInv, WaitersCovered, PassAt, Objects
<1>18. ASSUME Reconciled PROVE AlarmInv' /\ NextInv' /\ WaitersCovered'
  BY <1>18, ObjectsAssumption, TimeFacts DEF Reconciled, Go, stored, PassAt, AlarmInv, NextInv, WaitersCovered, ObjectsType, Objects, Callers, Creating, Readied, Idling
<1>19. ASSUME NEW t \in Threads, ensureThreadReady(t) PROVE AlarmInv' /\ NextInv' /\ WaitersCovered'
  <2>1. UNCHANGED <<alarm, admitted, waiting>> /\ pass[t].step = "armed"
    BY <1>19 DEF ensureThreadReady, PassAt
  <2>2. t # "actor" /\ "actor" \in Objects /\ t \in Objects
    BY ObjectsAssumption DEF Objects
  <2>3. pass'[t].step \in {"ready", "asking"} /\ \A x \in Objects : x # t => pass'[x] = pass[x]
    BY <1>19, <2>2 DEF ensureThreadReady, Go, ObjectsType
  <2>4. AlarmInv'
    BY <2>1, <2>3 DEF AlarmInv
  <2>5. NextInv' /\ WaitersCovered'
    BY <2>1, <2>2, <2>3 DEF NextInv, WaitersCovered, PassAt
  <2> QED
    BY <2>4, <2>5
<1>20. ASSUME NEW t \in Threads, recordAlarm(t) PROVE AlarmInv' /\ NextInv' /\ WaitersCovered'
  BY <1>20, ObjectsAssumption, TimeFacts DEF recordAlarm, Go, stored, PassAt, AlarmInv, NextInv, WaitersCovered, ObjectsType, Objects, Callers, Creating, Readied, Idling
<1>21. ASSUME NEW t \in Threads, Serve(t) PROVE AlarmInv' /\ NextInv' /\ WaitersCovered'
  BY <1>21, ObjectsAssumption, TimeFacts DEF Serve, Go, stored, PassAt, AlarmInv, NextInv, WaitersCovered, ObjectsType, Objects, Callers, Creating, Readied, Idling
<1>22. ASSUME NEW t \in Threads, Served(t) PROVE AlarmInv' /\ NextInv' /\ WaitersCovered'
  BY <1>22, ObjectsAssumption, TimeFacts DEF Served, Go, stored, PassAt, AlarmInv, NextInv, WaitersCovered, ObjectsType, Objects, Callers, Creating, Readied, Idling
<1>23. ASSUME NEW t \in Threads, Drained(t) PROVE AlarmInv' /\ NextInv' /\ WaitersCovered'
  BY <1>23, ObjectsAssumption, TimeFacts DEF Drained, Go, stored, PassAt, AlarmInv, NextInv, WaitersCovered, ObjectsType, Objects, Callers, Creating, Readied, Idling
<1>24. ASSUME Tick PROVE AlarmInv' /\ NextInv' /\ WaitersCovered'
  <2>1. \A x \in Objects : alarm'[x] = IF alarm[x] \in Times \ {0} THEN alarm[x] - 1 ELSE alarm[x]
    BY <1>24 DEF Tick
  <2>2. \A x \in Objects : alarm[x] \in Times \cup {Unset}
    BY DEF ObjectsType
  <2>3. \A x \in Objects : /\ alarm[x] <= RecoveryDelay => alarm'[x] <= RecoveryDelay
                           /\ alarm[x] = Unset => alarm'[x] = Unset
                           /\ alarm[x] = 0 => alarm'[x] = 0
    BY <2>1, <2>2, TickFacts
  <2>4. UNCHANGED <<admitted, pass, waiting>>
    BY <1>24 DEF Tick
  <2> QED
    BY <2>3, <2>4 DEF AlarmInv, NextInv, WaitersCovered, PassAt, Objects
<1> QED
  BY <1>1, <1>2, <1>3, <1>4, <1>5, <1>6, <1>7, <1>8, <1>9, <1>10, <1>11, <1>12, <1>13, <1>14, <1>15, <1>16, <1>17, <1>18, <1>19, <1>20, <1>21, <1>22, <1>23, <1>24 DEF ObjectsNext

-----------------------------------------------------------------------------
\* What the end of an orderly pass leaves behind (synchronizeAlarm).
LEMMA SynchronizeLeaves ==
    ASSUME ObjectsType, AlarmInv, NEW o \in Objects, Synchronize(o)
    PROVE  /\ o = "actor" /\ Requested # {} => alarm'[o] <= RecoveryDelay
           /\ o \in Threads =>
                /\ ~(items[o] \subseteq served[o]) => alarm'[o] <= RecoveryDelay
                /\ \A m \in Open(o) : alarm'[o] <= RecoveryDelay \/ alarm'[o] <= left[o][m]
<1>1. alarm'[o] = IF admitted[o] THEN alarm[o] ELSE Needed(o)
  BY EndAlarm
<1>2. alarm[o] <= RecoveryDelay /\ alarm[o] \in Times \cup {Unset}
  BY DEF Synchronize, PassAt, AlarmInv, ObjectsType
<1>3. ASSUME o = "actor", Requested # {}, ~admitted[o] PROVE alarm'[o] <= RecoveryDelay
  <2> DEFINE resting == Requested = {}
  <2>1. alarm'[o] = scheduledAlarmAt(alarm[o], resting, Unset)
    BY <1>1, <1>3 DEF Needed
  <2>2. resting \in BOOLEAN /\ ~resting /\ Unset \in Times \cup {Unset}
    BY <1>3
  <2> HIDE DEF resting
  <2> QED
    BY <1>2, <2>1, <2>2, ScheduledFits
<1>4. ASSUME o \in Threads, ~admitted[o]
      PROVE  /\ ~(items[o] \subseteq served[o]) => alarm'[o] <= RecoveryDelay
             /\ \A m \in Open(o) : alarm'[o] <= RecoveryDelay \/ alarm'[o] <= left[o][m]
  <2> DEFINE resting == ~marked[o] /\ items[o] \subseteq served[o]
             wakeAt == nextAlarmDeadline(o)
  <2>1. alarm'[o] = scheduledAlarmAt(alarm[o], resting, wakeAt)
    BY <1>1, <1>4, ObjectsAssumption DEF Needed
  <2>2. wakeAt \in Times \cup {Unset} /\ \A m \in Open(o) : wakeAt <= left[o][m]
    BY <1>4, DeadlineFits
  <2>3. resting \in BOOLEAN
    OBVIOUS
  <2>4. ~(items[o] \subseteq served[o]) => ~resting
    OBVIOUS
  <2> HIDE DEF resting, wakeAt
  <2> QED
    BY <1>2, <2>1, <2>2, <2>3, <2>4, ScheduledFits
<1> QED
  BY <1>1, <1>2, <1>3, <1>4

\* The alarm of an object that is at rest after a step, when the step was not the end of
\* an orderly pass.
LEMMA RestMoves ==
    ASSUME ObjectsType, ObjectsType', AlarmInv, AdmissionInv, ObjectsNext, NEW o \in Objects, pass'[o].step = "idle"
    PROVE  \/ Synchronize(o) \/ Tick \/ alarm'[o] <= RecoveryDelay
           \/ pass[o].step = "idle" /\ alarm'[o] = alarm[o]
<1>1. ASSUME NEW c \in Clients, reserveThread(c) PROVE \/ Synchronize(o) \/ Tick \/ alarm'[o] <= RecoveryDelay \/ (pass[o].step = "idle" /\ alarm'[o] = alarm[o])
  BY <1>1, ObjectsAssumption, TimeFacts DEF reserveThread, Candidates, Assigned, Admitting, stored, PassAt, AlarmInv, ObjectsType, Objects, Idling
<1>2. ASSUME NEW c \in Clients, Refuse(c) PROVE \/ Synchronize(o) \/ Tick \/ alarm'[o] <= RecoveryDelay \/ (pass[o].step = "idle" /\ alarm'[o] = alarm[o])
  BY <1>2, ObjectsAssumption, TimeFacts DEF Refuse, stored, PassAt, AlarmInv, ObjectsType, Objects, Idling
<1>3. ASSUME NEW c \in Clients, Wait(c) PROVE \/ Synchronize(o) \/ Tick \/ alarm'[o] <= RecoveryDelay \/ (pass[o].step = "idle" /\ alarm'[o] = alarm[o])
  BY <1>3, ObjectsAssumption, TimeFacts DEF Wait, Awaited, Admitting, stored, PassAt, AlarmInv, ObjectsType, Objects, Idling
<1>4. ASSUME NEW c \in Clients, FinishAllocation(c) PROVE \/ Synchronize(o) \/ Tick \/ alarm'[o] <= RecoveryDelay \/ (pass[o].step = "idle" /\ alarm'[o] = alarm[o])
  BY <1>4, ObjectsAssumption, TimeFacts DEF FinishAllocation, stored, PassAt, AlarmInv, ObjectsType, Objects, Idling
<1>5. ASSUME NEW c \in Clients, Again(c) PROVE \/ Synchronize(o) \/ Tick \/ alarm'[o] <= RecoveryDelay \/ (pass[o].step = "idle" /\ alarm'[o] = alarm[o])
  BY <1>5, ObjectsAssumption, TimeFacts DEF Again, stored, PassAt, AlarmInv, ObjectsType, Objects, Idling
<1>6. ASSUME NEW t \in Threads, NEW m \in Messages, deliver(t, m) PROVE \/ Synchronize(o) \/ Tick \/ alarm'[o] <= RecoveryDelay \/ (pass[o].step = "idle" /\ alarm'[o] = alarm[o])
  BY <1>6, ObjectsAssumption, TimeFacts DEF deliver, Admitting, stored, PassAt, AlarmInv, ObjectsType, Objects, Idling
<1>7. ASSUME NEW p \in Objects, Publish(p) PROVE \/ Synchronize(o) \/ Tick \/ alarm'[o] <= RecoveryDelay \/ (pass[o].step = "idle" /\ alarm'[o] = alarm[o])
  <2>1. pass[o].step = "idle"
    BY <1>7, ToldMoves DEF Publish, ToldPass
  <2>2. alarm'[o] \in {alarm[o], 0}
    BY <1>7 DEF Publish, ObjectsType
  <2> QED
    BY <2>1, <2>2, TimeFacts
<1>8. ASSUME NEW p \in Objects, AdmissionFails(p) PROVE \/ Synchronize(o) \/ Tick \/ alarm'[o] <= RecoveryDelay \/ (pass[o].step = "idle" /\ alarm'[o] = alarm[o])
  <2>1. pass[o].step = "idle"
    BY <1>8, ToldMoves DEF AdmissionFails, ToldPass
  <2>2. alarm'[o] \in {alarm[o], 0}
    BY <1>8 DEF AdmissionFails, ObjectsType
  <2> QED
    BY <2>1, <2>2, TimeFacts
<1>9. ASSUME NEW p \in Objects, Fire(p) PROVE \/ Synchronize(o) \/ Tick \/ alarm'[o] <= RecoveryDelay \/ (pass[o].step = "idle" /\ alarm'[o] = alarm[o])
  BY <1>9, ObjectsAssumption, TimeFacts DEF Fire, Go, stored, PassAt, AlarmInv, ObjectsType, Objects, Idling
<1>10. ASSUME NEW p \in Objects, Arm(p) PROVE \/ Synchronize(o) \/ Tick \/ alarm'[o] <= RecoveryDelay \/ (pass[o].step = "idle" /\ alarm'[o] = alarm[o])
  BY <1>10, ObjectsAssumption, TimeFacts DEF Arm, Covering, Go, stored, PassAt, AlarmInv, ObjectsType, Objects, Idling
<1>11. ASSUME NEW p \in Objects, Synchronize(p) PROVE \/ Synchronize(o) \/ Tick \/ alarm'[o] <= RecoveryDelay \/ (pass[o].step = "idle" /\ alarm'[o] = alarm[o])
  <2>1. alarm'[p] = (IF admitted[p] THEN alarm[p] ELSE Needed(p)) /\ (p # o => alarm'[o] = alarm[o])
    BY <1>11, EndAlarm
  <2>2. EndPass(p)
    <3>1. PICK next : End(p, TRUE, next)
      BY <1>11 DEF Synchronize
    <3> QED
      BY <3>1, EndMoves
  <2>3. p # o => pass'[o].step \in {pass[o].step, "failed", "ready"}
    BY <2>2 DEF EndPass
  <2> QED
    BY <1>11, <2>1, <2>3, TimeFacts DEF Synchronize, PassAt, AlarmInv, ObjectsType
<1>12. ASSUME NEW p \in Objects, Fail(p) PROVE \/ Synchronize(o) \/ Tick \/ alarm'[o] <= RecoveryDelay \/ (pass[o].step = "idle" /\ alarm'[o] = alarm[o])
  <2>1. alarm'[p] = (IF alarm[p] = Unset THEN 0 ELSE alarm[p]) /\ (p # o => alarm'[o] = alarm[o])
    BY <1>12, EndAlarm
  <2>2. EndPass(p)
    <3>1. PICK next : End(p, FALSE, next)
      BY <1>12 DEF Fail
    <3> QED
      BY <3>1, EndMoves
  <2>3. p # o => pass'[o].step \in {pass[o].step, "failed", "ready"}
    BY <2>2 DEF EndPass
  <2> QED
    BY <1>12, <2>1, <2>3, TimeFacts DEF Fail, PassAt, AlarmInv, ObjectsType
<1>13. ASSUME NEW p \in Objects, Break(p) PROVE \/ Synchronize(o) \/ Tick \/ alarm'[o] <= RecoveryDelay \/ (pass[o].step = "idle" /\ alarm'[o] = alarm[o])
  BY <1>13, ObjectsAssumption, TimeFacts DEF Break, Covering, Go, stored, PassAt, AlarmInv, ObjectsType, Objects, Idling
<1>14. ASSUME NEW p \in Objects, Evict(p) PROVE \/ Synchronize(o) \/ Tick \/ alarm'[o] <= RecoveryDelay \/ (pass[o].step = "idle" /\ alarm'[o] = alarm[o])
  BY <1>14, ObjectsAssumption, TimeFacts DEF Evict, stored, PassAt, AlarmInv, ObjectsType, Objects, Idling
<1>15. ASSUME NEW t \in Threads, create(t) PROVE \/ Synchronize(o) \/ Tick \/ alarm'[o] <= RecoveryDelay \/ (pass[o].step = "idle" /\ alarm'[o] = alarm[o])
  BY <1>15, ObjectsAssumption, TimeFacts DEF create, stored, PassAt, AlarmInv, ObjectsType, Objects, Idling
<1>16. ASSUME NEW t \in Threads, commitCreation(t) PROVE \/ Synchronize(o) \/ Tick \/ alarm'[o] <= RecoveryDelay \/ (pass[o].step = "idle" /\ alarm'[o] = alarm[o])
  BY <1>16, ObjectsAssumption, TimeFacts DEF commitCreation, Admitting, stored, PassAt, AlarmInv, ObjectsType, Objects, Idling
<1>17. ASSUME NEW t \in Threads, ThreadRegistered(t) PROVE \/ Synchronize(o) \/ Tick \/ alarm'[o] <= RecoveryDelay \/ (pass[o].step = "idle" /\ alarm'[o] = alarm[o])
  BY <1>17, ObjectsAssumption, TimeFacts DEF ThreadRegistered, Go, stored, PassAt, AlarmInv, ObjectsType, Objects, Idling
<1>18. ASSUME Reconciled PROVE \/ Synchronize(o) \/ Tick \/ alarm'[o] <= RecoveryDelay \/ (pass[o].step = "idle" /\ alarm'[o] = alarm[o])
  BY <1>18, ObjectsAssumption, TimeFacts DEF Reconciled, Go, stored, PassAt, AlarmInv, ObjectsType, Objects, Idling
<1>19. ASSUME NEW t \in Threads, ensureThreadReady(t) PROVE \/ Synchronize(o) \/ Tick \/ alarm'[o] <= RecoveryDelay \/ (pass[o].step = "idle" /\ alarm'[o] = alarm[o])
  BY <1>19, ObjectsAssumption, TimeFacts DEF ensureThreadReady, Admitting, Go, stored, PassAt, AlarmInv, ObjectsType, Objects, Idling
<1>20. ASSUME NEW t \in Threads, recordAlarm(t) PROVE \/ Synchronize(o) \/ Tick \/ alarm'[o] <= RecoveryDelay \/ (pass[o].step = "idle" /\ alarm'[o] = alarm[o])
  BY <1>20, ObjectsAssumption, TimeFacts DEF recordAlarm, Go, stored, PassAt, AlarmInv, ObjectsType, Objects, Idling
<1>21. ASSUME NEW t \in Threads, Serve(t) PROVE \/ Synchronize(o) \/ Tick \/ alarm'[o] <= RecoveryDelay \/ (pass[o].step = "idle" /\ alarm'[o] = alarm[o])
  BY <1>21, ObjectsAssumption, TimeFacts DEF Serve, Go, stored, PassAt, AlarmInv, ObjectsType, Objects, Idling
<1>22. ASSUME NEW t \in Threads, Served(t) PROVE \/ Synchronize(o) \/ Tick \/ alarm'[o] <= RecoveryDelay \/ (pass[o].step = "idle" /\ alarm'[o] = alarm[o])
  BY <1>22, ObjectsAssumption, TimeFacts DEF Served, Go, stored, PassAt, AlarmInv, ObjectsType, Objects, Idling
<1>23. ASSUME NEW t \in Threads, Drained(t) PROVE \/ Synchronize(o) \/ Tick \/ alarm'[o] <= RecoveryDelay \/ (pass[o].step = "idle" /\ alarm'[o] = alarm[o])
  BY <1>23, ObjectsAssumption, TimeFacts DEF Drained, Go, stored, PassAt, AlarmInv, ObjectsType, Objects, Idling
<1>24. ASSUME Tick PROVE \/ Synchronize(o) \/ Tick \/ alarm'[o] <= RecoveryDelay \/ (pass[o].step = "idle" /\ alarm'[o] = alarm[o])
  BY <1>24
<1> QED
  BY <1>1, <1>2, <1>3, <1>4, <1>5, <1>6, <1>7, <1>8, <1>9, <1>10, <1>11, <1>12, <1>13, <1>14, <1>15, <1>16, <1>17, <1>18, <1>19, <1>20, <1>21, <1>22, <1>23, <1>24 DEF ObjectsNext

-----------------------------------------------------------------------------
\* What is recorded for answers: a reservation keeps its thread, a message is logged, and
\* an answer leaves the alarm of its object at now.
LEMMA AnswerMoves ==
    ASSUME ObjectsType, AdmissionInv, ClientInv, DirectoryInv, AckInv, ObjectsNext
    PROVE  /\ registered \subseteq registered'
           /\ \A t \in Threads : /\ directory[t] # Free => directory'[t] # Free
                                 /\ items[t] \subseteq items'[t] /\ served[t] \subseteq served'[t]
           /\ \A t \in Threads : <<"actor", t>> \in acked' => <<"actor", t>> \in acked \/ (directory[t] # Free /\ alarm'["actor"] = 0)
           /\ \A t \in Threads, m \in Messages :
                <<t, m>> \in acked' => <<t, m>> \in acked \/ (<<"message", m>> \in items[t] /\ alarm'[t] = 0)
           /\ \A t \in Threads : \A m \in Timed :
                left'[t][m] # Closed => left'[t][m] = left[t][m] \/ Tick \/ <<t, m>> \notin acked'
<1>1. ASSUME NEW c \in Clients, reserveThread(c)
      PROVE  /\ registered \subseteq registered'
             /\ \A u \in Threads : /\ directory[u] # Free => directory'[u] # Free
                                   /\ items[u] \subseteq items'[u] /\ served[u] \subseteq served'[u]
             /\ \A u \in Threads : <<"actor", u>> \in acked' => <<"actor", u>> \in acked \/ (directory[u] # Free /\ alarm'["actor"] = 0)
             /\ \A u \in Threads, n \in Messages :
                  <<u, n>> \in acked' => <<u, n>> \in acked \/ (<<"message", n>> \in items[u] /\ alarm'[u] = 0)
             /\ \A u \in Threads : \A n \in Timed :
                  left'[u][n] # Closed => left'[u][n] = left[u][n] \/ Tick \/ <<u, n>> \notin acked'
  BY <1>1, ObjectsAssumption DEF reserveThread, Candidates, Assigned, Admitting, stored, ObjectsType
<1>2. ASSUME NEW c \in Clients, Refuse(c)
      PROVE  /\ registered \subseteq registered'
             /\ \A u \in Threads : /\ directory[u] # Free => directory'[u] # Free
                                   /\ items[u] \subseteq items'[u] /\ served[u] \subseteq served'[u]
             /\ \A u \in Threads : <<"actor", u>> \in acked' => <<"actor", u>> \in acked \/ (directory[u] # Free /\ alarm'["actor"] = 0)
             /\ \A u \in Threads, n \in Messages :
                  <<u, n>> \in acked' => <<u, n>> \in acked \/ (<<"message", n>> \in items[u] /\ alarm'[u] = 0)
             /\ \A u \in Threads : \A n \in Timed :
                  left'[u][n] # Closed => left'[u][n] = left[u][n] \/ Tick \/ <<u, n>> \notin acked'
  BY <1>2, ObjectsAssumption DEF Refuse, stored, ObjectsType
<1>3. ASSUME NEW c \in Clients, Wait(c)
      PROVE  /\ registered \subseteq registered'
             /\ \A u \in Threads : /\ directory[u] # Free => directory'[u] # Free
                                   /\ items[u] \subseteq items'[u] /\ served[u] \subseteq served'[u]
             /\ \A u \in Threads : <<"actor", u>> \in acked' => <<"actor", u>> \in acked \/ (directory[u] # Free /\ alarm'["actor"] = 0)
             /\ \A u \in Threads, n \in Messages :
                  <<u, n>> \in acked' => <<u, n>> \in acked \/ (<<"message", n>> \in items[u] /\ alarm'[u] = 0)
             /\ \A u \in Threads : \A n \in Timed :
                  left'[u][n] # Closed => left'[u][n] = left[u][n] \/ Tick \/ <<u, n>> \notin acked'
  BY <1>3, ObjectsAssumption DEF Wait, Awaited, Admitting, stored, ObjectsType
<1>4. ASSUME NEW c \in Clients, FinishAllocation(c)
      PROVE  /\ registered \subseteq registered'
             /\ \A u \in Threads : /\ directory[u] # Free => directory'[u] # Free
                                   /\ items[u] \subseteq items'[u] /\ served[u] \subseteq served'[u]
             /\ \A u \in Threads : <<"actor", u>> \in acked' => <<"actor", u>> \in acked \/ (directory[u] # Free /\ alarm'["actor"] = 0)
             /\ \A u \in Threads, n \in Messages :
                  <<u, n>> \in acked' => <<u, n>> \in acked \/ (<<"message", n>> \in items[u] /\ alarm'[u] = 0)
             /\ \A u \in Threads : \A n \in Timed :
                  left'[u][n] # Closed => left'[u][n] = left[u][n] \/ Tick \/ <<u, n>> \notin acked'
  BY <1>4, ObjectsAssumption DEF FinishAllocation, stored, ObjectsType
<1>5. ASSUME NEW c \in Clients, Again(c)
      PROVE  /\ registered \subseteq registered'
             /\ \A u \in Threads : /\ directory[u] # Free => directory'[u] # Free
                                   /\ items[u] \subseteq items'[u] /\ served[u] \subseteq served'[u]
             /\ \A u \in Threads : <<"actor", u>> \in acked' => <<"actor", u>> \in acked \/ (directory[u] # Free /\ alarm'["actor"] = 0)
             /\ \A u \in Threads, n \in Messages :
                  <<u, n>> \in acked' => <<u, n>> \in acked \/ (<<"message", n>> \in items[u] /\ alarm'[u] = 0)
             /\ \A u \in Threads : \A n \in Timed :
                  left'[u][n] # Closed => left'[u][n] = left[u][n] \/ Tick \/ <<u, n>> \notin acked'
  BY <1>5, ObjectsAssumption DEF Again, stored, ObjectsType
<1>6. ASSUME NEW t \in Threads, NEW m \in Messages, deliver(t, m)
      PROVE  /\ registered \subseteq registered'
             /\ \A u \in Threads : /\ directory[u] # Free => directory'[u] # Free
                                   /\ items[u] \subseteq items'[u] /\ served[u] \subseteq served'[u]
             /\ \A u \in Threads : <<"actor", u>> \in acked' => <<"actor", u>> \in acked \/ (directory[u] # Free /\ alarm'["actor"] = 0)
             /\ \A u \in Threads, n \in Messages :
                  <<u, n>> \in acked' => <<u, n>> \in acked \/ (<<"message", n>> \in items[u] /\ alarm'[u] = 0)
             /\ \A u \in Threads : \A n \in Timed :
                  left'[u][n] # Closed => left'[u][n] = left[u][n] \/ Tick \/ <<u, n>> \notin acked'
  <2>1. UNCHANGED <<directory, registered, served, acked>> /\ <<t, m>> \notin acked
    BY <1>6 DEF deliver
  <2>2. ASSUME NEW u \in Threads PROVE items[u] \subseteq items'[u]
    BY <1>6 DEF deliver, ObjectsType
  <2>3. ASSUME NEW u \in Threads, NEW n \in Timed PROVE left'[u][n] = left[u][n] \/ (u = t /\ n = m)
    BY <1>6 DEF deliver, ObjectsType
  <2> QED
    BY <2>1, <2>2, <2>3
<1>7. ASSUME NEW o \in Objects, Publish(o)
      PROVE  /\ registered \subseteq registered'
             /\ \A u \in Threads : /\ directory[u] # Free => directory'[u] # Free
                                   /\ items[u] \subseteq items'[u] /\ served[u] \subseteq served'[u]
             /\ \A u \in Threads : <<"actor", u>> \in acked' => <<"actor", u>> \in acked \/ (directory[u] # Free /\ alarm'["actor"] = 0)
             /\ \A u \in Threads, n \in Messages :
                  <<u, n>> \in acked' => <<u, n>> \in acked \/ (<<"message", n>> \in items[u] /\ alarm'[u] = 0)
             /\ \A u \in Threads : \A n \in Timed :
                  left'[u][n] # Closed => left'[u][n] = left[u][n] \/ Tick \/ <<u, n>> \notin acked'
  <2>1. ToldAcked(o, TRUE) /\ UNCHANGED stored /\ alarm'[o] = 0
    BY <1>7, ToldMoves DEF Publish, ObjectsType
  <2>2. \A c \in Clients : clients[c].step = "reserving" => clients[c].thread \in Threads /\ directory[clients[c].thread] # Free
    BY ObjectsAssumption DEF ClientInv
  <2>3. \A u \in Threads : <<"actor", u>> \in acked' => <<"actor", u>> \in acked \/ (directory[u] # Free /\ alarm'["actor"] = 0)
    BY <2>1, <2>2, ObjectsAssumption DEF ToldAcked
  <2>4. \A u \in Threads, n \in Messages :
           <<u, n>> \in acked' => <<u, n>> \in acked \/ (<<"message", n>> \in items[u] /\ alarm'[u] = 0)
    BY <2>1, ObjectsAssumption DEF ToldAcked
  <2> QED
    BY <2>1, <2>3, <2>4 DEF stored
<1>8. ASSUME NEW o \in Objects, AdmissionFails(o)
      PROVE  /\ registered \subseteq registered'
             /\ \A u \in Threads : /\ directory[u] # Free => directory'[u] # Free
                                   /\ items[u] \subseteq items'[u] /\ served[u] \subseteq served'[u]
             /\ \A u \in Threads : <<"actor", u>> \in acked' => <<"actor", u>> \in acked \/ (directory[u] # Free /\ alarm'["actor"] = 0)
             /\ \A u \in Threads, n \in Messages :
                  <<u, n>> \in acked' => <<u, n>> \in acked \/ (<<"message", n>> \in items[u] /\ alarm'[u] = 0)
             /\ \A u \in Threads : \A n \in Timed :
                  left'[u][n] # Closed => left'[u][n] = left[u][n] \/ Tick \/ <<u, n>> \notin acked'
  <2>1. ToldAcked(o, FALSE) /\ UNCHANGED stored
    BY <1>8, ToldMoves DEF AdmissionFails, ObjectsType
  <2>2. \A e \in acked' : e \in acked
    BY <2>1 DEF ToldAcked
  <2> QED
    BY <2>1, <2>2 DEF stored
<1>9. ASSUME NEW o \in Objects, Fire(o)
      PROVE  /\ registered \subseteq registered'
             /\ \A u \in Threads : /\ directory[u] # Free => directory'[u] # Free
                                   /\ items[u] \subseteq items'[u] /\ served[u] \subseteq served'[u]
             /\ \A u \in Threads : <<"actor", u>> \in acked' => <<"actor", u>> \in acked \/ (directory[u] # Free /\ alarm'["actor"] = 0)
             /\ \A u \in Threads, n \in Messages :
                  <<u, n>> \in acked' => <<u, n>> \in acked \/ (<<"message", n>> \in items[u] /\ alarm'[u] = 0)
             /\ \A u \in Threads : \A n \in Timed :
                  left'[u][n] # Closed => left'[u][n] = left[u][n] \/ Tick \/ <<u, n>> \notin acked'
  BY <1>9, ObjectsAssumption DEF Fire, Go, stored, ObjectsType
<1>10. ASSUME NEW o \in Objects, Arm(o)
      PROVE  /\ registered \subseteq registered'
             /\ \A u \in Threads : /\ directory[u] # Free => directory'[u] # Free
                                   /\ items[u] \subseteq items'[u] /\ served[u] \subseteq served'[u]
             /\ \A u \in Threads : <<"actor", u>> \in acked' => <<"actor", u>> \in acked \/ (directory[u] # Free /\ alarm'["actor"] = 0)
             /\ \A u \in Threads, n \in Messages :
                  <<u, n>> \in acked' => <<u, n>> \in acked \/ (<<"message", n>> \in items[u] /\ alarm'[u] = 0)
             /\ \A u \in Threads : \A n \in Timed :
                  left'[u][n] # Closed => left'[u][n] = left[u][n] \/ Tick \/ <<u, n>> \notin acked'
  BY <1>10, ObjectsAssumption DEF Arm, Covering, Go, stored, ObjectsType
<1>11. ASSUME NEW o \in Objects, Synchronize(o)
      PROVE  /\ registered \subseteq registered'
             /\ \A u \in Threads : /\ directory[u] # Free => directory'[u] # Free
                                   /\ items[u] \subseteq items'[u] /\ served[u] \subseteq served'[u]
             /\ \A u \in Threads : <<"actor", u>> \in acked' => <<"actor", u>> \in acked \/ (directory[u] # Free /\ alarm'["actor"] = 0)
             /\ \A u \in Threads, n \in Messages :
                  <<u, n>> \in acked' => <<u, n>> \in acked \/ (<<"message", n>> \in items[u] /\ alarm'[u] = 0)
             /\ \A u \in Threads : \A n \in Timed :
                  left'[u][n] # Closed => left'[u][n] = left[u][n] \/ Tick \/ <<u, n>> \notin acked'
  BY <1>11, ObjectsAssumption DEF Synchronize, stored, ObjectsType
<1>12. ASSUME NEW o \in Objects, Fail(o)
      PROVE  /\ registered \subseteq registered'
             /\ \A u \in Threads : /\ directory[u] # Free => directory'[u] # Free
                                   /\ items[u] \subseteq items'[u] /\ served[u] \subseteq served'[u]
             /\ \A u \in Threads : <<"actor", u>> \in acked' => <<"actor", u>> \in acked \/ (directory[u] # Free /\ alarm'["actor"] = 0)
             /\ \A u \in Threads, n \in Messages :
                  <<u, n>> \in acked' => <<u, n>> \in acked \/ (<<"message", n>> \in items[u] /\ alarm'[u] = 0)
             /\ \A u \in Threads : \A n \in Timed :
                  left'[u][n] # Closed => left'[u][n] = left[u][n] \/ Tick \/ <<u, n>> \notin acked'
  BY <1>12, ObjectsAssumption DEF Fail, stored, ObjectsType
<1>13. ASSUME NEW o \in Objects, Break(o)
      PROVE  /\ registered \subseteq registered'
             /\ \A u \in Threads : /\ directory[u] # Free => directory'[u] # Free
                                   /\ items[u] \subseteq items'[u] /\ served[u] \subseteq served'[u]
             /\ \A u \in Threads : <<"actor", u>> \in acked' => <<"actor", u>> \in acked \/ (directory[u] # Free /\ alarm'["actor"] = 0)
             /\ \A u \in Threads, n \in Messages :
                  <<u, n>> \in acked' => <<u, n>> \in acked \/ (<<"message", n>> \in items[u] /\ alarm'[u] = 0)
             /\ \A u \in Threads : \A n \in Timed :
                  left'[u][n] # Closed => left'[u][n] = left[u][n] \/ Tick \/ <<u, n>> \notin acked'
  BY <1>13, ObjectsAssumption DEF Break, Covering, Go, stored, ObjectsType
<1>14. ASSUME NEW o \in Objects, Evict(o)
      PROVE  /\ registered \subseteq registered'
             /\ \A u \in Threads : /\ directory[u] # Free => directory'[u] # Free
                                   /\ items[u] \subseteq items'[u] /\ served[u] \subseteq served'[u]
             /\ \A u \in Threads : <<"actor", u>> \in acked' => <<"actor", u>> \in acked \/ (directory[u] # Free /\ alarm'["actor"] = 0)
             /\ \A u \in Threads, n \in Messages :
                  <<u, n>> \in acked' => <<u, n>> \in acked \/ (<<"message", n>> \in items[u] /\ alarm'[u] = 0)
             /\ \A u \in Threads : \A n \in Timed :
                  left'[u][n] # Closed => left'[u][n] = left[u][n] \/ Tick \/ <<u, n>> \notin acked'
  BY <1>14, ObjectsAssumption DEF Evict, stored, ObjectsType
<1>15. ASSUME NEW t \in Threads, create(t)
      PROVE  /\ registered \subseteq registered'
             /\ \A u \in Threads : /\ directory[u] # Free => directory'[u] # Free
                                   /\ items[u] \subseteq items'[u] /\ served[u] \subseteq served'[u]
             /\ \A u \in Threads : <<"actor", u>> \in acked' => <<"actor", u>> \in acked \/ (directory[u] # Free /\ alarm'["actor"] = 0)
             /\ \A u \in Threads, n \in Messages :
                  <<u, n>> \in acked' => <<u, n>> \in acked \/ (<<"message", n>> \in items[u] /\ alarm'[u] = 0)
             /\ \A u \in Threads : \A n \in Timed :
                  left'[u][n] # Closed => left'[u][n] = left[u][n] \/ Tick \/ <<u, n>> \notin acked'
  BY <1>15, ObjectsAssumption DEF create, stored, ObjectsType
<1>16. ASSUME NEW t \in Threads, commitCreation(t)
      PROVE  /\ registered \subseteq registered'
             /\ \A u \in Threads : /\ directory[u] # Free => directory'[u] # Free
                                   /\ items[u] \subseteq items'[u] /\ served[u] \subseteq served'[u]
             /\ \A u \in Threads : <<"actor", u>> \in acked' => <<"actor", u>> \in acked \/ (directory[u] # Free /\ alarm'["actor"] = 0)
             /\ \A u \in Threads, n \in Messages :
                  <<u, n>> \in acked' => <<u, n>> \in acked \/ (<<"message", n>> \in items[u] /\ alarm'[u] = 0)
             /\ \A u \in Threads : \A n \in Timed :
                  left'[u][n] # Closed => left'[u][n] = left[u][n] \/ Tick \/ <<u, n>> \notin acked'
  BY <1>16, ObjectsAssumption DEF commitCreation, Admitting, stored, ObjectsType
<1>17. ASSUME NEW t \in Threads, ThreadRegistered(t)
      PROVE  /\ registered \subseteq registered'
             /\ \A u \in Threads : /\ directory[u] # Free => directory'[u] # Free
                                   /\ items[u] \subseteq items'[u] /\ served[u] \subseteq served'[u]
             /\ \A u \in Threads : <<"actor", u>> \in acked' => <<"actor", u>> \in acked \/ (directory[u] # Free /\ alarm'["actor"] = 0)
             /\ \A u \in Threads, n \in Messages :
                  <<u, n>> \in acked' => <<u, n>> \in acked \/ (<<"message", n>> \in items[u] /\ alarm'[u] = 0)
             /\ \A u \in Threads : \A n \in Timed :
                  left'[u][n] # Closed => left'[u][n] = left[u][n] \/ Tick \/ <<u, n>> \notin acked'
  BY <1>17, ObjectsAssumption DEF ThreadRegistered, Go, stored, ObjectsType
<1>18. ASSUME Reconciled
      PROVE  /\ registered \subseteq registered'
             /\ \A u \in Threads : /\ directory[u] # Free => directory'[u] # Free
                                   /\ items[u] \subseteq items'[u] /\ served[u] \subseteq served'[u]
             /\ \A u \in Threads : <<"actor", u>> \in acked' => <<"actor", u>> \in acked \/ (directory[u] # Free /\ alarm'["actor"] = 0)
             /\ \A u \in Threads, n \in Messages :
                  <<u, n>> \in acked' => <<u, n>> \in acked \/ (<<"message", n>> \in items[u] /\ alarm'[u] = 0)
             /\ \A u \in Threads : \A n \in Timed :
                  left'[u][n] # Closed => left'[u][n] = left[u][n] \/ Tick \/ <<u, n>> \notin acked'
  BY <1>18, ObjectsAssumption DEF Reconciled, Go, stored, ObjectsType
<1>19. ASSUME NEW t \in Threads, ensureThreadReady(t)
      PROVE  /\ registered \subseteq registered'
             /\ \A u \in Threads : /\ directory[u] # Free => directory'[u] # Free
                                   /\ items[u] \subseteq items'[u] /\ served[u] \subseteq served'[u]
             /\ \A u \in Threads : <<"actor", u>> \in acked' => <<"actor", u>> \in acked \/ (directory[u] # Free /\ alarm'["actor"] = 0)
             /\ \A u \in Threads, n \in Messages :
                  <<u, n>> \in acked' => <<u, n>> \in acked \/ (<<"message", n>> \in items[u] /\ alarm'[u] = 0)
             /\ \A u \in Threads : \A n \in Timed :
                  left'[u][n] # Closed => left'[u][n] = left[u][n] \/ Tick \/ <<u, n>> \notin acked'
  BY <1>19, ObjectsAssumption DEF ensureThreadReady, Admitting, Go, stored, ObjectsType
<1>20. ASSUME NEW t \in Threads, recordAlarm(t)
      PROVE  /\ registered \subseteq registered'
             /\ \A u \in Threads : /\ directory[u] # Free => directory'[u] # Free
                                   /\ items[u] \subseteq items'[u] /\ served[u] \subseteq served'[u]
             /\ \A u \in Threads : <<"actor", u>> \in acked' => <<"actor", u>> \in acked \/ (directory[u] # Free /\ alarm'["actor"] = 0)
             /\ \A u \in Threads, n \in Messages :
                  <<u, n>> \in acked' => <<u, n>> \in acked \/ (<<"message", n>> \in items[u] /\ alarm'[u] = 0)
             /\ \A u \in Threads : \A n \in Timed :
                  left'[u][n] # Closed => left'[u][n] = left[u][n] \/ Tick \/ <<u, n>> \notin acked'
  BY <1>20, ObjectsAssumption DEF recordAlarm, Go, stored, ObjectsType
<1>21. ASSUME NEW t \in Threads, Serve(t)
      PROVE  /\ registered \subseteq registered'
             /\ \A u \in Threads : /\ directory[u] # Free => directory'[u] # Free
                                   /\ items[u] \subseteq items'[u] /\ served[u] \subseteq served'[u]
             /\ \A u \in Threads : <<"actor", u>> \in acked' => <<"actor", u>> \in acked \/ (directory[u] # Free /\ alarm'["actor"] = 0)
             /\ \A u \in Threads, n \in Messages :
                  <<u, n>> \in acked' => <<u, n>> \in acked \/ (<<"message", n>> \in items[u] /\ alarm'[u] = 0)
             /\ \A u \in Threads : \A n \in Timed :
                  left'[u][n] # Closed => left'[u][n] = left[u][n] \/ Tick \/ <<u, n>> \notin acked'
  BY <1>21, ObjectsAssumption DEF Serve, Go, stored, ObjectsType
<1>22. ASSUME NEW t \in Threads, Served(t)
      PROVE  /\ registered \subseteq registered'
             /\ \A u \in Threads : /\ directory[u] # Free => directory'[u] # Free
                                   /\ items[u] \subseteq items'[u] /\ served[u] \subseteq served'[u]
             /\ \A u \in Threads : <<"actor", u>> \in acked' => <<"actor", u>> \in acked \/ (directory[u] # Free /\ alarm'["actor"] = 0)
             /\ \A u \in Threads, n \in Messages :
                  <<u, n>> \in acked' => <<u, n>> \in acked \/ (<<"message", n>> \in items[u] /\ alarm'[u] = 0)
             /\ \A u \in Threads : \A n \in Timed :
                  left'[u][n] # Closed => left'[u][n] = left[u][n] \/ Tick \/ <<u, n>> \notin acked'
  BY <1>22, ObjectsAssumption DEF Served, Go, stored, ObjectsType
<1>23. ASSUME NEW t \in Threads, Drained(t)
      PROVE  /\ registered \subseteq registered'
             /\ \A u \in Threads : /\ directory[u] # Free => directory'[u] # Free
                                   /\ items[u] \subseteq items'[u] /\ served[u] \subseteq served'[u]
             /\ \A u \in Threads : <<"actor", u>> \in acked' => <<"actor", u>> \in acked \/ (directory[u] # Free /\ alarm'["actor"] = 0)
             /\ \A u \in Threads, n \in Messages :
                  <<u, n>> \in acked' => <<u, n>> \in acked \/ (<<"message", n>> \in items[u] /\ alarm'[u] = 0)
             /\ \A u \in Threads : \A n \in Timed :
                  left'[u][n] # Closed => left'[u][n] = left[u][n] \/ Tick \/ <<u, n>> \notin acked'
  BY <1>23, ObjectsAssumption DEF Drained, Go, stored, ObjectsType
<1>24. ASSUME Tick
      PROVE  /\ registered \subseteq registered'
             /\ \A u \in Threads : /\ directory[u] # Free => directory'[u] # Free
                                   /\ items[u] \subseteq items'[u] /\ served[u] \subseteq served'[u]
             /\ \A u \in Threads : <<"actor", u>> \in acked' => <<"actor", u>> \in acked \/ (directory[u] # Free /\ alarm'["actor"] = 0)
             /\ \A u \in Threads, n \in Messages :
                  <<u, n>> \in acked' => <<u, n>> \in acked \/ (<<"message", n>> \in items[u] /\ alarm'[u] = 0)
             /\ \A u \in Threads : \A n \in Timed :
                  left'[u][n] # Closed => left'[u][n] = left[u][n] \/ Tick \/ <<u, n>> \notin acked'
  BY <1>24, ObjectsAssumption DEF Tick, stored, ObjectsType
<1> QED
  BY <1>1, <1>2, <1>3, <1>4, <1>5, <1>6, <1>7, <1>8, <1>9, <1>10, <1>11, <1>12, <1>13, <1>14, <1>15, <1>16, <1>17, <1>18, <1>19, <1>20, <1>21, <1>22, <1>23, <1>24 DEF ObjectsNext

\* What was answered for stays covered.
LEMMA WorkStep ==
    ASSUME ObjectsType, ObjectsType', AdmissionInv, ClientInv, DirectoryInv, AlarmInv, AlarmInv', AckInv, WorkCovered, ObjectsNext
    PROVE  AckInv' /\ WorkCovered'
<1>1. AckInv'
  BY AnswerMoves DEF AckInv
<1>2. "actor" \in Objects /\ Threads \subseteq Objects /\ Timed \subseteq Messages
  BY ObjectsAssumption DEF Objects
<1>3. \A o \in Objects : /\ alarm[o] \in Times \cup {Unset}
                         /\ Tick => alarm'[o] = (IF alarm[o] \in Times \ {0} THEN alarm[o] - 1 ELSE alarm[o]) /\ pass' = pass
  BY DEF ObjectsType, Tick
<1>4. \A o \in Objects : pass'[o].step # "idle" => Soon(o)'
  BY DEF AlarmInv, Soon
<1>5. ASSUME NEW o \in Objects, Soon(o), pass'[o].step = "idle", ~Synchronize(o)
      PROVE  Soon(o)'
  <2>1. CASE Tick
    <3>1. pass[o].step = "idle" /\ alarm[o] \in Times \cup {Unset}
      BY <1>3, <1>5, <2>1
    <3>2. alarm[o] <= RecoveryDelay
      BY <1>5, <3>1 DEF Soon
    <3>3. alarm'[o] = IF alarm[o] \in Times \ {0} THEN alarm[o] - 1 ELSE alarm[o]
      BY <1>3, <2>1
    <3>4. alarm'[o] <= RecoveryDelay
      BY <3>1, <3>2, <3>3, TickFacts
    <3> QED
      BY <3>4 DEF Soon
  <2>2. CASE alarm'[o] <= RecoveryDelay
    BY <2>2 DEF Soon
  <2>3. CASE pass[o].step = "idle" /\ alarm'[o] = alarm[o]
    BY <1>5, <2>3 DEF Soon
  <2> QED
    BY <1>5, <2>1, <2>2, <2>3, RestMoves
<1>6. ASSUME NEW t \in Threads, <<"actor", t>> \in acked', t \notin registered' PROVE Soon("actor")'
  <2>1. CASE alarm'["actor"] = 0
    BY <2>1, TimeFacts DEF Soon
  <2>2. CASE <<"actor", t>> \in acked
    <3>1. t \notin registered /\ directory[t] # Free
      BY <1>6, <2>2, AnswerMoves DEF AckInv
    <3>2. Soon("actor") /\ Requested # {}
      BY <2>2, <3>1 DEF WorkCovered, Requested
    <3>3. CASE Synchronize("actor")
      BY <1>2, <3>2, <3>3, SynchronizeLeaves DEF Soon
    <3> QED
      BY <1>2, <1>4, <1>5, <3>2, <3>3
  <2> QED
    BY <1>6, <2>1, <2>2, AnswerMoves
<1>7. ASSUME NEW t \in Threads, NEW m \in Messages, <<t, m>> \in acked', <<"message", m>> \notin served'[t]
      PROVE  Soon(t)'
  <2>1. CASE alarm'[t] = 0
    BY <2>1, TimeFacts DEF Soon
  <2>2. CASE <<t, m>> \in acked
    <3>1. <<"message", m>> \in items[t] /\ <<"message", m>> \notin served[t]
      BY <1>7, <2>2, AnswerMoves DEF AckInv
    <3>2. Soon(t)
      BY <2>2, <3>1 DEF WorkCovered
    <3>3. CASE Synchronize(t)
      BY <1>2, <3>1, <3>3, SynchronizeLeaves DEF Soon
    <3> QED
      BY <1>2, <1>4, <1>5, <3>2, <3>3
  <2> QED
    BY <1>7, <2>1, <2>2, AnswerMoves
<1>8. ASSUME NEW t \in Threads, NEW m \in Timed, left'[t][m] # Closed, <<t, m>> \in acked'
      PROVE  Soon(t)' \/ alarm'[t] <= left'[t][m]
  <2>1. CASE alarm'[t] = 0
    BY <2>1, TimeFacts DEF Soon
  <2>2. CASE pass'[t].step # "idle"
    BY <1>2, <1>4, <2>2
  <2>3. CASE <<t, m>> \in acked /\ pass'[t].step = "idle" /\ Tick
    <3>1. left'[t][m] = IF left[t][m] \in Times \ {0} THEN left[t][m] - 1 ELSE left[t][m]
      BY <2>3 DEF Tick
    <3>2. left[t][m] \in Times /\ alarm[t] \in Times \cup {Unset}
      BY <1>8, <3>1, TimeFacts DEF ObjectsType, Objects
    <3>3. Soon(t) \/ alarm[t] <= left[t][m]
      BY <1>2, <2>3, <3>2, TimeFacts DEF WorkCovered, Open
    <3>4. alarm'[t] = IF alarm[t] \in Times \ {0} THEN alarm[t] - 1 ELSE alarm[t]
      BY <1>2, <1>3, <2>3
    <3>5. CASE Soon(t)
      <4>1. alarm[t] <= RecoveryDelay
        BY <1>2, <1>3, <2>3, <3>5 DEF Soon
      <4>2. alarm'[t] <= RecoveryDelay
        BY <3>2, <3>4, <4>1, TickFacts
      <4> QED
        BY <4>2 DEF Soon
    <3>6. CASE alarm[t] <= left[t][m]
      <4>1. alarm'[t] <= RecoveryDelay \/ alarm'[t] <= (IF left[t][m] \in Times \ {0} THEN left[t][m] - 1 ELSE left[t][m])
        BY <3>2, <3>4, <3>6, TickFacts
      <4> QED
        BY <3>1, <4>1 DEF Soon
    <3> QED
      BY <3>3, <3>5, <3>6
  <2>4. CASE <<t, m>> \in acked /\ pass'[t].step = "idle" /\ ~Tick
    <3>1. left'[t][m] = left[t][m] /\ m \in Open(t)
      BY <1>8, <2>4, AnswerMoves DEF Open
    <3>2. Soon(t) \/ alarm[t] <= left[t][m]
      BY <1>2, <2>4, <3>1 DEF WorkCovered
    <3>3. CASE Synchronize(t)
      BY <1>2, <3>1, <3>3, SynchronizeLeaves DEF Soon
    <3>4. CASE Soon(t) /\ ~Synchronize(t)
      BY <1>2, <1>5, <2>4, <3>4
    <3>5. CASE alarm[t] <= left[t][m] /\ ~Synchronize(t)
      <4>1. alarm'[t] <= RecoveryDelay \/ alarm'[t] = alarm[t]
        BY <1>2, <2>4, <3>5, RestMoves
      <4> QED
        BY <3>1, <3>5, <4>1 DEF Soon
    <3> QED
      BY <3>2, <3>3, <3>4, <3>5
  <2> QED
    BY <1>2, <1>8, <2>1, <2>2, <2>3, <2>4, AnswerMoves
<1> QED
  BY <1>1, <1>6, <1>7, <1>8 DEF WorkCovered, Open

-----------------------------------------------------------------------------
\* The objects begin with nothing reserved, waiting or answered for.
LEMMA ObjectsInitial == ObjectsInit => ObjectsInv
<1> SUFFICES ASSUME ObjectsInit PROVE ObjectsInv
  OBVIOUS
<1>1. ObjectsType
  BY TimeFacts, Records DEF ObjectsInit, ObjectsType, Idling, Admissions, ClientRecords, ClientSteps, Passes, PassSteps
<1>2. /\ \A o \in Objects : admission[o] = Idling /\ pass[o].step = "idle"
      /\ acked = {} /\ registered = {}
      /\ \A t \in Threads : lineage[t] = Uncreated /\ served[t] = {}
      /\ \A x \in Callers : waiting[x] = "no"
      /\ \A c \in Clients : clients[c].step = "idle"
  BY DEF ObjectsInit, Idling
<1>3. "actor" \in Objects /\ Threads \subseteq Objects /\ Clients \subseteq Callers /\ Threads \subseteq Callers
  BY DEF Objects, Callers
<1> QED
  BY <1>1, <1>2, <1>3 DEF ObjectsInv, DirectoryInv, AdmissionInv, AdmissionFits, WaitInv, ClientInv, AlarmInv,
     NextInv, WaitersCovered, AckInv, WorkCovered, Creating, Readied

\* No step leaves the inductive invariant.
LEMMA ObjectsStep == ObjectsInv /\ [ObjectsNext]_objectVars => ObjectsInv'
<1> SUFFICES ASSUME ObjectsInv, [ObjectsNext]_objectVars PROVE ObjectsInv'
  OBVIOUS
<1>1. CASE ObjectsNext
  <2>1. ObjectsType'
    BY <1>1, TypeStep DEF ObjectsInv
  <2>2. DirectoryInv'
    BY <1>1, <2>1, DirectoryStep DEF ObjectsInv
  <2>3. AdmissionInv' /\ WaitInv' /\ ClientInv'
    BY <1>1, <2>1, WaitStep, AdmissionStep DEF ObjectsInv
  <2>4. AlarmInv' /\ NextInv' /\ WaitersCovered'
    BY <1>1, <2>1, AlarmStep DEF ObjectsInv
  <2>5. AckInv' /\ WorkCovered'
    BY <1>1, <2>1, <2>4, WorkStep DEF ObjectsInv
  <2> QED
    BY <2>1, <2>2, <2>3, <2>4, <2>5 DEF ObjectsInv
<1>2. CASE UNCHANGED objectVars
  <2>1. ObjectsType'
    BY <1>2 DEF ObjectsInv, objectVars, ObjectsType
  <2>2. DirectoryInv'
    BY <1>2 DEF ObjectsInv, objectVars, DirectoryInv
  <2>3. AdmissionInv'
    <3>1. admission' = admission /\ waiting' = waiting /\ items' = items
      BY <1>2 DEF objectVars
    <3>2. \A c \in Clients : Owes(c)' = Owes(c)
      BY <1>2 DEF objectVars, Owes
    <3>3. AdmissionInv
      BY DEF ObjectsInv
    <3> QED
      BY <3>1, <3>2, <3>3 DEF AdmissionInv, AdmissionFits
  <2>4. WaitInv'
    BY <1>2 DEF ObjectsInv, objectVars, WaitInv, Owes
  <2>5. ClientInv'
    BY <1>2 DEF ObjectsInv, objectVars, ClientInv
  <2>6. AlarmInv'
    BY <1>2 DEF ObjectsInv, objectVars, AlarmInv
  <2>7. NextInv' /\ WaitersCovered'
    BY <1>2 DEF ObjectsInv, objectVars, NextInv, WaitersCovered, PassAt
  <2>8. AckInv'
    BY <1>2 DEF ObjectsInv, objectVars, AckInv
  <2>9. WorkCovered'
    BY <1>2 DEF ObjectsInv, objectVars, WorkCovered, Soon, Open
  <2> QED
    BY <2>1, <2>2, <2>3, <2>4, <2>5, <2>6, <2>7, <2>8, <2>9 DEF ObjectsInv
<1> QED
  BY <1>1, <1>2

\* For every set of threads, clients, requests and messages and every pair of delays: work that
\* was answered for has an alarm within the recovery delay until it is done, a caller that waits
\* for the actor is told by the pass under way or the alarm of the next one is due, and a thread
\* runs only as it was allocated (AlarmScheduler, hostThreadAllocator, ensureThreadReady).
THEOREM ObjectsAreSound == ObjectsSpec => []ObjectsSound
<1>1. ASSUME ObjectsInv PROVE ObjectsSound
  <2>1. ObjectsType /\ DirectoryInv /\ ClientInv /\ WorkCovered /\ WaitersCovered
    BY <1>1 DEF ObjectsInv
  <2>2. registered \subseteq Threads
    BY <2>1 DEF ObjectsType
  <2>3. AllocationSound
    BY <2>1, <2>2 DEF AllocationSound, DirectoryInv, ClientInv
  <2> QED
    BY <2>1, <2>3 DEF ObjectsSound
<1> QED
  BY <1>1, ObjectsInitial, ObjectsStep, PTL DEF ObjectsSpec
=============================================================================
