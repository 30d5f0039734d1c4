----------------------------- MODULE Lifecycle -----------------------------
(***************************************************************************)
(* What the event log promises about effects, whatever the order in which  *)
(* requests, answers, retries, cancellations and defects reach it: a table *)
(* with one entry per accepted invocation that is never forgotten.  There  *)
(* is no journal, no release, no checkpoint, no restart and no lost        *)
(* acknowledgement here; EventLog implements this table (LifecycleOfLog),  *)
(* and Execution works on top of it.                                       *)
(***************************************************************************)
EXTENDS Operation

VARIABLES
    ops,     \* the accepted invocations' operations
    defect   \* a terminal defect is recorded

lifecycleVars == <<ops, defect>>

Accepted == DOMAIN ops
Cancelled(o) == o \in Accepted /\ ops[o].cancelled
Complete(o) == o \in Accepted /\ operationComplete(ops[o])

\* After a defect only cleanup and replies go on.
Frozen(o) == defect /\ o \notin ReplyOrigins

-----------------------------------------------------------------------------
(* Whether a record of invocation o is admitted *)

\* drain and append: accepted once, and after a defect only for replies.
AdmitsRequest(o) == o \notin Accepted /\ ~Frozen(o)

\* Faulty variant of AdmitsSettlement: a cancelled operation's late handle is dropped.
AdmitsSettlementUncancelled(o, s) ==
    /\ o \in Accepted /\ ~ops[o].cancelled
    /\ ops[o].outcome = "none"
    /\ ~Frozen(o)

\* The first outcome; after a cancellation only the handle that cleanup needs.
AdmitsSettlement(o, s) ==
    /\ o \in Accepted
    /\ ops[o].outcome = "none"
    /\ IF ops[o].cancelled THEN s = "promise" /\ cleanupOwed(ops[o]) ELSE ~Frozen(o)

AdmitsPromise(o) ==
    /\ o \in Accepted /\ ~ops[o].cancelled /\ ~Frozen(o)
    /\ ops[o].outcome = "promise" /\ ops[o].promise = "none"

AdmitsDefect(o) == o \in Accepted /\ ~defect /\ ~ops[o].cancelled /\ ~Complete(o)

AdmitsRetry(o, phase) ==
    /\ o \in Accepted
    /\ IF phase = "cancellation" THEN cleanupRunnable(ops[o])
       ELSE ~ops[o].cancelled /\ ~Complete(o) /\ ~Frozen(o)

\* send: after a defect a cancellation is only taken while cleanup is running.
AdmitsCancellation(o) ==
    /\ o \in Accepted /\ ~ops[o].cancelled /\ ~Complete(o)
    /\ defect => \E x \in Accepted : cleanupRunnable(ops[x])

AdmitsCleanup(o) == o \in Accepted /\ cleanupRunnable(ops[o])

-----------------------------------------------------------------------------
(* The table after a record *)

With(o, op) == [x \in Accepted \cup {o} |-> IF x = o THEN op ELSE ops[x]]
Folded(o, e) == With(o, Fold(ops[o], e))
Retries(o, phase) == IF phase = "cancellation" THEN ops[o].cleanupRetry ELSE ops[o].retry

Request(o) ==
    AdmitsRequest(o) /\ ops' = With(o, NewOperation(o)) /\ UNCHANGED defect
Settle(o, s) ==
    AdmitsSettlement(o, s) /\ ops' = Folded(o, EffectSettled(o, s)) /\ UNCHANGED defect
Resolve(o, res) ==
    AdmitsPromise(o) /\ ops' = Folded(o, PromiseSettled(o, res)) /\ UNCHANGED defect
Die(o) ==
    AdmitsDefect(o) /\ ops' = Folded(o, EffectDied(o)) /\ defect' = TRUE
Retry(o, phase) ==
    /\ AdmitsRetry(o, phase)
    /\ ops' = Folded(o, RetryScheduled(o, phase, Retries(o, phase) + 1))
    /\ UNCHANGED defect
Cancel(o) ==
    AdmitsCancellation(o) /\ ops' = Folded(o, EffectCancelled(o)) /\ UNCHANGED defect
CleanUp(o, k) ==
    AdmitsCleanup(o) /\ ops' = Folded(o, CancellationOutcome(o, k)) /\ UNCHANGED defect

LifecycleInit == ops = [o \in {} |-> NewOperation(o)] /\ defect = FALSE

LifecycleNext ==
    \E o \in Origins :
      \/ Request(o)
      \/ \E s \in Settlements : Settle(o, s)
      \/ \E res \in PromiseResults : Resolve(o, res)
      \/ Die(o)
      \/ \E phase \in {"execution", "cancellation"} : Retry(o, phase)
      \/ Cancel(o)
      \/ \E k \in CleanupOutcomes : CleanUp(o, k)

LifecycleSpec == LifecycleInit /\ [][LifecycleNext]_lifecycleVars
=============================================================================
