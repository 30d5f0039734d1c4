----------------------------- MODULE Operation -----------------------------
(***************************************************************************)
(* The durable record of one accepted effect: an execution part and, once  *)
(* a cancellation is accepted, a cleanup part (core/src/runtime/           *)
(* operation.ts).  A settlement is the kind of an EffectSettled outcome:   *)
(* a rejection, an immediate value, or a promise handle whose result comes *)
(* later as a PromiseSettled event.  Payloads are abstracted to kinds.     *)
(***************************************************************************)
EXTENDS Naturals

CONSTANTS
    Origins,       \* invocation identities: atom, act and originating event
    ReplyOrigins   \* those whose atom is "host.message.replies"

ASSUME OriginsAssumption == ReplyOrigins \subseteq Origins

Settlements == {"value", "rejected", "promise"}
PromiseResults == {"result", "timedOut"}
CleanupOutcomes == {"fulfilled", "rejected", "died"}

\* optionalKey fields are "none" until they are recorded.
StoredOperation ==
    [ origin       : Origins,
      outcome      : Settlements \cup {"died", "none"},
      deferred     : Settlements \cup {"none"},
      promise      : PromiseResults \cup {"none"},
      retry        : Nat,
      cancelled    : BOOLEAN,
      cleanup      : CleanupOutcomes \cup {"none"},
      cleanupRetry : Nat ]

NewOperation(o) ==
    [ origin |-> o, outcome |-> "none", deferred |-> "none", promise |-> "none",
      retry |-> 0, cancelled |-> FALSE, cleanup |-> "none", cleanupRetry |-> 0 ]

operationSettlement(op) ==
    IF op.outcome \in Settlements THEN op.outcome ELSE op.deferred

cleanupSucceeded(op) == op.cleanup = "fulfilled"

settlementCompletesExecution(settlement) == settlement \in {"value", "rejected"}

cleanupOwed(op) == op.cancelled /\ ~cleanupSucceeded(op)

cleanupRunnable(op) == op.cancelled /\ op.cleanup = "none"

cleanupSubmission(op, settlement) == cleanupOwed(op) /\ settlement = "promise"

operationComplete(op) ==
    IF op.cancelled
    THEN cleanupSucceeded(op)
    ELSE \/ op.outcome = "died"
         \/ op.promise # "none"
         \/ settlementCompletesExecution(operationSettlement(op))

-----------------------------------------------------------------------------
(* Journal records.  A record names the accepted reference it is about;    *)
(* "val" is its payload kind and "n" a retry attempt.                      *)

Record(type, ref, val, n) == [type |-> type, ref |-> ref, val |-> val, n |-> n]

EffectRequested(ref, o)     == Record("EffectRequested", ref, o, 0)
EffectSettled(ref, s)       == Record("EffectSettled", ref, s, 0)
EffectDied(ref)             == Record("EffectDied", ref, "none", 0)
PromiseSettled(ref, res)    == Record("PromiseSettled", ref, res, 0)
RetryScheduled(ref, ph, n)  == Record("RetryScheduled", ref, ph, n)
EffectCancelled(ref)        == Record("EffectCancelled", ref, "none", 0)
CancellationOutcome(ref, k) == Record("CancellationOutcome", ref, k, 0)
MessageDelivered(ref)       == Record("MessageDelivered", ref, "none", 0)
\* A domain event an act callback returned: onRequested, onDeferred, onSettled.
Callback(ref, call)         == Record("Callback", ref, call, 0)
\* A domain event or inbox message that refers to no effect.
DomainEvent                 == Record("DomainEvent", 0, "none", 0)

LifecycleTypes ==
    { "EffectRequested", "EffectSettled", "EffectDied", "PromiseSettled",
      "RetryScheduled", "EffectCancelled", "CancellationOutcome" }

\* The execution and cleanup parts after one more lifecycle record of the
\* operation's reference.
Fold(op, e) ==
    CASE e.type = "EffectSettled" -> [op EXCEPT !.outcome = e.val]
      [] e.type = "EffectDied" ->
           [op EXCEPT !.outcome = "died", !.deferred = operationSettlement(op)]
      [] e.type = "PromiseSettled" -> [op EXCEPT !.promise = e.val]
      [] e.type = "EffectCancelled" -> [op EXCEPT !.cancelled = TRUE]
      [] e.type = "CancellationOutcome" /\ op.cancelled -> [op EXCEPT !.cleanup = e.val]
      [] e.type = "RetryScheduled" /\ e.val = "execution" -> [op EXCEPT !.retry = e.n]
      [] e.type = "RetryScheduled" /\ e.val = "cancellation" /\ op.cancelled ->
           [op EXCEPT !.cleanupRetry = e.n]
      [] OTHER -> op
=============================================================================
