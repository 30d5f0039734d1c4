------------------------------ MODULE EventLog ------------------------------
(***************************************************************************)
(* The event log of one actor thread: the admission filter and the replay  *)
(* engine of core/src/runtime/replay.ts, and the commit of core/src/       *)
(* runtime/execution.ts that makes an admitted batch durable together with *)
(* its retained effect inputs and an optional checkpoint.                  *)
(*                                                                         *)
(* Every admission runs alone (the runtime's admissions queue), so a batch *)
(* is one step.  What the callers deliver is left open: settlements,       *)
(* promise results, retries and cleanup outcomes may come late, twice, out *)
(* of order, or for an effect that is long finished.                       *)
(***************************************************************************)
EXTENDS Operation, Sequences, FiniteSets

CONSTANTS
    CheckpointEvery,  \* the threshold policy's everyEvents
    MaxPosition,      \* bound on the journal's length
    MaxAttempt,       \* bound on retry attempt numbers
    MaxDomainEvents   \* bound on events that refer to no effect

ASSUME BoundsAssumption ==
    /\ CheckpointEvery \in Nat \ {0}
    /\ MaxPosition \in Nat
    /\ MaxAttempt \in Nat
    /\ MaxDomainEvents \in Nat

VARIABLES
    journal,      \* durable: the sequence of records
    inputs,       \* durable: references whose request input is retained
    checkpoint,   \* durable: position of the latest checkpoint, 0 for none
    frame,        \* volatile: the published snapshot's runtime frame
    failed        \* volatile: persistenceFailure is latched

vars == <<journal, inputs, checkpoint, frame, failed>>

NoDefect == 0
Refs == 1 .. MaxPosition

(***************************************************************************)
(* A reference's seq is the position of its EffectRequested record, so the *)
(* model's reference is that record's index in the journal.                *)
(***************************************************************************)
Position == Len(journal)

\* A fresh engine, or one seeded by a checkpoint: no operation is active.
InitialFrame(offset) ==
    [ ok |-> TRUE, position |-> offset, progress |-> offset, defect |-> NoDefect,
      ops |-> [r \in {} |-> NewOperation("none")], retire |-> {} ]

Active(f) == DOMAIN f.ops

Set(f, r, op) ==
    [f EXCEPT !.ops = [x \in Active(f) \cup {r} |-> IF x = r THEN op ELSE f.ops[x]]]

-----------------------------------------------------------------------------
(* The replay engine *)

\* release: completed operations leave the frame before the next record is
\* folded, except the one whose delivery that record completes.
release(f, e) ==
    LET kept == {r \in f.retire : e.type = "MessageDelivered" /\ e.ref = r}
        gone == {r \in f.retire \ kept : r \in Active(f) /\ operationComplete(f.ops[r])}
    IN  [f EXCEPT !.retire = kept, !.ops = [r \in Active(f) \ gone |-> f.ops[r]]]

\* The engine's guards: a record that fails one makes append throw.
EngineAccepts(f, e) ==
    LET known == e.ref \in Active(f)
        op    == f.ops[e.ref]
    IN  CASE e.type = "EffectRequested" ->
               IF known THEN op.origin = e.val
               ELSE /\ e.ref = f.position + 1
                    /\ \A r \in Active(f) : f.ops[r].origin # e.val
                    /\ f.defect # NoDefect => e.val \in ReplyOrigins
          [] e.type = "EffectDied" ->
               /\ known
               /\ ~op.cancelled /\ op.promise = "none"
               /\ ~settlementCompletesExecution(operationSettlement(op))
          [] e.type = "RetryScheduled" /\ e.val = "cancellation" ->
               known /\ op.cancelled /\ op.cleanup = "none" /\ e.n = op.cleanupRetry + 1
          [] e.type = "RetryScheduled" /\ e.val = "execution" ->
               /\ known
               /\ ~op.cancelled /\ op.promise = "none"
               /\ ~settlementCompletesExecution(operationSettlement(op))
               /\ e.n = op.retry + 1
          [] e.type = "EffectCancelled" -> known
          [] e.type = "CancellationOutcome" -> known /\ op.cancelled /\ op.cleanup = "none"
          [] e.type = "EffectSettled" ->
               known /\ ~cleanupSucceeded(op) /\ operationSettlement(op) = "none"
          [] e.type = "PromiseSettled" ->
               known /\ operationSettlement(op) \in {"value", "promise"} /\ op.promise \in {"none", e.val}
          [] e.type = "MessageDelivered" -> known /\ operationSettlement(op) = "value"
          [] OTHER -> TRUE

\* Which operations a record marks for release once its batch is folded.
Retires(op, e) ==
    CASE e.type = "EffectDied" -> TRUE
      [] e.type = "CancellationOutcome" -> cleanupSucceeded(op)
      [] e.type = "EffectSettled" -> ~op.cancelled /\ settlementCompletesExecution(e.val)
      [] e.type = "PromiseSettled" -> ~op.cancelled
      [] OTHER -> FALSE

EngineFold(f, e) ==
    LET op   == IF e.type = "EffectRequested" /\ e.ref \notin Active(f)
                THEN NewOperation(e.val) ELSE Fold(f.ops[e.ref], e)
        next == IF e.type \in LifecycleTypes THEN Set(f, e.ref, op) ELSE f
    IN  [next EXCEPT
           !.position = @ + 1,
           !.progress = IF e.type \in {"EffectSettled", "PromiseSettled", "CancellationOutcome"}
                        THEN f.position + 1 ELSE @,
           !.defect = IF e.type = "EffectDied" /\ @ = NoDefect THEN e.ref ELSE @,
           !.retire = CASE e.type \in LifecycleTypes /\ Retires(op, e) -> @ \cup {e.ref}
                        [] e.type = "EffectCancelled" -> @ \ {e.ref}
                        [] OTHER -> @]

\* engine.append: release, check, fold.
EngineAppend(f, e) ==
    LET g == release(f, e)
    IN  IF f.ok /\ EngineAccepts(g, e) THEN EngineFold(g, e) ELSE [f EXCEPT !.ok = FALSE]

EngineAppendAll(f, batch) ==
    LET fold[n \in 0 .. Len(batch)] ==
          IF n = 0 THEN f ELSE EngineAppend(fold[n - 1], batch[n])
    IN  fold[Len(batch)]

finish(f) == release(f, DomainEvent)

\* replay: a checkpoint seeds the engine and the suffix is folded record by record.
replay(records, offset) ==
    finish(EngineAppendAll(InitialFrame(offset), SubSeq(records, offset + 1, Len(records))))

\* Faulty variant of followups: an accepted cancellation does not tell the act.
followupsSilentCancel(f, e) ==
    IF e.type \notin LifecycleTypes \/ e.ref \notin Active(f) \/ f.ops[e.ref].cancelled THEN <<>>
    ELSE CASE e.type = "EffectSettled" ->
                <<Callback(e.ref, IF e.val = "promise" THEN "onDeferred" ELSE "onSettled")>>
           [] e.type = "PromiseSettled" -> <<Callback(e.ref, "onSettled")>>
           [] OTHER -> <<>>

\* followups: the callbacks of the bound act, recorded in the same batch.  The
\* reply atom's act only returns MessageDelivered, on a fulfilled settlement.
followups(f, e) ==
    IF e.type \notin LifecycleTypes \/ e.ref \notin Active(f) THEN <<>>
    ELSE
    LET op    == f.ops[e.ref]
        reply == op.origin \in ReplyOrigins
        Calls(c) == IF reply THEN <<>> ELSE <<Callback(e.ref, c)>>
    IN  IF op.cancelled /\ e.type # "EffectCancelled" THEN <<>>
        ELSE CASE e.type = "EffectCancelled" -> Calls("onSettled")
               [] e.type = "EffectRequested" -> Calls("onRequested")
               [] e.type = "PromiseSettled" /\ operationSettlement(op) = "promise" -> Calls("onSettled")
               [] e.type = "EffectSettled" ->
                    IF reply /\ e.val = "value" THEN <<MessageDelivered(e.ref)>>
                    ELSE Calls(IF e.val = "promise" THEN "onDeferred" ELSE "onSettled")
               [] OTHER -> <<>>

-----------------------------------------------------------------------------
(* The admission filter *)

\* recordedOperation: a finished reference is reconstructed from the journal.
recordedOperation(records, r) ==
    LET fold[n \in r .. Len(records)] ==
          IF n = r THEN NewOperation(records[r].val)
          ELSE IF records[n].ref = r /\ records[n].type \in LifecycleTypes
               THEN Fold(fold[n - 1], records[n]) ELSE fold[n - 1]
    IN  fold[Len(records)]

Requested(records, r) == r \in 1 .. Len(records) /\ records[r].type = "EffectRequested"

lifecycle(r) == IF r \in Active(frame) THEN frame.ops[r] ELSE recordedOperation(journal, r)

\* Faulty variant of DefectBars: only new work is barred.
DefectBarsRequests(e) ==
    frame.defect # NoDefect /\ e.type = "EffectRequested" /\ e.val \notin ReplyOrigins

\* After a terminal defect only cleanup, and the delivery of replies, go on.
DefectBars(e) ==
    /\ frame.defect # NoDefect
    /\ ~ \/ e.type \in {"EffectDied", "EffectCancelled", "CancellationOutcome"}
         \/ /\ e.type = "EffectSettled" /\ e.ref \in Active(frame)
            /\ cleanupSubmission(frame.ops[e.ref], e.val)
         \/ e.type = "RetryScheduled" /\ e.val = "cancellation"
         \/ e.type \in LifecycleTypes /\ Requested(journal, e.ref)
            /\ journal[e.ref].val \in ReplyOrigins
         \/ e.type = "EffectRequested" /\ e.val \in ReplyOrigins

\* A delivery for which the operation already holds a record: an equal one is
\* dropped, a different one is refused; the journal changes in neither case.
HasPrior(op, e) ==
    CASE e.type = "RetryScheduled" ->
           e.n = IF e.val = "cancellation" THEN op.cleanupRetry ELSE op.retry
      [] e.type = "EffectSettled" -> operationSettlement(op) # "none"
      [] e.type = "EffectCancelled" -> op.cancelled
      [] e.type = "CancellationOutcome" -> op.cleanup # "none"
      [] OTHER -> op.promise # "none"

\* What an accepted cancellation, and a finished operation, still let in.
LifecycleAdmits(op, e) ==
    CASE e.type = "EffectCancelled" ->
           /\ ~op.cancelled /\ op.promise = "none"
           /\ ~settlementCompletesExecution(operationSettlement(op))
      [] e.type = "CancellationOutcome" -> op.cancelled
      [] OTHER ->
           op.cancelled =>
             /\ e.type # "PromiseSettled"
             /\ ~(e.type = "RetryScheduled" /\ e.val # "cancellation")
             /\ e.type = "EffectSettled" => /\ e.val = "promise"
                                            /\ ~(cleanupSucceeded(op) /\ operationSettlement(op) = "none")

Admits(e) ==
    /\ ~DefectBars(e)
    /\ (e.type \in LifecycleTypes \ {"EffectRequested"}) =>
          /\ Requested(journal, e.ref)
          /\ LifecycleAdmits(lifecycle(e.ref), e)
          /\ e.type = "EffectDied" => frame.defect = NoDefect
          /\ ~HasPrior(lifecycle(e.ref), e)

\* append: the record, its callbacks, and the frame they lead to.
Batch(e) == <<e>> \o followups(EngineAppend(frame, e), e)
Prepared(e) == finish(EngineAppendAll(frame, Batch(e)))

-----------------------------------------------------------------------------
(* Invocation lookup: admission state derived from the journal alone *)

\* Faulty variant of lookupInvocation: any settlement ends the invocation, a
\* promise handle too.
lookupSettledHandle(records, o) ==
    LET refs == {r \in 1 .. Len(records) :
                   records[r].type = "EffectRequested" /\ records[r].val = o}
    IN  IF refs = {} THEN "absent"
        ELSE IF \E n \in 1 .. Len(records) :
                  records[n].ref \in refs /\ records[n].type \in {"EffectSettled", "EffectDied"}
        THEN "settled" ELSE "pending"

lookupInvocation(records, o) ==
    LET refs      == {r \in 1 .. Len(records) :
                        records[r].type = "EffectRequested" /\ records[r].val = o}
        Has(T(_)) == \E n \in 1 .. Len(records) : records[n].ref \in refs /\ T(records[n])
        cancelled == Has(LAMBDA e : e.type = "EffectCancelled")
        cleaned   == Has(LAMBDA e : e.type = "CancellationOutcome" /\ e.val = "fulfilled")
        settled   == Has(LAMBDA e : \/ e.type \in {"PromiseSettled", "EffectDied"}
                                    \/ /\ e.type = "EffectSettled"
                                       /\ settlementCompletesExecution(e.val))
    IN  IF refs = {} THEN "absent"
        ELSE IF (IF cancelled THEN cleaned ELSE settled) THEN "settled" ELSE "pending"

-----------------------------------------------------------------------------
(* Commit *)

NonReply(S) == {r \in S : journal[r].val \notin ReplyOrigins}
Cancelled(f) == {r \in Active(f) : f.ops[r].cancelled}
Pending(f) ==
    {r \in Active(f) :
       /\ operationSettlement(f.ops[r]) = "none" /\ ~f.ops[r].cancelled
       /\ f.defect # NoDefect => f.ops[r].origin \in ReplyOrigins}
Deferred(f) ==
    {r \in Active(f) :
       /\ f.defect = NoDefect /\ ~f.ops[r].cancelled
       /\ operationSettlement(f.ops[r]) = "promise" /\ f.ops[r].promise = "none"}

\* inputChanges: an accepted request's input is stored with its acceptance and
\* removed with the record that ends the last obligation needing it.
PutInputs(next, e) == IF e.type = "EffectRequested" THEN {e.ref} \cap Pending(next) ELSE {}

\* Faulty variant of RemoveInputs: a defect drops the input of owed cleanup.
RemoveInputsEagerly(next, e) ==
    IF e.type = "EffectDied" THEN NonReply(inputs) ELSE {}

RemoveInputs(next, e) ==
    CASE e.type = "EffectDied" -> IF Cancelled(next) # {} THEN {} ELSE NonReply(inputs)
      [] e.type = "CancellationOutcome" /\ e.val = "fulfilled" ->
           IF next.defect # NoDefect /\ Cancelled(next) = {} THEN NonReply(inputs) ELSE {e.ref}
      [] e.type \in {"PromiseSettled", "EffectSettled"} ->
           IF \/ e.ref \in Cancelled(next)
              \/ e.type = "EffectSettled" /\ e.val = "promise"
           THEN {} ELSE {e.ref}
      [] OTHER -> {}

\* Faulty variant of Checkpointable: open operations do not matter.
CheckpointableMidWork(f) == f.defect = NoDefect

\* checkpoint: refused while an operation is active or after a defect.
Checkpointable(f) == f.defect = NoDefect /\ Active(f) = {}
ThresholdCheckpoint(next) ==
    IF next.position - checkpoint >= CheckpointEvery /\ Checkpointable(next)
    THEN next.position ELSE checkpoint

Persist(next, e) ==
    /\ journal' = journal \o Batch(e)
    /\ inputs' = (inputs \cup PutInputs(next, e)) \ RemoveInputs(next, e)
    /\ checkpoint' = ThresholdCheckpoint(next)

\* commit: one transaction.  A failed one latches the runtime, and the write may
\* have become durable although its acknowledgement was lost.
commit(e) ==
    LET next == Prepared(e)
    IN  /\ ~failed
        /\ Admits(e)
        /\ next.ok
        /\ next.position <= MaxPosition
        /\ \/ Persist(next, e) /\ frame' = next /\ UNCHANGED failed
           \/ Persist(next, e) /\ failed' = TRUE /\ UNCHANGED frame
           \/ failed' = TRUE /\ UNCHANGED <<journal, inputs, checkpoint, frame>>

-----------------------------------------------------------------------------
(* Callers *)

\* drain: a proposal whose invocation the journal does not hold is accepted at
\* the current position; after a defect only reply proposals are offered.
Accept(o) ==
    /\ frame.defect # NoDefect => o \in ReplyOrigins
    /\ lookupInvocation(journal, o) = "absent"
    /\ commit(EffectRequested(Position + 1, o))

\* A producer, or submit, reports an outcome; replies are delivered inline.
Settle(r, s) ==
    /\ Requested(journal, r)
    /\ s = "promise" => journal[r].val \notin ReplyOrigins
    /\ commit(EffectSettled(r, s))

\* recordDeath
Die(r) ==
    /\ frame.defect = NoDefect
    /\ r \in Active(frame) /\ ~frame.ops[r].cancelled
    /\ commit(EffectDied(r))

Retry(r, phase, n) ==
    /\ Requested(journal, r)
    /\ phase = "execution" => r \in Active(frame) /\ ~frame.ops[r].cancelled
    /\ commit(RetryScheduled(r, phase, n))

\* send of EffectCancelled: after a defect only while cleanup is still running.
Cancel(r) ==
    /\ Requested(journal, r)
    /\ frame.defect # NoDefect => \E x \in Active(frame) : cleanupRunnable(frame.ops[x])
    /\ commit(EffectCancelled(r))

CleanUp(r, k) == Requested(journal, r) /\ commit(CancellationOutcome(r, k))

Resolve(r, res) == Requested(journal, r) /\ commit(PromiseSettled(r, res))

Dispatch ==
    /\ frame.defect = NoDefect
    /\ Cardinality({n \in 1 .. Position : journal[n].type = "DomainEvent"}) < MaxDomainEvents
    /\ commit(DomainEvent)

\* The store's checkpoint operation; its failure does not latch the runtime.
Checkpoint ==
    /\ ~failed
    /\ Checkpointable(frame) /\ checkpoint # frame.position
    /\ checkpoint' = frame.position
    /\ UNCHANGED <<journal, inputs, frame, failed>>

\* Startup after a crash or a latched failure: read the checkpoint, replay the
\* suffix, store the inputs of unfinished work that are missing.
Recreate ==
    LET f == replay(journal, checkpoint)
    IN  /\ f.ok
        /\ frame' = f
        /\ failed' = FALSE
        /\ inputs' = inputs \cup Pending(f) \cup Deferred(f) \cup Cancelled(f)
        /\ UNCHANGED <<journal, checkpoint>>

Init ==
    /\ journal = <<>>
    /\ inputs = {}
    /\ checkpoint = 0
    /\ frame = InitialFrame(0)
    /\ failed = FALSE

Next ==
    \/ \E o \in Origins : Accept(o)
    \/ \E r \in Refs, s \in Settlements : Settle(r, s)
    \/ \E r \in Refs : Die(r)
    \/ \E r \in Refs, phase \in {"execution", "cancellation"}, n \in 1 .. MaxAttempt :
         Retry(r, phase, n)
    \/ \E r \in Refs : Cancel(r)
    \/ \E r \in Refs, k \in CleanupOutcomes : CleanUp(r, k)
    \/ \E r \in Refs, res \in PromiseResults : Resolve(r, res)
    \/ Dispatch
    \/ Checkpoint
    \/ Recreate

Spec == Init /\ [][Next]_vars

-----------------------------------------------------------------------------
(* Properties *)

EventRecord ==
    [ type : LifecycleTypes \cup {"MessageDelivered", "Callback", "DomainEvent"},
      ref : Nat,
      val : Origins \cup Settlements \cup PromiseResults \cup CleanupOutcomes
            \cup {"none", "execution", "cancellation", "onRequested", "onDeferred", "onSettled"},
      n : Nat ]

\* Types of the durable and the volatile state.
TypeOK ==
    /\ \A n \in 1 .. Len(journal) : journal[n] \in EventRecord
    /\ inputs \subseteq 1 .. Len(journal)
    /\ checkpoint \in 0 .. Len(journal)
    /\ failed \in BOOLEAN
    /\ frame.position \in 0 .. Len(journal)
    /\ frame.progress \in 0 .. Len(journal)
    /\ frame.defect \in 0 .. Len(journal)
    /\ frame.retire = {}
    /\ \A r \in Active(frame) : r \in 1 .. Len(journal) /\ frame.ops[r] \in StoredOperation

CoreState(f) == <<f.ok, f.position, f.defect, f.ops>>

\* Every journal the live path commits can be replayed, and replaying it rebuilds
\* the live operations and defect, from the checkpoint as well as from the start
\* (replay.ts append against createEngine's replay loop and checkpoint()).
ReplayEquivalent ==
    LET whole  == replay(journal, 0)
        suffix == replay(journal, checkpoint)
    IN  /\ whole.ok
        /\ CoreState(suffix) = CoreState(whole)
        /\ ~failed => CoreState(frame) = CoreState(whole)

SettledCalls(r) == {n \in 1 .. Position : journal[n] = Callback(r, "onSettled")}
Died(r) == \E n \in 1 .. Position : journal[n] = EffectDied(r)

\* An act is told its outcome exactly once: when the value, the rejection, the
\* promise result or the cancellation wins, and never for work a defect ended,
\* whatever races in afterwards (replay.ts followups and append).
DecidedOnce ==
    \A r \in 1 .. Position :
      (Requested(journal, r) /\ journal[r].val \notin ReplyOrigins) =>
        LET op == recordedOperation(journal, r)
        IN  Cardinality(SettledCalls(r)) =
              IF Died(r) \/ ~(op.cancelled \/ operationComplete(op)) THEN 0 ELSE 1

\* The journal's invocation lookup and the engine agree on what is unfinished: an
\* invocation is "pending" exactly while its only accepted reference is active, so
\* drain never runs settled work again nor accepts an invocation twice
\* (journal/invocation.ts against operationComplete and release).
LookupAgrees ==
    ~failed =>
    \A o \in Origins :
      LET refs == {r \in 1 .. Position : journal[r] = EffectRequested(r, o)}
      IN  /\ Cardinality(refs) <= 1
          /\ (lookupInvocation(journal, o) = "pending") <=> (refs \cap Active(frame) # {})

\* isConcluded: recovery needs no input for these references.
Concluded(r) ==
    LET op == recordedOperation(journal, r)
    IN  \/ cleanupSucceeded(op)
        \/ op.promise # "none"
        \/ settlementCompletesExecution(operationSettlement(op))
        \/ /\ \E n \in 1 .. Position : journal[n].type = "EffectDied"
           /\ op.origin \notin ReplyOrigins /\ ~op.cancelled

\* Whatever the crash, every reference replay must execute, recover or clean up
\* still has its input stored (execution.ts inputChanges against replay.ts
\* isConcluded and acceptedInput).
RecoveryInputs ==
    \A r \in 1 .. Position :
      Requested(journal, r) => Concluded(r) \/ r \in inputs

\* No input outlives its operation.  After a defect the removal waits for the
\* last owed cleanup, and only the input of a reply that died or was cancelled is
\* left behind, since no commit removes it (execution.ts inputChanges).
NoOrphanInputs ==
    LET f       == replay(journal, checkpoint)
        orphans == inputs \ Active(f)
    IN  /\ f.defect = NoDefect => orphans = {}
        /\ Cancelled(f) = {} => \A r \in orphans : journal[r].val \in ReplyOrigins
InputsExact == RecoveryInputs /\ NoOrphanInputs

-----------------------------------------------------------------------------
(* The log implements the table of operations *)

RequestsOf(o) == {r \in 1 .. Position : journal[r] = EffectRequested(r, o)}
AcceptedOrigins == {o \in Origins : RequestsOf(o) # {}}
Table == INSTANCE Lifecycle WITH
    ops <- [o \in AcceptedOrigins |->
              recordedOperation(journal, CHOOSE r \in RequestsOf(o) : TRUE)],
    defect <- \E n \in 1 .. Position : journal[n].type = "EffectDied"

\* Whatever is released from the frame, checkpointed, lost in a crash, written
\* without its acknowledgement or delivered late and twice, the log moves every
\* operation only as a table that never forgets an operation would (replay.ts
\* append, release and recordedOperation against Lifecycle).
LifecycleOfLog == Table!LifecycleSpec
=============================================================================
