--------------------------- MODULE EventLogProofs ---------------------------
(***************************************************************************)
(* Proofs about EventLog, for every set of invocations and every length of *)
(* the journal: replay is exact, the log implements the table of           *)
(* operations (Lifecycle), lookupInvocation agrees with the engine, the    *)
(* retained inputs are exact, and an act is told its outcome once.         *)
(*                                                                         *)
(* The inductive invariant LogInv says that an engine mirrors the journal: *)
(* its frame holds the operations the journal records as unfinished, and   *)
(* of the complete ones only those it is about to release (Mirrors).  It   *)
(* says so of the running engine and of the engines replay would seed at   *)
(* position 0 and at the checkpoint, which is what makes it inductive: an  *)
(* accepted record extends the journal and all three frames alike          *)
(* (OneRecord).                                                            *)
(*                                                                         *)
(* recordedOperation and EngineAppendAll are recursive functions.  They    *)
(* are unfolded by induction over the set of lengths at which the          *)
(* recursion has a solution (Induction, from the well-foundedness of <).   *)
(*                                                                         *)
(* The refinement is a step simulation: TableOf is the mapping, one lemma  *)
(* per action shows the table's action, and a checkpoint or a crash is a   *)
(* stutter.  The lookup needs that a folded operation remembers its        *)
(* records (HistoryInv); the inputs need their own invariant (InputInv),   *)
(* which says which requests may be without an input before the engine's   *)
(* next record tells; that an act is told once (CallInv) needs the frame   *)
(* the follow-ups are computed from, which holds the very operation that   *)
(* the journal then records.                                               *)
(*                                                                         *)
(* And about Views, for any number of views of any length: none changes.   *)
(***************************************************************************)
EXTENDS EventLog, Views, SequenceTheorems, FiniteSetTheorems, WellFoundedInduction, TLAPS

-----------------------------------------------------------------------------
(* The inductive invariant *)

\* An operation, field by field.
IsOp(op) ==
    /\ DOMAIN op = {"origin", "outcome", "deferred", "promise", "retry", "cancelled",
                    "cleanup", "cleanupRetry"}
    /\ op.origin \in Origins
    /\ op.outcome \in Settlements \cup {"died", "none"}
    /\ op.deferred \in Settlements \cup {"none"}
    /\ op.promise \in PromiseResults \cup {"none"}
    /\ op.retry \in Nat /\ op.cleanupRetry \in Nat
    /\ op.cancelled \in BOOLEAN
    /\ op.cleanup \in CleanupOutcomes \cup {"none"}

\* What the records of an operation can have made of it.
OpInv(op) ==
    /\ IsOp(op)
    /\ op.outcome = "died" => ~op.cancelled
    /\ op.deferred # "none" => op.outcome = "died"
    /\ ~op.cancelled => op.cleanup = "none"

\* A record's payload fits its type.
Fits(e) ==
    /\ e \in EventRecord
    /\ e.type = "EffectSettled" => e.val \in Settlements
    /\ e.type = "PromiseSettled" => e.val \in PromiseResults
    /\ e.type = "CancellationOutcome" => e.val \in CleanupOutcomes
    /\ e.type = "RetryScheduled" => e.val \in {"execution", "cancellation"}

\* e may follow journal j: a request has the next position and a new origin.
Follows(e, j) ==
    /\ Fits(e)
    /\ e.type = "EffectRequested" =>
         /\ e = EffectRequested(Len(j) + 1, e.val) /\ e.val \in Origins
         /\ \A n \in 1 .. Len(j) : j[n].type = "EffectRequested" => j[n].val # e.val

\* The journal records a defect; the operation of reference r is complete.
HasDied(j) == \E n \in 1 .. Len(j) : j[n].type = "EffectDied"
Complete(j, r) == operationComplete(recordedOperation(j, r))

\* A journal the log can hold: every request has its own position and an origin of its own,
\* and the records of an operation made something consistent of it.
JournalInv(j) ==
    /\ j \in Seq(EventRecord)
    /\ \A r \in 1 .. Len(j) : Requested(j, r) =>
         /\ j[r] = EffectRequested(r, j[r].val) /\ j[r].val \in Origins
         /\ OpInv(recordedOperation(j, r)) /\ recordedOperation(j, r).origin = j[r].val
    /\ \A r, s \in 1 .. Len(j) :
         Requested(j, r) /\ Requested(j, s) /\ j[r].val = j[s].val => r = s

FrameFields == {"ok", "position", "progress", "defect", "ops", "retire"}

\* The defect a frame names is the first of the journal.
Names(d, j) ==
    IF HasDied(j) THEN d # NoDefect /\ \E n \in 1 .. Len(j) : j[n].type = "EffectDied" /\ j[n].ref = d
    ELSE d = NoDefect

\* Frame f is what an engine has made of journal j: every operation that is not complete,
\* as the journal records it, and of the complete ones only those about to be released.
Mirrors(f, j) ==
    /\ DOMAIN f = FrameFields /\ f.ok = TRUE /\ f.position = Len(j)
    /\ Names(f.defect, j)
    /\ f.ops = [r \in Active(f) |-> f.ops[r]]
    /\ \A r \in Active(f) : Requested(j, r) /\ f.ops[r] = recordedOperation(j, r)
    /\ \A r \in 1 .. Len(j) : Requested(j, r) /\ ~Complete(j, r) => r \in Active(f)
    /\ f.retire = {r \in Active(f) : Complete(j, r)}

\* A frame between two admissions: nothing is left to release.
Rests(f, j) == Mirrors(f, j) /\ f.retire = {}

-----------------------------------------------------------------------------
(* Induction *)

\* A nonempty set of naturals has a least element.
LEMMA LeastNatural ==
  ASSUME NEW T, T \subseteq Nat, T # {}
  PROVE  \E n \in T : \A k \in T : n <= k
  <1> DEFINE R == {ss \in Nat \X Nat : ss[1] < ss[2]}
  <1>1. IsWellFoundedOn(R, Nat)
    BY NatLessThanWellFounded, Zenon DEF OpToRel
  <1>2. PICK x \in T : \A y \in T : ~(<<y, x>> \in R)
    <2> HIDE DEF R
    <2> QED  BY <1>1, WFMin
  <1>3. \A y \in T : <<y, x>> \in R <=> y < x
    OBVIOUS
  <1>4. \A y \in T : ~(y < x)
    <2> HIDE DEF R
    <2> QED  BY <1>2, <1>3
  <1>5. x \in Nat /\ \A y \in T : y \in Nat
    OBVIOUS
  <1> HIDE DEF R
  <1>6. \A y \in T : x <= y
    BY <1>4, <1>5
  <1> QED  BY <1>6

\* Induction up to a bound, over a set.
LEMMA Induction ==
  ASSUME NEW a \in Nat, NEW b \in Nat, NEW S, a \in S,
         \A n \in a .. b : n \in S /\ n < b => n + 1 \in S
  PROVE  \A n \in a .. b : n \in S
  <1> SUFFICES ASSUME NEW m \in a .. b, m \notin S PROVE FALSE
    OBVIOUS
  <1> DEFINE T == {n \in a .. b : n \notin S}
  <1>1. T \subseteq Nat /\ T # {}
    OBVIOUS
  <1>2. PICK n \in T : \A k \in T : n <= k
    <2> HIDE DEF T
    <2> QED  BY <1>1, LeastNatural
  <1>3. n \in a .. b /\ n \notin S /\ n # a
    OBVIOUS
  <1>4. n - 1 \in a .. b /\ n - 1 < b /\ n - 1 < n
    BY <1>3
  <1>5. n - 1 \in S
    BY <1>2, <1>3, <1>4
  <1>6. (n - 1) + 1 \in S
    BY <1>4, <1>5
  <1> QED  BY <1>3, <1>6

\* The operation a reference has after record n of the journal: the recursion of
\* recordedOperation has a solution, so its equation holds.
RecordedNext(op, e, r) ==
    IF e.ref = r /\ e.type \in LifecycleTypes THEN Fold(op, e) ELSE op

\* The recursion of recordedOperation has a solution, built one record at a time.
RecordedFold(g, j, r, b) ==
  g = [n \in r .. b |-> IF n = r THEN NewOperation(j[r].val) ELSE RecordedNext(g[n - 1], j[n], r)]

LEMMA RecordedExists ==
  ASSUME NEW j, NEW r \in Nat, NEW b \in Nat, r <= b
  PROVE  \E g : RecordedFold(g, j, r, b)
  <1> DEFINE Is(g, m) == g = [n \in r .. m |-> IF n = r THEN NewOperation(j[r].val)
                                       ELSE RecordedNext(g[n - 1], j[n], r)]
             S == {m \in r .. b : \E g : Is(g, m)}
  <1>1. r \in S
    <2> DEFINE g == [n \in r .. r |-> NewOperation(j[r].val)]
    <2>1. Is(g, r)
      OBVIOUS
    <2> HIDE DEF g, Is
    <2> QED  BY <2>1
  <1>2. ASSUME NEW m \in r .. b, m \in S, m < b PROVE m + 1 \in S
    <2>1. PICK g : Is(g, m)
      BY <1>2
    <2> DEFINE h == [n \in r .. (m + 1) |-> IF n = m + 1 THEN RecordedNext(g[m], j[m + 1], r) ELSE g[n]]
    <2>2. \A n \in r .. m : g[n] = IF n = r THEN NewOperation(j[r].val)
                                       ELSE RecordedNext(g[n - 1], j[n], r)
      BY <2>1
    <2>3. ASSUME NEW n \in r .. (m + 1)
          PROVE  h[n] = IF n = r THEN NewOperation(j[r].val) ELSE RecordedNext(h[n - 1], j[n], r)
      <3>1. CASE n = r
        BY <3>1, <2>2
      <3>2. CASE n # r /\ n <= m
        <4>1. n - 1 \in r .. m /\ n \in r .. m
          BY <3>2
        <4> QED  BY <3>2, <4>1, <2>2
      <3>3. CASE n = m + 1
        <4>1. h[m] = g[m]
          BY <1>2
        <4> QED  BY <3>3, <4>1, <1>2
      <3> QED  BY <3>1, <3>2, <3>3, <1>2
    <2>4. Is(h, m + 1)
      <3> HIDE DEF h
      <3>1. h = [n \in r .. (m + 1) |-> h[n]]
        BY DEF h
      <3> QED  BY <2>3, <3>1
    <2>5. m + 1 \in r .. b
      BY <1>2
    <2> HIDE DEF h, Is
    <2> QED  BY <2>4, <2>5
  <1>3. b \in S
    <2>1. r \in Nat /\ b \in r .. b
      OBVIOUS
    <2> HIDE DEF S
    <2>2. \A n \in r .. b : n \in S /\ n < b => n + 1 \in S
      BY <1>2
    <2>3. \A n \in r .. b : n \in S
      BY <1>1, <2>1, <2>2, Induction
    <2> QED  BY <2>1, <2>3
  <1> QED  BY <1>3 DEF RecordedFold

\* So recordedOperation is the last value of a fold that starts at the request and takes in
\* one record of the journal after another.
LEMMA RecordedEquation ==
  ASSUME NEW j, NEW r \in Nat, Len(j) \in Nat, r <= Len(j)
  PROVE  \E g : /\ recordedOperation(j, r) = g[Len(j)]
                /\ g[r] = NewOperation(j[r].val)
                /\ \A n \in (r + 1) .. Len(j) : g[n] = RecordedNext(g[n - 1], j[n], r)
  <1> DEFINE fold == CHOOSE g : g = [n \in r .. Len(j) |-> IF n = r THEN NewOperation(j[r].val)
                                       ELSE IF j[n].ref = r /\ j[n].type \in LifecycleTypes
               THEN Fold(g[n - 1], j[n]) ELSE g[n - 1]]
  <1>1. recordedOperation(j, r) = fold[Len(j)]
    BY DEF recordedOperation
  <1>2. \E g : g = [n \in r .. Len(j) |-> IF n = r THEN NewOperation(j[r].val)
                                       ELSE IF j[n].ref = r /\ j[n].type \in LifecycleTypes
               THEN Fold(g[n - 1], j[n]) ELSE g[n - 1]]
    <2>1. PICK g : RecordedFold(g, j, r, Len(j))
      BY RecordedExists
    <2> QED  BY <2>1 DEF RecordedFold, RecordedNext
  <1>3. fold = [n \in r .. Len(j) |-> IF n = r THEN NewOperation(j[r].val)
                                       ELSE RecordedNext(fold[n - 1], j[n], r)]
    BY <1>2 DEF RecordedNext
  <1> HIDE DEF fold
  <1>4. fold[r] = NewOperation(j[r].val)
    <2>1. r \in r .. Len(j)
      OBVIOUS
    <2> QED  BY <1>3, <2>1
  <1>5. ASSUME NEW n \in (r + 1) .. Len(j)
        PROVE  fold[n] = RecordedNext(fold[n - 1], j[n], r)
    <2>1. n \in r .. Len(j) /\ n # r
      OBVIOUS
    <2> QED  BY <1>3, <2>1
  <1> QED  BY <1>1, <1>4, <1>5
-----------------------------------------------------------------------------
(* The cases of the engine's definitions *)

\* What the engine's fold makes of an operation, record type by record type.
LEMMA FoldIs ==
  ASSUME NEW op, NEW e
  PROVE  /\ e.type = "EffectRequested" => Fold(op, e) = op
         /\ e.type = "EffectSettled" => Fold(op, e) = [op EXCEPT !.outcome = e.val]
         /\ e.type = "EffectDied" =>
              Fold(op, e) = [op EXCEPT !.outcome = "died", !.deferred = operationSettlement(op)]
         /\ e.type = "PromiseSettled" => Fold(op, e) = [op EXCEPT !.promise = e.val]
         /\ e.type = "EffectCancelled" => Fold(op, e) = [op EXCEPT !.cancelled = TRUE]
         /\ e.type = "CancellationOutcome" /\ op.cancelled => Fold(op, e) = [op EXCEPT !.cleanup = e.val]
         /\ e.type = "RetryScheduled" /\ e.val = "execution" => Fold(op, e) = [op EXCEPT !.retry = e.n]
         /\ e.type = "RetryScheduled" /\ e.val = "cancellation" /\ op.cancelled =>
              Fold(op, e) = [op EXCEPT !.cleanupRetry = e.n]
  <1>1. e.type = "EffectRequested" => Fold(op, e) = op
    BY Zenon DEF Fold
  <1>2. e.type = "EffectSettled" => Fold(op, e) = [op EXCEPT !.outcome = e.val]
    BY Zenon DEF Fold
  <1>3. e.type = "EffectDied" =>
          Fold(op, e) = [op EXCEPT !.outcome = "died", !.deferred = operationSettlement(op)]
    BY Zenon DEF Fold
  <1>4. e.type = "PromiseSettled" => Fold(op, e) = [op EXCEPT !.promise = e.val]
    BY Zenon DEF Fold
  <1>5. e.type = "EffectCancelled" => Fold(op, e) = [op EXCEPT !.cancelled = TRUE]
    BY Zenon DEF Fold
  <1>6. e.type = "CancellationOutcome" /\ op.cancelled => Fold(op, e) = [op EXCEPT !.cleanup = e.val]
    BY Zenon DEF Fold
  <1>7. e.type = "RetryScheduled" /\ e.val = "execution" => Fold(op, e) = [op EXCEPT !.retry = e.n]
    BY Zenon DEF Fold
  <1>8. e.type = "RetryScheduled" /\ e.val = "cancellation" /\ op.cancelled =>
          Fold(op, e) = [op EXCEPT !.cleanupRetry = e.n]
    BY Zenon DEF Fold
  <1> QED  BY <1>1, <1>2, <1>3, <1>4, <1>5, <1>6, <1>7, <1>8

\* The guard of append for a record about an operation op of the frame.
Guard(op, e) ==
    /\ e.type = "EffectDied" =>
         ~op.cancelled /\ op.promise = "none" /\ ~settlementCompletesExecution(operationSettlement(op))
    /\ e.type = "RetryScheduled" /\ e.val = "cancellation" =>
         op.cancelled /\ op.cleanup = "none" /\ e.n = op.cleanupRetry + 1
    /\ e.type = "RetryScheduled" /\ e.val = "execution" =>
         /\ ~op.cancelled /\ op.promise = "none"
         /\ ~settlementCompletesExecution(operationSettlement(op)) /\ e.n = op.retry + 1
    /\ e.type = "CancellationOutcome" => op.cancelled /\ op.cleanup = "none"
    /\ e.type = "EffectSettled" => ~cleanupSucceeded(op) /\ operationSettlement(op) = "none"
    /\ e.type = "PromiseSettled" =>
         operationSettlement(op) \in {"value", "promise"} /\ op.promise \in {"none", e.val}
    /\ e.type = "MessageDelivered" => operationSettlement(op) = "value"

\* Records that refer to an operation of the frame.
AboutTypes == (LifecycleTypes \ {"EffectRequested"}) \cup {"MessageDelivered"}

\* What EngineAccepts demands of a record: a request has the next position and a fresh origin,
\* a record about an operation finds it in the frame and passes the guard of its type.
LEMMA AcceptsIs ==
  ASSUME NEW f, NEW e
  PROVE  /\ e.type = "EffectRequested" /\ e.ref \notin Active(f) =>
              (EngineAccepts(f, e) <=> /\ e.ref = f.position + 1
                                       /\ \A r \in Active(f) : f.ops[r].origin # e.val
                                       /\ f.defect # NoDefect => e.val \in ReplyOrigins)
         /\ e.type \in AboutTypes /\ (e.type = "RetryScheduled" => e.val \in {"execution", "cancellation"}) =>
              (EngineAccepts(f, e) <=> e.ref \in Active(f) /\ Guard(f.ops[e.ref], e))
         /\ e.type \notin LifecycleTypes \cup {"MessageDelivered"} => EngineAccepts(f, e)
  <1>1. e.type = "EffectRequested" /\ e.ref \notin Active(f) =>
              (EngineAccepts(f, e) <=> /\ e.ref = f.position + 1
                                       /\ \A r \in Active(f) : f.ops[r].origin # e.val
                                       /\ f.defect # NoDefect => e.val \in ReplyOrigins)
    BY Zenon DEF EngineAccepts
  <1>2. e.type = "EffectDied" => (EngineAccepts(f, e) <=> e.ref \in Active(f) /\ Guard(f.ops[e.ref], e))
    BY Zenon DEF EngineAccepts, Guard
  <1>3. e.type = "RetryScheduled" /\ e.val = "cancellation" =>
          (EngineAccepts(f, e) <=> e.ref \in Active(f) /\ Guard(f.ops[e.ref], e))
    BY Zenon DEF EngineAccepts, Guard
  <1>4. e.type = "RetryScheduled" /\ e.val = "execution" =>
          (EngineAccepts(f, e) <=> e.ref \in Active(f) /\ Guard(f.ops[e.ref], e))
    BY Zenon DEF EngineAccepts, Guard
  <1>5. e.type = "EffectCancelled" => (EngineAccepts(f, e) <=> e.ref \in Active(f) /\ Guard(f.ops[e.ref], e))
    BY Zenon DEF EngineAccepts, Guard
  <1>6. e.type = "CancellationOutcome" => (EngineAccepts(f, e) <=> e.ref \in Active(f) /\ Guard(f.ops[e.ref], e))
    BY Zenon DEF EngineAccepts, Guard
  <1>7. e.type = "EffectSettled" => (EngineAccepts(f, e) <=> e.ref \in Active(f) /\ Guard(f.ops[e.ref], e))
    BY Zenon DEF EngineAccepts, Guard
  <1>8. e.type = "PromiseSettled" => (EngineAccepts(f, e) <=> e.ref \in Active(f) /\ Guard(f.ops[e.ref], e))
    BY Zenon DEF EngineAccepts, Guard
  <1>9. e.type = "MessageDelivered" => (EngineAccepts(f, e) <=> e.ref \in Active(f) /\ Guard(f.ops[e.ref], e))
    BY Zenon DEF EngineAccepts, Guard
  <1>10. e.type \notin LifecycleTypes \cup {"MessageDelivered"} => EngineAccepts(f, e)
    BY Zenon DEF EngineAccepts, LifecycleTypes
  <1> QED  BY <1>1, <1>2, <1>3, <1>4, <1>5, <1>6, <1>7, <1>8, <1>9, <1>10 DEF AboutTypes, LifecycleTypes

\* The records after which the engine retires the operation.
LEMMA RetiresIs ==
  ASSUME NEW op, NEW e
  PROVE  /\ e.type = "EffectDied" => (Retires(op, e) <=> TRUE)
         /\ e.type = "CancellationOutcome" => (Retires(op, e) <=> cleanupSucceeded(op))
         /\ e.type = "EffectSettled" => (Retires(op, e) <=> ~op.cancelled /\ settlementCompletesExecution(e.val))
         /\ e.type = "PromiseSettled" => (Retires(op, e) <=> ~op.cancelled)
         /\ e.type \notin {"EffectDied", "CancellationOutcome", "EffectSettled", "PromiseSettled"} => ~Retires(op, e)
  BY Zenon DEF Retires

\* The operation a record leads to, and the frame with it.
Folded(f, e) ==
    IF e.type = "EffectRequested" /\ e.ref \notin Active(f)
    THEN NewOperation(e.val) ELSE Fold(f.ops[e.ref], e)
FoldedOps(f, e) ==
    IF e.type \in LifecycleTypes
    THEN [x \in Active(f) \cup {e.ref} |-> IF x = e.ref THEN Folded(f, e) ELSE f.ops[x]]
    ELSE f.ops

\* The frame after one folded record, field by field.
LEMMA EngineFoldIs ==
  ASSUME NEW f, NEW e, DOMAIN f = FrameFields
  PROVE  /\ DOMAIN EngineFold(f, e) = FrameFields /\ EngineFold(f, e).ok = f.ok
         /\ EngineFold(f, e).position = f.position + 1
         /\ EngineFold(f, e).defect = IF e.type = "EffectDied" /\ f.defect = NoDefect THEN e.ref ELSE f.defect
         /\ EngineFold(f, e).ops = FoldedOps(f, e)
         /\ e.type \in LifecycleTypes /\ Retires(Folded(f, e), e) =>
              EngineFold(f, e).retire = f.retire \cup {e.ref}
         /\ e.type = "EffectCancelled" => EngineFold(f, e).retire = f.retire \ {e.ref}
         /\ e.type # "EffectCancelled" /\ ~(e.type \in LifecycleTypes /\ Retires(Folded(f, e), e)) =>
              EngineFold(f, e).retire = f.retire
  <1> DEFINE g == EngineFold(f, e)
             op == Folded(f, e)
             next == IF e.type \in LifecycleTypes THEN Set(f, e.ref, op) ELSE f
             progress == IF e.type \in {"EffectSettled", "PromiseSettled", "CancellationOutcome"}
                        THEN f.position + 1 ELSE next.progress
             retire == CASE e.type \in LifecycleTypes /\ Retires(op, e) -> next.retire \cup {e.ref}
                        [] e.type = "EffectCancelled" -> next.retire \ {e.ref}
                        [] OTHER -> next.retire
  <1>1. g = [next EXCEPT !.position = next.position + 1, !.progress = progress,
               !.defect = IF e.type = "EffectDied" /\ next.defect = NoDefect THEN e.ref ELSE next.defect,
               !.retire = retire]
    BY Zenon DEF EngineFold, Folded
  <1>2. /\ DOMAIN next = FrameFields /\ next.ok = f.ok /\ next.position = f.position
        /\ next.defect = f.defect /\ next.retire = f.retire /\ next.ops = FoldedOps(f, e)
    BY DEF Set, FoldedOps, FrameFields
  <1>3. /\ e.type \in LifecycleTypes /\ Retires(op, e) => retire = next.retire \cup {e.ref}
        /\ e.type = "EffectCancelled" => retire = next.retire \ {e.ref}
        /\ e.type # "EffectCancelled" /\ ~(e.type \in LifecycleTypes /\ Retires(op, e)) => retire = next.retire
    BY RetiresIs, Zenon
  <1> HIDE DEF next, progress, retire, g
  <1>4. /\ DOMAIN g = FrameFields /\ g.ok = next.ok /\ g.position = next.position + 1 /\ g.ops = next.ops
        /\ g.defect = IF e.type = "EffectDied" /\ next.defect = NoDefect THEN e.ref ELSE next.defect
        /\ g.retire = retire
    BY <1>1, <1>2 DEF FrameFields
  <1> QED  BY <1>2, <1>3, <1>4 DEF g

\* Folding neither loses a field of the frame nor changes whether it is sound.
LEMMA EngineFoldOk ==
  ASSUME NEW f, NEW e, DOMAIN f = FrameFields
  PROVE  DOMAIN EngineFold(f, e) = FrameFields /\ EngineFold(f, e).ok = f.ok
  BY EngineFoldIs

\* The operations after a record depend on the operations before it and on nothing else.
LEMMA EngineFoldSame ==
  ASSUME NEW f, NEW g, NEW e, f.ops = g.ops, DOMAIN f = FrameFields, DOMAIN g = FrameFields
  PROVE  EngineFold(f, e).ops = EngineFold(g, e).ops
  <1>1. EngineFold(f, e).ops = FoldedOps(f, e) /\ EngineFold(g, e).ops = FoldedOps(g, e)
    BY EngineFoldIs
  <1>2. FoldedOps(f, e) = FoldedOps(g, e)
    BY DEF FoldedOps, Folded, Active
  <1> QED  BY <1>1, <1>2

-----------------------------------------------------------------------------
(* Journals that grow by a record *)

\* A sequence with one element more.
LEMMA AppendFacts ==
  ASSUME NEW S, NEW j \in Seq(S), NEW e \in S
  PROVE  /\ Append(j, e) \in Seq(S) /\ Len(j) \in Nat /\ Len(Append(j, e)) = Len(j) + 1
         /\ \A n \in 1 .. Len(j) : Append(j, e)[n] = j[n]
         /\ Append(j, e)[Len(j) + 1] = e
  OBVIOUS

\* One more record changes the operation it is about and no other.
LEMMA RecordedAppend ==
  ASSUME NEW S, NEW j \in Seq(S), NEW e \in S, NEW r \in 1 .. Len(j)
  PROVE  recordedOperation(Append(j, e), r) = RecordedNext(recordedOperation(j, r), e, r)
  <1> DEFINE k == Append(j, e)
  <1>1. /\ Len(j) \in Nat /\ Len(k) = Len(j) + 1 /\ k[Len(j) + 1] = e
        /\ \A n \in 1 .. Len(j) : k[n] = j[n]
    BY AppendFacts
  <1> HIDE DEF k
  <1>2. r \in Nat /\ r <= Len(j) /\ Len(k) \in Nat /\ r <= Len(k)
    BY <1>1
  <1>3. PICK g : /\ recordedOperation(j, r) = g[Len(j)]
                 /\ g[r] = NewOperation(j[r].val)
                 /\ \A n \in (r + 1) .. Len(j) : g[n] = RecordedNext(g[n - 1], j[n], r)
    BY <1>1, <1>2, RecordedEquation
  <1>4. PICK h : /\ recordedOperation(k, r) = h[Len(k)]
                 /\ h[r] = NewOperation(k[r].val)
                 /\ \A n \in (r + 1) .. Len(k) : h[n] = RecordedNext(h[n - 1], k[n], r)
    BY <1>2, RecordedEquation
  <1> DEFINE E == {n \in r .. Len(j) : g[n] = h[n]}
  <1>5. r \in E
    BY <1>1, <1>2, <1>3, <1>4
  <1>6. ASSUME NEW n \in r .. Len(j), n \in E, n < Len(j) PROVE n + 1 \in E
    <2>1. /\ n + 1 \in (r + 1) .. Len(j) /\ n + 1 \in (r + 1) .. Len(k) /\ n + 1 \in 1 .. Len(j)
          /\ n + 1 \in r .. Len(j) /\ (n + 1) - 1 = n
      BY <1>1, <1>2, <1>6
    <2>2. g[n + 1] = RecordedNext(g[n], j[n + 1], r) /\ h[n + 1] = RecordedNext(h[n], k[n + 1], r)
      BY <1>3, <1>4, <2>1
    <2> QED  BY <1>1, <1>6, <2>1, <2>2
  <1>7. \A n \in r .. Len(j) : n \in E
    <2> HIDE DEF E
    <2> QED  BY <1>1, <1>2, <1>5, <1>6, Induction
  <1>8. g[Len(j)] = h[Len(j)]
    BY <1>1, <1>2, <1>7
  <1>9. h[Len(j) + 1] = RecordedNext(h[Len(j)], e, r)
    <2>1. Len(j) + 1 \in (r + 1) .. Len(k) /\ (Len(j) + 1) - 1 = Len(j)
      BY <1>1, <1>2
    <2> QED  BY <1>1, <1>4, <2>1
  <1> QED  BY <1>1, <1>3, <1>4, <1>8, <1>9 DEF k

\* A new request has a new operation.
LEMMA RecordedNew ==
  ASSUME NEW S, NEW j \in Seq(S), NEW e \in S
  PROVE  recordedOperation(Append(j, e), Len(j) + 1) = NewOperation(e.val)
  <1> DEFINE k == Append(j, e)
             m == Len(j) + 1
  <1>1. m \in Nat /\ Len(k) = m /\ k[m] = e
    BY AppendFacts
  <1> HIDE DEF k, m
  <1>2. Len(k) \in Nat /\ m <= Len(k)
    BY <1>1
  <1>3. \E g : recordedOperation(k, m) = g[Len(k)] /\ g[m] = NewOperation(k[m].val)
    BY <1>1, <1>2, RecordedEquation
  <1> QED  BY <1>1, <1>3 DEF k, m

\* The recursion of EngineAppendAll has a solution.
LEMMA EngineExists ==
  ASSUME NEW f, NEW batch, NEW b \in Nat
  PROVE  \E g : g = [n \in 0 .. b |-> IF n = 0 THEN f ELSE EngineAppend(g[n - 1], batch[n])]
  <1> DEFINE Is(g, m) == g = [n \in 0 .. m |-> IF n = 0 THEN f ELSE EngineAppend(g[n - 1], batch[n])]
             S == {m \in 0 .. b : \E g : Is(g, m)}
  <1>1. 0 \in S
    <2> DEFINE g == [n \in 0 .. 0 |-> f]
    <2>1. Is(g, 0)
      OBVIOUS
    <2> HIDE DEF g, Is
    <2> QED  BY <2>1
  <1>2. ASSUME NEW m \in 0 .. b, m \in S, m < b PROVE m + 1 \in S
    <2>1. PICK g : Is(g, m)
      BY <1>2
    <2> DEFINE h == [n \in 0 .. (m + 1) |-> IF n = m + 1 THEN EngineAppend(g[m], batch[m + 1]) ELSE g[n]]
    <2>2. \A n \in 0 .. m : g[n] = IF n = 0 THEN f ELSE EngineAppend(g[n - 1], batch[n])
      BY <2>1
    <2>3. ASSUME NEW n \in 0 .. (m + 1)
          PROVE  h[n] = IF n = 0 THEN f ELSE EngineAppend(h[n - 1], batch[n])
      <3>1. CASE n = 0
        BY <3>1, <2>2
      <3>2. CASE n # 0 /\ n <= m
        <4>1. n - 1 \in 0 .. m /\ n \in 0 .. m
          BY <3>2
        <4> QED  BY <3>2, <4>1, <2>2
      <3>3. CASE n = m + 1
        <4>1. h[m] = g[m]
          BY <1>2
        <4> QED  BY <3>3, <4>1, <1>2
      <3> QED  BY <3>1, <3>2, <3>3, <1>2
    <2>4. Is(h, m + 1)
      <3> HIDE DEF h
      <3>1. h = [n \in 0 .. (m + 1) |-> h[n]]
        BY DEF h
      <3> QED  BY <2>3, <3>1
    <2>5. m + 1 \in 0 .. b
      BY <1>2
    <2> HIDE DEF h, Is
    <2> QED  BY <2>4, <2>5
  <1>3. b \in S
    <2>1. 0 \in Nat /\ b \in 0 .. b
      OBVIOUS
    <2> HIDE DEF S
    <2>2. \A n \in 0 .. b : n \in S /\ n < b => n + 1 \in S
      BY <1>2
    <2>3. \A n \in 0 .. b : n \in S
      BY <1>1, <2>1, <2>2, Induction
    <2> QED  BY <2>1, <2>3
  <1> QED  BY <1>3

\* EngineAppendAll appends the records of a batch to the frame one after another.
LEMMA EngineEquation ==
  ASSUME NEW f, NEW batch, Len(batch) \in Nat
  PROVE  \E g : /\ EngineAppendAll(f, batch) = g[Len(batch)] /\ g[0] = f
                /\ \A n \in 1 .. Len(batch) : g[n] = EngineAppend(g[n - 1], batch[n])
  <1> DEFINE fold == CHOOSE g : g = [n \in 0 .. Len(batch) |-> IF n = 0 THEN f ELSE EngineAppend(g[n - 1], batch[n])]
  <1>1. EngineAppendAll(f, batch) = fold[Len(batch)]
    BY DEF EngineAppendAll
  <1>2. fold = [n \in 0 .. Len(batch) |-> IF n = 0 THEN f ELSE EngineAppend(fold[n - 1], batch[n])]
    BY EngineExists
  <1> HIDE DEF fold
  <1>3. fold[0] = f
    <2>1. 0 \in 0 .. Len(batch)
      OBVIOUS
    <2> QED  BY <1>2, <2>1
  <1>4. ASSUME NEW n \in 1 .. Len(batch)
        PROVE  fold[n] = EngineAppend(fold[n - 1], batch[n])
    <2>1. n \in 0 .. Len(batch) /\ n # 0
      OBVIOUS
    <2> QED  BY <1>2, <2>1
  <1> QED  BY <1>1, <1>3, <1>4

\* An empty batch leaves the frame alone.
LEMMA EngineNone ==
  ASSUME NEW f, NEW batch, Len(batch) = 0
  PROVE  EngineAppendAll(f, batch) = f
  BY EngineEquation

\* Appending a record to a batch appends it to what the batch leads to.
LEMMA EngineOneMore ==
  ASSUME NEW f, NEW S, NEW batch \in Seq(S), NEW e \in S
  PROVE  EngineAppendAll(f, Append(batch, e)) = EngineAppend(EngineAppendAll(f, batch), e)
  <1> DEFINE k == Append(batch, e)
  <1>1. /\ Len(batch) \in Nat /\ Len(k) = Len(batch) + 1 /\ k[Len(batch) + 1] = e
        /\ \A n \in 1 .. Len(batch) : k[n] = batch[n]
    BY AppendFacts
  <1> HIDE DEF k
  <1>2. Len(k) \in Nat
    BY <1>1
  <1>3. PICK g : /\ EngineAppendAll(f, batch) = g[Len(batch)] /\ g[0] = f
                 /\ \A n \in 1 .. Len(batch) : g[n] = EngineAppend(g[n - 1], batch[n])
    BY <1>1, EngineEquation
  <1>4. PICK h : /\ EngineAppendAll(f, k) = h[Len(k)] /\ h[0] = f
                 /\ \A n \in 1 .. Len(k) : h[n] = EngineAppend(h[n - 1], k[n])
    BY <1>2, EngineEquation
  <1> DEFINE E == {n \in 0 .. Len(batch) : g[n] = h[n]}
  <1>5. 0 \in E
    BY <1>1, <1>3, <1>4
  <1>6. ASSUME NEW n \in 0 .. Len(batch), n \in E, n < Len(batch) PROVE n + 1 \in E
    <2>1. /\ n + 1 \in 1 .. Len(batch) /\ n + 1 \in 1 .. Len(k)
          /\ n + 1 \in 0 .. Len(batch) /\ (n + 1) - 1 = n
      BY <1>1, <1>6
    <2>2. g[n + 1] = EngineAppend(g[n], batch[n + 1]) /\ h[n + 1] = EngineAppend(h[n], k[n + 1])
      BY <1>3, <1>4, <2>1
    <2> QED  BY <1>1, <1>6, <2>1, <2>2
  <1>7. \A n \in 0 .. Len(batch) : n \in E
    <2> HIDE DEF E
    <2> QED  BY <1>1, <1>5, <1>6, Induction
  <1>8. g[Len(batch)] = h[Len(batch)]
    BY <1>1, <1>7
  <1>9. h[Len(batch) + 1] = EngineAppend(h[Len(batch)], e)
    <2>1. Len(batch) + 1 \in 1 .. Len(k) /\ (Len(batch) + 1) - 1 = Len(batch)
      BY <1>1
    <2> QED  BY <1>1, <1>4, <2>1
  <1> QED  BY <1>1, <1>3, <1>4, <1>8, <1>9 DEF k

-----------------------------------------------------------------------------
(* The engine mirrors the journal *)

\* Which requests a journal holds after one record more.
LEMMA RequestedFacts ==
  ASSUME NEW S, NEW j \in Seq(S), NEW e \in S, NEW r
  PROVE  /\ Requested(j, r) => Requested(Append(j, e), r) /\ Append(j, e)[r] = j[r] /\ r \in 1 .. Len(j)
         /\ Requested(Append(j, e), r) => Requested(j, r) \/ (r = Len(j) + 1 /\ e.type = "EffectRequested")
         /\ e.type = "EffectRequested" => Requested(Append(j, e), Len(j) + 1)
         /\ ~Requested(j, Len(j) + 1)
  <1>1. /\ Len(j) \in Nat /\ Len(Append(j, e)) = Len(j) + 1 /\ Append(j, e)[Len(j) + 1] = e
        /\ \A n \in 1 .. Len(j) : Append(j, e)[n] = j[n]
    BY AppendFacts
  <1> QED  BY <1>1 DEF Requested

\* A new operation is consistent and not complete.
LEMMA NewOpInv ==
  ASSUME NEW o \in Origins
  PROVE  OpInv(NewOperation(o)) /\ NewOperation(o).origin = o /\ ~operationComplete(NewOperation(o))
  BY DEF OpInv, IsOp, NewOperation, operationComplete, operationSettlement, settlementCompletesExecution,
         Settlements, PromiseResults, CleanupOutcomes

\* A record the guard lets through keeps an unfinished operation's record consistent, and
\* the operation is complete afterwards exactly when the record retires it.
LEMMA OpStep ==
  ASSUME NEW op, NEW e, OpInv(op), ~operationComplete(op), Fits(e),
         e.type \in LifecycleTypes \ {"EffectRequested"}, Guard(op, e),
         NEW new, new = Fold(op, e)
  PROVE  /\ OpInv(new) /\ new.origin = op.origin
         /\ operationComplete(new) <=> Retires(new, e)
         /\ ~operationComplete(new) => e.type # "EffectDied"
  <1>1. CASE e.type = "EffectSettled"
    <2>1. new = [op EXCEPT !.outcome = e.val]
      BY <1>1, FoldIs
    <2>2. Retires(new, e) <=> ~new.cancelled /\ settlementCompletesExecution(e.val)
      BY <1>1, RetiresIs
    <2> QED  BY <1>1, <2>1, <2>2
      DEF Fits, Guard, OpInv, IsOp, operationComplete, operationSettlement, settlementCompletesExecution,
          cleanupSucceeded, Settlements, PromiseResults, CleanupOutcomes
  <1>2. CASE e.type = "EffectDied"
    <2>1. new = [op EXCEPT !.outcome = "died", !.deferred = operationSettlement(op)]
      BY <1>2, FoldIs
    <2>2. Retires(new, e)
      BY <1>2, RetiresIs
    <2>3. operationSettlement(op) \in Settlements \cup {"none"}
      BY DEF OpInv, IsOp, operationSettlement
    <2>4. /\ DOMAIN new = DOMAIN op /\ new.outcome = "died" /\ new.deferred = operationSettlement(op)
          /\ new.origin = op.origin /\ new.promise = op.promise /\ new.retry = op.retry
          /\ new.cancelled = op.cancelled /\ new.cleanup = op.cleanup /\ new.cleanupRetry = op.cleanupRetry
      BY <2>1 DEF OpInv, IsOp
    <2> QED  BY <1>2, <2>2, <2>3, <2>4
      DEF Fits, Guard, OpInv, IsOp, operationComplete
  <1>3. CASE e.type = "PromiseSettled"
    <2>1. new = [op EXCEPT !.promise = e.val]
      BY <1>3, FoldIs
    <2>2. Retires(new, e) <=> ~new.cancelled
      BY <1>3, RetiresIs
    <2> QED  BY <1>3, <2>1, <2>2
      DEF Fits, Guard, OpInv, IsOp, operationComplete, operationSettlement, settlementCompletesExecution,
          cleanupSucceeded, Settlements, PromiseResults, CleanupOutcomes
  <1>4. CASE e.type = "EffectCancelled"
    <2>1. new = [op EXCEPT !.cancelled = TRUE]
      BY <1>4, FoldIs
    <2>2. ~Retires(new, e)
      BY <1>4, RetiresIs
    <2>3. /\ DOMAIN new = DOMAIN op /\ new.outcome = op.outcome /\ new.deferred = op.deferred
          /\ new.origin = op.origin /\ new.promise = op.promise /\ new.retry = op.retry
          /\ new.cancelled = TRUE /\ new.cleanup = op.cleanup /\ new.cleanupRetry = op.cleanupRetry
      BY <2>1 DEF OpInv, IsOp
    <2> QED  BY <1>4, <2>2, <2>3
      DEF Fits, Guard, OpInv, IsOp, operationComplete, cleanupSucceeded
  <1>5. CASE e.type = "CancellationOutcome"
    <2>1. new = [op EXCEPT !.cleanup = e.val]
      BY <1>5, FoldIs DEF Guard
    <2>2. Retires(new, e) <=> cleanupSucceeded(new)
      BY <1>5, RetiresIs
    <2> QED  BY <1>5, <2>1, <2>2
      DEF Fits, Guard, OpInv, IsOp, operationComplete, operationSettlement, settlementCompletesExecution,
          cleanupSucceeded, Settlements, PromiseResults, CleanupOutcomes
  <1>6. CASE e.type = "RetryScheduled" /\ e.val = "execution"
    <2>1. new = [op EXCEPT !.retry = e.n]
      BY <1>6, Zenon DEF Fold
    <2>2. ~Retires(new, e)
      BY <1>6, RetiresIs
    <2> QED  BY <1>6, <2>1, <2>2
      DEF Fits, Guard, OpInv, IsOp, operationComplete, operationSettlement, settlementCompletesExecution,
          cleanupSucceeded, Settlements, PromiseResults, CleanupOutcomes
  <1>7. CASE e.type = "RetryScheduled" /\ e.val = "cancellation"
    <2>1. new = [op EXCEPT !.cleanupRetry = e.n]
      BY <1>7, FoldIs DEF Guard
    <2>2. ~Retires(new, e)
      BY <1>7, RetiresIs
    <2> QED  BY <1>7, <2>1, <2>2
      DEF Fits, Guard, OpInv, IsOp, operationComplete, operationSettlement, settlementCompletesExecution,
          cleanupSucceeded, Settlements, PromiseResults, CleanupOutcomes
  <1> QED  BY <1>1, <1>2, <1>3, <1>4, <1>5, <1>6, <1>7 DEF Fits, LifecycleTypes

\* What is left of a frame when the next record comes.
LEMMA Released ==
  ASSUME NEW j, NEW f, Mirrors(f, j), NEW e, NEW g, g = release(f, e)
  PROVE  /\ DOMAIN g = FrameFields /\ g.ok = TRUE /\ g.position = Len(j) /\ g.defect = f.defect
         /\ g.ops = [r \in Active(g) |-> f.ops[r]] /\ Active(g) \subseteq Active(f)
         /\ \A r \in Active(f) :
              r \in Active(g) <=> ~Complete(j, r) \/ (e.type = "MessageDelivered" /\ e.ref = r)
         /\ g.retire = {r \in Active(g) : Complete(j, r)}
  <1> DEFINE kept == {r \in f.retire : e.type = "MessageDelivered" /\ e.ref = r}
             gone == {r \in f.retire \ kept : r \in Active(f) /\ operationComplete(f.ops[r])}
  <1>1. g = [f EXCEPT !.retire = kept, !.ops = [r \in Active(f) \ gone |-> f.ops[r]]]
    BY DEF release
  <1>2. \A r \in Active(f) : operationComplete(f.ops[r]) <=> Complete(j, r)
    BY DEF Mirrors, Complete
  <1>3. f.retire = {r \in Active(f) : Complete(j, r)}
    BY DEF Mirrors
  <1>4. \A r \in Active(f) : r \in gone <=> Complete(j, r) /\ ~(e.type = "MessageDelivered" /\ e.ref = r)
    BY <1>2, <1>3
  <1>5. \A r : r \in kept <=> r \in Active(f) /\ Complete(j, r) /\ e.type = "MessageDelivered" /\ e.ref = r
    BY <1>3
  <1> HIDE DEF kept, gone
  <1>6. /\ DOMAIN g = FrameFields /\ g.ok = f.ok /\ g.position = f.position /\ g.defect = f.defect
        /\ g.retire = kept /\ g.ops = [r \in Active(f) \ gone |-> f.ops[r]]
    BY <1>1 DEF Mirrors, FrameFields
  <1>7. Active(g) = Active(f) \ gone
    BY <1>6 DEF Active
  <1>8. g.ok = TRUE /\ g.position = Len(j)
    BY <1>6 DEF Mirrors
  <1>9. g.retire = {r \in Active(g) : Complete(j, r)}
    BY <1>4, <1>5, <1>6, <1>7
  <1>10. \A r \in Active(f) :
              r \in Active(g) <=> ~Complete(j, r) \/ (e.type = "MessageDelivered" /\ e.ref = r)
    BY <1>4, <1>7
  <1> QED  BY <1>6, <1>7, <1>8, <1>9, <1>10

\* A record about an operation finds it requested, unfinished and as its guard demands.
Admissible(e, j) ==
    e.type \in LifecycleTypes \ {"EffectRequested"} =>
      Requested(j, e.ref) /\ ~Complete(j, e.ref) /\ Guard(recordedOperation(j, e.ref), e)

\* The fields of a request.
LEMMA RequestIs ==
  ASSUME NEW n, NEW o, NEW e, e = EffectRequested(n, o)
  PROVE  e.type = "EffectRequested" /\ e.ref = n /\ e.val = o
  BY DEF EffectRequested, Record

\* An admissible record keeps the journal consistent.
LEMMA JournalStep ==
  ASSUME NEW j, NEW e, JournalInv(j), Follows(e, j), Admissible(e, j)
  PROVE  JournalInv(Append(j, e))
  <1> DEFINE k == Append(j, e)
  <1>0. j \in Seq(EventRecord) /\ e \in EventRecord
    BY DEF JournalInv, Follows, Fits
  <1>1. /\ k \in Seq(EventRecord) /\ Len(j) \in Nat /\ Len(k) = Len(j) + 1
        /\ k[Len(j) + 1] = e /\ \A n \in 1 .. Len(j) : k[n] = j[n]
    BY <1>0, AppendFacts
  <1>2. \A r \in 1 .. Len(j) : recordedOperation(k, r) = RecordedNext(recordedOperation(j, r), e, r)
    BY <1>0, RecordedAppend
  <1>3. recordedOperation(k, Len(j) + 1) = NewOperation(e.val)
    BY <1>0, RecordedNew
  <1>4. \A r : Requested(k, r) => Requested(j, r) \/ (r = Len(j) + 1 /\ e.type = "EffectRequested")
    BY <1>0, RequestedFacts
  <1>5. \A r : Requested(j, r) => r \in 1 .. Len(j)
    BY DEF Requested
  <1> HIDE DEF k
  <1>6. ASSUME NEW r \in 1 .. Len(j), Requested(j, r)
        PROVE  OpInv(recordedOperation(k, r)) /\ recordedOperation(k, r).origin = j[r].val
    <2>1. OpInv(recordedOperation(j, r)) /\ recordedOperation(j, r).origin = j[r].val
      BY <1>6 DEF JournalInv
    <2>2. CASE e.ref = r /\ e.type \in LifecycleTypes
      <3>1. e.type # "EffectRequested"
        <4>1. SUFFICES ASSUME e.type = "EffectRequested" PROVE FALSE
          OBVIOUS
        <4>2. e.ref = Len(j) + 1
          BY <4>1, RequestIs DEF Follows
        <4> QED  BY <1>1, <2>2, <4>2
      <3>2. recordedOperation(k, r) = Fold(recordedOperation(j, r), e)
        BY <1>2, <2>2 DEF RecordedNext
      <3>3. ~operationComplete(recordedOperation(j, r)) /\ Guard(recordedOperation(j, r), e)
        BY <2>2, <3>1 DEF Admissible, Complete
      <3>4. Fits(e) /\ e.type \in LifecycleTypes \ {"EffectRequested"}
        BY <2>2, <3>1 DEF Follows
      <3> QED  BY <2>1, <3>2, <3>3, <3>4, OpStep
    <2>3. CASE ~(e.ref = r /\ e.type \in LifecycleTypes)
      BY <1>2, <2>1, <2>3 DEF RecordedNext
    <2> QED  BY <2>2, <2>3
  <1>7. ASSUME e.type = "EffectRequested"
        PROVE  /\ e = EffectRequested(Len(j) + 1, e.val) /\ e.val \in Origins
               /\ OpInv(recordedOperation(k, Len(j) + 1)) /\ recordedOperation(k, Len(j) + 1).origin = e.val
               /\ \A n \in 1 .. Len(j) : Requested(j, n) => j[n].val # e.val
    BY <1>3, <1>7, NewOpInv DEF Follows, Requested
  <1>8. ASSUME NEW r \in 1 .. Len(k), Requested(k, r)
        PROVE  /\ k[r] = EffectRequested(r, k[r].val) /\ k[r].val \in Origins
               /\ OpInv(recordedOperation(k, r)) /\ recordedOperation(k, r).origin = k[r].val
    <2>1. CASE Requested(j, r)
      BY <1>1, <1>5, <1>6, <2>1 DEF JournalInv
    <2>2. CASE r = Len(j) + 1 /\ e.type = "EffectRequested"
      BY <1>1, <1>7, <2>2
    <2> QED  BY <1>4, <1>8, <2>1, <2>2
  <1>9. ASSUME NEW r \in 1 .. Len(k), NEW s \in 1 .. Len(k), Requested(k, r), Requested(k, s), k[r].val = k[s].val
        PROVE  r = s
    <2>1. CASE Requested(j, r) /\ Requested(j, s)
      BY <1>1, <1>5, <1>9, <2>1 DEF JournalInv
    <2>2. CASE ~(Requested(j, r) /\ Requested(j, s))
      BY <1>1, <1>4, <1>5, <1>7, <1>9, <2>2
    <2> QED  BY <2>1, <2>2
  <1> QED  BY <1>1, <1>8, <1>9 DEF JournalInv, k

\* Records that append lets through are admissible.
LEMMA AcceptedIsAdmissible ==
  ASSUME NEW j, NEW f, NEW e, Mirrors(f, j), Follows(e, j), NEW h, h = EngineAppend(f, e), h.ok = TRUE
  PROVE  /\ Admissible(e, j) /\ EngineAccepts(release(f, e), e) /\ h = EngineFold(release(f, e), e)
         /\ e.type \in LifecycleTypes \ {"EffectRequested"} => e.ref \in Active(release(f, e))
  <1> DEFINE g == release(f, e)
  <1>1. h = IF f.ok /\ EngineAccepts(g, e) THEN EngineFold(g, e) ELSE [f EXCEPT !.ok = FALSE]
    BY DEF EngineAppend
  <1>2. [f EXCEPT !.ok = FALSE].ok = FALSE
    BY DEF Mirrors, FrameFields
  <1>5. /\ DOMAIN g = FrameFields /\ g.ok = TRUE /\ g.position = Len(j) /\ g.defect = f.defect
        /\ g.ops = [r \in Active(g) |-> f.ops[r]] /\ Active(g) \subseteq Active(f)
        /\ \A r \in Active(f) :
             r \in Active(g) <=> ~Complete(j, r) \/ (e.type = "MessageDelivered" /\ e.ref = r)
        /\ g.retire = {r \in Active(g) : Complete(j, r)}
    BY Released
  <1> HIDE DEF g
  <1>3. EngineAccepts(g, e) /\ h = EngineFold(g, e)
    BY <1>1, <1>2
  <1>4. ASSUME e.type \in LifecycleTypes \ {"EffectRequested"}
        PROVE  e.ref \in Active(g) /\ Guard(g.ops[e.ref], e)
    BY <1>3, <1>4, AcceptsIs DEF AboutTypes, Follows, Fits
  <1>6. ASSUME e.type \in LifecycleTypes \ {"EffectRequested"}
        PROVE  Requested(j, e.ref) /\ ~Complete(j, e.ref) /\ Guard(recordedOperation(j, e.ref), e)
    <2>1. e.ref \in Active(g) /\ Guard(g.ops[e.ref], e) /\ e.type # "MessageDelivered"
      BY <1>4, <1>6 DEF LifecycleTypes
    <2>2. e.ref \in Active(f) /\ g.ops[e.ref] = f.ops[e.ref] /\ ~Complete(j, e.ref)
      BY <1>5, <2>1
    <2> QED  BY <2>1, <2>2 DEF Mirrors
  <1> QED  BY <1>3, <1>4, <1>6 DEF Admissible, g

\* The frame after a record mirrors the journal with that record.
LEMMA EngineStep ==
  ASSUME NEW j, NEW f, NEW e, JournalInv(j), Mirrors(f, j), Follows(e, j),
         NEW h, h = EngineAppend(f, e), h.ok = TRUE
  PROVE  Mirrors(h, Append(j, e))
  <1> DEFINE k == Append(j, e)
             g == release(f, e)
             op == Folded(g, e)
  <1>0. j \in Seq(EventRecord) /\ e \in EventRecord
    BY DEF JournalInv, Follows, Fits
  <1>1. /\ Len(j) \in Nat /\ Len(k) = Len(j) + 1
        /\ k[Len(j) + 1] = e /\ \A n \in 1 .. Len(j) : k[n] = j[n]
    BY <1>0, AppendFacts
  <1>2. /\ Admissible(e, j) /\ EngineAccepts(g, e) /\ h = EngineFold(g, e)
        /\ e.type \in LifecycleTypes \ {"EffectRequested"} => e.ref \in Active(g)
    BY AcceptedIsAdmissible
  <1>3. /\ DOMAIN g = FrameFields /\ g.ok = TRUE /\ g.position = Len(j) /\ g.defect = f.defect
        /\ g.ops = [r \in Active(g) |-> f.ops[r]] /\ Active(g) \subseteq Active(f)
        /\ \A r \in Active(f) :
             r \in Active(g) <=> ~Complete(j, r) \/ (e.type = "MessageDelivered" /\ e.ref = r)
        /\ g.retire = {r \in Active(g) : Complete(j, r)}
    BY Released
  <1>4. \A r \in 1 .. Len(j) : recordedOperation(k, r) = RecordedNext(recordedOperation(j, r), e, r)
    BY <1>0, RecordedAppend
  <1>5. recordedOperation(k, Len(j) + 1) = NewOperation(e.val)
    BY <1>0, RecordedNew
  <1>6. /\ \A r : Requested(k, r) => Requested(j, r) \/ (r = Len(j) + 1 /\ e.type = "EffectRequested")
        /\ \A r : Requested(j, r) => Requested(k, r) /\ r \in 1 .. Len(j)
        /\ e.type = "EffectRequested" => Requested(k, Len(j) + 1)
    BY <1>0, RequestedFacts
  <1> HIDE DEF k, g
  <1>7. /\ DOMAIN h = FrameFields /\ h.ok = TRUE /\ h.position = Len(k)
        /\ h.defect = IF e.type = "EffectDied" /\ f.defect = NoDefect THEN e.ref ELSE f.defect
        /\ h.ops = IF e.type \in LifecycleTypes
                    THEN [x \in Active(g) \cup {e.ref} |-> IF x = e.ref THEN op ELSE g.ops[x]]
                    ELSE g.ops
        /\ e.type \in LifecycleTypes /\ Retires(op, e) => h.retire = g.retire \cup {e.ref}
        /\ e.type = "EffectCancelled" => h.retire = g.retire \ {e.ref}
        /\ e.type # "EffectCancelled" /\ ~(e.type \in LifecycleTypes /\ Retires(op, e)) => h.retire = g.retire
    <2>1. /\ DOMAIN h = FrameFields /\ h.ok = g.ok /\ h.position = g.position + 1
          /\ h.defect = IF e.type = "EffectDied" /\ g.defect = NoDefect THEN e.ref ELSE g.defect
          /\ h.ops = FoldedOps(g, e)
          /\ e.type \in LifecycleTypes /\ Retires(op, e) => h.retire = g.retire \cup {e.ref}
          /\ e.type = "EffectCancelled" => h.retire = g.retire \ {e.ref}
          /\ e.type # "EffectCancelled" /\ ~(e.type \in LifecycleTypes /\ Retires(op, e)) => h.retire = g.retire
      BY <1>2, <1>3, EngineFoldIs
    <2> QED  BY <1>1, <1>3, <2>1 DEF FoldedOps
  <1>8. \A r \in Active(g) : r \in Active(f) /\ Requested(j, r) /\ g.ops[r] = recordedOperation(j, r) /\ r \in 1 .. Len(j)
    BY <1>3, <1>6 DEF Mirrors
  <1>9. \A r : Requested(j, r) /\ ~Complete(j, r) => r \in Active(g)
    BY <1>3, <1>6 DEF Mirrors
  <1>10. Names(h.defect, k)
    <2>1. e.type = "EffectDied" => e.ref # NoDefect
      BY <1>1, <1>2, <1>8 DEF LifecycleTypes, NoDefect
    <2>2. Names(f.defect, j)
      BY DEF Mirrors
    <2>3. CASE e.type = "EffectDied"
      <3>1. HasDied(k)
        BY <1>1, <2>3 DEF HasDied
      <3>2. CASE HasDied(j)
        <4>1. f.defect # NoDefect /\ \E n \in 1 .. Len(j) : j[n].type = "EffectDied" /\ j[n].ref = f.defect
          BY <2>2, <3>2 DEF Names
        <4>2. h.defect = f.defect
          BY <1>7, <4>1
        <4> QED  BY <1>1, <3>1, <4>1, <4>2 DEF Names
      <3>3. CASE ~HasDied(j)
        <4>1. h.defect = e.ref
          BY <1>7, <2>2, <2>3, <3>3 DEF Names
        <4> QED  BY <1>1, <2>1, <2>3, <3>1, <4>1 DEF Names
      <3> QED  BY <3>2, <3>3
    <2>4. CASE e.type # "EffectDied"
      <3>1. HasDied(k) <=> HasDied(j)
        BY <1>1, <2>4 DEF HasDied
      <3>2. h.defect = f.defect
        BY <1>7, <2>4
      <3> QED  BY <1>1, <2>2, <3>1, <3>2 DEF Names
    <2> QED  BY <2>3, <2>4
  <1>11. CASE e.type = "EffectRequested"
    <2>1. e.ref = Len(j) + 1 /\ e.val \in Origins
      BY <1>11, RequestIs DEF Follows
    <2>2. e.ref \notin Active(g) /\ op = NewOperation(e.val) /\ ~(e.ref \in 1 .. Len(j))
      BY <1>1, <1>8, <1>11, <2>1 DEF Folded
    <2>3. ~Retires(op, e)
      BY <1>11, RetiresIs
    <2>4. /\ h.ops = [x \in Active(g) \cup {e.ref} |-> IF x = e.ref THEN op ELSE g.ops[x]]
          /\ h.retire = g.retire
      BY <1>7, <1>11, <2>3 DEF LifecycleTypes
    <2>5. Active(h) = Active(g) \cup {e.ref}
      BY <2>4 DEF Active
    <2>6. \A r \in 1 .. Len(j) : recordedOperation(k, r) = recordedOperation(j, r)
      BY <1>4, <2>2 DEF RecordedNext
    <2>7. ~Complete(k, e.ref) /\ recordedOperation(k, e.ref) = op
      BY <1>5, <2>1, <2>2, NewOpInv DEF Complete
    <2>8. \A r \in 1 .. Len(j) : Complete(k, r) <=> Complete(j, r)
      BY <2>6 DEF Complete
    <2> HIDE DEF op
    <2>9. \A r \in Active(h) : Requested(k, r) /\ h.ops[r] = recordedOperation(k, r)
      BY <1>6, <1>8, <1>11, <2>1, <2>2, <2>4, <2>5, <2>6, <2>7
    <2>10. \A r \in 1 .. Len(k) : Requested(k, r) /\ ~Complete(k, r) => r \in Active(h)
      BY <1>6, <1>9, <2>1, <2>5, <2>8
    <2>11. h.retire = {r \in Active(h) : Complete(k, r)}
      BY <1>3, <1>8, <2>4, <2>5, <2>7, <2>8
    <2>12. h.ops = [r \in Active(h) |-> h.ops[r]]
      BY <2>4, <2>5
    <2> QED  BY <1>7, <1>10, <2>9, <2>10, <2>11, <2>12 DEF Mirrors, k
  <1>12. CASE e.type \in LifecycleTypes \ {"EffectRequested"}
    <2>1. e.ref \in Active(g) /\ e.ref \in 1 .. Len(j) /\ Requested(j, e.ref) /\ ~Complete(j, e.ref)
          /\ Guard(recordedOperation(j, e.ref), e)
      BY <1>2, <1>8, <1>12 DEF Admissible
    <2>2. op = Fold(recordedOperation(j, e.ref), e)
      BY <1>8, <1>12, <2>1 DEF Folded
    <2>3. recordedOperation(k, e.ref) = op
      BY <1>4, <1>12, <2>1, <2>2 DEF RecordedNext
    <2> HIDE DEF op
    <2>4. operationComplete(op) <=> Retires(op, e)
      <3>1. OpInv(recordedOperation(j, e.ref)) /\ ~operationComplete(recordedOperation(j, e.ref)) /\ Fits(e)
        BY <2>1 DEF JournalInv, Follows, Complete
      <3> QED  BY <1>12, <2>1, <2>2, <3>1, OpStep
    <2>5. h.ops = [x \in Active(g) \cup {e.ref} |-> IF x = e.ref THEN op ELSE g.ops[x]]
      BY <1>7, <1>12
    <2>6. Active(h) = Active(g)
      BY <2>1, <2>5 DEF Active
    <2>7. \A r \in 1 .. Len(j) : r # e.ref => recordedOperation(k, r) = recordedOperation(j, r)
      BY <1>4 DEF RecordedNext
    <2>8. /\ Complete(k, e.ref) <=> Retires(op, e)
          /\ \A r \in 1 .. Len(j) : r # e.ref => (Complete(k, r) <=> Complete(j, r))
      BY <2>3, <2>4, <2>7 DEF Complete
    <2>9. \A r \in Active(h) : Requested(k, r) /\ h.ops[r] = recordedOperation(k, r)
      BY <1>6, <1>8, <2>3, <2>5, <2>6, <2>7
    <2>10. \A r \in 1 .. Len(k) : Requested(k, r) /\ ~Complete(k, r) => r \in Active(h)
      BY <1>6, <1>9, <1>12, <2>1, <2>6, <2>8
    <2>11. h.retire = {r \in Active(h) : Complete(k, r)}
      <3>1. e.ref \notin g.retire
        BY <1>3, <2>1
      <3>2. h.retire = IF Retires(op, e) THEN g.retire \cup {e.ref} ELSE g.retire
        BY <1>7, <1>12, <3>1, RetiresIs
      <3> QED  BY <1>3, <1>8, <2>1, <2>6, <2>8, <3>1, <3>2
    <2>12. h.ops = [r \in Active(h) |-> h.ops[r]]
      BY <2>5 DEF Active
    <2> QED  BY <1>7, <1>10, <2>9, <2>10, <2>11, <2>12 DEF Mirrors, k
  <1>13. CASE e.type \notin LifecycleTypes
    <2>1. h.ops = g.ops /\ h.retire = g.retire
      BY <1>7, <1>13 DEF LifecycleTypes
    <2>2. Active(h) = Active(g)
      BY <2>1 DEF Active
    <2>3. \A r \in 1 .. Len(j) : recordedOperation(k, r) = recordedOperation(j, r)
      BY <1>4, <1>13 DEF RecordedNext
    <2>4. \A r \in 1 .. Len(j) : Complete(k, r) <=> Complete(j, r)
      BY <2>3 DEF Complete
    <2>5. \A r \in Active(h) : Requested(k, r) /\ h.ops[r] = recordedOperation(k, r)
      BY <1>6, <1>8, <2>1, <2>2, <2>3
    <2>6. \A r \in 1 .. Len(k) : Requested(k, r) /\ ~Complete(k, r) => r \in Active(h)
      BY <1>6, <1>9, <1>13, <2>2, <2>4 DEF LifecycleTypes
    <2>7. h.retire = {r \in Active(h) : Complete(k, r)}
      BY <1>3, <1>8, <2>1, <2>2, <2>4
    <2>8. h.ops = [r \in Active(h) |-> h.ops[r]]
      BY <1>3, <2>1, <2>2
    <2> QED  BY <1>7, <1>10, <2>5, <2>6, <2>7, <2>8 DEF Mirrors, k
  <1> QED  BY <1>11, <1>12, <1>13

-----------------------------------------------------------------------------
(* Two engines on one journal *)

\* finish releases what is complete: a frame that mirrors the journal then rests on it.
LEMMA FinishRests ==
  ASSUME NEW j, NEW f, Mirrors(f, j)
  PROVE  Rests(finish(f), j)
  <1> DEFINE g == release(f, DomainEvent)
  <1>1. DomainEvent.type = "DomainEvent"
    BY DEF DomainEvent, Record
  <1>2. /\ DOMAIN g = FrameFields /\ g.ok = TRUE /\ g.position = Len(j) /\ g.defect = f.defect
        /\ g.ops = [r \in Active(g) |-> f.ops[r]] /\ Active(g) \subseteq Active(f)
        /\ \A r \in Active(f) :
             r \in Active(g) <=> ~Complete(j, r) \/ (DomainEvent.type = "MessageDelivered" /\ DomainEvent.ref = r)
        /\ g.retire = {r \in Active(g) : Complete(j, r)}
    BY Released
  <1> HIDE DEF g
  <1>3. \A r \in Active(f) : r \in Active(g) <=> ~Complete(j, r)
    BY <1>1, <1>2
  <1>4. g.retire = {}
    BY <1>2, <1>3
  <1>5. g.ops = [r \in Active(g) |-> g.ops[r]]
    BY <1>2
  <1>6. Names(g.defect, j) /\ \A r \in Active(g) : Requested(j, r) /\ g.ops[r] = recordedOperation(j, r)
    BY <1>2 DEF Mirrors
  <1>7. \A r \in 1 .. Len(j) : Requested(j, r) /\ ~Complete(j, r) => r \in Active(g)
    BY <1>3 DEF Mirrors
  <1>8. Mirrors(g, j)
    BY <1>2, <1>5, <1>6, <1>7 DEF Mirrors
  <1> QED  BY <1>4, <1>8 DEF Rests, g, finish

\* At most one operation dies of a defect.
OneDeath(j) ==
    \A m, n \in 1 .. Len(j) : j[m].type = "EffectDied" /\ j[n].type = "EffectDied" => m = n

\* The journal alone decides what a resting frame holds.
LEMMA RestsSame ==
  ASSUME NEW j, NEW f, NEW g, Rests(f, j), Rests(g, j), OneDeath(j)
  PROVE  CoreState(f) = CoreState(g)
  <1>1. f.ok = g.ok /\ f.position = g.position
    BY DEF Rests, Mirrors
  <1>2. f.defect = g.defect
    BY DEF Rests, Mirrors, Names, OneDeath
  <1>3. \A r : r \in Active(f) <=> Requested(j, r) /\ ~Complete(j, r)
    BY DEF Rests, Mirrors, Requested
  <1>4. \A r : r \in Active(g) <=> Requested(j, r) /\ ~Complete(j, r)
    BY DEF Rests, Mirrors, Requested
  <1>5. Active(f) = Active(g)
    BY <1>3, <1>4
  <1>6. f.ops = [r \in Active(f) |-> recordedOperation(j, r)]
    BY DEF Rests, Mirrors
  <1>7. g.ops = [r \in Active(g) |-> recordedOperation(j, r)]
    BY DEF Rests, Mirrors
  <1> QED  BY <1>1, <1>2, <1>5, <1>6, <1>7 DEF CoreState

\* A frame that has refused a record stays refused.
LEMMA AppendOk ==
  ASSUME NEW f, NEW e, DOMAIN f = FrameFields, f.ok \in BOOLEAN, NEW h, h = EngineAppend(f, e)
  PROVE  DOMAIN h = FrameFields /\ h.ok \in BOOLEAN /\ (h.ok = TRUE => f.ok = TRUE)
  <1> DEFINE g == release(f, e)
  <1>1. DOMAIN g = FrameFields /\ g.ok = f.ok
    BY DEF release, FrameFields
  <1>2. h = IF f.ok /\ EngineAccepts(g, e) THEN EngineFold(g, e) ELSE [f EXCEPT !.ok = FALSE]
    BY DEF EngineAppend
  <1> HIDE DEF g
  <1>3. CASE f.ok /\ EngineAccepts(g, e)
    <2>1. h = EngineFold(g, e)
      BY <1>2, <1>3
    <2>2. DOMAIN h = FrameFields /\ h.ok = g.ok
      BY <1>1, <2>1, EngineFoldOk
    <2> QED  BY <1>1, <1>3, <2>2
  <1>4. CASE ~(f.ok /\ EngineAccepts(g, e))
    <2>1. h = [f EXCEPT !.ok = FALSE]
      BY <1>2, <1>4
    <2>2. DOMAIN h = FrameFields /\ h.ok = FALSE
      BY <2>1 DEF FrameFields
    <2> QED  BY <2>2
  <1> QED  BY <1>3, <1>4

\* Two frames with the same operations and position accept the same records.
LEMMA AcceptsSame ==
  ASSUME NEW u, NEW v, NEW e, Fits(e), u.ops = v.ops, u.position = v.position,
         u.defect = NoDefect <=> v.defect = NoDefect,
         e.type = "EffectRequested" => e.ref \notin Active(u),
         EngineAccepts(u, e)
  PROVE  EngineAccepts(v, e)
  <1>1. Active(u) = Active(v)
    BY DEF Active
  <1>2. CASE e.type = "EffectRequested"
    BY <1>1, <1>2, AcceptsIs
  <1>3. CASE e.type \in AboutTypes
    <2>1. e.type = "RetryScheduled" => e.val \in {"execution", "cancellation"}
      BY DEF Fits
    <2> QED  BY <1>1, <1>3, <2>1, AcceptsIs
  <1>4. CASE e.type \notin LifecycleTypes \cup {"MessageDelivered"}
    BY <1>4, AcceptsIs
  <1> QED  BY <1>2, <1>3, <1>4 DEF AboutTypes

\* Two engines on one journal; only a delivery depends on what is not yet released.
Twins(f, g, e, j) ==
    /\ Mirrors(f, j) /\ Mirrors(g, j)
    /\ e.type = "MessageDelivered" => f.ops = g.ops

\* What one engine accepts the other accepts, and they hold the same operations after it.
LEMMA SameStep ==
  ASSUME NEW j, NEW f, NEW g, NEW e, Twins(f, g, e, j), Follows(e, j), Len(j) \in Nat,
         EngineAppend(f, e).ok = TRUE
  PROVE  EngineAppend(g, e).ok = TRUE /\ EngineAppend(g, e).ops = EngineAppend(f, e).ops
  <1> USE DEF Twins
  <1> DEFINE u == release(f, e)
             v == release(g, e)
  <1>1. /\ DOMAIN u = FrameFields /\ u.ok = TRUE /\ u.position = Len(j) /\ u.defect = f.defect
        /\ u.ops = [r \in Active(u) |-> f.ops[r]] /\ Active(u) \subseteq Active(f)
        /\ \A r \in Active(f) :
             r \in Active(u) <=> ~Complete(j, r) \/ (e.type = "MessageDelivered" /\ e.ref = r)
        /\ u.retire = {r \in Active(u) : Complete(j, r)}
    BY Released
  <1>2. /\ DOMAIN v = FrameFields /\ v.ok = TRUE /\ v.position = Len(j) /\ v.defect = g.defect
        /\ v.ops = [r \in Active(v) |-> g.ops[r]] /\ Active(v) \subseteq Active(g)
        /\ \A r \in Active(g) :
             r \in Active(v) <=> ~Complete(j, r) \/ (e.type = "MessageDelivered" /\ e.ref = r)
        /\ v.retire = {r \in Active(v) : Complete(j, r)}
    BY Released
  <1>3. EngineAccepts(u, e) /\ EngineAppend(f, e) = EngineFold(u, e)
    BY AcceptedIsAdmissible
  <1>4. EngineAppend(g, e) = IF g.ok /\ EngineAccepts(v, e) THEN EngineFold(v, e) ELSE [g EXCEPT !.ok = FALSE]
    BY DEF EngineAppend
  <1> HIDE DEF u, v
  <1>5. u.ops = v.ops
    <2>1. CASE e.type = "MessageDelivered"
      <3>1. Active(f) = Active(g)
        BY <2>1 DEF Active
      <3>2. Active(u) = Active(v)
        BY <1>1, <1>2, <3>1
      <3> QED  BY <1>1, <1>2, <2>1, <3>2
    <2>2. CASE e.type # "MessageDelivered"
      <3>1. \A r : r \in Active(u) <=> Requested(j, r) /\ ~Complete(j, r)
        BY <1>1, <2>2 DEF Mirrors, Requested
      <3>2. \A r : r \in Active(v) <=> Requested(j, r) /\ ~Complete(j, r)
        BY <1>2, <2>2 DEF Mirrors, Requested
      <3>3. Active(u) = Active(v)
        BY <3>1, <3>2
      <3>4. \A r \in Active(u) : f.ops[r] = recordedOperation(j, r)
        BY <1>1 DEF Mirrors
      <3>5. \A r \in Active(u) : g.ops[r] = recordedOperation(j, r)
        BY <1>2, <3>3 DEF Mirrors
      <3> QED  BY <1>1, <1>2, <3>3, <3>4, <3>5
    <2> QED  BY <2>1, <2>2
  <1>6. u.defect = NoDefect <=> v.defect = NoDefect
    BY <1>1, <1>2 DEF Mirrors, Names
  <1>7. e.type = "EffectRequested" => e.ref \notin Active(u)
    <2>1. e.type = "EffectRequested" => e.ref = Len(j) + 1
      BY RequestIs DEF Follows
    <2>2. \A r \in Active(u) : r \in 1 .. Len(j)
      BY <1>1 DEF Mirrors, Requested
    <2> QED  BY <2>1, <2>2
  <1>8. EngineAccepts(v, e)
    <2>1. Fits(e) /\ u.position = v.position
      BY <1>1, <1>2 DEF Follows
    <2> QED  BY <1>3, <1>5, <1>6, <1>7, <2>1, AcceptsSame
  <1>9. EngineAppend(g, e) = EngineFold(v, e)
    BY <1>4, <1>8 DEF Mirrors
  <1>10. EngineFold(u, e).ops = EngineFold(v, e).ops
    BY <1>1, <1>2, <1>5, EngineFoldSame
  <1>11. EngineFold(v, e).ok = v.ok
    BY <1>2, EngineFoldOk
  <1> QED  BY <1>2, <1>3, <1>9, <1>10, <1>11

-----------------------------------------------------------------------------
(* Batches, replay and commits *)

\* The rest of a journal after position k grows with the journal.
LEMMA SubSeqAppend ==
  ASSUME NEW S, NEW j \in Seq(S), NEW e \in S, NEW k \in 0 .. Len(j)
  PROVE  /\ SubSeq(Append(j, e), k + 1, Len(Append(j, e))) = Append(SubSeq(j, k + 1, Len(j)), e)
         /\ SubSeq(j, k + 1, Len(j)) \in Seq(S)
  <1> DEFINE n == Len(j)
             s == SubSeq(j, k + 1, n)
             t == SubSeq(Append(j, e), k + 1, n + 1)
  <1>1. n \in Nat /\ Append(j, e) \in Seq(S) /\ Len(Append(j, e)) = n + 1
    OBVIOUS
  <1>2. s \in Seq(S) /\ Len(s) = n - k /\ \A i \in 1 .. (n - k) : s[i] = j[k + i]
    OBVIOUS
  <1>3. t \in Seq(S) /\ Len(t) = n + 1 - k /\ \A i \in 1 .. (n + 1 - k) : t[i] = Append(j, e)[k + i]
    OBVIOUS
  <1>4. Append(s, e) \in Seq(S) /\ Len(Append(s, e)) = n + 1 - k
    BY <1>2
  <1>5. ASSUME NEW i \in 1 .. (n + 1 - k) PROVE t[i] = Append(s, e)[i]
    <2>1. CASE i \in 1 .. (n - k)
      BY <1>2, <1>3, <2>1
    <2>2. CASE i = n + 1 - k
      BY <1>2, <1>3, <2>2
    <2> QED  BY <2>1, <2>2
  <1>6. t = Append(s, e)
    <2> HIDE DEF s, t
    <2> QED  BY <1>3, <1>4, <1>5, SeqEqual
  <1> QED  BY <1>1, <1>2, <1>6

\* An engine seeded at position k that has folded the rest of the journal.
Raw(j, k) == EngineAppendAll(InitialFrame(k), SubSeq(j, k + 1, Len(j)))

\* An engine seeded at k takes in the journal's next record like any other engine.
LEMMA RawAppend ==
  ASSUME NEW S, NEW j \in Seq(S), NEW e \in S, NEW k \in 0 .. Len(j)
  PROVE  Raw(Append(j, e), k) = EngineAppend(Raw(j, k), e)
  <1>1. /\ SubSeq(Append(j, e), k + 1, Len(Append(j, e))) = Append(SubSeq(j, k + 1, Len(j)), e)
        /\ SubSeq(j, k + 1, Len(j)) \in Seq(S)
    BY SubSeqAppend
  <1> DEFINE s == SubSeq(j, k + 1, Len(j))
             f == InitialFrame(k)
  <1>2. s \in Seq(S)
    BY <1>1
  <1> HIDE DEF s, f
  <1>3. EngineAppendAll(f, Append(s, e)) = EngineAppend(EngineAppendAll(f, s), e)
    BY <1>2, EngineOneMore
  <1> QED  BY <1>1, <1>3 DEF s, f, Raw

\* An engine seeded at the end of the journal has nothing to take in.
LEMMA RawEnd ==
  ASSUME NEW S, NEW j \in Seq(S), NEW k, k = Len(j)
  PROVE  Raw(j, k) = InitialFrame(k)
  <1>1. Len(SubSeq(j, k + 1, Len(j))) = 0
    OBVIOUS
  <1> QED  BY <1>1, EngineNone DEF Raw

\* A fresh engine mirrors a journal whose operations are all complete and that has no defect.
LEMMA FreshMirrors ==
  ASSUME NEW j, ~HasDied(j), \A r \in 1 .. Len(j) : Requested(j, r) => Complete(j, r)
  PROVE  Mirrors(InitialFrame(Len(j)), j)
  <1> DEFINE f == InitialFrame(Len(j))
  <1>1. /\ DOMAIN f = FrameFields /\ f.ok = TRUE /\ f.position = Len(j) /\ f.defect = NoDefect
        /\ f.ops = [r \in {} |-> NewOperation("none")] /\ f.retire = {}
    BY DEF InitialFrame, FrameFields
  <1> HIDE DEF f
  <1>2. Active(f) = {}
    BY <1>1 DEF Active
  <1>3. f.ops = [r \in Active(f) |-> f.ops[r]]
    BY <1>1, <1>2
  <1>4. Names(f.defect, j)
    BY <1>1 DEF Names
  <1>5. f.retire = {r \in Active(f) : Complete(j, r)}
    BY <1>1, <1>2
  <1>6. Mirrors(f, j)
    BY <1>1, <1>2, <1>3, <1>4, <1>5 DEF Mirrors
  <1> QED  BY <1>6 DEF f

\* followups adds nothing, or one record that is about no operation's lifecycle.
LEMMA FollowupsFacts ==
  ASSUME NEW f, NEW e, e.ref \in Nat
  PROVE  \/ followups(f, e) = <<>>
         \/ \E c : /\ followups(f, e) = <<c>> /\ Fits(c) /\ c.type \in {"Callback", "MessageDelivered"}
                   /\ c.ref = e.ref
  <1>1. ASSUME NEW x \in {"onRequested", "onDeferred", "onSettled"}
        PROVE  Fits(Callback(e.ref, x)) /\ Callback(e.ref, x).type = "Callback" /\ Callback(e.ref, x).ref = e.ref
    BY DEF Fits, Callback, Record, EventRecord
  <1>2. Fits(MessageDelivered(e.ref)) /\ MessageDelivered(e.ref).type = "MessageDelivered" /\ MessageDelivered(e.ref).ref = e.ref
    BY DEF Fits, MessageDelivered, Record, EventRecord
  <1>3. \/ followups(f, e) = <<>> \/ followups(f, e) = <<MessageDelivered(e.ref)>>
        \/ followups(f, e) = <<Callback(e.ref, "onRequested")>>
        \/ followups(f, e) = <<Callback(e.ref, "onDeferred")>>
        \/ followups(f, e) = <<Callback(e.ref, "onSettled")>>
    BY Zenon DEF followups
  <1> QED  BY <1>1, <1>2, <1>3

\* A batch is one record, or a record and its follow-up, appended in that order to the journal
\* and to the frame.
LEMMA BatchFacts ==
  ASSUME NEW S, NEW j \in Seq(S), NEW e \in S, NEW c \in S, NEW f
  PROVE  /\ j \o (<<e>> \o <<>>) = Append(j, e)
         /\ j \o (<<e>> \o <<c>>) = Append(Append(j, e), c)
         /\ EngineAppendAll(f, <<e>> \o <<>>) = EngineAppend(f, e)
         /\ EngineAppendAll(f, <<e>> \o <<c>>) = EngineAppend(EngineAppend(f, e), c)
  <1>1. /\ j \o (<<e>> \o <<>>) = Append(j, e)
        /\ j \o (<<e>> \o <<c>>) = Append(Append(j, e), c)
    OBVIOUS
  <1> DEFINE n == <<>>
  <1>2. n \in Seq(S) /\ Len(n) = 0 /\ Append(n, e) \in Seq(S)
    OBVIOUS
  <1>3. <<e>> \o <<>> = Append(n, e) /\ <<e>> \o <<c>> = Append(Append(n, e), c)
    OBVIOUS
  <1> HIDE DEF n
  <1>4. EngineAppendAll(f, n) = f
    BY <1>2, EngineNone
  <1>5. EngineAppendAll(f, Append(n, e)) = EngineAppend(EngineAppendAll(f, n), e)
    BY <1>2, EngineOneMore
  <1>6. EngineAppendAll(f, Append(Append(n, e), c)) = EngineAppend(EngineAppendAll(f, Append(n, e)), c)
    BY <1>2, EngineOneMore
  <1> QED  BY <1>1, <1>3, <1>4, <1>5, <1>6

\* An invocation that lookup calls absent has no request in the journal.
LEMMA LookupAbsent ==
  ASSUME NEW j, NEW o, lookupInvocation(j, o) = "absent"
  PROVE  \A r \in 1 .. Len(j) : j[r].type = "EffectRequested" => j[r].val # o
  BY DEF lookupInvocation

\* One record more: the journal stays consistent, the engine that accepted the record
\* mirrors it, and so does every engine seeded earlier that mirrored the journal before.
Kept(j, f, e) ==
    /\ Admissible(e, j)
    /\ JournalInv(Append(j, e)) /\ OneDeath(Append(j, e))
    /\ Mirrors(EngineAppend(f, e), Append(j, e))
    /\ \A k \in 0 .. Len(j) :
         Mirrors(Raw(j, k), j) /\ (e.type = "MessageDelivered" => f.ops = Raw(j, k).ops) =>
           /\ Mirrors(Raw(Append(j, e), k), Append(j, e))
           /\ EngineAppend(f, e).ops = Raw(Append(j, e), k).ops

\* One accepted record keeps all of it.
LEMMA OneRecord ==
  ASSUME NEW j, NEW f, NEW e, JournalInv(j), OneDeath(j), Mirrors(f, j), Follows(e, j),
         e.type = "EffectDied" => ~HasDied(j), EngineAppend(f, e).ok = TRUE
  PROVE  Kept(j, f, e)
  <1>0. j \in Seq(EventRecord) /\ e \in EventRecord
    BY DEF JournalInv, Follows, Fits
  <1>1. /\ Len(j) \in Nat /\ Len(Append(j, e)) = Len(j) + 1
        /\ Append(j, e)[Len(j) + 1] = e /\ \A n \in 1 .. Len(j) : Append(j, e)[n] = j[n]
    BY <1>0, AppendFacts
  <1>2. Admissible(e, j)
    BY AcceptedIsAdmissible
  <1>3. JournalInv(Append(j, e))
    BY <1>2, JournalStep
  <1>4. OneDeath(Append(j, e))
    BY <1>1 DEF OneDeath, HasDied
  <1>5. Mirrors(EngineAppend(f, e), Append(j, e))
    BY EngineStep
  <1>6. ASSUME NEW k \in 0 .. Len(j), Mirrors(Raw(j, k), j),
               e.type = "MessageDelivered" => f.ops = Raw(j, k).ops
        PROVE  /\ Mirrors(Raw(Append(j, e), k), Append(j, e))
               /\ EngineAppend(f, e).ops = Raw(Append(j, e), k).ops
    <2>1. Raw(Append(j, e), k) = EngineAppend(Raw(j, k), e)
      BY <1>0, RawAppend
    <2>2. EngineAppend(Raw(j, k), e).ok = TRUE /\ EngineAppend(Raw(j, k), e).ops = EngineAppend(f, e).ops
      <3> DEFINE g == Raw(j, k)
      <3> HIDE DEF g
      <3>1. Twins(f, g, e, j)
        BY <1>6 DEF g, Twins
      <3>2. EngineAppend(g, e).ok = TRUE /\ EngineAppend(g, e).ops = EngineAppend(f, e).ops
        <4>1. Len(j) \in Nat
          BY <1>1
        <4> QED  BY <3>1, <4>1, SameStep
      <3> QED  BY <3>2 DEF g
    <2>3. Mirrors(EngineAppend(Raw(j, k), e), Append(j, e))
      BY <1>6, <2>2, EngineStep
    <2> QED  BY <2>1, <2>2, <2>3
  <1> QED  BY <1>2, <1>3, <1>4, <1>5, <1>6 DEF Kept

\* The batch of one admitted record, and the frame it leads to.
Recorded(f, e) == <<e>> \o followups(EngineAppend(f, e), e)
Prepares(f, e) == finish(EngineAppendAll(f, Recorded(f, e)))

\* The batch append builds for an accepted record keeps the journal consistent, and every engine
\* that mirrored the journal before mirrors it afterwards.
LEMMA BatchStep ==
  ASSUME NEW j, NEW f, NEW e, JournalInv(j), OneDeath(j), Rests(f, j), Follows(e, j),
         e.type \in LifecycleTypes \cup {"DomainEvent"},
         e.type = "EffectDied" => ~HasDied(j), Prepares(f, e).ok
  PROVE  LET i == j \o Recorded(f, e)
         IN  /\ Admissible(e, j)
             /\ \/ i = Append(j, e)
                \/ \E c \in EventRecord : i = Append(Append(j, e), c) /\ c.type \in {"Callback", "MessageDelivered"}
             /\ JournalInv(i) /\ OneDeath(i)
             /\ Rests(Prepares(f, e), i)
             /\ \A k \in 0 .. Len(j) : Mirrors(Raw(j, k), j) => Mirrors(Raw(i, k), i)
  <1> DEFINE b == Recorded(f, e)
             p == EngineAppend(f, e)
             fs == followups(p, e)
  <1>0. /\ j \in Seq(EventRecord) /\ e \in EventRecord /\ e.ref \in Nat /\ e.type # "MessageDelivered"
        /\ Mirrors(f, j) /\ DOMAIN f = FrameFields /\ f.ok = TRUE
    BY DEF JournalInv, Follows, Fits, EventRecord, Rests, Mirrors, LifecycleTypes
  <1>1. b = <<e>> \o fs
    BY DEF Recorded
  <1>2. DOMAIN p = FrameFields /\ p.ok \in BOOLEAN
    BY <1>0, AppendOk
  <1>3. \/ fs = <<>>
        \/ \E c : /\ fs = <<c>> /\ Fits(c) /\ c.type \in {"Callback", "MessageDelivered"} /\ c.ref = e.ref
    BY <1>0, FollowupsFacts
  <1>4. ASSUME p.ok = TRUE
        PROVE  /\ Admissible(e, j)
               /\ JournalInv(Append(j, e)) /\ OneDeath(Append(j, e))
               /\ Mirrors(p, Append(j, e))
               /\ \A k \in 0 .. Len(j) :
                    Mirrors(Raw(j, k), j) /\ (e.type = "MessageDelivered" => f.ops = Raw(j, k).ops) =>
                      /\ Mirrors(Raw(Append(j, e), k), Append(j, e))
                      /\ p.ops = Raw(Append(j, e), k).ops
    <2>1. Kept(j, f, e)
      BY <1>0, <1>4, OneRecord
    <2> QED  BY <2>1 DEF Kept
  <1>5. Prepares(f, e) = finish(EngineAppendAll(f, b))
    BY DEF Prepares
  <1>6. \A x : DOMAIN x = FrameFields => finish(x).ok = x.ok
    BY DEF finish, release, FrameFields
  <1> SUFFICES /\ Admissible(e, j)
               /\ \/ j \o b = Append(j, e)
                  \/ \E c \in EventRecord : j \o b = Append(Append(j, e), c) /\ c.type \in {"Callback", "MessageDelivered"}
               /\ JournalInv(j \o b) /\ OneDeath(j \o b)
               /\ Rests(Prepares(f, e), j \o b)
               /\ \A k \in 0 .. Len(j) : Mirrors(Raw(j, k), j) => Mirrors(Raw(j \o b, k), j \o b)
    OBVIOUS
  <1>7. CASE fs = <<>>
    <2>1. j \o b = Append(j, e) /\ EngineAppendAll(f, b) = p
      BY <1>0, <1>1, <1>7, BatchFacts
    <2> HIDE DEF b, p, fs
    <2>2. p.ok = TRUE
      BY <1>2, <1>5, <1>6, <2>1
    <2>3. Rests(finish(p), Append(j, e))
      BY <1>4, <2>2, FinishRests
    <2> QED  BY <1>0, <1>4, <1>5, <2>1, <2>2, <2>3
  <1>8. ASSUME NEW c, fs = <<c>>, Fits(c), c.type \in {"Callback", "MessageDelivered"}
        PROVE  /\ Admissible(e, j)
               /\ j \o b = Append(Append(j, e), c) /\ c \in EventRecord
               /\ JournalInv(j \o b) /\ OneDeath(j \o b)
               /\ Rests(Prepares(f, e), j \o b)
               /\ \A k \in 0 .. Len(j) : Mirrors(Raw(j, k), j) => Mirrors(Raw(j \o b, k), j \o b)
    <2> DEFINE m == Append(j, e)
               q == EngineAppend(p, c)
    <2>0. c \in EventRecord
      BY <1>8 DEF Fits
    <2>1. j \o b = Append(m, c) /\ EngineAppendAll(f, b) = q
      BY <1>0, <1>1, <1>8, <2>0, BatchFacts
    <2>2. DOMAIN q = FrameFields /\ q.ok \in BOOLEAN /\ (q.ok = TRUE => p.ok = TRUE)
      BY <1>2, AppendOk
    <2>3. q.ok = TRUE /\ p.ok = TRUE
      BY <1>5, <1>6, <2>1, <2>2
    <2>4. Follows(c, m) /\ c.type # "EffectDied"
      BY <1>8 DEF Follows
    <2>5. /\ JournalInv(m) /\ OneDeath(m) /\ Mirrors(p, m)
      BY <1>4, <2>3
    <2>6. /\ JournalInv(Append(m, c)) /\ OneDeath(Append(m, c))
          /\ Mirrors(q, Append(m, c))
          /\ \A k \in 0 .. Len(m) :
               Mirrors(Raw(m, k), m) /\ (c.type = "MessageDelivered" => p.ops = Raw(m, k).ops) =>
                 /\ Mirrors(Raw(Append(m, c), k), Append(m, c))
                 /\ q.ops = Raw(Append(m, c), k).ops
      <3>1. Kept(m, p, c)
        <4> HIDE DEF m, p
        <4> QED  BY <2>3, <2>4, <2>5, OneRecord
      <3> QED  BY <3>1 DEF Kept
    <2>7. Rests(finish(q), Append(m, c))
      BY <2>6, FinishRests
    <2>8. \A k \in 0 .. Len(j) : k \in 0 .. Len(m)
      BY <1>0, AppendFacts
    <2>9. \A k \in 0 .. Len(j) : Mirrors(Raw(j, k), j) => Mirrors(Raw(m, k), m) /\ p.ops = Raw(m, k).ops
      BY <1>0, <1>4, <2>3
    <2> HIDE DEF b, p, m, q, fs
    <2>10. \A k \in 0 .. Len(j) : Mirrors(Raw(j, k), j) => Mirrors(Raw(j \o b, k), j \o b)
      BY <2>1, <2>6, <2>8, <2>9
    <2>11. Admissible(e, j)
      BY <1>4, <2>3
    <2> QED  BY <1>5, <2>0, <2>1, <2>6, <2>7, <2>10, <2>11 DEF m
  <1> QED  BY <1>3, <1>7, <1>8

\* checkpoint() drops only what is complete: an engine seeded at the end of a journal
\* that may be checkpointed mirrors it.
LEMMA RestingIsFresh ==
  ASSUME NEW j, NEW f, JournalInv(j), Rests(f, j), Checkpointable(f)
  PROVE  f.position = Len(j) /\ Mirrors(Raw(j, Len(j)), j)
  <1>1. j \in Seq(EventRecord) /\ f.position = Len(j)
    BY DEF JournalInv, Rests, Mirrors
  <1>2. ~HasDied(j) /\ \A r \in 1 .. Len(j) : Requested(j, r) => Complete(j, r)
    BY DEF Checkpointable, Rests, Mirrors, Names
  <1>3. Mirrors(InitialFrame(Len(j)), j)
    BY <1>2, FreshMirrors
  <1>4. Raw(j, Len(j)) = InitialFrame(Len(j))
    BY <1>1, RawEnd
  <1> QED  BY <1>1, <1>3, <1>4

-----------------------------------------------------------------------------
(* The log *)

\* A durable state that can be replayed: from the start, and from checkpoint c.
Durable(j, c) ==
    /\ JournalInv(j) /\ OneDeath(j)
    /\ c \in 0 .. Len(j)
    /\ Mirrors(Raw(j, 0), j) /\ Mirrors(Raw(j, c), j)

\* The inductive invariant.
LogInv ==
    /\ Durable(journal, checkpoint)
    /\ failed \in BOOLEAN
    /\ ~failed => Rests(frame, journal)

\* The empty log is consistent.
LEMMA InitialLog == Init => LogInv
  <1> SUFFICES ASSUME Init PROVE LogInv
    OBVIOUS
  <1> DEFINE j == <<>>
  <1>0. journal = j /\ checkpoint = 0 /\ frame = InitialFrame(0) /\ failed = FALSE
    BY DEF Init
  <1>1. j \in Seq(EventRecord) /\ Len(j) = 0 /\ 0 = Len(j)
    OBVIOUS
  <1> HIDE DEF j
  <1>2. JournalInv(j) /\ OneDeath(j)
    BY <1>1 DEF JournalInv, OneDeath
  <1>3. Mirrors(InitialFrame(0), j)
    <2>1. Mirrors(InitialFrame(Len(j)), j)
      BY <1>1, FreshMirrors DEF HasDied
    <2> QED  BY <1>1, <2>1
  <1>4. Raw(j, 0) = InitialFrame(0)
    BY <1>1, RawEnd
  <1>5. Rests(InitialFrame(0), j)
    BY <1>3 DEF Rests, InitialFrame
  <1>6. Durable(j, 0)
    BY <1>1, <1>2, <1>3, <1>4 DEF Durable
  <1>7. Durable(journal, checkpoint) /\ Rests(frame, journal)
    BY <1>0, <1>5, <1>6
  <1> QED  BY <1>0, <1>7 DEF LogInv

\* What append prepared for a record that a caller may offer.
LEMMA PreparedStep ==
  ASSUME LogInv, ~failed, NEW e, Follows(e, journal), e.type \in LifecycleTypes \cup {"DomainEvent"},
         Admits(e), Prepared(e).ok
  PROVE  LET i == journal \o Batch(e)
         IN  /\ Admissible(e, journal)
             /\ \/ i = Append(journal, e)
                \/ \E c \in EventRecord : i = Append(Append(journal, e), c) /\ c.type \in {"Callback", "MessageDelivered"}
             /\ JournalInv(i) /\ OneDeath(i)
             /\ Rests(Prepared(e), i)
             /\ \A k \in 0 .. Len(journal) : Mirrors(Raw(journal, k), journal) => Mirrors(Raw(i, k), i)
             /\ Len(journal) <= Len(i) /\ Len(journal) \in Nat /\ Len(i) \in Nat
  <1>1. Batch(e) = Recorded(frame, e) /\ Prepared(e) = Prepares(frame, e)
    BY DEF Batch, Recorded, Prepared, Prepares
  <1>2. JournalInv(journal) /\ OneDeath(journal) /\ Rests(frame, journal)
    BY DEF LogInv, Durable
  <1>3. e.type = "EffectDied" => ~HasDied(journal)
    <2>1. e.type = "EffectDied" => frame.defect = NoDefect
      BY DEF Admits, LifecycleTypes
    <2> QED  BY <1>2, <2>1 DEF Rests, Mirrors, Names
  <1> DEFINE i == journal \o Recorded(frame, e)
  <1>4. /\ Admissible(e, journal)
        /\ \/ i = Append(journal, e)
           \/ \E c \in EventRecord : i = Append(Append(journal, e), c) /\ c.type \in {"Callback", "MessageDelivered"}
        /\ JournalInv(i) /\ OneDeath(i)
        /\ Rests(Prepares(frame, e), i)
        /\ \A k \in 0 .. Len(journal) : Mirrors(Raw(journal, k), journal) => Mirrors(Raw(i, k), i)
    BY <1>1, <1>2, <1>3, BatchStep
  <1>5. Len(journal) <= Len(i) /\ Len(journal) \in Nat /\ Len(i) \in Nat
    <2>1. journal \in Seq(EventRecord) /\ e \in EventRecord
      BY <1>2 DEF JournalInv, Follows, Fits
    <2> HIDE DEF i
    <2> QED  BY <1>4, <2>1
  <1> QED  BY <1>1, <1>4, <1>5

\* A commit keeps the log consistent, whether the write was acknowledged, lost, or done without
\* an acknowledgement.
LEMMA CommitStep ==
  ASSUME LogInv, NEW e, Follows(e, journal), e.type \in LifecycleTypes \cup {"DomainEvent"}, commit(e)
  PROVE  LogInv'
  <1> DEFINE i == journal \o Batch(e)
             next == Prepared(e)
  <1>1. ~failed /\ Admits(e) /\ next.ok
    BY DEF commit
  <1>2. /\ JournalInv(i) /\ OneDeath(i)
        /\ Rests(next, i)
        /\ \A k \in 0 .. Len(journal) : Mirrors(Raw(journal, k), journal) => Mirrors(Raw(i, k), i)
        /\ Len(journal) <= Len(i) /\ Len(journal) \in Nat /\ Len(i) \in Nat
    BY <1>1, PreparedStep
  <1>3. checkpoint \in 0 .. Len(journal) /\ Mirrors(Raw(journal, 0), journal) /\ Mirrors(Raw(journal, checkpoint), journal)
    BY DEF LogInv, Durable
  <1>4. Mirrors(Raw(i, 0), i) /\ Mirrors(Raw(i, checkpoint), i) /\ checkpoint \in 0 .. Len(i)
    BY <1>2, <1>3
  <1>5. ASSUME Checkpointable(next)
        PROVE  next.position = Len(i) /\ Mirrors(Raw(i, Len(i)), i)
    BY <1>2, <1>5, RestingIsFresh
  <1>6. \/ journal' = i /\ checkpoint' = ThresholdCheckpoint(next) /\ frame' = next /\ failed' = failed
        \/ journal' = i /\ checkpoint' = ThresholdCheckpoint(next) /\ failed' = TRUE
        \/ journal' = journal /\ checkpoint' = checkpoint /\ failed' = TRUE
    BY DEF commit, Persist
  <1> HIDE DEF i, next
  <1>7. CASE journal' = journal /\ checkpoint' = checkpoint /\ failed' = TRUE
    BY <1>7 DEF LogInv
  <1>8. CASE journal' = i /\ checkpoint' = ThresholdCheckpoint(next)
    <2>1. Durable(i, ThresholdCheckpoint(next))
      BY <1>2, <1>4, <1>5 DEF ThresholdCheckpoint, Durable
    <2>2. Durable(journal', checkpoint')
      BY <1>8, <2>1
    <2>3. failed' \in BOOLEAN /\ (~failed' => Rests(frame', journal'))
      BY <1>1, <1>2, <1>6, <1>8 DEF LogInv
    <2> QED  BY <2>2, <2>3 DEF LogInv
  <1> QED  BY <1>6, <1>7, <1>8

\* The records the callers offer.
LEMMA Offered ==
  ASSUME NEW j \in Seq(EventRecord), NEW r \in Nat
  PROVE  /\ \A o \in Origins : lookupInvocation(j, o) = "absent" => Follows(EffectRequested(Len(j) + 1, o), j)
         /\ \A s \in Settlements : Follows(EffectSettled(r, s), j)
         /\ Follows(EffectDied(r), j)
         /\ \A phase \in {"execution", "cancellation"}, n \in Nat : Follows(RetryScheduled(r, phase, n), j)
         /\ Follows(EffectCancelled(r), j)
         /\ \A k \in CleanupOutcomes : Follows(CancellationOutcome(r, k), j)
         /\ \A res \in PromiseResults : Follows(PromiseSettled(r, res), j)
         /\ Follows(DomainEvent, j)
  <1>1. ASSUME NEW o \in Origins, lookupInvocation(j, o) = "absent"
        PROVE  Follows(EffectRequested(Len(j) + 1, o), j)
    <2>1. \A n \in 1 .. Len(j) : j[n].type = "EffectRequested" => j[n].val # o
      BY <1>1, LookupAbsent
    <2>2. Len(j) \in Nat
      OBVIOUS
    <2> QED  BY <2>1, <2>2 DEF Follows, Fits, EventRecord, EffectRequested, Record, LifecycleTypes
  <1>2. \A s \in Settlements : Follows(EffectSettled(r, s), j)
    BY DEF Follows, Fits, EventRecord, EffectSettled, Record, LifecycleTypes
  <1>3. Follows(EffectDied(r), j) /\ Follows(EffectCancelled(r), j) /\ Follows(DomainEvent, j)
    BY DEF Follows, Fits, EventRecord, EffectDied, EffectCancelled, DomainEvent, Record, LifecycleTypes
  <1>4. \A phase \in {"execution", "cancellation"}, n \in Nat : Follows(RetryScheduled(r, phase, n), j)
    BY DEF Follows, Fits, EventRecord, RetryScheduled, Record, LifecycleTypes
  <1>5. \A k \in CleanupOutcomes : Follows(CancellationOutcome(r, k), j)
    BY DEF Follows, Fits, EventRecord, CancellationOutcome, Record, LifecycleTypes
  <1>6. \A res \in PromiseResults : Follows(PromiseSettled(r, res), j)
    BY DEF Follows, Fits, EventRecord, PromiseSettled, Record, LifecycleTypes
  <1> QED  BY <1>1, <1>2, <1>3, <1>4, <1>5, <1>6

\* Every caller's commit is of a record that may follow the journal.
Commits(e) == Follows(e, journal) /\ e.type \in LifecycleTypes \cup {"DomainEvent"} /\ commit(e)

\* Every action of a caller is the commit of a record that may follow the journal.
LEMMA CallersCommit ==
  ASSUME LogInv
  PROVE  /\ \A o \in Origins : Accept(o) => Commits(EffectRequested(Len(journal) + 1, o))
         /\ \A r \in Refs, s \in Settlements : Settle(r, s) => Commits(EffectSettled(r, s))
         /\ \A r \in Refs : Die(r) => Commits(EffectDied(r))
         /\ \A r \in Refs, phase \in {"execution", "cancellation"}, n \in 1 .. MaxAttempt :
              Retry(r, phase, n) => Commits(RetryScheduled(r, phase, n))
         /\ \A r \in Refs : Cancel(r) => Commits(EffectCancelled(r))
         /\ \A r \in Refs, k \in CleanupOutcomes : CleanUp(r, k) => Commits(CancellationOutcome(r, k))
         /\ \A r \in Refs, res \in PromiseResults : Resolve(r, res) => Commits(PromiseSettled(r, res))
         /\ Dispatch => Commits(DomainEvent)
  <1>0. journal \in Seq(EventRecord) /\ Refs \subseteq Nat /\ 1 .. MaxAttempt \subseteq Nat
    BY BoundsAssumption DEF LogInv, Durable, JournalInv, Refs
  <1>1. ASSUME NEW o \in Origins, Accept(o) PROVE Commits(EffectRequested(Len(journal) + 1, o))
    <2>1. lookupInvocation(journal, o) = "absent" /\ commit(EffectRequested(Len(journal) + 1, o))
      BY <1>1 DEF Accept, Position
    <2>2. Follows(EffectRequested(Len(journal) + 1, o), journal)
      BY <1>0, <2>1, Offered
    <2> QED  BY <2>1, <2>2 DEF Commits, EffectRequested, Record, LifecycleTypes
  <1>2. ASSUME NEW r \in Refs, NEW s \in Settlements, Settle(r, s) PROVE Commits(EffectSettled(r, s))
    <2>1. Follows(EffectSettled(r, s), journal)
      BY <1>0, Offered
    <2> QED  BY <1>2, <2>1 DEF Settle, Commits, EffectSettled, Record, LifecycleTypes
  <1>3. ASSUME NEW r \in Refs, Die(r) PROVE Commits(EffectDied(r))
    <2>1. Follows(EffectDied(r), journal)
      BY <1>0, Offered
    <2> QED  BY <1>3, <2>1 DEF Die, Commits, EffectDied, Record, LifecycleTypes
  <1>4. ASSUME NEW r \in Refs, NEW phase \in {"execution", "cancellation"}, NEW n \in 1 .. MaxAttempt,
               Retry(r, phase, n)
        PROVE  Commits(RetryScheduled(r, phase, n))
    <2>1. Follows(RetryScheduled(r, phase, n), journal)
      BY <1>0, Offered
    <2> QED  BY <1>4, <2>1 DEF Retry, Commits, RetryScheduled, Record, LifecycleTypes
  <1>5. ASSUME NEW r \in Refs, Cancel(r) PROVE Commits(EffectCancelled(r))
    <2>1. Follows(EffectCancelled(r), journal)
      BY <1>0, Offered
    <2> QED  BY <1>5, <2>1 DEF Cancel, Commits, EffectCancelled, Record, LifecycleTypes
  <1>6. ASSUME NEW r \in Refs, NEW k \in CleanupOutcomes, CleanUp(r, k) PROVE Commits(CancellationOutcome(r, k))
    <2>1. Follows(CancellationOutcome(r, k), journal)
      BY <1>0, Offered
    <2> QED  BY <1>6, <2>1 DEF CleanUp, Commits, CancellationOutcome, Record, LifecycleTypes
  <1>7. ASSUME NEW r \in Refs, NEW res \in PromiseResults, Resolve(r, res) PROVE Commits(PromiseSettled(r, res))
    <2>1. Follows(PromiseSettled(r, res), journal)
      BY <1>0, Offered
    <2> QED  BY <1>7, <2>1 DEF Resolve, Commits, PromiseSettled, Record, LifecycleTypes
  <1>8. ASSUME Dispatch PROVE Commits(DomainEvent)
    <2>1. Follows(DomainEvent, journal)
      BY <1>0, Offered
    <2> QED  BY <1>8, <2>1 DEF Dispatch, Commits, DomainEvent, Record
  <1> QED  BY <1>1, <1>2, <1>3, <1>4, <1>5, <1>6, <1>7, <1>8

\* Every step keeps the log consistent: a commit, a checkpoint, a crash with its replay.
LEMMA LogStep ==
  ASSUME LogInv, [Next]_vars
  PROVE  LogInv'
  <1>1. ASSUME NEW e, Commits(e) PROVE LogInv'
    BY <1>1, CommitStep DEF Commits
  <1>2. CASE \E o \in Origins : Accept(o)
    BY <1>1, <1>2, CallersCommit
  <1>3. CASE \E r \in Refs, s \in Settlements : Settle(r, s)
    BY <1>1, <1>3, CallersCommit
  <1>4. CASE \E r \in Refs : Die(r)
    BY <1>1, <1>4, CallersCommit
  <1>5. CASE \E r \in Refs, phase \in {"execution", "cancellation"}, n \in 1 .. MaxAttempt : Retry(r, phase, n)
    BY <1>1, <1>5, CallersCommit
  <1>6. CASE \E r \in Refs : Cancel(r)
    BY <1>1, <1>6, CallersCommit
  <1>7. CASE \E r \in Refs, k \in CleanupOutcomes : CleanUp(r, k)
    BY <1>1, <1>7, CallersCommit
  <1>8. CASE \E r \in Refs, res \in PromiseResults : Resolve(r, res)
    BY <1>1, <1>8, CallersCommit
  <1>9. CASE Dispatch
    BY <1>1, <1>9, CallersCommit
  <1>10. CASE Checkpoint
    <2>1. /\ ~failed /\ Checkpointable(frame) /\ checkpoint' = frame.position
          /\ journal' = journal /\ frame' = frame /\ failed' = failed
      BY <1>10 DEF Checkpoint
    <2>2. JournalInv(journal) /\ Rests(frame, journal)
      BY <2>1 DEF LogInv, Durable
    <2>3. frame.position = Len(journal) /\ Mirrors(Raw(journal, Len(journal)), journal)
      BY <2>1, <2>2, RestingIsFresh
    <2>4. Durable(journal, frame.position)
      <3>1. Len(journal) \in 0 .. Len(journal)
        BY <2>2 DEF JournalInv
      <3> QED  BY <2>3, <3>1 DEF LogInv, Durable
    <2>5. Durable(journal', checkpoint')
      BY <2>1, <2>4
    <2> QED  BY <2>1, <2>5 DEF LogInv
  <1>11. CASE Recreate
    <2>1. frame' = replay(journal, checkpoint) /\ failed' = FALSE /\ journal' = journal /\ checkpoint' = checkpoint
      BY <1>11 DEF Recreate
    <2>2. replay(journal, checkpoint) = finish(Raw(journal, checkpoint))
      BY DEF replay, Raw
    <2>3. Durable(journal, checkpoint) /\ Mirrors(Raw(journal, checkpoint), journal)
      BY DEF LogInv, Durable
    <2>4. Rests(finish(Raw(journal, checkpoint)), journal)
      BY <2>3, FinishRests
    <2> QED  BY <2>1, <2>2, <2>3, <2>4 DEF LogInv
  <1>12. CASE UNCHANGED vars
    BY <1>12 DEF vars, LogInv
  <1> QED  BY <1>2, <1>3, <1>4, <1>5, <1>6, <1>7, <1>8, <1>9, <1>10, <1>11, <1>12 DEF Next

\* Every state the log reaches is consistent: whatever append (replay.ts) committed, with or
\* without an acknowledgement, an engine rebuilt by createEngine from the start or from the
\* checkpoint holds exactly the unfinished operations that the journal records.
THEOREM LogIsConsistent == Spec => []LogInv
  <1>1. Init => LogInv
    BY InitialLog
  <1>2. LogInv /\ [Next]_vars => LogInv'
    BY LogStep
  <1> QED  BY <1>1, <1>2, PTL DEF Spec

\* ReplayEquivalent for every set of invocations, every checkpoint and every length of the
\* journal: replaying from the checkpoint, replaying from the start and the running engine
\* (replay.ts, createEngine, append and checkpoint) agree on operations, defect and position.
THEOREM ReplayIsExact == Spec => []ReplayEquivalent
  <1>1. ASSUME LogInv PROVE ReplayEquivalent
    <2> DEFINE whole == replay(journal, 0)
               suffix == replay(journal, checkpoint)
    <2>1. whole = finish(Raw(journal, 0)) /\ suffix = finish(Raw(journal, checkpoint))
      BY DEF replay, Raw
    <2>2. Mirrors(Raw(journal, 0), journal) /\ Mirrors(Raw(journal, checkpoint), journal) /\ OneDeath(journal)
      BY <1>1 DEF LogInv, Durable
    <2>3. Rests(whole, journal) /\ Rests(suffix, journal)
      BY <2>1, <2>2, FinishRests
    <2>4. ~failed => Rests(frame, journal)
      BY <1>1 DEF LogInv
    <2> HIDE DEF whole, suffix
    <2>5. CoreState(suffix) = CoreState(whole) /\ (~failed => CoreState(frame) = CoreState(whole))
      BY <2>2, <2>3, <2>4, RestsSame
    <2>6. whole.ok
      BY <2>3 DEF Rests, Mirrors
    <2> QED  BY <2>5, <2>6 DEF ReplayEquivalent, whole, suffix
  <1> QED  BY <1>1, LogIsConsistent, PTL

-----------------------------------------------------------------------------
(* The log implements the table of operations *)

\* The requests of an invocation, the invocations a journal accepted, and its table.
Requests(j, o) == {r \in 1 .. Len(j) : j[r] = EffectRequested(r, o)}
AcceptedIn(j) == {o \in Origins : Requests(j, o) # {}}
TableOf(j) == [o \in AcceptedIn(j) |-> recordedOperation(j, CHOOSE r \in Requests(j, o) : TRUE)]

\* The table holds the operation of each request, under the request's origin.
LEMMA TableHolds ==
  ASSUME NEW j, JournalInv(j)
  PROVE  /\ \A r : Requested(j, r) => j[r].val \in AcceptedIn(j) /\ TableOf(j)[j[r].val] = recordedOperation(j, r)
         /\ \A o \in AcceptedIn(j) : \E r : Requested(j, r) /\ j[r].val = o
  <1>1. ASSUME NEW r, Requested(j, r)
        PROVE  j[r].val \in AcceptedIn(j) /\ TableOf(j)[j[r].val] = recordedOperation(j, r)
    <2> DEFINE o == j[r].val
    <2>1. r \in 1 .. Len(j) /\ j[r] = EffectRequested(r, o) /\ o \in Origins
      BY <1>1 DEF Requested, JournalInv
    <2>2. \A s \in Requests(j, o) : s \in 1 .. Len(j) /\ Requested(j, s) /\ j[s].val = o
      BY DEF Requests, Requested, EffectRequested, Record
    <2>3. \A s \in Requests(j, o) : s = r
      BY <1>1, <2>1, <2>2 DEF JournalInv
    <2>4. r \in Requests(j, o)
      BY <2>1 DEF Requests
    <2>5. (CHOOSE s \in Requests(j, o) : TRUE) = r
      BY <2>3, <2>4
    <2>6. o \in AcceptedIn(j)
      BY <2>1, <2>4 DEF AcceptedIn
    <2> QED  BY <2>5, <2>6 DEF TableOf
  <1>2. ASSUME NEW o \in AcceptedIn(j) PROVE \E r : Requested(j, r) /\ j[r].val = o
    <2>1. PICK r \in 1 .. Len(j) : j[r] = EffectRequested(r, o)
      BY DEF AcceptedIn, Requests
    <2>2. j[r].type = "EffectRequested" /\ j[r].val = o
      BY <2>1, RequestIs
    <2> QED  BY <2>2 DEF Requested
  <1> QED  BY <1>1, <1>2

\* Two tables agree when they hold the same operations.
LEMMA TableIs ==
  ASSUME NEW j, JournalInv(j), NEW t, NEW D, t = [o \in D |-> t[o]],
         \A r : Requested(j, r) => j[r].val \in D /\ t[j[r].val] = recordedOperation(j, r),
         \A o \in D : \E r : Requested(j, r) /\ j[r].val = o
  PROVE  TableOf(j) = t
  <1>1. /\ \A r : Requested(j, r) => j[r].val \in AcceptedIn(j) /\ TableOf(j)[j[r].val] = recordedOperation(j, r)
        /\ \A o \in AcceptedIn(j) : \E r : Requested(j, r) /\ j[r].val = o
    BY TableHolds
  <1>2. AcceptedIn(j) = D
    BY <1>1
  <1>3. \A o \in D : TableOf(j)[o] = t[o]
    BY <1>1
  <1>4. TableOf(j) = [o \in AcceptedIn(j) |-> TableOf(j)[o]]
    BY DEF TableOf
  <1> HIDE DEF TableOf
  <1> QED  BY <1>2, <1>3, <1>4

Put(t, D, o, op) == [x \in D \cup {o} |-> IF x = o THEN op ELSE t[x]]

\* What one record makes of the table.
LEMMA TableStep ==
  ASSUME NEW j, NEW e, JournalInv(j), Follows(e, j), Admissible(e, j)
  PROVE  /\ e.type = "EffectRequested" =>
              /\ e.val \in Origins /\ e.val \notin AcceptedIn(j)
              /\ TableOf(Append(j, e)) = Put(TableOf(j), AcceptedIn(j), e.val, NewOperation(e.val))
         /\ e.type \in LifecycleTypes \ {"EffectRequested"} =>
              /\ j[e.ref].val \in AcceptedIn(j)
              /\ TableOf(j)[j[e.ref].val] = recordedOperation(j, e.ref)
              /\ TableOf(Append(j, e)) =
                   Put(TableOf(j), AcceptedIn(j), j[e.ref].val, Fold(recordedOperation(j, e.ref), e))
         /\ e.type \notin LifecycleTypes => TableOf(Append(j, e)) = TableOf(j)
         /\ HasDied(Append(j, e)) <=> HasDied(j) \/ e.type = "EffectDied"
  <1> DEFINE k == Append(j, e)
             T == TableOf(j)
             D == AcceptedIn(j)
  <1>0. j \in Seq(EventRecord) /\ e \in EventRecord
    BY DEF JournalInv, Follows, Fits
  <1>1. /\ Len(j) \in Nat /\ Len(k) = Len(j) + 1
        /\ k[Len(j) + 1] = e /\ \A n \in 1 .. Len(j) : k[n] = j[n]
    BY <1>0, AppendFacts
  <1>2. JournalInv(k)
    BY JournalStep
  <1>3. /\ \A r : Requested(k, r) => Requested(j, r) \/ (r = Len(j) + 1 /\ e.type = "EffectRequested")
        /\ \A r : Requested(j, r) => Requested(k, r) /\ r \in 1 .. Len(j)
        /\ e.type = "EffectRequested" => Requested(k, Len(j) + 1)
    BY <1>0, RequestedFacts
  <1>4. \A r \in 1 .. Len(j) : recordedOperation(k, r) = RecordedNext(recordedOperation(j, r), e, r)
    BY <1>0, RecordedAppend
  <1>5. recordedOperation(k, Len(j) + 1) = NewOperation(e.val)
    BY <1>0, RecordedNew
  <1>6. /\ \A r : Requested(j, r) => j[r].val \in D /\ T[j[r].val] = recordedOperation(j, r)
        /\ \A o \in D : \E r : Requested(j, r) /\ j[r].val = o
    BY TableHolds
  <1>7. T = [o \in D |-> T[o]]
    BY DEF TableOf
  <1>8. HasDied(k) <=> HasDied(j) \/ e.type = "EffectDied"
    <2> HIDE DEF k
    <2> QED  BY <1>1 DEF HasDied
  <1>9. \A r, s : Requested(j, r) /\ Requested(j, s) /\ j[r].val = j[s].val => r = s
    BY DEF JournalInv, Requested
  <1>10. ASSUME e.type = "EffectRequested"
         PROVE  e.val \in Origins /\ e.val \notin D /\ TableOf(k) = Put(T, D, e.val, NewOperation(e.val))
    <2> DEFINE t == Put(T, D, e.val, NewOperation(e.val))
    <2>1. e.ref = Len(j) + 1 /\ e.val \in Origins /\ \A r : Requested(j, r) => j[r].val # e.val
      BY <1>10, RequestIs DEF Follows, Requested
    <2>2. e.val \notin D
      BY <1>6, <2>1
    <2>3. t = [o \in D \cup {e.val} |-> t[o]] /\ t[e.val] = NewOperation(e.val) /\ \A o \in D : t[o] = T[o]
      BY <2>2 DEF Put
    <2> HIDE DEF t, T, D, k
    <2>4. ASSUME NEW r, Requested(j, r) PROVE recordedOperation(k, r) = recordedOperation(j, r) /\ k[r] = j[r]
      BY <1>1, <1>3, <1>4, <2>1, <2>4 DEF RecordedNext
    <2>5. \A r : Requested(k, r) => k[r].val \in D \cup {e.val} /\ t[k[r].val] = recordedOperation(k, r)
      BY <1>1, <1>3, <1>5, <1>6, <2>3, <2>4
    <2>6. \A o \in D \cup {e.val} : \E r : Requested(k, r) /\ k[r].val = o
      BY <1>1, <1>3, <1>6, <1>10, <2>4
    <2>7. TableOf(k) = t
      <3> DEFINE E == D \cup {e.val}
      <3>1. t = [o \in E |-> t[o]] /\ \A o \in E : \E r : Requested(k, r) /\ k[r].val = o
        BY <2>3, <2>6
      <3>2. \A r : Requested(k, r) => k[r].val \in E /\ t[k[r].val] = recordedOperation(k, r)
        BY <2>5
      <3> HIDE DEF E
      <3> QED  BY <1>2, <3>1, <3>2, TableIs
    <2> QED  BY <2>1, <2>2, <2>7 DEF t
  <1>11. ASSUME e.type \in LifecycleTypes \ {"EffectRequested"}
         PROVE  /\ j[e.ref].val \in D /\ T[j[e.ref].val] = recordedOperation(j, e.ref)
                /\ TableOf(k) = Put(T, D, j[e.ref].val, Fold(recordedOperation(j, e.ref), e))
    <2> DEFINE a == j[e.ref].val
               op == Fold(recordedOperation(j, e.ref), e)
               t == Put(T, D, a, op)
    <2>1. Requested(j, e.ref)
      BY <1>11 DEF Admissible
    <2>2. a \in D /\ T[a] = recordedOperation(j, e.ref)
      BY <1>6, <2>1
    <2>3. t = [o \in D |-> t[o]] /\ t[a] = op /\ \A o \in D : o # a => t[o] = T[o]
      BY <2>2 DEF Put
    <2>4. recordedOperation(k, e.ref) = op
      BY <1>3, <1>4, <1>11, <2>1 DEF RecordedNext
    <2> HIDE DEF t, T, D, k, op
    <2>5. ASSUME NEW r, Requested(j, r)
          PROVE  k[r] = j[r] /\ (r # e.ref => recordedOperation(k, r) = recordedOperation(j, r) /\ j[r].val # a)
      BY <1>1, <1>3, <1>4, <1>9, <2>1, <2>5 DEF RecordedNext
    <2>6. \A r : Requested(k, r) => Requested(j, r)
      BY <1>3, <1>11
    <2>7. \A r : Requested(k, r) => k[r].val \in D /\ t[k[r].val] = recordedOperation(k, r)
      BY <1>6, <2>1, <2>3, <2>4, <2>5, <2>6
    <2>8. \A o \in D : \E r : Requested(k, r) /\ k[r].val = o
      BY <1>3, <1>6, <2>5
    <2>9. TableOf(k) = t
      BY <1>2, <2>3, <2>7, <2>8, TableIs
    <2> QED  BY <2>2, <2>9 DEF t, op
  <1>12. ASSUME e.type \notin LifecycleTypes PROVE TableOf(k) = T
    <2> HIDE DEF T, D, k
    <2>1. ASSUME NEW r, Requested(j, r) PROVE k[r] = j[r] /\ recordedOperation(k, r) = recordedOperation(j, r)
      BY <1>1, <1>3, <1>4, <1>12, <2>1 DEF RecordedNext
    <2>2. \A r : Requested(k, r) <=> Requested(j, r)
      BY <1>3, <1>12 DEF LifecycleTypes
    <2>3. \A r : Requested(k, r) => k[r].val \in D /\ T[k[r].val] = recordedOperation(k, r)
      BY <1>6, <2>1, <2>2
    <2>4. \A o \in D : \E r : Requested(k, r) /\ k[r].val = o
      BY <1>6, <2>1, <2>2
    <2> QED  BY <1>2, <1>7, <2>3, <2>4, TableIs
  <1> QED  BY <1>8, <1>10, <1>11, <1>12

\* Lifecycle's copy of Operation is Operation.
LEMMA SameOperators ==
  /\ Table!Settlements = Settlements /\ Table!PromiseResults = PromiseResults
  /\ Table!CleanupOutcomes = CleanupOutcomes
  /\ \A o : Table!NewOperation(o) = NewOperation(o)
  /\ \A op : Table!operationSettlement(op) = operationSettlement(op)
  /\ \A op : Table!cleanupSucceeded(op) <=> cleanupSucceeded(op)
  /\ \A op : Table!cleanupOwed(op) <=> cleanupOwed(op)
  /\ \A op : Table!cleanupRunnable(op) <=> cleanupRunnable(op)
  /\ \A op : Table!operationComplete(op) <=> operationComplete(op)
  /\ \A op, e : Table!Fold(op, e) = Fold(op, e)
  <1>1. /\ Table!Settlements = Settlements /\ Table!PromiseResults = PromiseResults
        /\ Table!CleanupOutcomes = CleanupOutcomes
    BY DEF Table!Settlements, Settlements, Table!PromiseResults, PromiseResults, Table!CleanupOutcomes, CleanupOutcomes
  <1>2. \A o : Table!NewOperation(o) = NewOperation(o)
    BY DEF Table!NewOperation, NewOperation
  <1>3. \A op : Table!operationSettlement(op) = operationSettlement(op)
    BY <1>1 DEF Table!operationSettlement, operationSettlement
  <1>4. \A op : Table!cleanupSucceeded(op) <=> cleanupSucceeded(op)
    BY DEF Table!cleanupSucceeded, cleanupSucceeded
  <1>5. \A op : Table!cleanupOwed(op) <=> cleanupOwed(op)
    BY <1>4 DEF Table!cleanupOwed, cleanupOwed
  <1>6. \A op : Table!cleanupRunnable(op) <=> cleanupRunnable(op)
    BY DEF Table!cleanupRunnable, cleanupRunnable
  <1>7. \A x : Table!settlementCompletesExecution(x) <=> settlementCompletesExecution(x)
    BY DEF Table!settlementCompletesExecution, settlementCompletesExecution
  <1>8. \A op : Table!operationComplete(op) <=> operationComplete(op)
    BY <1>3, <1>4, <1>7 DEF Table!operationComplete, operationComplete
  <1>9. \A op, e : Table!Fold(op, e) = Fold(op, e)
    BY <1>3, Zenon DEF Table!Fold, Fold
  <1> QED  BY <1>1, <1>2, <1>3, <1>4, <1>5, <1>6, <1>8, <1>9

FrozenIn(j, o) == HasDied(j) /\ o \notin ReplyOrigins

\* The table of LifecycleOfLog, and the guards of its actions, in terms of the journal.
LEMMA TableView ==
  ASSUME NEW T, NEW D, T = TableOf(journal), D = AcceptedIn(journal)
  PROVE  /\ Table!Accepted = D
         /\ \A o, op : Table!With(o, op) = Put(T, D, o, op)
         /\ \A o, e : Table!Folded(o, e) = Put(T, D, o, Fold(T[o], e))
         /\ \A o : Table!AdmitsRequest(o) <=> o \notin D /\ ~FrozenIn(journal, o)
         /\ \A o, s : Table!AdmitsSettlement(o, s) <=>
              /\ o \in D /\ T[o].outcome = "none"
              /\ IF T[o].cancelled THEN s = "promise" /\ cleanupOwed(T[o]) ELSE ~FrozenIn(journal, o)
         /\ \A o : Table!AdmitsPromise(o) <=>
              /\ o \in D /\ ~T[o].cancelled /\ ~FrozenIn(journal, o)
              /\ T[o].outcome = "promise" /\ T[o].promise = "none"
         /\ \A o : Table!AdmitsDefect(o) <=>
              o \in D /\ ~HasDied(journal) /\ ~T[o].cancelled /\ ~operationComplete(T[o])
         /\ \A o, phase : Table!AdmitsRetry(o, phase) <=>
              /\ o \in D
              /\ IF phase = "cancellation" THEN cleanupRunnable(T[o])
                 ELSE ~T[o].cancelled /\ ~operationComplete(T[o]) /\ ~FrozenIn(journal, o)
         /\ \A o : Table!AdmitsCancellation(o) <=>
              /\ o \in D /\ ~T[o].cancelled /\ ~operationComplete(T[o])
              /\ HasDied(journal) => \E x \in D : cleanupRunnable(T[x])
         /\ \A o : Table!AdmitsCleanup(o) <=> o \in D /\ cleanupRunnable(T[o])
         /\ \A o, phase : Table!Retries(o, phase) = IF phase = "cancellation" THEN T[o].cleanupRetry ELSE T[o].retry
  <1> USE DEF TableOf, AcceptedIn, Requests, AcceptedOrigins, RequestsOf, Position
  <1>1. Table!Accepted = D
    BY DEF Table!Accepted
  <1>2. \A o, op : Table!With(o, op) = Put(T, D, o, op)
    <2> SUFFICES ASSUME NEW o, NEW op PROVE Table!With(o, op) = Put(T, D, o, op)
      OBVIOUS
    <2>1. Table!With(o, op) = [x \in Table!Accepted \cup {o} |-> IF x = o THEN op ELSE TableOf(journal)[x]]
      BY Zenon DEF Table!With
    <2> QED  BY <1>1, <2>1, Zenon DEF Put
  <1>3. \A o, e : Table!Folded(o, e) = Put(T, D, o, Fold(T[o], e))
    BY <1>2, SameOperators, Zenon DEF Table!Folded
  <1>4. \A o : Table!Frozen(o) <=> FrozenIn(journal, o)
    BY Zenon DEF Table!Frozen, FrozenIn, HasDied
  <1>5. \A o : Table!AdmitsRequest(o) <=> o \notin D /\ ~FrozenIn(journal, o)
    BY <1>1, <1>4, Zenon DEF Table!AdmitsRequest
  <1>6. \A o, s : Table!AdmitsSettlement(o, s) <=>
          /\ o \in D /\ T[o].outcome = "none"
          /\ IF T[o].cancelled THEN s = "promise" /\ cleanupOwed(T[o]) ELSE ~FrozenIn(journal, o)
    BY <1>1, <1>4, SameOperators, Zenon DEF Table!AdmitsSettlement
  <1>7. \A o : Table!AdmitsPromise(o) <=>
          /\ o \in D /\ ~T[o].cancelled /\ ~FrozenIn(journal, o)
          /\ T[o].outcome = "promise" /\ T[o].promise = "none"
    BY <1>1, <1>4, Zenon DEF Table!AdmitsPromise
  <1>8. \A o : Table!Complete(o) <=> o \in D /\ operationComplete(T[o])
    BY <1>1, SameOperators, Zenon DEF Table!Complete
  <1>9. \A o : Table!AdmitsDefect(o) <=>
          o \in D /\ ~HasDied(journal) /\ ~T[o].cancelled /\ ~operationComplete(T[o])
    BY <1>1, <1>8, Zenon DEF Table!AdmitsDefect, HasDied
  <1>10. \A o, phase : Table!AdmitsRetry(o, phase) <=>
           /\ o \in D
           /\ IF phase = "cancellation" THEN cleanupRunnable(T[o])
              ELSE ~T[o].cancelled /\ ~operationComplete(T[o]) /\ ~FrozenIn(journal, o)
    BY <1>1, <1>4, <1>8, SameOperators, Zenon DEF Table!AdmitsRetry
  <1>11. \A o : Table!AdmitsCancellation(o) <=>
           /\ o \in D /\ ~T[o].cancelled /\ ~operationComplete(T[o])
           /\ HasDied(journal) => \E x \in D : cleanupRunnable(T[x])
    BY <1>1, <1>8, SameOperators, Zenon DEF Table!AdmitsCancellation, HasDied
  <1>12. \A o : Table!AdmitsCleanup(o) <=> o \in D /\ cleanupRunnable(T[o])
    BY <1>1, SameOperators, Zenon DEF Table!AdmitsCleanup
  <1>13. \A o, phase : Table!Retries(o, phase) = IF phase = "cancellation" THEN T[o].cleanupRetry ELSE T[o].retry
    <2> SUFFICES ASSUME NEW o, NEW phase
                 PROVE  Table!Retries(o, phase) = IF phase = "cancellation" THEN T[o].cleanupRetry ELSE T[o].retry
      OBVIOUS
    <2>1. Table!Retries(o, phase) =
            IF phase = "cancellation" THEN TableOf(journal)[o].cleanupRetry ELSE TableOf(journal)[o].retry
      BY Zenon DEF Table!Retries
    <2> QED  BY <2>1, Zenon
  <1> QED  BY <1>1, <1>2, <1>3, <1>5, <1>6, <1>7, <1>9, <1>10, <1>11, <1>12, <1>13

\* Fold reads a record's kind and payload, not the name of the operation it is about.
LEMMA FoldSame ==
  ASSUME NEW op, NEW d, NEW e, d.type = e.type, d.val = e.val, d.n = e.n
  PROVE  Fold(op, d) = Fold(op, e)
  BY Zenon DEF Fold

\* The follow-up of a record leaves the table alone.
LEMMA TableBatch ==
  ASSUME NEW j, NEW e, NEW i, JournalInv(j), Follows(e, j), Admissible(e, j),
         \/ i = Append(j, e)
         \/ \E c \in EventRecord : i = Append(Append(j, e), c) /\ c.type \in {"Callback", "MessageDelivered"}
  PROVE  TableOf(i) = TableOf(Append(j, e)) /\ (HasDied(i) <=> HasDied(Append(j, e)))
  <1>1. CASE i = Append(j, e)
    BY <1>1
  <1>2. ASSUME NEW c \in EventRecord, i = Append(Append(j, e), c), c.type \in {"Callback", "MessageDelivered"}
        PROVE  TableOf(i) = TableOf(Append(j, e)) /\ (HasDied(i) <=> HasDied(Append(j, e)))
    <2> DEFINE k == Append(j, e)
    <2>1. JournalInv(k)
      BY JournalStep
    <2> HIDE DEF k
    <2>2. Follows(c, k) /\ Admissible(c, k) /\ c.type \notin LifecycleTypes /\ c.type # "EffectDied"
      BY <1>2 DEF Follows, Fits, Admissible, LifecycleTypes
    <2>3. TableOf(Append(k, c)) = TableOf(k) /\ (HasDied(Append(k, c)) <=> HasDied(k))
      BY <2>1, <2>2, TableStep
    <2> QED  BY <1>2, <2>3 DEF k
  <1> QED  BY <1>1, <1>2

\* A commit of record e leaves the table alone or makes of it what e alone would.
LEMMA CommitTable ==
  ASSUME LogInv, NEW e, Commits(e)
  PROVE  /\ Admits(e) /\ Admissible(e, journal) /\ JournalInv(journal) /\ Rests(frame, journal)
         /\ \/ journal' = journal
            \/ /\ TableOf(journal') = TableOf(Append(journal, e))
               /\ HasDied(journal') <=> HasDied(Append(journal, e))
  <1> DEFINE i == journal \o Batch(e)
  <1>1. ~failed /\ Admits(e) /\ Prepared(e).ok
    BY DEF Commits, commit
  <1>2. /\ Admissible(e, journal)
        /\ \/ i = Append(journal, e)
           \/ \E c \in EventRecord : i = Append(Append(journal, e), c) /\ c.type \in {"Callback", "MessageDelivered"}
    BY <1>1, PreparedStep DEF Commits
  <1>3. JournalInv(journal) /\ Rests(frame, journal)
    BY <1>1 DEF LogInv, Durable
  <1>4. journal' = i \/ journal' = journal
    BY DEF Commits, commit, Persist
  <1> HIDE DEF i
  <1>5. TableOf(i) = TableOf(Append(journal, e)) /\ (HasDied(i) <=> HasDied(Append(journal, e)))
    BY <1>2, <1>3, TableBatch DEF Commits
  <1> QED  BY <1>1, <1>2, <1>3, <1>4, <1>5

\* What the admission filter lets through, record by record.
LEMMA AdmitsIs ==
  ASSUME NEW op, NEW e, LifecycleAdmits(op, e)
  PROVE  /\ e.type = "EffectCancelled" => ~op.cancelled
         /\ e.type = "PromiseSettled" => ~op.cancelled
         /\ e.type = "EffectSettled" /\ op.cancelled => e.val = "promise"
         /\ e.type = "RetryScheduled" /\ e.val = "execution" => ~op.cancelled
  BY Zenon DEF LifecycleAdmits

\* The operation a committed record is about, as the table has it.
LEMMA AboutTable ==
  ASSUME LogInv, NEW e, Commits(e), e.type \in LifecycleTypes \ {"EffectRequested"},
         NEW T, NEW D, T = TableOf(journal), D = AcceptedIn(journal), NEW o, o = journal[e.ref].val
  PROVE  /\ o \in Origins /\ o \in D
         /\ OpInv(T[o]) /\ ~operationComplete(T[o]) /\ Guard(T[o], e) /\ LifecycleAdmits(T[o], e)
         /\ FrozenIn(journal, o) =>
              \/ e.type \in {"EffectDied", "EffectCancelled", "CancellationOutcome"}
              \/ e.type = "EffectSettled" /\ T[o].cancelled
              \/ e.type = "RetryScheduled" /\ e.val = "cancellation"
         /\ e.type = "EffectDied" => ~HasDied(journal)
         /\ \/ journal' = journal
            \/ /\ TableOf(journal') = Put(T, D, o, Fold(T[o], e))
               /\ HasDied(journal') <=> HasDied(journal) \/ e.type = "EffectDied"
  <1> DEFINE op == recordedOperation(journal, e.ref)
  <1>1. /\ Admits(e) /\ Admissible(e, journal) /\ JournalInv(journal) /\ Rests(frame, journal)
        /\ \/ journal' = journal
           \/ /\ TableOf(journal') = TableOf(Append(journal, e))
              /\ HasDied(journal') <=> HasDied(Append(journal, e))
    BY CommitTable
  <1>2. /\ o \in D /\ T[o] = op
        /\ TableOf(Append(journal, e)) = Put(T, D, o, Fold(op, e))
        /\ HasDied(Append(journal, e)) <=> HasDied(journal) \/ e.type = "EffectDied"
    BY <1>1, TableStep DEF Commits
  <1>3. Requested(journal, e.ref) /\ ~operationComplete(op) /\ Guard(op, e)
    BY <1>1 DEF Admissible, Complete
  <1>4. OpInv(op) /\ o \in Origins
    BY <1>1, <1>3 DEF JournalInv, Requested
  <1>5. \A r \in Active(frame) : frame.ops[r] = recordedOperation(journal, r)
    BY <1>1 DEF Rests, Mirrors
  <1>6. LifecycleAdmits(op, e)
    <2>1. LifecycleAdmits(lifecycle(e.ref), e)
      BY <1>1 DEF Admits
    <2>2. lifecycle(e.ref) = op
      BY <1>5 DEF lifecycle
    <2> QED  BY <2>1, <2>2
  <1>7. frame.defect # NoDefect <=> HasDied(journal)
    BY <1>1 DEF Rests, Mirrors, Names
  <1>8. e.type = "EffectDied" => ~HasDied(journal)
    BY <1>1, <1>7 DEF Admits
  <1>9. FrozenIn(journal, o) =>
          \/ e.type \in {"EffectDied", "EffectCancelled", "CancellationOutcome"}
          \/ e.type = "EffectSettled" /\ op.cancelled
          \/ e.type = "RetryScheduled" /\ e.val = "cancellation"
    BY <1>1, <1>5, <1>7 DEF Admits, DefectBars, FrozenIn, cleanupSubmission, cleanupOwed
  <1> HIDE DEF op
  <1> QED  BY <1>1, <1>2, <1>3, <1>4, <1>6, <1>8, <1>9

\* The log's step on the table: a step of Lifecycle, or none.
TableSteps == [Table!LifecycleNext]_(Table!lifecycleVars)

\* A step that leaves the journal's operations and its defect alone leaves the table alone.
LEMMA TableStutters ==
  ASSUME TableOf(journal') = TableOf(journal), HasDied(journal') <=> HasDied(journal)
  PROVE  TableSteps
  <1>1. UNCHANGED Table!lifecycleVars
    BY Zenon DEF Table!lifecycleVars, TableOf, AcceptedIn, Requests, AcceptedOrigins, RequestsOf, Position, HasDied
  <1> QED  BY <1>1 DEF TableSteps

\* The mapped variables after a step that folds record e into the operation of o.
LEMMA TableAfter ==
  ASSUME NEW o, NEW op, TableOf(journal') = Put(TableOf(journal), AcceptedIn(journal), o, op)
  PROVE  [x \in AcceptedOrigins |-> recordedOperation(journal, CHOOSE r \in RequestsOf(x) : TRUE)]' = Table!With(o, op)
  <1>1. Table!With(o, op) = Put(TableOf(journal), AcceptedIn(journal), o, op)
    BY TableView
  <1>2. [x \in AcceptedOrigins |-> recordedOperation(journal, CHOOSE r \in RequestsOf(x) : TRUE)]' = TableOf(journal')
    BY Zenon DEF TableOf, AcceptedIn, Requests, AcceptedOrigins, RequestsOf, Position
  <1> QED  BY <1>1, <1>2, Zenon

\* The table's defect is the journal's.
LEMMA DefectAfter ==
  ASSUME HasDied(journal') <=> HasDied(journal)
  PROVE  UNCHANGED (\E n \in 1 .. Position : journal[n].type = "EffectDied")
  BY Zenon DEF HasDied, Position

\* Accepting an invocation is Request in the table.
LEMMA TableRequest ==
  ASSUME LogInv, NEW a \in Origins, Accept(a)
  PROVE  TableSteps
  <1> DEFINE T == TableOf(journal)
             D == AcceptedIn(journal)
             e == EffectRequested(Len(journal) + 1, a)
  <1>1. Commits(e) /\ (frame.defect # NoDefect => a \in ReplyOrigins)
    BY CallersCommit DEF Accept
  <1>2. e.type = "EffectRequested" /\ e.val = a
    BY RequestIs
  <1> HIDE DEF e
  <1>3. /\ Admissible(e, journal) /\ JournalInv(journal) /\ Rests(frame, journal) /\ Follows(e, journal)
        /\ \/ journal' = journal
           \/ /\ TableOf(journal') = TableOf(Append(journal, e))
              /\ HasDied(journal') <=> HasDied(Append(journal, e))
    BY <1>1, CommitTable DEF Commits
  <1>4. /\ a \notin D /\ TableOf(Append(journal, e)) = Put(T, D, a, NewOperation(a))
        /\ HasDied(Append(journal, e)) <=> HasDied(journal)
    BY <1>2, <1>3, TableStep
  <1>5. ~FrozenIn(journal, a)
    BY <1>1, <1>3 DEF Rests, Mirrors, Names, FrozenIn
  <1>6. CASE journal' = journal
    BY <1>6, TableStutters
  <1>7. CASE TableOf(journal') = Put(T, D, a, NewOperation(a)) /\ (HasDied(journal') <=> HasDied(journal))
    <2>1. Table!AdmitsRequest(a)
      BY <1>4, <1>5, TableView
    <2>2. [x \in AcceptedOrigins |-> recordedOperation(journal, CHOOSE r \in RequestsOf(x) : TRUE)]' = Table!With(a, NewOperation(a))
      BY <1>7, TableAfter
    <2>3. UNCHANGED (\E n \in 1 .. Position : journal[n].type = "EffectDied")
      BY <1>7, DefectAfter
    <2>4. Table!NewOperation(a) = NewOperation(a)
      BY SameOperators
    <2>5. Table!Request(a)
      BY <2>1, <2>2, <2>3, <2>4, Zenon DEF Table!Request
    <2> QED  BY <2>5 DEF TableSteps, Table!LifecycleNext
  <1> QED  BY <1>3, <1>4, <1>6, <1>7

\* Settling an operation is Settle in the table.
LEMMA TableSettle ==
  ASSUME LogInv, NEW r \in Refs, NEW s \in Settlements, Settle(r, s)
  PROVE  TableSteps
  <1> DEFINE T == TableOf(journal)
             D == AcceptedIn(journal)
             e == EffectSettled(r, s)
  <1>0. PICK o : o = journal[r].val
    OBVIOUS
  <1> DEFINE d == EffectSettled(o, s)
  <1>1. Commits(e)
    BY CallersCommit
  <1>2. e.type = "EffectSettled" /\ e.ref = r /\ e.val = s
    BY DEF EffectSettled, Record
  <1>3. d.type = e.type /\ d.val = e.val /\ d.n = e.n
    BY DEF EffectSettled, Record
  <1> HIDE DEF e, d, T, D
  <1>4. /\ o \in Origins /\ o \in D
        /\ OpInv(T[o]) /\ ~operationComplete(T[o]) /\ Guard(T[o], e) /\ LifecycleAdmits(T[o], e)
        /\ FrozenIn(journal, o) =>
             \/ e.type \in {"EffectDied", "EffectCancelled", "CancellationOutcome"}
             \/ e.type = "EffectSettled" /\ T[o].cancelled
             \/ e.type = "RetryScheduled" /\ e.val = "cancellation"
        /\ e.type = "EffectDied" => ~HasDied(journal)
        /\ \/ journal' = journal
           \/ /\ TableOf(journal') = Put(T, D, o, Fold(T[o], e))
              /\ HasDied(journal') <=> HasDied(journal) \/ e.type = "EffectDied"
    <2>1. e.type \in LifecycleTypes \ {"EffectRequested"} /\ o = journal[e.ref].val
      BY <1>0, <1>2 DEF LifecycleTypes
    <2> QED  BY <1>1, <2>1, AboutTable DEF T, D
  <1>7. Fold(T[o], e) = Fold(T[o], d)
    BY <1>3, FoldSame
  <1>8. CASE journal' = journal
    BY <1>8, TableStutters
  <1>9. CASE TableOf(journal') = Put(T, D, o, Fold(T[o], d)) /\ (HasDied(journal') <=> HasDied(journal))
    <2>1. Table!AdmitsSettlement(o, s)
      <3>1. T[o].outcome = "none" /\ (T[o].cancelled => s = "promise" /\ cleanupOwed(T[o]))
        BY <1>2, <1>4, AdmitsIs DEF OpInv, IsOp, Guard, operationSettlement, operationComplete, cleanupOwed, Settlements
      <3>2. ~T[o].cancelled => ~FrozenIn(journal, o)
        BY <1>2, <1>4
      <3> QED  BY <1>4, <3>1, <3>2, TableView DEF T, D
    <2>2. Table!With(o, Fold(T[o], d)) = Table!Folded(o, Table!EffectSettled(o, s))
      <3>1. Table!EffectSettled(o, s) = d
        BY DEF d, Table!EffectSettled, EffectSettled, Table!Record, Record
      <3>2. Table!Folded(o, d) = Put(T, D, o, Fold(T[o], d))
        BY TableView DEF T, D
      <3>3. Table!With(o, Fold(T[o], d)) = Put(T, D, o, Fold(T[o], d))
        BY TableView DEF T, D
      <3> QED  BY <3>1, <3>2, <3>3, Zenon
    <2>3. [x \in AcceptedOrigins |-> recordedOperation(journal, CHOOSE q \in RequestsOf(x) : TRUE)]' = Table!With(o, Fold(T[o], d))
      BY <1>9, TableAfter DEF T, D
    <2>4. UNCHANGED (\E m \in 1 .. Position : journal[m].type = "EffectDied")
      BY <1>9, DefectAfter
    <2>5. Table!Settle(o, s)
      BY <2>1, <2>2, <2>3, <2>4, Zenon DEF Table!Settle
    <2>6. s \in Table!Settlements
      BY SameOperators
    <2> QED  BY <1>4, <2>5, <2>6 DEF TableSteps, Table!LifecycleNext
  <1> QED  BY <1>2, <1>4, <1>7, <1>8, <1>9

\* Resolving a promise is Resolve in the table.
LEMMA TableResolve ==
  ASSUME LogInv, NEW r \in Refs, NEW res \in PromiseResults, Resolve(r, res)
  PROVE  TableSteps
  <1> DEFINE T == TableOf(journal)
             D == AcceptedIn(journal)
             e == PromiseSettled(r, res)
  <1>0. PICK o : o = journal[r].val
    OBVIOUS
  <1> DEFINE d == PromiseSettled(o, res)
  <1>1. Commits(e)
    BY CallersCommit
  <1>2. e.type = "PromiseSettled" /\ e.ref = r /\ e.val = res
    BY DEF PromiseSettled, Record
  <1>3. d.type = e.type /\ d.val = e.val /\ d.n = e.n
    BY DEF PromiseSettled, Record
  <1> HIDE DEF e, d, T, D
  <1>4. /\ o \in Origins /\ o \in D
        /\ OpInv(T[o]) /\ ~operationComplete(T[o]) /\ Guard(T[o], e) /\ LifecycleAdmits(T[o], e)
        /\ FrozenIn(journal, o) =>
             \/ e.type \in {"EffectDied", "EffectCancelled", "CancellationOutcome"}
             \/ e.type = "EffectSettled" /\ T[o].cancelled
             \/ e.type = "RetryScheduled" /\ e.val = "cancellation"
        /\ e.type = "EffectDied" => ~HasDied(journal)
        /\ \/ journal' = journal
           \/ /\ TableOf(journal') = Put(T, D, o, Fold(T[o], e))
              /\ HasDied(journal') <=> HasDied(journal) \/ e.type = "EffectDied"
    <2>1. e.type \in LifecycleTypes \ {"EffectRequested"} /\ o = journal[e.ref].val
      BY <1>0, <1>2 DEF LifecycleTypes
    <2> QED  BY <1>1, <2>1, AboutTable DEF T, D
  <1>7. Fold(T[o], e) = Fold(T[o], d)
    BY <1>3, FoldSame
  <1>8. CASE journal' = journal
    BY <1>8, TableStutters
  <1>9. CASE TableOf(journal') = Put(T, D, o, Fold(T[o], d)) /\ (HasDied(journal') <=> HasDied(journal))
    <2>1. Table!AdmitsPromise(o)
      <3>1. ~T[o].cancelled /\ ~FrozenIn(journal, o)
        BY <1>2, <1>4, AdmitsIs
      <3>2. T[o].outcome = "promise" /\ T[o].promise = "none"
        BY <1>2, <1>4, <3>1 DEF OpInv, IsOp, Guard, operationSettlement, operationComplete, settlementCompletesExecution, Settlements
      <3> QED  BY <1>4, <3>1, <3>2, TableView DEF T, D
    <2>2. Table!With(o, Fold(T[o], d)) = Table!Folded(o, Table!PromiseSettled(o, res))
      <3>1. Table!PromiseSettled(o, res) = d
        BY DEF d, Table!PromiseSettled, PromiseSettled, Table!Record, Record
      <3>2. Table!Folded(o, d) = Put(T, D, o, Fold(T[o], d))
        BY TableView DEF T, D
      <3>3. Table!With(o, Fold(T[o], d)) = Put(T, D, o, Fold(T[o], d))
        BY TableView DEF T, D
      <3> QED  BY <3>1, <3>2, <3>3, Zenon
    <2>3. [x \in AcceptedOrigins |-> recordedOperation(journal, CHOOSE q \in RequestsOf(x) : TRUE)]' = Table!With(o, Fold(T[o], d))
      BY <1>9, TableAfter DEF T, D
    <2>4. UNCHANGED (\E m \in 1 .. Position : journal[m].type = "EffectDied")
      BY <1>9, DefectAfter
    <2>5. Table!Resolve(o, res)
      BY <2>1, <2>2, <2>3, <2>4, Zenon DEF Table!Resolve
    <2>6. res \in Table!PromiseResults
      BY SameOperators
    <2> QED  BY <1>4, <2>5, <2>6 DEF TableSteps, Table!LifecycleNext
  <1> QED  BY <1>2, <1>4, <1>7, <1>8, <1>9

\* A defect is Die in the table.
LEMMA TableDie ==
  ASSUME LogInv, NEW r \in Refs, Die(r)
  PROVE  TableSteps
  <1> DEFINE T == TableOf(journal)
             D == AcceptedIn(journal)
             e == EffectDied(r)
  <1>0. PICK o : o = journal[r].val
    OBVIOUS
  <1> DEFINE d == EffectDied(o)
  <1>1. Commits(e)
    BY CallersCommit
  <1>2. e.type = "EffectDied" /\ e.ref = r /\ e.val = "none"
    BY DEF EffectDied, Record
  <1>3. d.type = e.type /\ d.val = e.val /\ d.n = e.n
    BY DEF EffectDied, Record
  <1> HIDE DEF e, d, T, D
  <1>4. /\ o \in Origins /\ o \in D
        /\ OpInv(T[o]) /\ ~operationComplete(T[o]) /\ Guard(T[o], e) /\ LifecycleAdmits(T[o], e)
        /\ FrozenIn(journal, o) =>
             \/ e.type \in {"EffectDied", "EffectCancelled", "CancellationOutcome"}
             \/ e.type = "EffectSettled" /\ T[o].cancelled
             \/ e.type = "RetryScheduled" /\ e.val = "cancellation"
        /\ e.type = "EffectDied" => ~HasDied(journal)
        /\ \/ journal' = journal
           \/ /\ TableOf(journal') = Put(T, D, o, Fold(T[o], e))
              /\ HasDied(journal') <=> HasDied(journal) \/ e.type = "EffectDied"
    <2>1. e.type \in LifecycleTypes \ {"EffectRequested"} /\ o = journal[e.ref].val
      BY <1>0, <1>2 DEF LifecycleTypes
    <2> QED  BY <1>1, <2>1, AboutTable DEF T, D
  <1>7. Fold(T[o], e) = Fold(T[o], d)
    BY <1>3, FoldSame
  <1>8. CASE journal' = journal
    BY <1>8, TableStutters
  <1>9. CASE TableOf(journal') = Put(T, D, o, Fold(T[o], d)) /\ HasDied(journal')
    <2>1. Table!AdmitsDefect(o)
      <3>1. ~T[o].cancelled /\ ~HasDied(journal)
        BY <1>2, <1>4 DEF Guard
      <3> QED  BY <1>4, <3>1, TableView DEF T, D
    <2>2. Table!With(o, Fold(T[o], d)) = Table!Folded(o, Table!EffectDied(o))
      <3>1. Table!EffectDied(o) = d
        BY DEF d, Table!EffectDied, EffectDied, Table!Record, Record
      <3>2. Table!Folded(o, d) = Put(T, D, o, Fold(T[o], d))
        BY TableView DEF T, D
      <3>3. Table!With(o, Fold(T[o], d)) = Put(T, D, o, Fold(T[o], d))
        BY TableView DEF T, D
      <3> QED  BY <3>1, <3>2, <3>3, Zenon
    <2>3. [x \in AcceptedOrigins |-> recordedOperation(journal, CHOOSE q \in RequestsOf(x) : TRUE)]' = Table!With(o, Fold(T[o], d))
      BY <1>9, TableAfter DEF T, D
    <2>4. (\E m \in 1 .. Position : journal[m].type = "EffectDied")' = TRUE
      BY <1>9, Zenon DEF HasDied, Position
    <2>5. Table!Die(o)
      BY <2>1, <2>2, <2>3, <2>4, Zenon DEF Table!Die
    <2>6. o \in Origins
      BY <1>4
    <2> QED  BY <2>5, <2>6 DEF TableSteps, Table!LifecycleNext
  <1> QED  BY <1>2, <1>4, <1>7, <1>8, <1>9

\* Scheduling a retry is Retry in the table.
LEMMA TableRetry ==
  ASSUME LogInv, NEW r \in Refs, NEW phase \in {"execution", "cancellation"}, NEW n \in 1 .. MaxAttempt, Retry(r, phase, n)
  PROVE  TableSteps
  <1> DEFINE T == TableOf(journal)
             D == AcceptedIn(journal)
             e == RetryScheduled(r, phase, n)
  <1>0. PICK o : o = journal[r].val
    OBVIOUS
  <1> DEFINE d == RetryScheduled(o, phase, Table!Retries(o, phase) + 1)
  <1>1. Commits(e)
    BY CallersCommit
  <1>2. e.type = "RetryScheduled" /\ e.ref = r /\ e.val = phase /\ e.n = n
    BY DEF RetryScheduled, Record
  <1>3. d.type = e.type /\ d.val = e.val
    BY DEF RetryScheduled, Record
  <1> HIDE DEF e, d, T, D
  <1>4. /\ o \in Origins /\ o \in D
        /\ OpInv(T[o]) /\ ~operationComplete(T[o]) /\ Guard(T[o], e) /\ LifecycleAdmits(T[o], e)
        /\ FrozenIn(journal, o) =>
             \/ e.type \in {"EffectDied", "EffectCancelled", "CancellationOutcome"}
             \/ e.type = "EffectSettled" /\ T[o].cancelled
             \/ e.type = "RetryScheduled" /\ e.val = "cancellation"
        /\ e.type = "EffectDied" => ~HasDied(journal)
        /\ \/ journal' = journal
           \/ /\ TableOf(journal') = Put(T, D, o, Fold(T[o], e))
              /\ HasDied(journal') <=> HasDied(journal) \/ e.type = "EffectDied"
    <2>1. e.type \in LifecycleTypes \ {"EffectRequested"} /\ o = journal[e.ref].val
      BY <1>0, <1>2 DEF LifecycleTypes
    <2> QED  BY <1>1, <2>1, AboutTable DEF T, D
  <1>5. Table!Retries(o, phase) = IF phase = "cancellation" THEN T[o].cleanupRetry ELSE T[o].retry
    BY TableView DEF T
  <1>6. d.n = e.n
    <2>1. n = Table!Retries(o, phase) + 1
      BY <1>2, <1>4, <1>5 DEF Guard
    <2> QED  BY <1>2, <2>1 DEF d, RetryScheduled, Record
  <1>7. Fold(T[o], e) = Fold(T[o], d)
    BY <1>3, <1>6, FoldSame
  <1>8. CASE journal' = journal
    BY <1>8, TableStutters
  <1>9. CASE TableOf(journal') = Put(T, D, o, Fold(T[o], d)) /\ (HasDied(journal') <=> HasDied(journal))
    <2>1. Table!AdmitsRetry(o, phase)
      <3>1. CASE phase = "cancellation"
        <4>1. cleanupRunnable(T[o])
          BY <1>2, <1>4, <3>1 DEF Guard, cleanupRunnable
        <4> QED  BY <1>4, <3>1, <4>1, TableView DEF T, D
      <3>2. CASE phase = "execution"
        <4>1. ~T[o].cancelled /\ ~FrozenIn(journal, o)
          BY <1>2, <1>4, <3>2 DEF Guard
        <4> QED  BY <1>4, <3>2, <4>1, TableView DEF T, D
      <3> QED  BY <3>1, <3>2
    <2>2. Table!With(o, Fold(T[o], d)) = Table!Folded(o, Table!RetryScheduled(o, phase, Table!Retries(o, phase) + 1))
      <3>1. Table!RetryScheduled(o, phase, Table!Retries(o, phase) + 1) = d
        BY DEF d, Table!RetryScheduled, RetryScheduled, Table!Record, Record
      <3>2. Table!Folded(o, d) = Put(T, D, o, Fold(T[o], d))
        BY TableView DEF T, D
      <3>3. Table!With(o, Fold(T[o], d)) = Put(T, D, o, Fold(T[o], d))
        BY TableView DEF T, D
      <3> QED  BY <3>1, <3>2, <3>3, Zenon
    <2>3. [x \in AcceptedOrigins |-> recordedOperation(journal, CHOOSE q \in RequestsOf(x) : TRUE)]' = Table!With(o, Fold(T[o], d))
      BY <1>9, TableAfter DEF T, D
    <2>4. UNCHANGED (\E m \in 1 .. Position : journal[m].type = "EffectDied")
      BY <1>9, DefectAfter
    <2>5. Table!Retry(o, phase)
      BY <2>1, <2>2, <2>3, <2>4, Zenon DEF Table!Retry
    <2>6. o \in Origins
      BY <1>4
    <2> QED  BY <2>5, <2>6 DEF TableSteps, Table!LifecycleNext
  <1> QED  BY <1>2, <1>4, <1>7, <1>8, <1>9

\* A cancellation is Cancel in the table.
LEMMA TableCancel ==
  ASSUME LogInv, NEW r \in Refs, Cancel(r)
  PROVE  TableSteps
  <1> DEFINE T == TableOf(journal)
             D == AcceptedIn(journal)
             e == EffectCancelled(r)
  <1>0. PICK o : o = journal[r].val
    OBVIOUS
  <1> DEFINE d == EffectCancelled(o)
  <1>1. Commits(e)
    BY CallersCommit
  <1>2. e.type = "EffectCancelled" /\ e.ref = r /\ e.val = "none"
    BY DEF EffectCancelled, Record
  <1>3. d.type = e.type /\ d.val = e.val /\ d.n = e.n
    BY DEF EffectCancelled, Record
  <1> HIDE DEF e, d, T, D
  <1>4. /\ o \in Origins /\ o \in D
        /\ OpInv(T[o]) /\ ~operationComplete(T[o]) /\ Guard(T[o], e) /\ LifecycleAdmits(T[o], e)
        /\ FrozenIn(journal, o) =>
             \/ e.type \in {"EffectDied", "EffectCancelled", "CancellationOutcome"}
             \/ e.type = "EffectSettled" /\ T[o].cancelled
             \/ e.type = "RetryScheduled" /\ e.val = "cancellation"
        /\ e.type = "EffectDied" => ~HasDied(journal)
        /\ \/ journal' = journal
           \/ /\ TableOf(journal') = Put(T, D, o, Fold(T[o], e))
              /\ HasDied(journal') <=> HasDied(journal) \/ e.type = "EffectDied"
    <2>1. e.type \in LifecycleTypes \ {"EffectRequested"} /\ o = journal[e.ref].val
      BY <1>0, <1>2 DEF LifecycleTypes
    <2> QED  BY <1>1, <2>1, AboutTable DEF T, D
  <1>7. Fold(T[o], e) = Fold(T[o], d)
    BY <1>3, FoldSame
  <1>8. CASE journal' = journal
    BY <1>8, TableStutters
  <1>9. CASE TableOf(journal') = Put(T, D, o, Fold(T[o], d)) /\ (HasDied(journal') <=> HasDied(journal))
    <2>1. Table!AdmitsCancellation(o)
      <3>1. ~T[o].cancelled
        BY <1>2, <1>4, AdmitsIs
      <3>2. HasDied(journal) => \E x \in D : cleanupRunnable(T[x])
        <4>1. JournalInv(journal) /\ Rests(frame, journal)
          BY <1>1, CommitTable
        <4>2. HasDied(journal) => \E x \in Active(frame) : cleanupRunnable(frame.ops[x])
          BY <4>1 DEF Cancel, Rests, Mirrors, Names
        <4>3. \A x \in Active(frame) : Requested(journal, x) /\ frame.ops[x] = recordedOperation(journal, x)
          BY <4>1 DEF Rests, Mirrors
        <4>4. \A x : Requested(journal, x) => journal[x].val \in D /\ T[journal[x].val] = recordedOperation(journal, x)
          BY <4>1, TableHolds DEF T, D
        <4> QED  BY <4>2, <4>3, <4>4
      <3> QED  BY <1>4, <3>1, <3>2, TableView DEF T, D
    <2>2. Table!With(o, Fold(T[o], d)) = Table!Folded(o, Table!EffectCancelled(o))
      <3>1. Table!EffectCancelled(o) = d
        BY DEF d, Table!EffectCancelled, EffectCancelled, Table!Record, Record
      <3>2. Table!Folded(o, d) = Put(T, D, o, Fold(T[o], d))
        BY TableView DEF T, D
      <3>3. Table!With(o, Fold(T[o], d)) = Put(T, D, o, Fold(T[o], d))
        BY TableView DEF T, D
      <3> QED  BY <3>1, <3>2, <3>3, Zenon
    <2>3. [x \in AcceptedOrigins |-> recordedOperation(journal, CHOOSE q \in RequestsOf(x) : TRUE)]' = Table!With(o, Fold(T[o], d))
      BY <1>9, TableAfter DEF T, D
    <2>4. UNCHANGED (\E m \in 1 .. Position : journal[m].type = "EffectDied")
      BY <1>9, DefectAfter
    <2>5. Table!Cancel(o)
      BY <2>1, <2>2, <2>3, <2>4, Zenon DEF Table!Cancel
    <2>6. o \in Origins
      BY <1>4
    <2> QED  BY <2>5, <2>6 DEF TableSteps, Table!LifecycleNext
  <1> QED  BY <1>2, <1>4, <1>7, <1>8, <1>9

\* The outcome of a cleanup is CleanUp in the table.
LEMMA TableCleanUp ==
  ASSUME LogInv, NEW r \in Refs, NEW k \in CleanupOutcomes, CleanUp(r, k)
  PROVE  TableSteps
  <1> DEFINE T == TableOf(journal)
             D == AcceptedIn(journal)
             e == CancellationOutcome(r, k)
  <1>0. PICK o : o = journal[r].val
    OBVIOUS
  <1> DEFINE d == CancellationOutcome(o, k)
  <1>1. Commits(e)
    BY CallersCommit
  <1>2. e.type = "CancellationOutcome" /\ e.ref = r /\ e.val = k
    BY DEF CancellationOutcome, Record
  <1>3. d.type = e.type /\ d.val = e.val /\ d.n = e.n
    BY DEF CancellationOutcome, Record
  <1> HIDE DEF e, d, T, D
  <1>4. /\ o \in Origins /\ o \in D
        /\ OpInv(T[o]) /\ ~operationComplete(T[o]) /\ Guard(T[o], e) /\ LifecycleAdmits(T[o], e)
        /\ FrozenIn(journal, o) =>
             \/ e.type \in {"EffectDied", "EffectCancelled", "CancellationOutcome"}
             \/ e.type = "EffectSettled" /\ T[o].cancelled
             \/ e.type = "RetryScheduled" /\ e.val = "cancellation"
        /\ e.type = "EffectDied" => ~HasDied(journal)
        /\ \/ journal' = journal
           \/ /\ TableOf(journal') = Put(T, D, o, Fold(T[o], e))
              /\ HasDied(journal') <=> HasDied(journal) \/ e.type = "EffectDied"
    <2>1. e.type \in LifecycleTypes \ {"EffectRequested"} /\ o = journal[e.ref].val
      BY <1>0, <1>2 DEF LifecycleTypes
    <2> QED  BY <1>1, <2>1, AboutTable DEF T, D
  <1>7. Fold(T[o], e) = Fold(T[o], d)
    BY <1>3, FoldSame
  <1>8. CASE journal' = journal
    BY <1>8, TableStutters
  <1>9. CASE TableOf(journal') = Put(T, D, o, Fold(T[o], d)) /\ (HasDied(journal') <=> HasDied(journal))
    <2>1. Table!AdmitsCleanup(o)
      <3>1. cleanupRunnable(T[o])
        BY <1>2, <1>4 DEF Guard, cleanupRunnable
      <3> QED  BY <1>4, <3>1, TableView DEF T, D
    <2>2. Table!With(o, Fold(T[o], d)) = Table!Folded(o, Table!CancellationOutcome(o, k))
      <3>1. Table!CancellationOutcome(o, k) = d
        BY DEF d, Table!CancellationOutcome, CancellationOutcome, Table!Record, Record
      <3>2. Table!Folded(o, d) = Put(T, D, o, Fold(T[o], d))
        BY TableView DEF T, D
      <3>3. Table!With(o, Fold(T[o], d)) = Put(T, D, o, Fold(T[o], d))
        BY TableView DEF T, D
      <3> QED  BY <3>1, <3>2, <3>3, Zenon
    <2>3. [x \in AcceptedOrigins |-> recordedOperation(journal, CHOOSE q \in RequestsOf(x) : TRUE)]' = Table!With(o, Fold(T[o], d))
      BY <1>9, TableAfter DEF T, D
    <2>4. UNCHANGED (\E m \in 1 .. Position : journal[m].type = "EffectDied")
      BY <1>9, DefectAfter
    <2>5. Table!CleanUp(o, k)
      BY <2>1, <2>2, <2>3, <2>4, Zenon DEF Table!CleanUp
    <2>6. k \in Table!CleanupOutcomes
      BY SameOperators
    <2> QED  BY <1>4, <2>5, <2>6 DEF TableSteps, Table!LifecycleNext
  <1> QED  BY <1>2, <1>4, <1>7, <1>8, <1>9

\* Every step of the log is a step of the table or leaves it alone.
LEMMA TableSimulates ==
  ASSUME LogInv, [Next]_vars
  PROVE  TableSteps
  <1>1. CASE \E o \in Origins : Accept(o)
    BY <1>1, TableRequest
  <1>2. CASE \E r \in Refs, s \in Settlements : Settle(r, s)
    BY <1>2, TableSettle
  <1>3. CASE \E r \in Refs : Die(r)
    BY <1>3, TableDie
  <1>4. CASE \E r \in Refs, phase \in {"execution", "cancellation"}, n \in 1 .. MaxAttempt : Retry(r, phase, n)
    BY <1>4, TableRetry
  <1>5. CASE \E r \in Refs : Cancel(r)
    BY <1>5, TableCancel
  <1>6. CASE \E r \in Refs, k \in CleanupOutcomes : CleanUp(r, k)
    BY <1>6, TableCleanUp
  <1>7. CASE \E r \in Refs, res \in PromiseResults : Resolve(r, res)
    BY <1>7, TableResolve
  <1>8. CASE Dispatch
    <2>1. Commits(DomainEvent)
      BY <1>8, CallersCommit
    <2>2. DomainEvent.type = "DomainEvent"
      BY DEF DomainEvent, Record
    <2> DEFINE e == DomainEvent
    <2> HIDE DEF e
    <2>3. /\ Admissible(e, journal) /\ JournalInv(journal) /\ Follows(e, journal)
          /\ \/ journal' = journal
             \/ /\ TableOf(journal') = TableOf(Append(journal, e))
                /\ HasDied(journal') <=> HasDied(Append(journal, e))
      BY <2>1, CommitTable DEF Commits, e
    <2>4. TableOf(Append(journal, e)) = TableOf(journal) /\ (HasDied(Append(journal, e)) <=> HasDied(journal))
      BY <2>2, <2>3, TableStep DEF LifecycleTypes, e
    <2>5. TableOf(journal') = TableOf(journal) /\ (HasDied(journal') <=> HasDied(journal))
      BY <2>3, <2>4
    <2> QED  BY <2>5, TableStutters
  <1>9. CASE Checkpoint \/ Recreate \/ UNCHANGED vars
    <2>1. journal' = journal
      BY <1>9 DEF Checkpoint, Recreate, vars
    <2> QED  BY <2>1, TableStutters
  <1> QED  BY <1>1, <1>2, <1>3, <1>4, <1>5, <1>6, <1>7, <1>8, <1>9 DEF Next

\* LifecycleOfLog for every set of invocations: the log of replay.ts, whatever it releases,
\* checkpoints, loses in a crash or writes without an acknowledgement, moves the operations
\* only as the table that never forgets one (Lifecycle) would.
THEOREM LogImplementsTable == Spec => LifecycleOfLog
  <1>1. Init => Table!LifecycleInit
    <2> SUFFICES ASSUME Init PROVE Table!LifecycleInit
      OBVIOUS
    <2>1. journal = <<>> /\ Len(journal) = 0
      BY DEF Init
    <2>2. AcceptedOrigins = {} /\ ~\E n \in 1 .. Position : journal[n].type = "EffectDied"
      BY <2>1 DEF AcceptedOrigins, RequestsOf, Position
    <2> QED  BY <2>2 DEF Table!LifecycleInit
  <1>2. LogInv /\ [Next]_vars => [Table!LifecycleNext]_(Table!lifecycleVars)
    BY TableSimulates DEF TableSteps
  <1> QED  BY <1>1, <1>2, LogIsConsistent, PTL DEF Spec, LifecycleOfLog, Table!LifecycleSpec

-----------------------------------------------------------------------------
(* What the journal's records say of an operation *)

\* Records that end the execution part of an operation.
Ends(e) ==
    \/ e.type \in {"PromiseSettled", "EffectDied"}
    \/ e.type = "EffectSettled" /\ settlementCompletesExecution(e.val)

WasCancelled(j, r) == \E n \in 1 .. Len(j) : j[n].ref = r /\ j[n].type = "EffectCancelled"
WasCleaned(j, r) ==
    \E n \in 1 .. Len(j) : j[n].ref = r /\ j[n].type = "CancellationOutcome" /\ j[n].val = "fulfilled"
HasEnded(j, r) == \E n \in 1 .. Len(j) : j[n].ref = r /\ Ends(j[n])

\* The execution part is over.
Finished(op) ==
    \/ op.outcome = "died" \/ op.promise # "none"
    \/ settlementCompletesExecution(operationSettlement(op))

\* The folded operation remembers exactly which kinds of record it was folded from.
Remembers(op, j, r) ==
    /\ op.cancelled <=> WasCancelled(j, r)
    /\ cleanupSucceeded(op) <=> WasCleaned(j, r)
    /\ Finished(op) <=> HasEnded(j, r)

\* Every operation remembers, and every record is about a position of the journal.
HistoryInv(j) ==
    /\ \A n \in 1 .. Len(j) : j[n].type \in LifecycleTypes => j[n].ref \in 1 .. Len(j)
    /\ \A r \in 1 .. Len(j) : Requested(j, r) => Remembers(recordedOperation(j, r), j, r)

\* One record is remembered by the fold.
LEMMA FoldMarks ==
  ASSUME NEW op, NEW e, OpInv(op), ~operationComplete(op), Fits(e),
         e.type \in LifecycleTypes \ {"EffectRequested"}, Guard(op, e), NEW new, new = Fold(op, e)
  PROVE  /\ new.cancelled <=> op.cancelled \/ e.type = "EffectCancelled"
         /\ cleanupSucceeded(new) <=>
              cleanupSucceeded(op) \/ (e.type = "CancellationOutcome" /\ e.val = "fulfilled")
         /\ Finished(new) <=> Finished(op) \/ Ends(e)
  <1> USE DEF Fits, Guard, OpInv, IsOp, operationComplete, operationSettlement, settlementCompletesExecution,
          cleanupSucceeded, Settlements, PromiseResults, CleanupOutcomes, Finished, Ends
  <1>1. CASE e.type = "EffectSettled"
    <2>1. new = [op EXCEPT !.outcome = e.val]
      BY <1>1, FoldIs
    <2> QED  BY <1>1, <2>1
  <1>2. CASE e.type = "EffectDied"
    <2>1. new = [op EXCEPT !.outcome = "died", !.deferred = operationSettlement(op)]
      BY <1>2, FoldIs
    <2>2. new.outcome = "died" /\ new.cancelled = op.cancelled /\ new.cleanup = op.cleanup
      BY <2>1
    <2> QED  BY <1>2, <2>2
  <1>3. CASE e.type = "PromiseSettled"
    <2>1. new = [op EXCEPT !.promise = e.val]
      BY <1>3, FoldIs
    <2> QED  BY <1>3, <2>1
  <1>4. CASE e.type = "EffectCancelled"
    <2>1. new = [op EXCEPT !.cancelled = TRUE]
      BY <1>4, FoldIs
    <2>2. /\ new.outcome = op.outcome /\ new.deferred = op.deferred /\ new.promise = op.promise
          /\ new.cancelled = TRUE /\ new.cleanup = op.cleanup
      BY <2>1
    <2> QED  BY <1>4, <2>2
  <1>5. CASE e.type = "CancellationOutcome"
    <2>1. new = [op EXCEPT !.cleanup = e.val]
      BY <1>5, FoldIs
    <2> QED  BY <1>5, <2>1
  <1>6. CASE e.type = "RetryScheduled" /\ e.val = "execution"
    <2>1. new = [op EXCEPT !.retry = e.n]
      BY <1>6, FoldIs
    <2> QED  BY <1>6, <2>1
  <1>7. CASE e.type = "RetryScheduled" /\ e.val = "cancellation"
    <2>1. new = [op EXCEPT !.cleanupRetry = e.n]
      BY <1>7, FoldIs
    <2> QED  BY <1>7, <2>1
  <1> QED  BY <1>1, <1>2, <1>3, <1>4, <1>5, <1>6, <1>7 DEF LifecycleTypes

\* An admissible record keeps what every operation remembers.
LEMMA HistoryStep ==
  ASSUME NEW j, NEW e, JournalInv(j), HistoryInv(j), Follows(e, j), Admissible(e, j)
  PROVE  HistoryInv(Append(j, e))
  <1> DEFINE k == Append(j, e)
  <1>0. j \in Seq(EventRecord) /\ e \in EventRecord
    BY DEF JournalInv, Follows, Fits
  <1>1. /\ Len(j) \in Nat /\ Len(k) = Len(j) + 1
        /\ k[Len(j) + 1] = e /\ \A n \in 1 .. Len(j) : k[n] = j[n]
    BY <1>0, AppendFacts
  <1>2. /\ \A r : Requested(k, r) => Requested(j, r) \/ (r = Len(j) + 1 /\ e.type = "EffectRequested")
        /\ \A r : Requested(j, r) => r \in 1 .. Len(j)
    BY <1>0, RequestedFacts
  <1>3. \A r \in 1 .. Len(j) : recordedOperation(k, r) = RecordedNext(recordedOperation(j, r), e, r)
    BY <1>0, RecordedAppend
  <1>4. recordedOperation(k, Len(j) + 1) = NewOperation(e.val)
    BY <1>0, RecordedNew
  <1> HIDE DEF k
  <1>5. e.type = "EffectRequested" => e.ref = Len(j) + 1
    BY RequestIs DEF Follows
  <1>6. \A n \in 1 .. Len(k) : k[n].type \in LifecycleTypes => k[n].ref \in 1 .. Len(k)
    <2>1. e.type \in LifecycleTypes => e.ref \in 1 .. Len(k)
      BY <1>1, <1>2, <1>5 DEF Admissible
    <2>2. \A n \in 1 .. Len(j) : j[n].type \in LifecycleTypes => j[n].ref \in 1 .. Len(j)
      BY DEF HistoryInv
    <2> QED  BY <1>1, <2>1, <2>2
  <1>7. ASSUME NEW r
        PROVE  /\ WasCancelled(k, r) <=> WasCancelled(j, r) \/ (e.ref = r /\ e.type = "EffectCancelled")
               /\ WasCleaned(k, r) <=>
                    WasCleaned(j, r) \/ (e.ref = r /\ e.type = "CancellationOutcome" /\ e.val = "fulfilled")
               /\ HasEnded(k, r) <=> HasEnded(j, r) \/ (e.ref = r /\ Ends(e))
    BY <1>1 DEF WasCancelled, WasCleaned, HasEnded
  <1>8. ASSUME NEW r, Requested(j, r) PROVE Remembers(recordedOperation(k, r), k, r)
    <2> DEFINE op == recordedOperation(j, r)
    <2>1. r \in 1 .. Len(j) /\ Remembers(op, j, r) /\ OpInv(op)
      BY <1>2, <1>8 DEF HistoryInv, JournalInv
    <2>2. CASE e.ref = r /\ e.type \in LifecycleTypes
      <3>1. e.type # "EffectRequested"
        BY <1>1, <1>5, <2>1, <2>2
      <3>2. ~operationComplete(op) /\ Guard(op, e) /\ Fits(e)
        BY <2>2, <3>1 DEF Admissible, Complete, Follows
      <3>3. recordedOperation(k, r) = Fold(op, e)
        BY <1>3, <2>1, <2>2 DEF RecordedNext
      <3> HIDE DEF op
      <3>4. /\ Fold(op, e).cancelled <=> op.cancelled \/ e.type = "EffectCancelled"
            /\ cleanupSucceeded(Fold(op, e)) <=>
                 cleanupSucceeded(op) \/ (e.type = "CancellationOutcome" /\ e.val = "fulfilled")
            /\ Finished(Fold(op, e)) <=> Finished(op) \/ Ends(e)
        BY <2>1, <2>2, <3>1, <3>2, FoldMarks
      <3> QED  BY <1>7, <2>1, <2>2, <3>3, <3>4 DEF Remembers
    <2>3. CASE ~(e.ref = r /\ e.type \in LifecycleTypes)
      <3>1. recordedOperation(k, r) = op
        BY <1>3, <2>1, <2>3 DEF RecordedNext
      <3>2. ~(e.ref = r /\ e.type = "EffectCancelled") /\ ~(e.ref = r /\ e.type = "CancellationOutcome")
            /\ ~(e.ref = r /\ Ends(e))
        BY <2>3 DEF Ends, LifecycleTypes
      <3> HIDE DEF op
      <3> QED  BY <1>7, <2>1, <3>1, <3>2 DEF Remembers
    <2> QED  BY <2>2, <2>3
  <1>9. ASSUME e.type = "EffectRequested"
        PROVE  Remembers(recordedOperation(k, Len(j) + 1), k, Len(j) + 1)
    <2>1. ASSUME NEW n \in 1 .. Len(k), k[n].ref = Len(j) + 1, k[n].type \in LifecycleTypes
          PROVE  k[n].type = "EffectRequested"
      <3>1. n \in 1 .. Len(j) => k[n].ref \in 1 .. Len(j)
        BY <1>1, <2>1 DEF HistoryInv
      <3> QED  BY <1>1, <1>9, <2>1, <3>1
    <2>2. ~WasCancelled(k, Len(j) + 1) /\ ~WasCleaned(k, Len(j) + 1) /\ ~HasEnded(k, Len(j) + 1)
      BY <2>1 DEF WasCancelled, WasCleaned, HasEnded, Ends, LifecycleTypes
    <2>3. LET op == NewOperation(e.val) IN ~op.cancelled /\ ~cleanupSucceeded(op) /\ ~Finished(op)
      BY DEF NewOperation, cleanupSucceeded, Finished, settlementCompletesExecution, operationSettlement, Settlements
    <2> QED  BY <1>4, <2>2, <2>3 DEF Remembers
  <1>10. \A r \in 1 .. Len(k) : Requested(k, r) => Remembers(recordedOperation(k, r), k, r)
    BY <1>2, <1>8, <1>9
  <1> QED  BY <1>6, <1>10 DEF HistoryInv, k

\* A batch keeps what every record of it keeps.
LEMMA HistoryBatch ==
  ASSUME NEW j, NEW e, NEW i, JournalInv(j), HistoryInv(j), Follows(e, j), Admissible(e, j),
         \/ i = Append(j, e)
         \/ \E c \in EventRecord : i = Append(Append(j, e), c) /\ c.type \in {"Callback", "MessageDelivered"}
  PROVE  HistoryInv(i)
  <1> DEFINE k == Append(j, e)
  <1>1. JournalInv(k) /\ HistoryInv(k)
    BY JournalStep, HistoryStep
  <1> HIDE DEF k
  <1>2. CASE i = k
    BY <1>1, <1>2
  <1>3. ASSUME NEW c \in EventRecord, i = Append(k, c), c.type \in {"Callback", "MessageDelivered"}
        PROVE  HistoryInv(i)
    <2>1. Follows(c, k) /\ Admissible(c, k)
      BY <1>3 DEF Follows, Fits, Admissible, LifecycleTypes
    <2>2. HistoryInv(Append(k, c))
      BY <1>1, <2>1, HistoryStep
    <2> QED  BY <1>3, <2>2
  <1> QED  BY <1>2, <1>3 DEF k

\* Every step of the log is the commit of one record, or leaves the journal alone.
LEMMA StepIs ==
  ASSUME LogInv, [Next]_vars
  PROVE  journal' = journal \/ \E e : Commits(e) /\ (e.type = "EffectDied" => e = EffectDied(e.ref))
  <1>0. /\ \A r : EffectDied(r).ref = r
        /\ \A n, o : EffectRequested(n, o).type # "EffectDied"
        /\ \A r, s : EffectSettled(r, s).type # "EffectDied" /\ PromiseSettled(r, s).type # "EffectDied"
        /\ \A r, phase, n : RetryScheduled(r, phase, n).type # "EffectDied"
        /\ \A r, k : EffectCancelled(r).type # "EffectDied" /\ CancellationOutcome(r, k).type # "EffectDied"
        /\ DomainEvent.type # "EffectDied"
    BY DEF EffectDied, EffectRequested, EffectSettled, PromiseSettled, RetryScheduled, EffectCancelled,
           CancellationOutcome, DomainEvent, Record
  <1>1. CASE \E o \in Origins : Accept(o)
    BY <1>0, <1>1, CallersCommit
  <1>2. CASE \E r \in Refs, s \in Settlements : Settle(r, s)
    BY <1>0, <1>2, CallersCommit
  <1>3. CASE \E r \in Refs : Die(r)
    BY <1>0, <1>3, CallersCommit
  <1>4. CASE \E r \in Refs, phase \in {"execution", "cancellation"}, n \in 1 .. MaxAttempt : Retry(r, phase, n)
    BY <1>0, <1>4, CallersCommit
  <1>5. CASE \E r \in Refs : Cancel(r)
    BY <1>0, <1>5, CallersCommit
  <1>6. CASE \E r \in Refs, k \in CleanupOutcomes : CleanUp(r, k)
    BY <1>0, <1>6, CallersCommit
  <1>7. CASE \E r \in Refs, res \in PromiseResults : Resolve(r, res)
    BY <1>0, <1>7, CallersCommit
  <1>8. CASE Dispatch
    BY <1>0, <1>8, CallersCommit
  <1>9. CASE Checkpoint \/ Recreate \/ UNCHANGED vars
    BY <1>9 DEF Checkpoint, Recreate, vars
  <1> QED  BY <1>1, <1>2, <1>3, <1>4, <1>5, <1>6, <1>7, <1>8, <1>9 DEF Next

\* A commit leaves the journal alone, appends its record, or its record and a follow-up.
LEMMA CommitJournal ==
  ASSUME LogInv, NEW e, Commits(e)
  PROVE  /\ Admissible(e, journal) /\ JournalInv(journal) /\ Follows(e, journal)
         /\ \/ journal' = journal
            \/ journal' = Append(journal, e)
            \/ \E c \in EventRecord : journal' = Append(Append(journal, e), c) /\ c.type \in {"Callback", "MessageDelivered"}
  <1> DEFINE i == journal \o Batch(e)
  <1>1. ~failed /\ Admits(e) /\ Prepared(e).ok /\ Follows(e, journal)
    BY DEF Commits, commit
  <1>2. /\ Admissible(e, journal)
        /\ \/ i = Append(journal, e)
           \/ \E c \in EventRecord : i = Append(Append(journal, e), c) /\ c.type \in {"Callback", "MessageDelivered"}
    BY <1>1, PreparedStep DEF Commits
  <1>3. JournalInv(journal)
    BY DEF LogInv, Durable
  <1>4. journal' = i \/ journal' = journal
    BY DEF Commits, commit, Persist
  <1> HIDE DEF i
  <1> QED  BY <1>1, <1>2, <1>3, <1>4

LogHistory == HistoryInv(journal)

\* The operation the engine folds (operation.ts) remembers whether the journal holds a
\* cancellation, a successful cleanup and an end of it, so that the two readings of the journal,
\* the engine's and lookupInvocation's, have the same facts to decide on.
THEOREM HistoryIsKept == Spec => []LogHistory
  <1>1. Init => LogHistory
    BY DEF Init, LogHistory, HistoryInv
  <1>2. LogInv /\ LogHistory /\ [Next]_vars => LogHistory'
    <2> SUFFICES ASSUME LogInv, HistoryInv(journal), [Next]_vars PROVE HistoryInv(journal')
      BY DEF LogHistory
    <2>1. CASE journal' = journal
      BY <2>1
    <2>2. ASSUME NEW e, Commits(e) PROVE HistoryInv(journal')
      <3>1. /\ Admissible(e, journal) /\ JournalInv(journal) /\ Follows(e, journal)
            /\ \/ journal' = journal
               \/ journal' = Append(journal, e)
               \/ \E c \in EventRecord : journal' = Append(Append(journal, e), c) /\ c.type \in {"Callback", "MessageDelivered"}
        BY <2>2, CommitJournal
      <3>2. CASE journal' = journal
        BY <3>2
      <3>3. CASE journal' # journal
        BY <3>1, <3>3, HistoryBatch
      <3> QED  BY <3>2, <3>3
    <2> QED  BY <2>1, <2>2, StepIs
  <1> QED  BY <1>1, <1>2, LogIsConsistent, PTL DEF Spec

\* The journal's own reading of an invocation whose only request is record r.
LEMMA LookupIs ==
  ASSUME NEW j, NEW o, NEW r,
         {x \in 1 .. Len(j) : j[x].type = "EffectRequested" /\ j[x].val = o} = {r}
  PROVE  lookupInvocation(j, o) = "pending" <=>
           ~(IF WasCancelled(j, r) THEN WasCleaned(j, r) ELSE HasEnded(j, r))
  <1>1. lookupInvocation(j, o) =
          IF (IF WasCancelled(j, r) THEN WasCleaned(j, r) ELSE HasEnded(j, r)) THEN "settled" ELSE "pending"
    BY DEF lookupInvocation, WasCancelled, WasCleaned, HasEnded, Ends
  <1> QED  BY <1>1

\* LookupAgrees for every set of invocations: what lookupInvocation (journal/invocation.ts)
\* reads as pending, by scanning the journal's records, is exactly what the running engine still
\* holds, and no invocation is requested twice.
THEOREM LookupIsExact == Spec => []LookupAgrees
  <1>1. ASSUME LogInv, LogHistory PROVE LookupAgrees
    <2> SUFFICES ASSUME ~failed, NEW o \in Origins
                 PROVE  LET refs == {r \in 1 .. Position : journal[r] = EffectRequested(r, o)}
                        IN  /\ Cardinality(refs) <= 1
                            /\ (lookupInvocation(journal, o) = "pending") <=> (refs \cap Active(frame) # {})
      BY DEF LookupAgrees
    <2> DEFINE refs == {r \in 1 .. Position : journal[r] = EffectRequested(r, o)}
               found == {x \in 1 .. Len(journal) : journal[x].type = "EffectRequested" /\ journal[x].val = o}
    <2>1. JournalInv(journal) /\ Rests(frame, journal)
      BY <1>1 DEF LogInv, Durable
    <2>2. refs = found
      <3>1. \A r \in refs : journal[r].type = "EffectRequested" /\ journal[r].val = o
        BY RequestIs
      <3>2. \A r \in found : journal[r] = EffectRequested(r, o)
        BY <2>1 DEF JournalInv, Requested
      <3> QED  BY <3>1, <3>2 DEF Position
    <2>3. \A r, s \in found : r = s
      BY <2>1 DEF JournalInv, Requested
    <2>4. CASE found = {}
      <3>1. Cardinality(refs) = 0
        BY <2>2, <2>4, FS_EmptySet
      <3>2. lookupInvocation(journal, o) = "absent"
        BY <2>4 DEF lookupInvocation
      <3> QED  BY <2>2, <2>4, <3>1, <3>2
    <2>5. ASSUME NEW r \in found
          PROVE  /\ Cardinality(refs) <= 1
                 /\ (lookupInvocation(journal, o) = "pending") <=> (refs \cap Active(frame) # {})
      <3>1. found = {r}
        BY <2>3, <2>5
      <3>2. Cardinality(refs) = 1
        BY <2>2, <3>1, FS_Singleton
      <3>3. lookupInvocation(journal, o) = "pending" <=>
              ~(IF WasCancelled(journal, r) THEN WasCleaned(journal, r) ELSE HasEnded(journal, r))
        BY <3>1, LookupIs
      <3>4. Requested(journal, r) /\ r \in 1 .. Len(journal)
        BY <2>5 DEF Requested
      <3>5. Remembers(recordedOperation(journal, r), journal, r)
        BY <1>1, <3>4 DEF LogHistory, HistoryInv
      <3>6. Complete(journal, r) <=>
              IF WasCancelled(journal, r) THEN WasCleaned(journal, r) ELSE HasEnded(journal, r)
        BY <3>5 DEF Complete, operationComplete, Remembers, Finished
      <3>7. r \in Active(frame) <=> ~Complete(journal, r)
        BY <2>1, <3>4 DEF Rests, Mirrors
      <3> HIDE DEF refs, found
      <3> QED  BY <2>2, <3>1, <3>2, <3>3, <3>6, <3>7
    <2> HIDE DEF found
    <2> QED  BY <2>4, <2>5
  <1> QED  BY <1>1, LogIsConsistent, HistoryIsKept, PTL

-----------------------------------------------------------------------------
(* Retained inputs *)

\* Journal i is j with the batch of record e.
Grown(j, e, i) ==
    /\ \A r : Requested(i, r) <=> Requested(j, r) \/ (r = Len(j) + 1 /\ e.type = "EffectRequested")
    /\ \A r : Requested(j, r) =>
         i[r] = j[r] /\ recordedOperation(i, r) = RecordedNext(recordedOperation(j, r), e, r)
    /\ e.type = "EffectRequested" =>
         /\ ~Requested(j, Len(j) + 1) /\ e.ref = Len(j) + 1
         /\ recordedOperation(i, Len(j) + 1) = NewOperation(e.val) /\ i[Len(j) + 1].val = e.val
    /\ HasDied(i) <=> HasDied(j) \/ e.type = "EffectDied"

\* A journal grows by a record as Grown says.
LEMMA GrownByOne ==
  ASSUME NEW j, NEW e, JournalInv(j), Follows(e, j)
  PROVE  Grown(j, e, Append(j, e))
  <1> DEFINE k == Append(j, e)
  <1>0. j \in Seq(EventRecord) /\ e \in EventRecord
    BY DEF JournalInv, Follows, Fits
  <1>1. /\ Len(j) \in Nat /\ Len(k) = Len(j) + 1
        /\ k[Len(j) + 1] = e /\ \A n \in 1 .. Len(j) : k[n] = j[n]
    BY <1>0, AppendFacts
  <1>2. \A r : /\ Requested(k, r) => Requested(j, r) \/ (r = Len(j) + 1 /\ e.type = "EffectRequested")
               /\ Requested(j, r) => Requested(k, r) /\ k[r] = j[r] /\ r \in 1 .. Len(j)
    BY <1>0, RequestedFacts
  <1>3. (e.type = "EffectRequested" => Requested(k, Len(j) + 1)) /\ ~Requested(j, Len(j) + 1)
    BY <1>0, RequestedFacts
  <1>4. \A r \in 1 .. Len(j) : recordedOperation(k, r) = RecordedNext(recordedOperation(j, r), e, r)
    BY <1>0, RecordedAppend
  <1>5. recordedOperation(k, Len(j) + 1) = NewOperation(e.val)
    BY <1>0, RecordedNew
  <1>6. e.type = "EffectRequested" => e.ref = Len(j) + 1
    BY RequestIs DEF Follows
  <1> HIDE DEF k
  <1>7. HasDied(k) <=> HasDied(j) \/ e.type = "EffectDied"
    BY <1>1 DEF HasDied
  <1>8. Grown(j, e, k)
    BY <1>1, <1>2, <1>3, <1>4, <1>5, <1>6, <1>7 DEF Grown
  <1> QED  BY <1>8 DEF k

\* A journal grows by a batch as by its first record: the follow-up folds into no operation.
LEMMA GrownByBatch ==
  ASSUME NEW j, NEW e, NEW i, JournalInv(j), Follows(e, j), Admissible(e, j),
         \/ i = Append(j, e)
         \/ \E c \in EventRecord : i = Append(Append(j, e), c) /\ c.type \in {"Callback", "MessageDelivered"}
  PROVE  Grown(j, e, i)
  <1> DEFINE k == Append(j, e)
  <1>1. JournalInv(k) /\ Grown(j, e, k)
    BY JournalStep, GrownByOne
  <1> HIDE DEF k
  <1>2. CASE i = k
    BY <1>1, <1>2
  <1>3. ASSUME NEW c \in EventRecord, i = Append(k, c), c.type \in {"Callback", "MessageDelivered"}
        PROVE  Grown(j, e, i)
    <2>1. Follows(c, k)
      BY <1>3 DEF Follows, Fits
    <2>2. Grown(k, c, i)
      BY <1>1, <1>3, <2>1, GrownByOne
    <2>3. /\ c.type \notin LifecycleTypes
          /\ \A r : Requested(i, r) <=> Requested(k, r)
          /\ \A r : Requested(k, r) => i[r] = k[r] /\ recordedOperation(i, r) = recordedOperation(k, r)
          /\ HasDied(i) <=> HasDied(k)
      BY <1>3, <2>2 DEF Grown, RecordedNext, LifecycleTypes
    <2> QED  BY <1>1, <2>3 DEF Grown
  <1> QED  BY <1>2, <1>3 DEF k

\* No cancelled operation still owes its cleanup.
OwesNone(j) == \A r : Requested(j, r) /\ ~Complete(j, r) => ~recordedOperation(j, r).cancelled

\* Nothing of the operation can need its input again.
Over(op) ==
    \/ cleanupSucceeded(op) \/ op.promise # "none"
    \/ settlementCompletesExecution(operationSettlement(op))

\* The inputs in are those that journal j still needs.
InputInv(j, in) ==
    /\ \A r \in in : Requested(j, r)
    /\ \A r : Requested(j, r) =>
         \/ r \in in \/ Over(recordedOperation(j, r))
         \/ /\ HasDied(j) /\ OwesNone(j)
            /\ j[r].val \notin ReplyOrigins /\ ~recordedOperation(j, r).cancelled
    /\ ~HasDied(j) => \A r \in in : ~Complete(j, r)
    /\ OwesNone(j) => \A r \in in : Complete(j, r) => j[r].val \in ReplyOrigins

\* inputChanges, with the journal in the place of the frame.
InputsAfter(j, e, i, in, new) ==
    /\ e.type = "EffectRequested" => new = in \cup {e.ref}
    /\ e.type = "EffectDied" =>
         new = IF OwesNone(i) THEN {r \in in : j[r].val \in ReplyOrigins} ELSE in
    /\ e.type = "CancellationOutcome" /\ e.val = "fulfilled" =>
         new = IF HasDied(i) /\ OwesNone(i) THEN {r \in in : j[r].val \in ReplyOrigins} ELSE in \ {e.ref}
    /\ e.type \in {"PromiseSettled", "EffectSettled"} =>
         new = IF \/ ~Complete(i, e.ref) /\ recordedOperation(i, e.ref).cancelled
                  \/ e.type = "EffectSettled" /\ e.val = "promise"
               THEN in ELSE in \ {e.ref}
    /\ \/ e.type \in {"RetryScheduled", "EffectCancelled", "DomainEvent"}
       \/ e.type = "CancellationOutcome" /\ e.val # "fulfilled"
       => new = in

\* What a record makes of an unfinished operation, for its input.
LEMMA FoldNeeds ==
  ASSUME NEW op, NEW e, OpInv(op), ~operationComplete(op), Fits(e),
         e.type \in LifecycleTypes \ {"EffectRequested"}, Guard(op, e), NEW new, new = Fold(op, e)
  PROVE  /\ Over(op) => Over(new)
         /\ new.cancelled <=> op.cancelled \/ e.type = "EffectCancelled"
         /\ e.type = "CancellationOutcome" /\ e.val = "fulfilled" => Over(new)
         /\ e.type \in {"PromiseSettled", "EffectSettled"} /\ ~(e.type = "EffectSettled" /\ e.val = "promise")
              => Over(new)
         /\ operationComplete(new) =>
              \/ e.type = "EffectDied"
              \/ e.type = "CancellationOutcome" /\ e.val = "fulfilled"
              \/ /\ e.type \in {"PromiseSettled", "EffectSettled"} /\ ~op.cancelled
                 /\ ~(e.type = "EffectSettled" /\ e.val = "promise")
         /\ e.type \in {"PromiseSettled", "EffectSettled"} /\ op.cancelled => ~operationComplete(new)
  <1>0. /\ new.cancelled <=> op.cancelled \/ e.type = "EffectCancelled"
        /\ cleanupSucceeded(new) <=>
             cleanupSucceeded(op) \/ (e.type = "CancellationOutcome" /\ e.val = "fulfilled")
        /\ Finished(new) <=> Finished(op) \/ Ends(e)
    BY FoldMarks
  <1> USE DEF Fits, Guard, OpInv, IsOp, operationComplete, operationSettlement, settlementCompletesExecution,
          cleanupSucceeded, Settlements, PromiseResults, CleanupOutcomes, Over
  <1>1. CASE e.type = "EffectSettled"
    <2>1. new = [op EXCEPT !.outcome = e.val]
      BY <1>1, FoldIs
    <2> QED  BY <1>0, <1>1, <2>1
  <1>2. CASE e.type = "EffectDied"
    <2>1. new = [op EXCEPT !.outcome = "died", !.deferred = operationSettlement(op)]
      BY <1>2, FoldIs
    <2>2. /\ new.outcome = "died" /\ new.deferred = operationSettlement(op) /\ new.promise = op.promise
          /\ new.cancelled = op.cancelled /\ new.cleanup = op.cleanup
      BY <2>1
    <2> QED  BY <1>0, <1>2, <2>2
  <1>3. CASE e.type = "PromiseSettled"
    <2>1. new = [op EXCEPT !.promise = e.val]
      BY <1>3, FoldIs
    <2> QED  BY <1>0, <1>3, <2>1
  <1>4. CASE e.type = "EffectCancelled"
    <2>1. new = [op EXCEPT !.cancelled = TRUE]
      BY <1>4, FoldIs
    <2>2. /\ new.outcome = op.outcome /\ new.deferred = op.deferred /\ new.promise = op.promise
          /\ new.cancelled = TRUE /\ new.cleanup = op.cleanup
      BY <2>1
    <2> QED  BY <1>0, <1>4, <2>2
  <1>5. CASE e.type = "CancellationOutcome"
    <2>1. new = [op EXCEPT !.cleanup = e.val]
      BY <1>5, FoldIs
    <2> QED  BY <1>0, <1>5, <2>1
  <1>6. CASE e.type = "RetryScheduled" /\ e.val = "execution"
    <2>1. new = [op EXCEPT !.retry = e.n]
      BY <1>6, FoldIs
    <2> QED  BY <1>0, <1>6, <2>1
  <1>7. CASE e.type = "RetryScheduled" /\ e.val = "cancellation"
    <2>1. new = [op EXCEPT !.cleanupRetry = e.n]
      BY <1>7, FoldIs
    <2> QED  BY <1>0, <1>7, <2>1
  <1> QED  BY <1>1, <1>2, <1>3, <1>4, <1>5, <1>6, <1>7 DEF LifecycleTypes

\* The inputs inputChanges leaves behind are the ones the grown journal needs.
LEMMA InputStep ==
  ASSUME NEW j, NEW e, NEW i, NEW in, NEW new, JournalInv(j), Grown(j, e, i), InputInv(j, in),
         Follows(e, j), Admissible(e, j), e.type \in LifecycleTypes \cup {"DomainEvent"},
         e.type = "EffectCancelled" /\ HasDied(j) => ~OwesNone(j),
         InputsAfter(j, e, i, in, new)
  PROVE  InputInv(i, new)
  <1> DEFINE Op(r) == recordedOperation(j, r)
             New(r) == recordedOperation(i, r)
             q == e.ref
             About == e.type \in LifecycleTypes \ {"EffectRequested"}
  <1>1. \A r : Requested(i, r) <=> Requested(j, r) \/ (r = Len(j) + 1 /\ e.type = "EffectRequested")
    BY DEF Grown
  <1>2. ASSUME NEW r, Requested(j, r), ~(About /\ r = q)
        PROVE  New(r) = Op(r) /\ i[r] = j[r] /\ (Complete(i, r) <=> Complete(j, r))
    <2>1. ~(e.ref = r /\ e.type \in LifecycleTypes)
      BY <1>2 DEF Grown
    <2> QED  BY <1>2, <2>1 DEF Grown, RecordedNext, Complete
  <1>3. ASSUME About
        PROVE  /\ Requested(j, q) /\ ~Complete(j, q) /\ i[q] = j[q]
               /\ Over(Op(q)) => Over(New(q))
               /\ New(q).cancelled <=> Op(q).cancelled \/ e.type = "EffectCancelled"
               /\ e.type = "CancellationOutcome" /\ e.val = "fulfilled" => Over(New(q))
               /\ e.type \in {"PromiseSettled", "EffectSettled"} /\ ~(e.type = "EffectSettled" /\ e.val = "promise")
                    => Over(New(q))
               /\ Complete(i, q) =>
                    \/ e.type = "EffectDied"
                    \/ e.type = "CancellationOutcome" /\ e.val = "fulfilled"
                    \/ /\ e.type \in {"PromiseSettled", "EffectSettled"} /\ ~Op(q).cancelled
                       /\ ~(e.type = "EffectSettled" /\ e.val = "promise")
               /\ e.type \in {"PromiseSettled", "EffectSettled"} /\ Op(q).cancelled => ~Complete(i, q)
               /\ e.type = "EffectDied" => ~Op(q).cancelled
               /\ e.type = "CancellationOutcome" => Op(q).cancelled
    <2>1. Requested(j, q) /\ ~Complete(j, q) /\ Guard(Op(q), e) /\ ~operationComplete(Op(q)) /\ Fits(e)
      BY <1>3 DEF Admissible, Complete, Follows
    <2>2. OpInv(Op(q)) /\ i[q] = j[q] /\ New(q) = Fold(Op(q), e)
      BY <1>3, <2>1 DEF JournalInv, Requested, Grown, RecordedNext
    <2>3. e.type = "EffectDied" => ~Op(q).cancelled
      BY <2>1 DEF Guard
    <2>4. e.type = "CancellationOutcome" => Op(q).cancelled
      BY <2>1 DEF Guard
    <2> DEFINE a == Op(q)
               b == New(q)
    <2>5. /\ Over(a) => Over(b)
          /\ b.cancelled <=> a.cancelled \/ e.type = "EffectCancelled"
          /\ e.type = "CancellationOutcome" /\ e.val = "fulfilled" => Over(b)
          /\ e.type \in {"PromiseSettled", "EffectSettled"} /\ ~(e.type = "EffectSettled" /\ e.val = "promise")
               => Over(b)
          /\ operationComplete(b) =>
               \/ e.type = "EffectDied"
               \/ e.type = "CancellationOutcome" /\ e.val = "fulfilled"
               \/ /\ e.type \in {"PromiseSettled", "EffectSettled"} /\ ~a.cancelled
                  /\ ~(e.type = "EffectSettled" /\ e.val = "promise")
          /\ e.type \in {"PromiseSettled", "EffectSettled"} /\ a.cancelled => ~operationComplete(b)
      <3> HIDE DEF a, b
      <3>1. OpInv(a) /\ ~operationComplete(a) /\ Guard(a, e) /\ b = Fold(a, e) /\ Fits(e)
        BY <2>1, <2>2 DEF a, b
      <3> QED  BY <1>3, <3>1, FoldNeeds
    <2> QED  BY <2>1, <2>2, <2>3, <2>4, <2>5 DEF Complete
  <1>4. /\ \A r \in in : Requested(j, r)
        /\ \A r : Requested(j, r) =>
             \/ r \in in \/ Over(Op(r))
             \/ HasDied(j) /\ OwesNone(j) /\ j[r].val \notin ReplyOrigins /\ ~Op(r).cancelled
        /\ ~HasDied(j) => \A r \in in : ~Complete(j, r)
        /\ OwesNone(j) => \A r \in in : Complete(j, r) => j[r].val \in ReplyOrigins
    BY DEF InputInv
  <1>5. HasDied(i) <=> HasDied(j) \/ e.type = "EffectDied"
    BY DEF Grown
  <1>6. OwesNone(j) <=> \A r : Requested(j, r) /\ ~Complete(j, r) => ~Op(r).cancelled
    BY DEF OwesNone
  <1>7. OwesNone(i) <=> \A r : Requested(i, r) /\ ~Complete(i, r) => ~New(r).cancelled
    BY DEF OwesNone
  <1>8. CASE e.type = "EffectRequested"
    <2>1. ~Requested(j, q) /\ q = Len(j) + 1 /\ New(q) = NewOperation(e.val)
      BY <1>8 DEF Grown
    <2>2. ~New(q).cancelled /\ ~Complete(i, q)
      BY <2>1 DEF NewOperation, Complete, operationComplete, operationSettlement, settlementCompletesExecution, Settlements
    <2>3. new = in \cup {q} /\ (HasDied(i) <=> HasDied(j))
      BY <1>5, <1>8 DEF InputsAfter
    <2>4. OwesNone(i) <=> OwesNone(j)
      BY <1>1, <1>2, <1>6, <1>7, <1>8, <2>1, <2>2
    <2> HIDE DEF q
    <2>5. \A r : Requested(i, r) <=> Requested(j, r) \/ r = q
      BY <1>1, <1>8, <2>1
    <2>6. \A r : Requested(j, r) => New(r) = Op(r) /\ i[r] = j[r] /\ (Complete(i, r) <=> Complete(j, r))
      BY <1>2, <1>8
    <2> HIDE DEF Op, New
    <2>7. \A r \in new : Requested(i, r)
      BY <1>4, <2>3, <2>5
    <2>8. \A r : Requested(i, r) =>
            \/ r \in new \/ Over(New(r))
            \/ HasDied(i) /\ OwesNone(i) /\ i[r].val \notin ReplyOrigins /\ ~New(r).cancelled
      BY <1>4, <2>3, <2>4, <2>5, <2>6
    <2>9. ~HasDied(i) => \A r \in new : ~Complete(i, r)
      BY <1>4, <2>2, <2>3, <2>6
    <2>10. OwesNone(i) => \A r \in new : Complete(i, r) => i[r].val \in ReplyOrigins
      BY <1>4, <2>2, <2>3, <2>4, <2>6
    <2> QED  BY <2>7, <2>8, <2>9, <2>10 DEF InputInv, New
  <1>9. CASE e.type # "EffectRequested"
    <2>1. \A r : Requested(i, r) <=> Requested(j, r)
      BY <1>1, <1>9
    <2>2. new \subseteq in
      BY <1>9 DEF InputsAfter, LifecycleTypes
    <2>3. ASSUME NEW r, Requested(j, r), Over(Op(r)) PROVE Over(New(r))
      BY <1>2, <1>3, <2>3
    <2>4. ASSUME NEW r \in in, r \notin new, ~Over(New(r))
          PROVE  HasDied(i) /\ OwesNone(i) /\ j[r].val \notin ReplyOrigins
      <3>1. e.type \in {"EffectDied", "CancellationOutcome", "PromiseSettled", "EffectSettled"}
        BY <1>9, <2>4 DEF InputsAfter, LifecycleTypes
      <3>2. About
        BY <3>1 DEF LifecycleTypes
      <3>3. CASE e.type = "EffectDied"
        BY <1>5, <2>4, <3>3 DEF InputsAfter
      <3>4. CASE e.type = "CancellationOutcome"
        <4>1. e.val = "fulfilled"
          BY <2>4, <3>4 DEF InputsAfter
        <4>2. r # q
          BY <1>3, <2>4, <3>2, <3>4, <4>1
        <4> QED  BY <2>4, <3>4, <4>1, <4>2 DEF InputsAfter
      <3>5. CASE e.type \in {"PromiseSettled", "EffectSettled"}
        <4>1. r = q /\ ~(e.type = "EffectSettled" /\ e.val = "promise")
          BY <2>4, <3>5 DEF InputsAfter
        <4> QED  BY <1>3, <2>4, <3>2, <3>5, <4>1
      <3> QED  BY <3>1, <3>3, <3>4, <3>5
    <2>5. ASSUME NEW r, Requested(i, r), r \notin new, ~Over(New(r))
          PROVE  HasDied(i) /\ OwesNone(i) /\ i[r].val \notin ReplyOrigins /\ ~New(r).cancelled
      <3>1. Requested(j, r) /\ ~Over(Op(r)) /\ i[r] = j[r]
        BY <1>2, <1>3, <2>1, <2>3, <2>5
      <3>2. CASE r \in in
        <4>1. HasDied(i) /\ OwesNone(i) /\ j[r].val \notin ReplyOrigins
          BY <2>4, <2>5, <3>2
        <4>2. New(r).cancelled => Complete(i, r)
          BY <1>7, <2>5, <4>1
        <4>3. ~New(r).cancelled
          BY <2>5, <4>2 DEF Complete, operationComplete, Over
        <4> QED  BY <3>1, <4>1, <4>3
      <3>3. CASE r \notin in
        <4>1. HasDied(j) /\ OwesNone(j) /\ j[r].val \notin ReplyOrigins /\ ~Op(r).cancelled
          BY <1>4, <3>1, <3>3
        <4>2. e.type # "EffectCancelled"
          BY <4>1
        <4>3. \A x : Requested(j, x) => (New(x).cancelled <=> Op(x).cancelled)
          BY <1>2, <1>3, <4>2
        <4>4. \A x : Requested(j, x) /\ ~Complete(i, x) => ~Complete(j, x)
          BY <1>2, <1>3
        <4>5. OwesNone(i)
          BY <1>6, <1>7, <2>1, <4>1, <4>3, <4>4
        <4> QED  BY <1>5, <3>1, <4>1, <4>3, <4>5
      <3> QED  BY <3>2, <3>3
    <2>6. ASSUME About, Complete(i, q), q \in new PROVE e.type = "EffectDied" \/ (HasDied(i) /\ OwesNone(i))
      <3>1. \/ e.type = "EffectDied"
            \/ e.type = "CancellationOutcome" /\ e.val = "fulfilled"
            \/ /\ e.type \in {"PromiseSettled", "EffectSettled"} /\ ~Op(q).cancelled
               /\ ~(e.type = "EffectSettled" /\ e.val = "promise")
        BY <1>3, <2>6
      <3>2. CASE e.type = "CancellationOutcome" /\ e.val = "fulfilled"
        BY <2>6, <3>2 DEF InputsAfter
      <3>3. CASE /\ e.type \in {"PromiseSettled", "EffectSettled"}
                 /\ ~(e.type = "EffectSettled" /\ e.val = "promise")
        BY <2>6, <3>3 DEF InputsAfter
      <3> QED  BY <3>1, <3>2, <3>3
    <2>7. ASSUME ~HasDied(i), NEW r \in new PROVE ~Complete(i, r)
      BY <1>2, <1>4, <1>5, <2>2, <2>6, <2>7
    <2>8. ASSUME OwesNone(i), NEW r \in new, Complete(i, r) PROVE i[r].val \in ReplyOrigins
      <3>1. r \in in /\ Requested(j, r) /\ i[r] = j[r]
        BY <1>2, <1>3, <1>4, <2>2
      <3>2. HasDied(i)
        BY <2>7, <2>8
      <3>3. CASE e.type = "EffectDied" \/ (e.type = "CancellationOutcome" /\ e.val = "fulfilled")
        BY <2>8, <3>1, <3>2, <3>3 DEF InputsAfter
      <3>4. CASE ~(e.type = "EffectDied" \/ (e.type = "CancellationOutcome" /\ e.val = "fulfilled"))
        <4>1. e.type # "EffectCancelled"
          BY <1>3, <1>7, <2>1, <2>8 DEF LifecycleTypes
        <4>2. ASSUME About, Op(q).cancelled PROVE FALSE
          <5>1. ~Complete(i, q) /\ New(q).cancelled /\ Requested(i, q)
            BY <1>3, <2>1, <3>4, <4>2
          <5> QED  BY <1>7, <2>8, <5>1
        <4>3. \A x : Requested(j, x) /\ ~(About /\ x = q) => Op(x) = New(x) /\ (Complete(i, x) <=> Complete(j, x))
          BY <1>2
        <4>4. OwesNone(j)
          BY <1>6, <1>7, <2>1, <2>8, <4>2, <4>3
        <4>5. ~(About /\ r = q)
          <5> SUFFICES ASSUME About, r = q PROVE FALSE
            OBVIOUS
          <5>1. /\ e.type \in {"PromiseSettled", "EffectSettled"}
                /\ ~(e.type = "EffectSettled" /\ e.val = "promise")
            BY <1>3, <2>8, <3>4
          <5>2. new = in \ {q}
            BY <2>8, <5>1 DEF InputsAfter
          <5> QED  BY <2>8, <5>2
        <4>6. Complete(j, r)
          BY <2>8, <3>1, <4>3, <4>5
        <4> QED  BY <1>4, <3>1, <4>4, <4>6
      <3> QED  BY <3>3, <3>4
    <2>9. \A r \in new : Requested(i, r)
      BY <1>4, <2>1, <2>2
    <2> QED  BY <2>5, <2>7, <2>8, <2>9 DEF InputInv
  <1> QED  BY <1>8, <1>9

\* The cases of inputChanges.
LEMMA RemoveIs ==
  ASSUME NEW f, NEW e
  PROVE  /\ e.type = "EffectDied" =>
              RemoveInputs(f, e) = IF Cancelled(f) # {} THEN {} ELSE NonReply(inputs)
         /\ e.type = "CancellationOutcome" /\ e.val = "fulfilled" =>
              RemoveInputs(f, e) = IF f.defect # NoDefect /\ Cancelled(f) = {} THEN NonReply(inputs) ELSE {e.ref}
         /\ e.type \in {"PromiseSettled", "EffectSettled"} =>
              RemoveInputs(f, e) = IF e.ref \in Cancelled(f) \/ (e.type = "EffectSettled" /\ e.val = "promise")
                                   THEN {} ELSE {e.ref}
         /\ \/ e.type \in {"EffectRequested", "RetryScheduled", "EffectCancelled", "DomainEvent"}
            \/ e.type = "CancellationOutcome" /\ e.val # "fulfilled"
            => RemoveInputs(f, e) = {}
  <1>1. e.type = "EffectDied" =>
          RemoveInputs(f, e) = IF Cancelled(f) # {} THEN {} ELSE NonReply(inputs)
    BY Zenon DEF RemoveInputs
  <1>2. e.type = "CancellationOutcome" /\ e.val = "fulfilled" =>
          RemoveInputs(f, e) = IF f.defect # NoDefect /\ Cancelled(f) = {} THEN NonReply(inputs) ELSE {e.ref}
    BY Zenon DEF RemoveInputs
  <1>3. e.type \in {"PromiseSettled", "EffectSettled"} =>
          RemoveInputs(f, e) = IF e.ref \in Cancelled(f) \/ (e.type = "EffectSettled" /\ e.val = "promise")
                               THEN {} ELSE {e.ref}
    BY Zenon DEF RemoveInputs
  <1>4. \/ e.type \in {"EffectRequested", "RetryScheduled", "EffectCancelled", "DomainEvent"}
        \/ e.type = "CancellationOutcome" /\ e.val # "fulfilled"
        => RemoveInputs(f, e) = {}
    BY Zenon DEF RemoveInputs
  <1> QED  BY <1>1, <1>2, <1>3, <1>4

\* What a resting frame says of the journal.
LEMMA RestingSets ==
  ASSUME NEW f, NEW j, Rests(f, j)
  PROVE  /\ \A r : r \in Active(f) <=> Requested(j, r) /\ ~Complete(j, r)
         /\ \A r : r \in Cancelled(f) <=> Requested(j, r) /\ ~Complete(j, r) /\ recordedOperation(j, r).cancelled
         /\ Cancelled(f) = {} <=> OwesNone(j)
         /\ f.defect # NoDefect <=> HasDied(j)
  <1>1. \A r : r \in Active(f) <=> Requested(j, r) /\ ~Complete(j, r)
    BY DEF Rests, Mirrors, Requested
  <1>2. \A r \in Active(f) : f.ops[r] = recordedOperation(j, r)
    BY DEF Rests, Mirrors
  <1>3. \A r : r \in Cancelled(f) <=> Requested(j, r) /\ ~Complete(j, r) /\ recordedOperation(j, r).cancelled
    BY <1>1, <1>2 DEF Cancelled
  <1>4. Cancelled(f) = {} <=> OwesNone(j)
    BY <1>3 DEF OwesNone
  <1>5. f.defect # NoDefect <=> HasDied(j)
    BY DEF Rests, Mirrors, Names
  <1> QED  BY <1>1, <1>3, <1>4, <1>5

LogInputs == InputInv(journal, inputs)

\* A commit keeps the inputs in step with the journal.
LEMMA InputCommit ==
  ASSUME LogInv, LogInputs, NEW e, Commits(e),
         e.type = "EffectCancelled" /\ HasDied(journal) => ~OwesNone(journal)
  PROVE  LogInputs'
  <1> DEFINE i == journal \o Batch(e)
             f == Prepared(e)
             new == (inputs \cup PutInputs(f, e)) \ RemoveInputs(f, e)
  <1>1. /\ ~failed /\ Admits(e) /\ f.ok /\ Follows(e, journal)
        /\ e.type \in LifecycleTypes \cup {"DomainEvent"}
    BY DEF Commits, commit
  <1>2. /\ Admissible(e, journal)
        /\ \/ i = Append(journal, e)
           \/ \E c \in EventRecord : i = Append(Append(journal, e), c) /\ c.type \in {"Callback", "MessageDelivered"}
        /\ JournalInv(i) /\ Rests(f, i)
    BY <1>1, PreparedStep
  <1>3. JournalInv(journal) /\ Rests(frame, journal)
    BY <1>1 DEF LogInv, Durable
  <1>4. (journal' = i /\ inputs' = new) \/ (journal' = journal /\ inputs' = inputs)
    BY DEF Commits, commit, Persist
  <1>10. /\ \A r \in inputs : Requested(journal, r)
         /\ frame.defect # NoDefect <=> HasDied(journal)
    BY <1>3, RestingSets DEF LogInputs, InputInv
  <1>9. DefectBars(e) <=>
          /\ frame.defect # NoDefect
          /\ ~ \/ e.type \in {"EffectDied", "EffectCancelled", "CancellationOutcome"}
               \/ /\ e.type = "EffectSettled" /\ e.ref \in Active(frame)
                  /\ cleanupSubmission(frame.ops[e.ref], e.val)
               \/ e.type = "RetryScheduled" /\ e.val = "cancellation"
               \/ e.type \in LifecycleTypes /\ Requested(journal, e.ref)
                  /\ journal[e.ref].val \in ReplyOrigins
               \/ e.type = "EffectRequested" /\ e.val \in ReplyOrigins
    BY DEF DefectBars
  <1> HIDE DEF i, f
  <1>5. Grown(journal, e, i)
    BY <1>1, <1>2, <1>3, GrownByBatch
  <1>6. /\ \A r : r \in Active(f) <=> Requested(i, r) /\ ~Complete(i, r)
        /\ \A r : r \in Cancelled(f) <=> Requested(i, r) /\ ~Complete(i, r) /\ recordedOperation(i, r).cancelled
        /\ Cancelled(f) = {} <=> OwesNone(i)
        /\ f.defect # NoDefect <=> HasDied(i)
    BY <1>2, RestingSets
  <1>7. InputsAfter(journal, e, i, inputs, new)
    <2>1. e.type # "EffectRequested" => PutInputs(f, e) = {}
      BY DEF PutInputs
    <2>2. ASSUME e.type = "EffectRequested" PROVE new = inputs \cup {e.ref}
      <3>1. /\ Requested(i, e.ref) /\ recordedOperation(i, e.ref) = NewOperation(e.val)
            /\ ~Requested(journal, e.ref) /\ (HasDied(i) <=> HasDied(journal))
        BY <1>5, <2>2 DEF Grown
      <3>2. /\ ~NewOperation(e.val).cancelled /\ operationSettlement(NewOperation(e.val)) = "none"
            /\ NewOperation(e.val).origin = e.val /\ ~operationComplete(NewOperation(e.val))
        BY DEF NewOperation, operationSettlement, operationComplete, settlementCompletesExecution, Settlements
      <3>3. e.ref \in Active(f) /\ f.ops[e.ref] = NewOperation(e.val)
        BY <1>2, <1>6, <3>1, <3>2 DEF Complete, Rests, Mirrors
      <3>4. f.defect # NoDefect => e.val \in ReplyOrigins
        BY <1>1, <1>6, <1>9, <1>10, <2>2, <3>1 DEF Admits
      <3>5. e.ref \in Pending(f)
        BY <3>2, <3>3, <3>4 DEF Pending
      <3>6. PutInputs(f, e) = {e.ref}
        BY <2>2, <3>5 DEF PutInputs
      <3>7. RemoveInputs(f, e) = {}
        BY <2>2, RemoveIs
      <3> QED  BY <3>6, <3>7
    <2>3. ASSUME e.type = "EffectDied"
          PROVE  new = IF OwesNone(i) THEN {r \in inputs : journal[r].val \in ReplyOrigins} ELSE inputs
      <3>1. RemoveInputs(f, e) = IF Cancelled(f) # {} THEN {} ELSE NonReply(inputs)
        BY <2>3, RemoveIs
      <3> QED  BY <1>6, <2>1, <2>3, <3>1 DEF NonReply
    <2>4. ASSUME e.type = "CancellationOutcome", e.val = "fulfilled"
          PROVE  new = IF HasDied(i) /\ OwesNone(i) THEN {r \in inputs : journal[r].val \in ReplyOrigins}
                       ELSE inputs \ {e.ref}
      <3>1. RemoveInputs(f, e) = IF f.defect # NoDefect /\ Cancelled(f) = {} THEN NonReply(inputs) ELSE {e.ref}
        BY <2>4, RemoveIs
      <3> QED  BY <1>6, <2>1, <2>4, <3>1 DEF NonReply
    <2>5. ASSUME e.type \in {"PromiseSettled", "EffectSettled"}
          PROVE  new = IF \/ ~Complete(i, e.ref) /\ recordedOperation(i, e.ref).cancelled
                          \/ e.type = "EffectSettled" /\ e.val = "promise"
                       THEN inputs ELSE inputs \ {e.ref}
      <3>1. RemoveInputs(f, e) = IF e.ref \in Cancelled(f) \/ (e.type = "EffectSettled" /\ e.val = "promise")
                                 THEN {} ELSE {e.ref}
        BY <2>5, RemoveIs
      <3>2. Requested(i, e.ref)
        BY <1>2, <1>5, <2>5 DEF Admissible, Grown, LifecycleTypes
      <3> QED  BY <1>6, <2>1, <2>5, <3>1, <3>2
    <2>6. ASSUME \/ e.type \in {"RetryScheduled", "EffectCancelled", "DomainEvent"}
                 \/ e.type = "CancellationOutcome" /\ e.val # "fulfilled"
          PROVE  new = inputs
      <3>1. RemoveInputs(f, e) = {}
        BY <2>6, RemoveIs
      <3> QED  BY <2>1, <2>6, <3>1
    <2> HIDE DEF new
    <2> QED  BY <2>2, <2>3, <2>4, <2>5, <2>6 DEF InputsAfter
  <1> HIDE DEF new
  <1>8. InputInv(i, new)
    BY <1>1, <1>2, <1>3, <1>5, <1>7, InputStep DEF LogInputs
  <1> QED  BY <1>4, <1>8 DEF LogInputs

\* Every step keeps the inputs in step with the journal.
LEMMA InputsKept ==
  ASSUME LogInv, LogInputs, [Next]_vars
  PROVE  LogInputs'
  <1>0. ASSUME NEW e, Commits(e), e.type = "EffectCancelled" /\ HasDied(journal) => ~OwesNone(journal)
        PROVE  LogInputs'
    BY <1>0, InputCommit
  <1>1. ASSUME NEW e, Commits(e), e.type # "EffectCancelled" PROVE LogInputs'
    BY <1>0, <1>1
  <1>2. CASE \E o \in Origins : Accept(o)
    <2>1. \A o, n : EffectRequested(n, o).type # "EffectCancelled"
      BY DEF EffectRequested, Record
    <2> QED  BY <1>1, <1>2, <2>1, CallersCommit
  <1>3. CASE \E r \in Refs, s \in Settlements : Settle(r, s)
    <2>1. \A r, s : EffectSettled(r, s).type # "EffectCancelled"
      BY DEF EffectSettled, Record
    <2> QED  BY <1>1, <1>3, <2>1, CallersCommit
  <1>4. CASE \E r \in Refs : Die(r)
    <2>1. \A r : EffectDied(r).type # "EffectCancelled"
      BY DEF EffectDied, Record
    <2> QED  BY <1>1, <1>4, <2>1, CallersCommit
  <1>5. CASE \E r \in Refs, phase \in {"execution", "cancellation"}, n \in 1 .. MaxAttempt : Retry(r, phase, n)
    <2>1. \A r, p, n : RetryScheduled(r, p, n).type # "EffectCancelled"
      BY DEF RetryScheduled, Record
    <2> QED  BY <1>1, <1>5, <2>1, CallersCommit
  <1>6. CASE \E r \in Refs : Cancel(r)
    <2>1. PICK r \in Refs : Cancel(r)
      BY <1>6
    <2>2. Commits(EffectCancelled(r))
      BY <2>1, CallersCommit
    <2>3. Rests(frame, journal)
      BY <2>2 DEF Commits, commit, LogInv
    <2>4. HasDied(journal) => \E x \in Active(frame) : cleanupRunnable(frame.ops[x])
      BY <2>1, <2>3 DEF Cancel, Rests, Mirrors, Names
    <2>5. HasDied(journal) => ~OwesNone(journal)
      <3>1. Cancelled(frame) = {} <=> OwesNone(journal)
        BY <2>3, RestingSets
      <3> QED  BY <2>4, <3>1 DEF Cancelled, cleanupRunnable
    <2> QED  BY <1>0, <2>2, <2>5
  <1>7. CASE \E r \in Refs, k \in CleanupOutcomes : CleanUp(r, k)
    <2>1. \A r, k : CancellationOutcome(r, k).type # "EffectCancelled"
      BY DEF CancellationOutcome, Record
    <2> QED  BY <1>1, <1>7, <2>1, CallersCommit
  <1>8. CASE \E r \in Refs, res \in PromiseResults : Resolve(r, res)
    <2>1. \A r, k : PromiseSettled(r, k).type # "EffectCancelled"
      BY DEF PromiseSettled, Record
    <2> QED  BY <1>1, <1>8, <2>1, CallersCommit
  <1>9. CASE Dispatch
    <2>1. DomainEvent.type # "EffectCancelled"
      BY DEF DomainEvent, Record
    <2> QED  BY <1>1, <1>9, <2>1, CallersCommit
  <1>10. CASE Checkpoint \/ UNCHANGED vars
    BY <1>10 DEF Checkpoint, vars, LogInputs
  <1>11. CASE Recreate
    <2> DEFINE f == replay(journal, checkpoint)
    <2>1. /\ inputs' = inputs \cup Pending(f) \cup Deferred(f) \cup Cancelled(f)
          /\ journal' = journal
      BY <1>11 DEF Recreate
    <2>2. Rests(f, journal)
      <3>1. f = finish(Raw(journal, checkpoint))
        BY DEF replay, Raw
      <3>2. Mirrors(Raw(journal, checkpoint), journal)
        BY DEF LogInv, Durable
      <3> HIDE DEF f
      <3> QED  BY <3>1, <3>2, FinishRests
    <2> HIDE DEF f
    <2>3. \A r \in Active(f) : Requested(journal, r) /\ ~Complete(journal, r)
      BY <2>2, RestingSets
    <2>4. inputs \subseteq inputs' /\ \A r \in inputs' : r \in inputs \/ r \in Active(f)
      BY <2>1 DEF Pending, Deferred, Cancelled
    <2>5. InputInv(journal, inputs')
      BY <2>3, <2>4 DEF LogInputs, InputInv
    <2> QED  BY <2>1, <2>5 DEF LogInputs
  <1> QED  BY <1>2, <1>3, <1>4, <1>5, <1>6, <1>7, <1>8, <1>9, <1>10, <1>11 DEF Next

\* InputsExact for every set of invocations: the puts and removals of inputChanges (execution.ts)
\* leave no work that recovery needs without its input, and no input without its work, across
\* crashes, late answers, cancellations and defects.
THEOREM InputsAreExact == Spec => []InputsExact
  <1>1. Init => LogInputs
    BY DEF Init, LogInputs, InputInv, Requested
  <1>2. LogInv /\ LogInputs /\ [Next]_vars => LogInputs'
    BY InputsKept
  <1>3. LogInv /\ LogInputs => InputsExact
    <2> SUFFICES ASSUME LogInv, LogInputs PROVE InputsExact
      OBVIOUS
    <2>1. RecoveryInputs
      <3> SUFFICES ASSUME NEW r \in 1 .. Position, Requested(journal, r), r \notin inputs PROVE Concluded(r)
        BY DEF RecoveryInputs
      <3>1. recordedOperation(journal, r).origin = journal[r].val
        BY DEF LogInv, Durable, JournalInv, Requested
      <3>2. \/ Over(recordedOperation(journal, r))
            \/ HasDied(journal) /\ journal[r].val \notin ReplyOrigins /\ ~recordedOperation(journal, r).cancelled
        BY DEF LogInputs, InputInv
      <3> QED  BY <3>1, <3>2 DEF Concluded, Over, HasDied, Position
    <2>2. NoOrphanInputs
      <3> DEFINE f == replay(journal, checkpoint)
      <3>1. f = finish(Raw(journal, checkpoint))
        BY DEF replay, Raw
      <3>2. Mirrors(Raw(journal, checkpoint), journal)
        BY DEF LogInv, Durable
      <3> HIDE DEF f
      <3>3. Rests(f, journal)
        BY <3>1, <3>2, FinishRests
      <3>4. /\ \A r : r \in Active(f) <=> Requested(journal, r) /\ ~Complete(journal, r)
            /\ Cancelled(f) = {} <=> OwesNone(journal)
            /\ f.defect # NoDefect <=> HasDied(journal)
        BY <3>3, RestingSets
      <3>5. f.defect = NoDefect => inputs \ Active(f) = {}
        BY <3>4 DEF LogInputs, InputInv
      <3>6. Cancelled(f) = {} => \A r \in inputs \ Active(f) : journal[r].val \in ReplyOrigins
        BY <3>4 DEF LogInputs, InputInv
      <3> QED  BY <3>5, <3>6 DEF NoOrphanInputs, f
    <2> QED  BY <2>1, <2>2 DEF InputsExact
  <1> QED  BY <1>1, <1>2, <1>3, LogIsConsistent, PTL DEF Spec

-----------------------------------------------------------------------------
(* An act is told once *)

\* The act of an operation has been told its outcome.
Told(op) == op.outcome # "died" /\ (op.cancelled \/ operationComplete(op))

\* What one record of an unfinished operation changes about that.
LEMMA FoldTells ==
  ASSUME NEW op, NEW e, OpInv(op), ~operationComplete(op), Fits(e),
         e.type \in LifecycleTypes \ {"EffectRequested"}, Guard(op, e),
         e.type = "EffectCancelled" => ~op.cancelled, NEW new, new = Fold(op, e)
  PROVE  /\ op.outcome # "died" /\ (new.outcome = "died" <=> e.type = "EffectDied")
         /\ Told(op) <=> op.cancelled
         /\ Told(new) <=> \/ op.cancelled \/ e.type \in {"EffectCancelled", "PromiseSettled"}
                          \/ e.type = "EffectSettled" /\ e.val # "promise"
         /\ e.type = "PromiseSettled" /\ ~op.cancelled => operationSettlement(new) = "promise"
         /\ new.cancelled <=> op.cancelled \/ e.type = "EffectCancelled"
  <1> USE DEF Fits, Guard, OpInv, IsOp, operationComplete, operationSettlement, settlementCompletesExecution,
          cleanupSucceeded, Settlements, PromiseResults, CleanupOutcomes, Told
  <1>0. op.outcome # "died" /\ (Told(op) <=> op.cancelled)
    OBVIOUS
  <1>1. CASE e.type = "EffectSettled"
    <2>1. new = [op EXCEPT !.outcome = e.val]
      BY <1>1, FoldIs
    <2> QED  BY <1>0, <1>1, <2>1
  <1>2. CASE e.type = "EffectDied"
    <2>1. new = [op EXCEPT !.outcome = "died", !.deferred = operationSettlement(op)]
      BY <1>2, FoldIs
    <2>2. new.outcome = "died" /\ new.cancelled = op.cancelled
      BY <2>1
    <2> QED  BY <1>0, <1>2, <2>2
  <1>3. CASE e.type = "PromiseSettled"
    <2>1. new = [op EXCEPT !.promise = e.val]
      BY <1>3, FoldIs
    <2> QED  BY <1>0, <1>3, <2>1
  <1>4. CASE e.type = "EffectCancelled"
    <2>1. new = [op EXCEPT !.cancelled = TRUE]
      BY <1>4, FoldIs
    <2>2. new.outcome = op.outcome /\ new.cancelled = TRUE
      BY <2>1
    <2> QED  BY <1>0, <1>4, <2>2
  <1>5. CASE e.type = "CancellationOutcome"
    <2>1. new = [op EXCEPT !.cleanup = e.val]
      BY <1>5, FoldIs
    <2> QED  BY <1>0, <1>5, <2>1
  <1>6. CASE e.type = "RetryScheduled" /\ e.val = "execution"
    <2>1. new = [op EXCEPT !.retry = e.n]
      BY <1>6, FoldIs
    <2> QED  BY <1>0, <1>6, <2>1
  <1>7. CASE e.type = "RetryScheduled" /\ e.val = "cancellation"
    <2>1. new = [op EXCEPT !.cleanupRetry = e.n]
      BY <1>7, FoldIs
    <2> QED  BY <1>0, <1>7, <2>1
  <1> QED  BY <1>1, <1>2, <1>3, <1>4, <1>5, <1>6, <1>7 DEF LifecycleTypes

\* The cases of followups, for an act that is no reply.
LEMMA FollowupsAre ==
  ASSUME NEW f, NEW e, e.type \in LifecycleTypes, e.ref \in Active(f),
         NEW op, op = f.ops[e.ref], op.origin \notin ReplyOrigins
  PROVE  /\ op.cancelled /\ e.type # "EffectCancelled" => followups(f, e) = <<>>
         /\ e.type = "EffectCancelled" => followups(f, e) = <<Callback(e.ref, "onSettled")>>
         /\ ~op.cancelled /\ e.type = "EffectRequested" => followups(f, e) = <<Callback(e.ref, "onRequested")>>
         /\ ~op.cancelled /\ e.type = "PromiseSettled" /\ operationSettlement(op) = "promise" =>
              followups(f, e) = <<Callback(e.ref, "onSettled")>>
         /\ ~op.cancelled /\ e.type = "EffectSettled" /\ e.val = "promise" =>
              followups(f, e) = <<Callback(e.ref, "onDeferred")>>
         /\ ~op.cancelled /\ e.type = "EffectSettled" /\ e.val # "promise" =>
              followups(f, e) = <<Callback(e.ref, "onSettled")>>
         /\ ~op.cancelled /\ e.type \in {"EffectDied", "RetryScheduled", "CancellationOutcome"} =>
              followups(f, e) = <<>>
  <1>1. op.cancelled /\ e.type # "EffectCancelled" => followups(f, e) = <<>>
    BY Zenon DEF followups
  <1>2. e.type = "EffectCancelled" => followups(f, e) = <<Callback(e.ref, "onSettled")>>
    BY Zenon DEF followups
  <1>3. ~op.cancelled /\ e.type = "EffectRequested" => followups(f, e) = <<Callback(e.ref, "onRequested")>>
    BY Zenon DEF followups
  <1>4. ~op.cancelled /\ e.type = "PromiseSettled" /\ operationSettlement(op) = "promise" =>
          followups(f, e) = <<Callback(e.ref, "onSettled")>>
    BY Zenon DEF followups
  <1>5. ~op.cancelled /\ e.type = "EffectSettled" /\ e.val = "promise" =>
          followups(f, e) = <<Callback(e.ref, "onDeferred")>>
    BY Zenon DEF followups
  <1>6. ~op.cancelled /\ e.type = "EffectSettled" /\ e.val # "promise" =>
          followups(f, e) = <<Callback(e.ref, "onSettled")>>
    BY Zenon DEF followups
  <1>7. ~op.cancelled /\ e.type \in {"EffectDied", "RetryScheduled", "CancellationOutcome"} => followups(f, e) = <<>>
    BY Zenon DEF followups
  <1> QED  BY <1>1, <1>2, <1>3, <1>4, <1>5, <1>6, <1>7

\* The follow-ups tell an act its outcome.
Settles(fs, r) == fs = <<Callback(r, "onSettled")>>

\* The batch that settles an operation or cancels it first tells the act, and no other does.
LEMMA FollowupsTell ==
  ASSUME NEW f, NEW e, e.type \in LifecycleTypes \ {"EffectRequested"}, e.ref \in Active(f),
         NEW op, OpInv(op), ~operationComplete(op), Fits(e), Guard(op, e), op.origin \notin ReplyOrigins,
         e.type = "EffectCancelled" => ~op.cancelled, f.ops[e.ref] = Fold(op, e),
         Fold(op, e).origin = op.origin
  PROVE  Settles(followups(f, e), e.ref) <=> Told(Fold(op, e)) /\ ~Told(op)
  <1> DEFINE new == Fold(op, e)
             fs == followups(f, e)
  <1>1. /\ Told(op) <=> op.cancelled
        /\ Told(new) <=> \/ op.cancelled \/ e.type \in {"EffectCancelled", "PromiseSettled"}
                         \/ e.type = "EffectSettled" /\ e.val # "promise"
        /\ e.type = "PromiseSettled" /\ ~op.cancelled => operationSettlement(new) = "promise"
        /\ new.cancelled <=> op.cancelled \/ e.type = "EffectCancelled"
    BY FoldTells
  <1>2. new.origin \notin ReplyOrigins /\ new = f.ops[e.ref] /\ e.type \in LifecycleTypes
    OBVIOUS
  <1>3. /\ new.cancelled /\ e.type # "EffectCancelled" => fs = <<>>
        /\ e.type = "EffectCancelled" => fs = <<Callback(e.ref, "onSettled")>>
        /\ ~new.cancelled /\ e.type = "PromiseSettled" /\ operationSettlement(new) = "promise" =>
             fs = <<Callback(e.ref, "onSettled")>>
        /\ ~new.cancelled /\ e.type = "EffectSettled" /\ e.val = "promise" => fs = <<Callback(e.ref, "onDeferred")>>
        /\ ~new.cancelled /\ e.type = "EffectSettled" /\ e.val # "promise" => fs = <<Callback(e.ref, "onSettled")>>
        /\ ~new.cancelled /\ e.type \in {"EffectDied", "RetryScheduled", "CancellationOutcome"} => fs = <<>>
    <2> HIDE DEF new
    <2> QED  BY <1>2, FollowupsAre
  <1>4. /\ <<>> # <<Callback(e.ref, "onSettled")>>
        /\ <<Callback(e.ref, "onDeferred")>> # <<Callback(e.ref, "onSettled")>>
    BY DEF Callback, Record
  <1> HIDE DEF new, fs
  <1>5. Settles(fs, e.ref) <=> Told(new) /\ ~Told(op)
    BY <1>1, <1>3, <1>4 DEF Settles, LifecycleTypes
  <1> QED  BY <1>5 DEF new, fs

CallsOf(j, r) == {n \in 1 .. Len(j) : j[n] = Callback(r, "onSettled")}

\* An act told its outcome was told by one record, and any other by none.
ToldBy(calls, op) == IF Told(op) THEN \E n : calls = {n} ELSE calls = {}

\* The journal records one end for every act that is told of it.
CallInv(j) ==
    /\ \A n \in 1 .. Len(j) : j[n].type = "EffectDied" => j[n] = EffectDied(j[n].ref)
    /\ \A n \in 1 .. Len(j) : j[n].type = "Callback" => j[n].ref \in 1 .. Len(j)
    /\ \A r \in 1 .. Len(j) : Requested(j, r) =>
         /\ recordedOperation(j, r).outcome = "died" <=> \E n \in 1 .. Len(j) : j[n] = EffectDied(r)
         /\ j[r].val \notin ReplyOrigins => ToldBy(CallsOf(j, r), recordedOperation(j, r))

\* How a batch grows the journal, record by record.
Batched(j, e, fs, i) ==
    \/ fs = <<>> /\ i = Append(j, e)
    \/ \E c \in EventRecord : /\ fs = <<c>> /\ i = Append(Append(j, e), c)
                              /\ c.type \in {"Callback", "MessageDelivered"} /\ c.ref = e.ref

\* Which calls and which deaths the journal holds after a batch.
LEMMA BatchCalls ==
  ASSUME NEW j \in Seq(EventRecord), NEW e \in EventRecord, NEW fs, NEW i, Batched(j, e, fs, i),
         e.type # "Callback"
  PROVE  /\ \A r : ~Settles(fs, r) => CallsOf(i, r) = CallsOf(j, r)
         /\ \A r : Settles(fs, r) => CallsOf(i, r) = CallsOf(j, r) \cup {Len(j) + 2}
         /\ \A r : r # e.ref => ~Settles(fs, r)
         /\ \A r : (\E n \in 1 .. Len(i) : i[n] = EffectDied(r)) <=>
                     (\E n \in 1 .. Len(j) : j[n] = EffectDied(r)) \/ e = EffectDied(r)
         /\ \A n \in 1 .. Len(i) : \/ (n \in 1 .. Len(j) /\ i[n] = j[n]) \/ i[n] = e
                                   \/ i[n].type \in {"Callback", "MessageDelivered"} /\ i[n].ref = e.ref
         /\ Len(j) \in Nat /\ Len(j) < Len(i) /\ Len(i) \in Nat
  <1>0. /\ \A r : Callback(r, "onSettled").type = "Callback" /\ Callback(r, "onSettled").ref = r
        /\ \A r : EffectDied(r).type = "EffectDied"
    BY DEF Callback, EffectDied, Record
  <1> DEFINE k == Append(j, e)
  <1>1. /\ k \in Seq(EventRecord) /\ Len(j) \in Nat /\ Len(k) = Len(j) + 1
        /\ k[Len(j) + 1] = e /\ \A n \in 1 .. Len(j) : k[n] = j[n]
    BY AppendFacts
  <1> HIDE DEF k
  <1>2. CASE fs = <<>> /\ i = k
    <2>1. \A r : ~Settles(fs, r)
      BY <1>2 DEF Settles
    <2>2. \A r : CallsOf(i, r) = CallsOf(j, r)
      BY <1>0, <1>1, <1>2 DEF CallsOf
    <2>3. \A n \in 1 .. Len(i) : (n \in 1 .. Len(j) /\ i[n] = j[n]) \/ i[n] = e
      BY <1>1, <1>2
    <2>4. \A n \in 1 .. Len(j) : n \in 1 .. Len(i) /\ i[n] = j[n]
      BY <1>1, <1>2
    <2>5. Len(i) \in 1 .. Len(i) /\ i[Len(i)] = e
      BY <1>1, <1>2
    <2>6. \A r : (\E n \in 1 .. Len(i) : i[n] = EffectDied(r)) <=>
                   (\E n \in 1 .. Len(j) : j[n] = EffectDied(r)) \/ e = EffectDied(r)
      BY <2>3, <2>4, <2>5
    <2> QED  BY <1>1, <1>2, <2>1, <2>2, <2>3, <2>6
  <1>3. ASSUME NEW c \in EventRecord, fs = <<c>>, i = Append(k, c),
               c.type \in {"Callback", "MessageDelivered"}, c.ref = e.ref
        PROVE  /\ \A r : ~Settles(fs, r) => CallsOf(i, r) = CallsOf(j, r)
               /\ \A r : Settles(fs, r) => CallsOf(i, r) = CallsOf(j, r) \cup {Len(j) + 2}
               /\ \A r : r # e.ref => ~Settles(fs, r)
               /\ \A r : (\E n \in 1 .. Len(i) : i[n] = EffectDied(r)) <=>
                           (\E n \in 1 .. Len(j) : j[n] = EffectDied(r)) \/ e = EffectDied(r)
               /\ \A n \in 1 .. Len(i) : \/ (n \in 1 .. Len(j) /\ i[n] = j[n]) \/ i[n] = e
                                         \/ i[n].type \in {"Callback", "MessageDelivered"} /\ i[n].ref = e.ref
               /\ Len(j) < Len(i) /\ Len(i) \in Nat
    <2>1. /\ Len(i) = Len(j) + 2 /\ i[Len(j) + 2] = c /\ \A n \in 1 .. Len(k) : i[n] = k[n]
      BY <1>1, <1>3, AppendFacts
    <2>2. \A n : n \in 1 .. Len(i) <=> n \in 1 .. Len(j) \/ n = Len(j) + 1 \/ n = Len(j) + 2
      BY <1>1, <2>1
    <2>3. /\ \A n \in 1 .. Len(j) : i[n] = j[n]
          /\ i[Len(j) + 1] = e
      BY <1>1, <2>1
    <2>4. \A r : Settles(fs, r) <=> c = Callback(r, "onSettled")
      BY <1>3 DEF Settles
    <2>5. \A r : e # Callback(r, "onSettled") /\ c # EffectDied(r)
      BY <1>0, <1>3
    <2>6. \A r : CallsOf(i, r) = IF c = Callback(r, "onSettled") THEN CallsOf(j, r) \cup {Len(j) + 2} ELSE CallsOf(j, r)
      BY <2>1, <2>2, <2>3, <2>5 DEF CallsOf
    <2>7. \A r : r # e.ref => ~Settles(fs, r)
      BY <1>0, <1>3, <2>4
    <2>8. \A r : (\E n \in 1 .. Len(i) : i[n] = EffectDied(r)) <=>
                   (\E n \in 1 .. Len(j) : j[n] = EffectDied(r)) \/ e = EffectDied(r)
      BY <2>1, <2>2, <2>3, <2>5
    <2>9. \A n \in 1 .. Len(i) : \/ (n \in 1 .. Len(j) /\ i[n] = j[n]) \/ i[n] = e
                                 \/ i[n].type \in {"Callback", "MessageDelivered"} /\ i[n].ref = e.ref
      <3>1. c.type \in {"Callback", "MessageDelivered"} /\ c.ref = e.ref
        BY <1>3
      <3>2. ASSUME NEW n \in 1 .. Len(i)
            PROVE  (n \in 1 .. Len(j) /\ i[n] = j[n]) \/ i[n] = e \/ i[n] = c
        BY <2>1, <2>2, <2>3
      <3> QED  BY <3>1, <3>2
    <2>10. Len(j) < Len(i) /\ Len(i) \in Nat
      BY <1>1, <2>1
    <2> QED  BY <2>4, <2>6, <2>7, <2>8, <2>9, <2>10
  <1> QED  BY <1>1, <1>2, <1>3 DEF Batched, k

\* A committed record, the frame p that took it in, and the journal i it leads to.
CommitsInto(j, e, p, i) ==
    /\ Follows(e, j) /\ Admissible(e, j) /\ e.type \in LifecycleTypes \cup {"DomainEvent"}
    /\ e.type = "EffectDied" => e = EffectDied(e.ref)
    /\ e.type = "EffectCancelled" => ~recordedOperation(j, e.ref).cancelled
    /\ Batched(j, e, followups(p, e), i)
    /\ e.type \in LifecycleTypes => e.ref \in Active(p) /\ p.ops[e.ref] = recordedOperation(i, e.ref)

\* A commit tells an act exactly when it decides the act's outcome.
LEMMA CallStep ==
  ASSUME NEW j, NEW e, NEW p, NEW i, JournalInv(j), HistoryInv(j), CallInv(j), CommitsInto(j, e, p, i)
  PROVE  CallInv(i)
  <1> DEFINE fs == followups(p, e)
             Op(r) == recordedOperation(j, r)
             New(r) == recordedOperation(i, r)
  <1>0. /\ j \in Seq(EventRecord) /\ e \in EventRecord /\ e.type # "Callback"
        /\ Follows(e, j) /\ Admissible(e, j) /\ Fits(e) /\ Batched(j, e, fs, i)
    BY DEF JournalInv, Follows, Fits, CommitsInto, LifecycleTypes
  <1>1. /\ \A r : ~Settles(fs, r) => CallsOf(i, r) = CallsOf(j, r)
        /\ \A r : Settles(fs, r) => CallsOf(i, r) = CallsOf(j, r) \cup {Len(j) + 2}
        /\ \A r : r # e.ref => ~Settles(fs, r)
        /\ \A r : (\E n \in 1 .. Len(i) : i[n] = EffectDied(r)) <=>
                    (\E n \in 1 .. Len(j) : j[n] = EffectDied(r)) \/ e = EffectDied(r)
        /\ \A n \in 1 .. Len(i) : \/ (n \in 1 .. Len(j) /\ i[n] = j[n]) \/ i[n] = e
                                  \/ i[n].type \in {"Callback", "MessageDelivered"} /\ i[n].ref = e.ref
        /\ Len(j) \in Nat /\ Len(j) < Len(i) /\ Len(i) \in Nat
    <2> HIDE DEF fs
    <2> QED  BY <1>0, BatchCalls
  <1>2. Grown(j, e, i)
    BY <1>0, GrownByBatch DEF Batched
  <1>3. /\ \A r : Requested(i, r) <=> Requested(j, r) \/ (r = Len(j) + 1 /\ e.type = "EffectRequested")
        /\ \A r : Requested(j, r) => i[r] = j[r] /\ New(r) = RecordedNext(Op(r), e, r)
        /\ e.type = "EffectRequested" =>
             ~Requested(j, Len(j) + 1) /\ e.ref = Len(j) + 1 /\ New(Len(j) + 1) = NewOperation(e.val)
    BY <1>2 DEF Grown
  <1>4. e.type \in LifecycleTypes => e.ref \in 1 .. Len(i)
    BY <1>0, <1>1, <1>3 DEF Admissible, Requested
  <1>5. e.type \notin LifecycleTypes => fs = <<>>
    BY Zenon DEF followups
  <1>6. \A n \in 1 .. Len(i) : i[n].type = "EffectDied" => i[n] = EffectDied(i[n].ref)
    BY <1>1 DEF CallInv, CommitsInto
  <1>7. \A n \in 1 .. Len(i) : i[n].type = "Callback" => i[n].ref \in 1 .. Len(i)
    <2>1. ASSUME NEW n \in 1 .. Len(i), i[n].type = "Callback" PROVE i[n].ref \in 1 .. Len(i)
      <3>1. CASE n \in 1 .. Len(j) /\ i[n] = j[n]
        <4>1. j[n].ref \in 1 .. Len(j)
          BY <2>1, <3>1 DEF CallInv
        <4> QED  BY <1>1, <3>1, <4>1
      <3>2. CASE i[n] = e
        BY <1>0, <2>1, <3>2
      <3>3. CASE ~(n \in 1 .. Len(j) /\ i[n] = j[n]) /\ i[n] # e
        <4>1. i[n].ref = e.ref
          BY <1>1, <3>3
        <4>2. i # Append(j, e)
          <5> SUFFICES ASSUME i = Append(j, e) PROVE FALSE
            OBVIOUS
          <5>1. Len(i) = Len(j) + 1 /\ i[Len(j) + 1] = e /\ \A m \in 1 .. Len(j) : i[m] = j[m]
            BY <1>0, AppendFacts
          <5> QED  BY <1>1, <3>3, <5>1
        <4>3. fs # <<>>
          <5> HIDE DEF fs
          <5>1. \A c : <<c>> # <<>>
            OBVIOUS
          <5> QED  BY <1>0, <4>2, <5>1 DEF Batched
        <4> QED  BY <1>4, <1>5, <4>1, <4>3
      <3> QED  BY <1>1, <3>1, <3>2, <3>3
    <2> QED  BY <2>1
  <1> HIDE DEF fs
  <1>8. ASSUME NEW r, Requested(j, r)
        PROVE  /\ New(r).outcome = "died" <=> \E n \in 1 .. Len(i) : i[n] = EffectDied(r)
               /\ i[r].val \notin ReplyOrigins => ToldBy(CallsOf(i, r), New(r))
    <2>1. /\ r \in 1 .. Len(j) /\ OpInv(Op(r)) /\ Op(r).origin = j[r].val
          /\ Op(r).outcome = "died" <=> \E n \in 1 .. Len(j) : j[n] = EffectDied(r)
          /\ j[r].val \notin ReplyOrigins => ToldBy(CallsOf(j, r), Op(r))
      BY <1>8 DEF CallInv, JournalInv, Requested
    <2>2. CASE e.ref = r /\ e.type \in LifecycleTypes
      <3>1. e.type # "EffectRequested" /\ e.type \in LifecycleTypes \ {"EffectRequested"}
        BY <1>3, <1>8, <2>2
      <3>2. ~operationComplete(Op(r)) /\ Guard(Op(r), e) /\ (e.type = "EffectCancelled" => ~Op(r).cancelled)
        BY <1>0, <2>2, <3>1 DEF Admissible, Complete, CommitsInto
      <3>3. New(r) = Fold(Op(r), e)
        BY <1>3, <1>8, <2>2 DEF RecordedNext
      <3> DEFINE op == Op(r)
      <3>4. OpInv(op) /\ ~operationComplete(op) /\ Guard(op, e) /\ (e.type = "EffectCancelled" => ~op.cancelled)
        BY <2>1, <3>2
      <3>5. p.ops[e.ref] = Fold(op, e) /\ e.ref \in Active(p)
        BY <2>2, <3>3 DEF CommitsInto
      <3> HIDE DEF op
      <3>6. /\ op.outcome # "died" /\ (Fold(op, e).outcome = "died" <=> e.type = "EffectDied")
            /\ Told(op) <=> op.cancelled
            /\ Told(Fold(op, e)) <=> \/ op.cancelled \/ e.type \in {"EffectCancelled", "PromiseSettled"}
                                     \/ e.type = "EffectSettled" /\ e.val # "promise"
        BY <1>0, <3>1, <3>4, FoldTells
      <3>7. Fold(op, e).origin = op.origin
        BY <1>0, <3>1, <3>4, OpStep
      <3>8. op.origin \notin ReplyOrigins => (Settles(fs, e.ref) <=> Told(Fold(op, e)) /\ ~Told(op))
        BY <1>0, <3>1, <3>4, <3>5, <3>7, FollowupsTell DEF fs
      <3>9. e = EffectDied(r) <=> e.type = "EffectDied"
        BY <2>2 DEF CommitsInto, EffectDied, Record
      <3>10. New(r).outcome = "died" <=> \E n \in 1 .. Len(i) : i[n] = EffectDied(r)
        BY <1>1, <2>1, <3>3, <3>6, <3>9 DEF op
      <3>11. ASSUME i[r].val \notin ReplyOrigins PROVE ToldBy(CallsOf(i, r), New(r))
        <4>1. op.origin \notin ReplyOrigins /\ ToldBy(CallsOf(j, r), op)
          BY <1>3, <1>8, <2>1, <3>11 DEF op
        <4>2. Told(op) => Told(Fold(op, e))
          BY <3>6
        <4>3. CASE Settles(fs, r)
          <5>1. CallsOf(i, r) = CallsOf(j, r) \cup {Len(j) + 2} /\ Told(Fold(op, e)) /\ ~Told(op)
            BY <1>1, <2>2, <3>8, <4>1, <4>3
          <5>2. CallsOf(j, r) = {}
            BY <4>1, <5>1 DEF ToldBy
          <5>3. CallsOf(i, r) = {Len(j) + 2}
            BY <5>1, <5>2
          <5> QED  BY <3>3, <5>1, <5>3 DEF ToldBy, op
        <4>4. CASE ~Settles(fs, r)
          <5>1. CallsOf(i, r) = CallsOf(j, r) /\ (Told(Fold(op, e)) <=> Told(op))
            BY <1>1, <2>2, <3>8, <4>1, <4>2, <4>4
          <5> QED  BY <3>3, <4>1, <5>1 DEF ToldBy, op
        <4> QED  BY <4>3, <4>4
      <3> QED  BY <3>10, <3>11
    <2>3. CASE ~(e.ref = r /\ e.type \in LifecycleTypes)
      <3>1. New(r) = Op(r)
        BY <1>3, <1>8, <2>3 DEF RecordedNext
      <3>2. ~Settles(fs, r)
        <4>1. <<>> # <<Callback(r, "onSettled")>>
          OBVIOUS
        <4> QED  BY <1>1, <1>5, <2>3, <4>1 DEF Settles
      <3>3. e # EffectDied(r)
        BY <2>3 DEF EffectDied, Record, LifecycleTypes
      <3> QED  BY <1>1, <1>3, <1>8, <2>1, <3>1, <3>2, <3>3
    <2> QED  BY <2>2, <2>3
  <1>9. ASSUME e.type = "EffectRequested"
        PROVE  LET r == Len(j) + 1
               IN  /\ New(r).outcome = "died" <=> \E n \in 1 .. Len(i) : i[n] = EffectDied(r)
                   /\ i[r].val \notin ReplyOrigins => ToldBy(CallsOf(i, r), New(r))
    <2> DEFINE r == Len(j) + 1
    <2>1. e.ref = r /\ New(r) = NewOperation(e.val) /\ e.type \in LifecycleTypes
      BY <1>3, <1>9 DEF LifecycleTypes
    <2>2. New(r).outcome = "none" /\ ~New(r).cancelled /\ ~Told(New(r)) /\ New(r).origin = e.val
      BY <2>1 DEF NewOperation, Told, operationComplete, operationSettlement, settlementCompletesExecution, Settlements
    <2>3. \A n \in 1 .. Len(j) : j[n] # EffectDied(r) /\ j[n] # Callback(r, "onSettled")
      <3>1. \A n \in 1 .. Len(j) : j[n].type \in LifecycleTypes \cup {"Callback"} => j[n].ref \in 1 .. Len(j)
        BY DEF HistoryInv, CallInv
      <3>2. /\ EffectDied(r).type = "EffectDied" /\ EffectDied(r).ref = r
            /\ Callback(r, "onSettled").type = "Callback" /\ Callback(r, "onSettled").ref = r
        BY DEF EffectDied, Callback, Record
      <3>3. r \notin 1 .. Len(j)
        BY <1>1
      <3> QED  BY <3>1, <3>2, <3>3 DEF LifecycleTypes
    <2>4. e # EffectDied(r)
      BY <1>9 DEF EffectDied, Record
    <2>5. CallsOf(j, r) = {}
      BY <2>3 DEF CallsOf
    <2>6. New(r).origin \notin ReplyOrigins => ~Settles(fs, r)
      <3>1. e.ref \in Active(p) /\ p.ops[e.ref] = New(r)
        BY <2>1 DEF CommitsInto
      <3>2. New(r).origin \notin ReplyOrigins => fs = <<Callback(e.ref, "onRequested")>>
        <4> DEFINE op == New(r)
        <4> HIDE DEF op
        <4>1. op.origin \notin ReplyOrigins /\ ~op.cancelled => followups(p, e) = <<Callback(e.ref, "onRequested")>>
          BY <1>9, <2>1, <3>1, FollowupsAre DEF op
        <4> QED  BY <2>2, <4>1 DEF op, fs
      <3>3. <<Callback(e.ref, "onRequested")>> # <<Callback(e.ref, "onSettled")>>
        BY DEF Callback, Record
      <3> QED  BY <2>1, <3>2, <3>3 DEF Settles
    <2>7. i[r].val = e.val
      BY <1>2, <1>9 DEF Grown
    <2>8. New(r).outcome = "died" <=> \E n \in 1 .. Len(i) : i[n] = EffectDied(r)
      BY <1>1, <2>2, <2>3, <2>4
    <2>9. i[r].val \notin ReplyOrigins => ToldBy(CallsOf(i, r), New(r))
      BY <1>1, <2>2, <2>5, <2>6, <2>7 DEF ToldBy
    <2> QED  BY <2>8, <2>9
  <1> QED  BY <1>3, <1>6, <1>7, <1>8, <1>9 DEF CallInv

\* A batch is prepared only if the engine accepts its record.
LEMMA FirstAccepted ==
  ASSUME NEW j, NEW f, NEW e, JournalInv(j), Mirrors(f, j), Follows(e, j), Prepares(f, e).ok
  PROVE  EngineAppend(f, e).ok = TRUE
  <1> DEFINE p == EngineAppend(f, e)
             fs == followups(p, e)
             b == Recorded(f, e)
  <1>1. j \in Seq(EventRecord) /\ e \in EventRecord /\ e.ref \in Nat /\ DOMAIN f = FrameFields /\ f.ok = TRUE
    BY DEF JournalInv, Follows, Fits, EventRecord, Mirrors
  <1>2. DOMAIN p = FrameFields /\ p.ok \in BOOLEAN
    BY <1>1, AppendOk
  <1>3. b = <<e>> \o fs /\ Prepares(f, e) = finish(EngineAppendAll(f, b))
    BY DEF Recorded, Prepares
  <1>4. \A x : DOMAIN x = FrameFields => finish(x).ok = x.ok
    BY DEF finish, release, FrameFields
  <1>5. \/ fs = <<>>
        \/ \E c : fs = <<c>> /\ Fits(c)
    BY <1>1, FollowupsFacts
  <1>6. CASE fs = <<>>
    <2>1. EngineAppendAll(f, b) = p
      BY <1>1, <1>3, <1>6, BatchFacts
    <2> HIDE DEF p, fs, b
    <2>2. p.ok = TRUE
      BY <1>2, <1>3, <1>4, <2>1
    <2> QED  BY <2>2 DEF p
  <1>7. ASSUME NEW c, fs = <<c>>, Fits(c) PROVE p.ok = TRUE
    <2> DEFINE q == EngineAppend(p, c)
    <2>1. EngineAppendAll(f, b) = q
      <3>1. c \in EventRecord
        BY <1>7 DEF Fits
      <3> QED  BY <1>1, <1>3, <1>7, <3>1, BatchFacts
    <2>2. DOMAIN q = FrameFields /\ q.ok \in BOOLEAN /\ (q.ok = TRUE => p.ok = TRUE)
      BY <1>2, AppendOk
    <2> HIDE DEF p, q, fs, b
    <2> QED  BY <1>2, <1>3, <1>4, <2>1, <2>2
  <1> QED  BY <1>5, <1>6, <1>7

\* The frame after a record holds the operation the record is about.
LEMMA HoldsAbout ==
  ASSUME NEW j, NEW f, NEW e, JournalInv(j), Mirrors(f, j), Follows(e, j), e.type \in LifecycleTypes,
         NEW p, p = EngineAppend(f, e), p.ok = TRUE
  PROVE  e.ref \in Active(p) /\ p.ops[e.ref] = recordedOperation(Append(j, e), e.ref)
  <1> DEFINE g == release(f, e)
  <1>1. EngineAccepts(g, e) /\ p = EngineFold(g, e)
    BY AcceptedIsAdmissible
  <1>2. DOMAIN g = FrameFields
    <2>1. g = release(f, e)
      OBVIOUS
    <2> HIDE DEF g
    <2> QED  BY <2>1, Released
  <1> HIDE DEF g
  <1>3. p.ops = FoldedOps(g, e)
    BY <1>1, <1>2, EngineFoldIs
  <1>4. e.ref \in Active(p)
    BY <1>3 DEF FoldedOps, Active
  <1>5. Mirrors(p, Append(j, e))
    BY EngineStep
  <1> QED  BY <1>4, <1>5 DEF Mirrors

\* A commit, as CallStep needs it.
LEMMA CommitIs ==
  ASSUME LogInv, NEW e, Commits(e), e.type = "EffectDied" => e = EffectDied(e.ref), journal' # journal
  PROVE  CommitsInto(journal, e, EngineAppend(frame, e), journal')
  <1> DEFINE p == EngineAppend(frame, e)
             fs == followups(p, e)
             i == journal \o Batch(e)
  <1>1. ~failed /\ Admits(e) /\ Prepared(e).ok /\ Follows(e, journal) /\ e.type \in LifecycleTypes \cup {"DomainEvent"}
    BY DEF Commits, commit
  <1>2. Admissible(e, journal)
    BY <1>1, PreparedStep
  <1>3. JournalInv(journal) /\ Mirrors(frame, journal)
    BY <1>1 DEF LogInv, Durable, Rests
  <1>4. journal \in Seq(EventRecord) /\ e \in EventRecord /\ e.ref \in Nat
    BY <1>1, <1>3 DEF JournalInv, Follows, Fits, EventRecord
  <1>5. Batch(e) = <<e>> \o fs /\ Prepared(e) = Prepares(frame, e)
    BY DEF Batch, Prepared, Prepares, Recorded
  <1>6. journal' = i
    BY DEF Commits, commit, Persist
  <1>7. Batched(journal, e, fs, i)
    <2>1. \/ fs = <<>>
          \/ \E c : fs = <<c>> /\ Fits(c) /\ c.type \in {"Callback", "MessageDelivered"} /\ c.ref = e.ref
      BY <1>4, FollowupsFacts
    <2>2. CASE fs = <<>>
      <3>1. i = Append(journal, e)
        BY <1>4, <1>5, <2>2, BatchFacts
      <3> QED  BY <2>2, <3>1 DEF Batched
    <2>3. ASSUME NEW c, fs = <<c>>, Fits(c), c.type \in {"Callback", "MessageDelivered"}, c.ref = e.ref
          PROVE  Batched(journal, e, fs, i)
      <3>1. c \in EventRecord
        BY <2>3 DEF Fits
      <3>2. i = Append(Append(journal, e), c)
        BY <1>4, <1>5, <2>3, <3>1, BatchFacts
      <3> HIDE DEF fs, i
      <3> QED  BY <2>3, <3>1, <3>2 DEF Batched
    <2> HIDE DEF fs, i
    <2> QED  BY <2>1, <2>2, <2>3
  <1>8. p.ok = TRUE
    BY <1>1, <1>3, <1>5, FirstAccepted
  <1>9. e.type \in LifecycleTypes => e.ref \in Active(p) /\ p.ops[e.ref] = recordedOperation(Append(journal, e), e.ref)
    <2> HIDE DEF p
    <2> QED  BY <1>1, <1>3, <1>8, HoldsAbout DEF p
  <1> DEFINE j == journal
             new == journal'
  <1> HIDE DEF p, fs, i
  <1>10. Grown(j, e, Append(j, e)) /\ Grown(j, e, i)
    <2>1. Grown(j, e, Append(j, e))
      BY <1>1, <1>3, GrownByOne
    <2>2. \/ i = Append(j, e)
          \/ \E c \in EventRecord : i = Append(Append(j, e), c) /\ c.type \in {"Callback", "MessageDelivered"}
      BY <1>7 DEF Batched
    <2>3. Grown(j, e, i)
      BY <1>1, <1>2, <1>3, <2>2, GrownByBatch
    <2> QED  BY <2>1, <2>3
  <1>11. e.type \in LifecycleTypes => recordedOperation(Append(j, e), e.ref) = recordedOperation(i, e.ref)
    <2>1. CASE e.type = "EffectRequested"
      BY <1>10, <2>1 DEF Grown
    <2>2. CASE e.type \in LifecycleTypes \ {"EffectRequested"}
      <3>1. Requested(j, e.ref)
        BY <1>2, <2>2 DEF Admissible
      <3> QED  BY <1>10, <3>1 DEF Grown
    <2> QED  BY <2>1, <2>2
  <1>12. e.type = "EffectCancelled" => ~recordedOperation(j, e.ref).cancelled
    <2> SUFFICES ASSUME e.type = "EffectCancelled" PROVE ~recordedOperation(j, e.ref).cancelled
      OBVIOUS
    <2>1. LifecycleAdmits(lifecycle(e.ref), e)
      BY <1>1 DEF Admits, LifecycleTypes
    <2>2. lifecycle(e.ref) = recordedOperation(j, e.ref)
      BY <1>3 DEF lifecycle, Mirrors
    <2> QED  BY <2>1, <2>2, AdmitsIs
  <1>13. CommitsInto(j, e, p, i)
    BY <1>1, <1>2, <1>7, <1>9, <1>11, <1>12 DEF CommitsInto, fs
  <1> QED  BY <1>6, <1>13 DEF p

LogCalls == CallInv(journal)

\* An act is told its outcome by one record, when it is decided, and the journal says of every
\* operation whether it died: what followups (replay.ts) adds to a batch is recorded with the
\* record it answers, or not at all.
THEOREM CallsAreKept == Spec => []LogCalls
  <1>1. Init => LogCalls
    BY DEF Init, LogCalls, CallInv
  <1>2. LogInv /\ LogHistory /\ LogCalls /\ [Next]_vars => LogCalls'
    <2> SUFFICES ASSUME LogInv, HistoryInv(journal), CallInv(journal), [Next]_vars PROVE CallInv(journal')
      BY DEF LogCalls, LogHistory
    <2>1. CASE journal' = journal
      BY <2>1
    <2>2. ASSUME NEW e, Commits(e), e.type = "EffectDied" => e = EffectDied(e.ref), journal' # journal
          PROVE  CallInv(journal')
      <3>1. CommitsInto(journal, e, EngineAppend(frame, e), journal') /\ JournalInv(journal)
        BY <2>2, CommitIs DEF LogInv, Durable
      <3> QED  BY <3>1, CallStep
    <2> QED  BY <2>1, <2>2, StepIs
  <1> QED  BY <1>1, <1>2, LogIsConsistent, HistoryIsKept, PTL DEF Spec

\* DecidedOnce for every set of invocations and every length of the journal: whatever races in
\* afterwards, append (replay.ts) records one onSettled for a decided act, and none for work a
\* defect ended or that is still undecided.
THEOREM DecisionsAreTold == Spec => []DecidedOnce
  <1>1. ASSUME LogInv, LogCalls PROVE DecidedOnce
    <2> SUFFICES ASSUME NEW r \in 1 .. Position, Requested(journal, r), journal[r].val \notin ReplyOrigins
                 PROVE  LET op == recordedOperation(journal, r)
                        IN  Cardinality(SettledCalls(r)) =
                              IF Died(r) \/ ~(op.cancelled \/ operationComplete(op)) THEN 0 ELSE 1
      BY DEF DecidedOnce
    <2> DEFINE op == recordedOperation(journal, r)
    <2>1. /\ ToldBy(CallsOf(journal, r), op)
          /\ op.outcome = "died" <=> Died(r)
      BY <1>1 DEF LogCalls, CallInv, Died, Position
    <2>2. SettledCalls(r) = CallsOf(journal, r)
      BY DEF SettledCalls, CallsOf, Position
    <2>3. Told(op) <=> ~Died(r) /\ (op.cancelled \/ operationComplete(op))
      BY <2>1 DEF Told
    <2> HIDE DEF op
    <2>4. CASE Told(op)
      <3>1. PICK n : CallsOf(journal, r) = {n}
        BY <2>1, <2>4 DEF ToldBy
      <3>2. Cardinality({n}) = 1
        BY FS_Singleton
      <3> QED  BY <2>2, <2>3, <2>4, <3>1, <3>2 DEF op
    <2>5. CASE ~Told(op)
      <3>1. CallsOf(journal, r) = {} /\ Cardinality({}) = 0
        BY <2>1, <2>5, FS_EmptySet DEF ToldBy
      <3> QED  BY <2>2, <2>3, <2>5, <3>1 DEF op
    <2> QED  BY <2>4, <2>5
  <1> QED  BY <1>1, LogIsConsistent, CallsAreKept, PTL

-----------------------------------------------------------------------------
(***************************************************************************)
(* Views.  The invariant says where a view reads what it read when it was  *)
(* made (ArrayView, MapView); storage only grows (StorageGrows), so views  *)
(* stay, and a new one fits.  That a map has a key once is needed for the  *)
(* update that replaces an entry in a copy.                                *)
(***************************************************************************)

\* An entry of a map.
MapEntries == [key : ViewKeys, value : Values]

\* Sequences of sequences of items.
Storage(S) == Seq(Seq(S))

\* A view of arrays reads what it read when it was made.
ArrayView(ar, v) ==
    /\ v \in [array : Nat, length : Nat, was : Seq(Values)]
    /\ v.array \in DOMAIN ar /\ v.length <= Len(ar[v.array])
    /\ v.was = SubSeq(ar[v.array], 1, v.length)

\* And a view of maps ms.
MapView(ms, x) ==
    /\ x \in [map : Nat, size : Nat, was : SUBSET MapEntries]
    /\ x.map \in DOMAIN ms /\ x.size <= Len(ms[x.map])
    /\ x.was = {ms[x.map][i] : i \in 1 .. x.size}

\* A map has an entry for a key once.
KeysOnce(m) == \A i, j \in DOMAIN m : m[i].key = m[j].key => i = j

\* The storage grows: nothing that is there is written again.
StorageGrows(old, new) ==
    /\ Len(old) <= Len(new)
    /\ \A k \in 1 .. Len(old) : Len(old[k]) <= Len(new[k]) /\ \A i \in 1 .. Len(old[k]) : new[k][i] = old[k][i]

\* The inductive invariant of views.
ViewsInv ==
    /\ arrays \in Storage(Values) /\ maps \in Storage(MapEntries)
    /\ views \in Seq([array : Nat, length : Nat, was : Seq(Values)])
    /\ indexes \in Seq([map : Nat, size : Nat, was : SUBSET MapEntries])
    /\ \A i \in DOMAIN views : ArrayView(arrays, views[i])
    /\ \A i \in DOMAIN indexes : MapView(maps, indexes[i])
    /\ \A k \in DOMAIN maps : KeysOnce(maps[k])

\* A beginning of a sequence: its length and its items.
LEMMA Beginning ==
    ASSUME NEW S, NEW s \in Seq(S), NEW n \in 0 .. Len(s)
    PROVE  /\ SubSeq(s, 1, n) \in Seq(S) /\ Len(SubSeq(s, 1, n)) = n
           /\ \A i \in 1 .. n : SubSeq(s, 1, n)[i] = s[i]
           /\ n = Len(s) => SubSeq(s, 1, n) = s
<1>1. \A i \in 1 .. n : s[i] \in S
  OBVIOUS
<1>2. SubSeq(s, 1, n) = [i \in 1 .. n |-> s[i]]
  OBVIOUS
<1>3. SubSeq(s, 1, n) \in Seq(S) /\ Len(SubSeq(s, 1, n)) = n
  BY <1>1, <1>2
<1>4. \A i \in 1 .. n : SubSeq(s, 1, n)[i] = s[i]
  BY <1>2
<1>5. n = Len(s) => SubSeq(s, 1, n) = s
  BY <1>3, <1>4, SeqEqual
<1> QED
  BY <1>3, <1>4, <1>5

\* Sequences that agree up to n have one beginning of that length.
LEMMA SameBeginning ==
    ASSUME NEW S, NEW s \in Seq(S), NEW t \in Seq(S), NEW n \in Nat, n <= Len(s), n <= Len(t),
           \A i \in 1 .. n : t[i] = s[i]
    PROVE  SubSeq(t, 1, n) = SubSeq(s, 1, n)
<1>1. n \in 0 .. Len(s) /\ n \in 0 .. Len(t)
  OBVIOUS
<1> QED
  BY <1>1, Beginning, SeqEqual

\* Storage: its arrays, with another item at one of them, with another array.
LEMMA StorageFacts ==
    ASSUME NEW S, NEW ar, ar \in Storage(S)
    PROVE  /\ Len(ar) \in Nat /\ DOMAIN ar = 1 .. Len(ar)
           /\ \A k \in 1 .. Len(ar) : ar[k] \in Seq(S) /\ Len(ar[k]) \in Nat
           /\ \A s \in Seq(S) : /\ Append(ar, s) \in Storage(S) /\ Len(Append(ar, s)) = Len(ar) + 1
                               /\ \A k \in 1 .. Len(ar) : Append(ar, s)[k] = ar[k]
                               /\ Append(ar, s)[Len(ar) + 1] = s
           /\ \A a \in 1 .. Len(ar), s \in Seq(S) :
                 LET br == [ar EXCEPT ![a] = s]
                 IN  /\ br \in Storage(S) /\ Len(br) = Len(ar)
                     /\ \A k \in 1 .. Len(ar) : br[k] = IF k = a THEN s ELSE ar[k]
<1> DEFINE T == Seq(S)
<1>1. ar \in Seq(T) /\ Storage(S) = Seq(T)
  BY DEF Storage
<1>2. \A s \in T : Len(s) \in Nat
  BY LenProperties
<1> HIDE DEF T
<1>3. Len(ar) \in Nat /\ DOMAIN ar = 1 .. Len(ar) /\ \A k \in 1 .. Len(ar) : ar[k] \in T /\ Len(ar[k]) \in Nat
  BY <1>1, <1>2, LenProperties, ElementOfSeq
<1>4. \A s \in T : /\ Append(ar, s) \in Seq(T) /\ Len(Append(ar, s)) = Len(ar) + 1
                   /\ \A k \in 1 .. Len(ar) : Append(ar, s)[k] = ar[k]
                   /\ Append(ar, s)[Len(ar) + 1] = s
  BY <1>1, AppendProperties
<1>5. \A a \in 1 .. Len(ar), s \in T :
         LET br == [ar EXCEPT ![a] = s]
         IN  /\ br \in Seq(T) /\ Len(br) = Len(ar)
             /\ \A k \in 1 .. Len(ar) : br[k] = IF k = a THEN s ELSE ar[k]
  BY <1>1, ExceptSeq
<1> QED
  BY <1>1, <1>3, <1>4, <1>5 DEF T

\* When storage grows, its views stay as they are.
LEMMA ViewStays ==
    ASSUME NEW ar, ar \in Storage(Values), NEW br, br \in Storage(Values), StorageGrows(ar, br), NEW v, ArrayView(ar, v)
    PROVE  ArrayView(br, v)
<1>1. v.array \in 1 .. Len(ar) /\ v.array \in 1 .. Len(br) /\ v.length \in Nat
  <2>1. Len(ar) \in Nat /\ Len(br) \in Nat /\ Len(ar) <= Len(br) /\ DOMAIN ar = 1 .. Len(ar)
    BY StorageFacts DEF StorageGrows
  <2>2. v.array \in DOMAIN ar /\ v.length \in Nat
    BY DEF ArrayView
  <2> QED
    BY <2>1, <2>2
<1>2. ar[v.array] \in Seq(Values) /\ br[v.array] \in Seq(Values) /\ v.length <= Len(ar[v.array]) /\ Len(ar[v.array]) <= Len(br[v.array]) /\ Len(ar[v.array]) \in Nat /\ Len(br[v.array]) \in Nat
  <2>1. ar[v.array] \in Seq(Values) /\ br[v.array] \in Seq(Values)
    BY <1>1, StorageFacts
  <2>2. v.length <= Len(ar[v.array])
    BY DEF ArrayView
  <2>3. Len(ar[v.array]) <= Len(br[v.array])
    BY <1>1 DEF StorageGrows
  <2> QED
    BY <2>1, <2>2, <2>3, LenProperties
<1>3. v.length <= Len(br[v.array]) /\ \A i \in 1 .. v.length : br[v.array][i] = ar[v.array][i]
  <2>1. \A i \in 1 .. Len(ar[v.array]) : br[v.array][i] = ar[v.array][i]
    BY <1>1 DEF StorageGrows
  <2> QED
    BY <1>1, <1>2, <2>1
<1>4. SubSeq(br[v.array], 1, v.length) = SubSeq(ar[v.array], 1, v.length)
  BY <1>1, <1>2, <1>3, SameBeginning
<1> QED
  <2>1. v.array \in DOMAIN br
    BY <1>1, StorageFacts
  <2> QED
    BY <1>3, <1>4, <2>1 DEF ArrayView

\* So do the views of maps.
LEMMA IndexStays ==
    ASSUME NEW ms, ms \in Storage(MapEntries), NEW ns, ns \in Storage(MapEntries), StorageGrows(ms, ns), NEW x, MapView(ms, x)
    PROVE  MapView(ns, x)
<1>1. x.map \in 1 .. Len(ms) /\ x.map \in 1 .. Len(ns) /\ x.size \in Nat
  <2>1. Len(ms) \in Nat /\ Len(ns) \in Nat /\ Len(ms) <= Len(ns) /\ DOMAIN ms = 1 .. Len(ms)
    BY StorageFacts DEF StorageGrows
  <2>2. x.map \in DOMAIN ms /\ x.size \in Nat
    BY DEF MapView
  <2> QED
    BY <2>1, <2>2
<1>2. Len(ms[x.map]) \in Nat /\ Len(ns[x.map]) \in Nat /\ x.size <= Len(ms[x.map]) /\ Len(ms[x.map]) <= Len(ns[x.map])
  <2>1. ms[x.map] \in Seq(MapEntries) /\ ns[x.map] \in Seq(MapEntries)
    BY <1>1, StorageFacts
  <2>2. x.size <= Len(ms[x.map])
    BY DEF MapView
  <2>3. Len(ms[x.map]) <= Len(ns[x.map])
    BY <1>1 DEF StorageGrows
  <2> QED
    BY <2>1, <2>2, <2>3, LenProperties
<1>3. x.size <= Len(ns[x.map]) /\ \A i \in 1 .. x.size : ns[x.map][i] = ms[x.map][i]
  <2>1. \A i \in 1 .. Len(ms[x.map]) : ns[x.map][i] = ms[x.map][i]
    BY <1>1 DEF StorageGrows
  <2> QED
    BY <1>1, <1>2, <2>1
<1>4. {ns[x.map][i] : i \in 1 .. x.size} = {ms[x.map][i] : i \in 1 .. x.size}
  BY <1>3
<1> QED
  <2>1. x.map \in DOMAIN ns
    BY <1>1, StorageFacts
  <2> QED
    BY <1>3, <1>4, <2>1 DEF MapView

\* Storage grows by an item at the end of one array.
LEMMA GrowsByItem ==
    ASSUME NEW S, NEW ar, ar \in Storage(S), NEW a \in 1 .. Len(ar), NEW item \in S
    PROVE  LET br == [ar EXCEPT ![a] = Append(@, item)] IN br \in Storage(S) /\ StorageGrows(ar, br)
<1> DEFINE br == [ar EXCEPT ![a] = Append(ar[a], item)]
<1>1. ar[a] \in Seq(S) /\ Append(ar[a], item) \in Seq(S)
  BY StorageFacts, AppendProperties
<1>2. /\ br \in Storage(S) /\ Len(br) = Len(ar)
      /\ \A k \in 1 .. Len(ar) : br[k] = IF k = a THEN Append(ar[a], item) ELSE ar[k]
  BY <1>1, StorageFacts
<1> HIDE DEF br
<1>3. ASSUME NEW k \in 1 .. Len(ar)
      PROVE  Len(ar[k]) <= Len(br[k]) /\ \A i \in 1 .. Len(ar[k]) : br[k][i] = ar[k][i]
  <2>1. ar[k] \in Seq(S) /\ Len(ar[k]) \in Nat
    BY StorageFacts
  <2>2. CASE k # a
    BY <1>2, <2>1, <2>2
  <2>3. CASE k = a
    <3>1. br[k] = Append(ar[k], item)
      BY <1>2, <2>3
    <3> QED
      BY <2>1, <3>1, AppendProperties
  <2> QED
    BY <2>2, <2>3
<1>4. StorageGrows(ar, br)
  BY <1>2, <1>3, StorageFacts DEF StorageGrows
<1> QED
  BY <1>2, <1>4 DEF br

\* And by a new array.
LEMMA GrowsByArray ==
    ASSUME NEW S, NEW ar, ar \in Storage(S), NEW s \in Seq(S)
    PROVE  Append(ar, s) \in Storage(S) /\ StorageGrows(ar, Append(ar, s))
<1> DEFINE br == Append(ar, s)
<1>1. /\ br \in Storage(S) /\ Len(br) = Len(ar) + 1 /\ Len(ar) \in Nat
      /\ \A k \in 1 .. Len(ar) : br[k] = ar[k]
  BY StorageFacts
<1> HIDE DEF br
<1>2. ASSUME NEW k \in 1 .. Len(ar)
      PROVE  Len(ar[k]) <= Len(br[k]) /\ \A i \in 1 .. Len(ar[k]) : br[k][i] = ar[k][i]
  <2>1. ar[k] \in Seq(S) /\ Len(ar[k]) \in Nat
    BY StorageFacts
  <2> QED
    BY <1>1, <2>1
<1>3. StorageGrows(ar, br)
  BY <1>1, <1>2 DEF StorageGrows
<1> QED
  BY <1>1, <1>3 DEF br

\* Views of grown arrays, with a new one that fits, satisfy the invariant.
LEMMA ViewAdded ==
    ASSUME ViewsInv, NEW v, arrays' \in Storage(Values), StorageGrows(arrays, arrays'), ArrayView(arrays', v),
           views' = Append(views, v), UNCHANGED <<maps, indexes>>
    PROVE  ViewsInv'
<1>1. v \in [array : Nat, length : Nat, was : Seq(Values)]
  BY DEF ArrayView
<1>2. views' \in Seq([array : Nat, length : Nat, was : Seq(Values)])
  BY <1>1 DEF ViewsInv
<1>3. ASSUME NEW i \in DOMAIN views' PROVE ArrayView(arrays', views'[i])
  <2>1. CASE i \in DOMAIN views
    <3>1. views'[i] = views[i] /\ ArrayView(arrays, views[i])
      BY <1>1, <2>1 DEF ViewsInv
    <3> QED
      BY <3>1, ViewStays DEF ViewsInv
  <2>2. CASE i \notin DOMAIN views
    <3> DEFINE R == [array : Nat, length : Nat, was : Seq(Values)]
    <3>1. views \in Seq(R) /\ v \in R
      BY <1>1 DEF ViewsInv
    <3> HIDE DEF R
    <3>2. DOMAIN views' = 1 .. (Len(views) + 1) /\ DOMAIN views = 1 .. Len(views) /\ Len(views) \in Nat /\ views'[Len(views) + 1] = v
      BY <3>1
    <3>3. i = Len(views) + 1
      BY <2>2, <3>2
    <3> QED
      BY <3>2, <3>3
  <2> QED
    BY <2>1, <2>2
<1>4. \A i \in DOMAIN indexes : MapView(maps, indexes[i])
  BY DEF ViewsInv
<1> QED
  BY <1>2, <1>3, <1>4 DEF ViewsInv

\* The same for maps.
LEMMA IndexAdded ==
    ASSUME ViewsInv, NEW x, maps' \in Storage(MapEntries), StorageGrows(maps, maps'), MapView(maps', x),
           \A k \in DOMAIN maps' : KeysOnce(maps'[k]),
           indexes' = Append(indexes, x), UNCHANGED <<arrays, views>>
    PROVE  ViewsInv'
<1>1. x \in [map : Nat, size : Nat, was : SUBSET MapEntries]
  BY DEF MapView
<1>2. indexes' \in Seq([map : Nat, size : Nat, was : SUBSET MapEntries])
  BY <1>1 DEF ViewsInv
<1>3. ASSUME NEW i \in DOMAIN indexes' PROVE MapView(maps', indexes'[i])
  <2>1. CASE i \in DOMAIN indexes
    <3>1. indexes'[i] = indexes[i] /\ MapView(maps, indexes[i])
      BY <1>1, <2>1 DEF ViewsInv
    <3> QED
      BY <3>1, IndexStays DEF ViewsInv
  <2>2. CASE i \notin DOMAIN indexes
    BY <1>1, <1>3, <2>2 DEF ViewsInv
  <2> QED
    BY <2>1, <2>2
<1>4. \A i \in DOMAIN views : ArrayView(arrays, views[i])
  BY DEF ViewsInv
<1> QED
  BY <1>2, <1>3, <1>4 DEF ViewsInv

\* append keeps the views (LogView.append).
LEMMA AppendKeeps ==
    ASSUME ViewsInv, NEW i0 \in DOMAIN views, NEW item \in Values, append(views[i0], item)
    PROVE  ViewsInv'
<1> DEFINE v == views[i0]
           s == arrays[v.array]
           long == Append(Items(v), item)
<1>1. ArrayView(arrays, v) /\ arrays \in Storage(Values)
  BY DEF ViewsInv
<1>2. /\ v.array \in 1 .. Len(arrays) /\ s \in Seq(Values)
      /\ v.length \in 0 .. Len(s) /\ Len(s) \in Nat
  <2>1. v.array \in DOMAIN arrays /\ v.length \in Nat /\ v.length <= Len(s)
    BY <1>1 DEF ArrayView
  <2> QED
    BY <1>1, <2>1, StorageFacts
<1>3. Items(v) \in Seq(Values) /\ Len(Items(v)) = v.length
  BY <1>2, Beginning DEF Items
<1>4. long \in Seq(Values) /\ Len(long) = v.length + 1
  BY <1>3
<1>5. UNCHANGED <<maps, indexes>>
  BY DEF append
<1>6. CASE InPlace(v)
  <2>1. Len(s) = v.length
    BY <1>6 DEF InPlace
  <2>2. long = Append(s, item)
    BY <1>2, <2>1, Beginning DEF Items
  <2> DEFINE w == [array |-> v.array, length |-> Len(s) + 1, was |-> long]
  <2>3. arrays' = [arrays EXCEPT ![v.array] = Append(@, item)] /\ views' = Append(views, w)
    BY <1>6 DEF append
  <2>4. arrays' \in Storage(Values) /\ StorageGrows(arrays, arrays')
    BY <1>1, <1>2, <2>3, GrowsByItem
  <2>5. arrays'[v.array] = long /\ v.array \in DOMAIN arrays'
    BY <1>1, <1>2, <1>4, <2>2, <2>3, StorageFacts
  <2>6. SubSeq(long, 1, Len(s) + 1) = long
    BY <1>2, <1>4, <2>1, Beginning
  <2>7. ArrayView(arrays', w)
    <3>1. /\ w.array = v.array /\ w.length = Len(s) + 1 /\ w.was = long /\ Len(s) + 1 <= Len(long)
          /\ w \in [array : Nat, length : Nat, was : Seq(Values)]
      BY <1>2, <1>4, <2>1
    <3> HIDE DEF w, long
    <3> QED
      BY <2>5, <2>6, <3>1 DEF ArrayView
  <2> HIDE DEF w
  <2> QED
    BY <1>5, <2>3, <2>4, <2>7, ViewAdded
<1>7. CASE ~InPlace(v)
  <2> DEFINE w == [array |-> Len(arrays) + 1, length |-> v.length + 1, was |-> long]
  <2>1. arrays' = Append(arrays, long) /\ views' = Append(views, w)
    BY <1>7 DEF append
  <2>2. arrays' \in Storage(Values) /\ StorageGrows(arrays, arrays')
    BY <1>1, <1>4, <2>1, GrowsByArray
  <2>3. arrays'[Len(arrays) + 1] = long /\ Len(arrays) + 1 \in DOMAIN arrays' /\ Len(arrays) \in Nat
    <3> HIDE DEF long
    <3>1. Len(arrays) \in Nat /\ Len(arrays') = Len(arrays) + 1 /\ arrays'[Len(arrays) + 1] = long
      BY <1>1, <1>4, <2>1, StorageFacts
    <3>2. DOMAIN arrays' = 1 .. Len(arrays')
      BY <2>2, StorageFacts
    <3> QED
      BY <3>1, <3>2
  <2>4. SubSeq(long, 1, v.length + 1) = long
    BY <1>2, <1>4, Beginning
  <2>5. ArrayView(arrays', w)
    <3>1. /\ w.array = Len(arrays) + 1 /\ w.length = v.length + 1 /\ w.was = long /\ v.length + 1 <= Len(long)
          /\ w \in [array : Nat, length : Nat, was : Seq(Values)]
      BY <1>2, <1>4, <2>3
    <3> HIDE DEF w, long
    <3> QED
      BY <2>3, <2>4, <3>1 DEF ArrayView
  <2> HIDE DEF w
  <2> QED
    BY <1>5, <2>1, <2>2, <2>5, ViewAdded
<1> QED
  BY <1>6, <1>7

\* take keeps the views (LogView.take).
LEMMA TakeKeeps ==
    ASSUME ViewsInv, NEW i0 \in DOMAIN views, NEW n \in Nat, take(views[i0], n)
    PROVE  ViewsInv'
<1> DEFINE v == views[i0]
           s == arrays[v.array]
           w == [array |-> v.array, length |-> n, was |-> SubSeq(v.was, 1, n)]
<1>1. ArrayView(arrays, v) /\ arrays \in Storage(Values) /\ n < v.length
  BY DEF ViewsInv, take
<1>2. /\ v.array \in 1 .. Len(arrays) /\ s \in Seq(Values) /\ v.length \in Nat
      /\ v.length \in 0 .. Len(s) /\ Len(s) \in Nat /\ v.was = SubSeq(s, 1, v.length) /\ v.was \in Seq(Values)
  <2>1. /\ v.array \in DOMAIN arrays /\ v.length \in Nat /\ v.length <= Len(s)
        /\ v.was = SubSeq(s, 1, v.length) /\ v.was \in Seq(Values)
    BY <1>1 DEF ArrayView
  <2> QED
    BY <1>1, <2>1, StorageFacts
<1>3. Len(v.was) = v.length /\ \A i \in 1 .. v.length : v.was[i] = s[i]
  BY <1>2, Beginning
<1>4. SubSeq(v.was, 1, n) = SubSeq(s, 1, n) /\ SubSeq(s, 1, n) \in Seq(Values)
  <2>1. n <= Len(v.was) /\ n <= Len(s) /\ n \in 0 .. Len(s) /\ \A i \in 1 .. n : v.was[i] = s[i]
    BY <1>1, <1>2, <1>3
  <2> QED
    BY <1>2, <2>1, SameBeginning, Beginning
<1>5. ArrayView(arrays, w)
  <2>1. /\ w.array = v.array /\ w.length = n /\ w.was = SubSeq(s, 1, n) /\ n <= Len(s)
        /\ w \in [array : Nat, length : Nat, was : Seq(Values)]
    <3>1. v.array \in Nat /\ n <= Len(s)
      BY <1>1, <1>2, StorageFacts
    <3> HIDE DEF v, s
    <3> QED
      BY <1>4, <3>1
  <2> HIDE DEF w
  <2>2. v.array \in DOMAIN arrays
    BY <1>1, <1>2, StorageFacts
  <2> QED
    BY <2>1, <2>2 DEF ArrayView
<1>6. StorageGrows(arrays, arrays)
  BY <1>1, StorageFacts DEF StorageGrows
<1>7. views' = Append(views, w) /\ arrays' = arrays /\ UNCHANGED <<maps, indexes>>
  BY DEF take
<1> HIDE DEF w
<1> QED
  BY <1>1, <1>5, <1>6, <1>7, ViewAdded

\* What a view of a map reads.
LEMMA EntriesRead ==
    ASSUME ViewsInv, NEW i0 \in DOMAIN indexes
    PROVE  LET x == indexes[i0]
               m == maps[x.map]
           IN  /\ x.map \in 1 .. Len(maps) /\ m \in Seq(MapEntries) /\ x.size \in 0 .. Len(m) /\ Len(m) \in Nat
               /\ \A i \in 1 .. x.size : m[i] \in MapEntries
               /\ KeysOnce(m)
               /\ Entries(x) = {m[i] : i \in 1 .. x.size}
               /\ x.was = Entries(x)
<1> DEFINE x == indexes[i0]
           m == maps[x.map]
<1>1. MapView(maps, x) /\ maps \in Storage(MapEntries)
  BY DEF ViewsInv
<1>2. x.map \in 1 .. Len(maps) /\ x.size \in Nat /\ x.size <= Len(m) /\ m \in Seq(MapEntries) /\ Len(m) \in Nat
  <2>1. x.map \in DOMAIN maps /\ x.size \in Nat /\ x.size <= Len(m)
    BY <1>1 DEF MapView
  <2> QED
    BY <1>1, <2>1, StorageFacts
<1>3. KeysOnce(m)
  BY <1>2 DEF ViewsInv
<1>4. \A i \in 1 .. x.size : m[i] \in MapEntries
  BY <1>2
<1>5. \A i \in 1 .. x.size : [key |-> m[i].key, value |-> m[i].value] = m[i]
  BY <1>4 DEF MapEntries
<1>6. Entries(x) = {m[i] : i \in 1 .. x.size}
  BY <1>5 DEF Entries
<1> QED
  BY <1>1, <1>2, <1>3, <1>4, <1>6 DEF MapView

\* set keeps the views (IndexView.set).
LEMMA SetKeeps ==
    ASSUME ViewsInv, NEW i0 \in DOMAIN indexes, NEW k \in ViewKeys, NEW value \in Values, set(indexes[i0], k, value)
    PROVE  ViewsInv'
<1> DEFINE x == indexes[i0]
           m == maps[x.map]
           current == Entry(x, k)
           new == [key |-> k, value |-> value]
           is == (Entries(x) \ current) \cup {new}
           added == Append(SubSeq(m, 1, x.size), new)
           replaced == [i \in 1 .. x.size |-> IF m[i].key = k THEN new ELSE m[i]]
<1>1. /\ x.map \in 1 .. Len(maps) /\ m \in Seq(MapEntries) /\ x.size \in 0 .. Len(m) /\ Len(m) \in Nat
      /\ \A i \in 1 .. x.size : m[i] \in MapEntries
      /\ KeysOnce(m)
      /\ Entries(x) = {m[i] : i \in 1 .. x.size}
  BY EntriesRead
<1>2. maps \in Storage(MapEntries) /\ \A n \in DOMAIN maps : KeysOnce(maps[n])
  BY DEF ViewsInv
<1>3. new \in MapEntries
  BY DEF MapEntries
<1>4. current = {m[i] : i \in {j \in 1 .. x.size : m[j].key = k}}
  BY <1>1 DEF Entry
<1>5. current = {} => \A i \in 1 .. x.size : m[i].key # k
  BY <1>4
<1>6. is \subseteq MapEntries
  BY <1>1, <1>3
<1>7. UNCHANGED <<arrays, views>>
  BY DEF set
<1>8. current = {} => is = {m[i] : i \in 1 .. x.size} \cup {new}
  BY <1>1
<1>9. /\ added \in Seq(MapEntries) /\ Len(added) = x.size + 1
      /\ \A i \in 1 .. x.size : added[i] = m[i]
      /\ added[x.size + 1] = new
  <2>1. SubSeq(m, 1, x.size) \in Seq(MapEntries) /\ Len(SubSeq(m, 1, x.size)) = x.size
        /\ \A i \in 1 .. x.size : SubSeq(m, 1, x.size)[i] = m[i]
    BY <1>1, Beginning
  <2> QED
    BY <1>1, <1>3, <2>1
<1> HIDE DEF added
<1>10. ASSUME current = {} PROVE KeysOnce(added) /\ {added[i] : i \in 1 .. x.size + 1} = is
  <2>1. \A i \in 1 .. x.size : added[i].key # k /\ added[i].key = m[i].key
    BY <1>5, <1>9, <1>10
  <2>2. added[x.size + 1].key = k
    BY <1>9
  <2>3. DOMAIN added = 1 .. x.size + 1
    BY <1>9
  <2>4. KeysOnce(added)
    <3> SUFFICES ASSUME NEW i \in 1 .. x.size + 1, NEW j \in 1 .. x.size + 1, added[i].key = added[j].key PROVE i = j
      BY <2>3 DEF KeysOnce
    <3>1. x.size \in Nat
      BY <1>1
    <3>2. CASE i \in 1 .. x.size /\ j \in 1 .. x.size
      <4>1. m[i].key = m[j].key /\ i \in DOMAIN m /\ j \in DOMAIN m
        BY <1>1, <2>1, <3>2
      <4> QED
        BY <1>1, <4>1 DEF KeysOnce
    <3>3. CASE i = x.size + 1 \/ j = x.size + 1
      BY <2>1, <2>2, <3>1, <3>3
    <3> QED
      BY <3>1, <3>2, <3>3
  <2>5. \A i \in 1 .. x.size + 1 : i \in 1 .. x.size \/ i = x.size + 1
    BY <1>1
  <2>6. 1 .. x.size \subseteq 1 .. x.size + 1 /\ x.size + 1 \in 1 .. x.size + 1
    BY <1>1
  <2>7. {added[i] : i \in 1 .. x.size + 1} = {m[i] : i \in 1 .. x.size} \cup {new}
    BY <1>9, <2>5, <2>6
  <2> QED
    BY <1>8, <1>10, <2>4, <2>7
<1>11. /\ replaced \in Seq(MapEntries) /\ Len(replaced) = x.size
       /\ \A i \in 1 .. x.size : replaced[i] = IF m[i].key = k THEN new ELSE m[i]
  BY <1>1, <1>3
<1> HIDE DEF replaced
<1>12. ASSUME current # {} PROVE KeysOnce(replaced) /\ {replaced[i] : i \in 1 .. x.size} = is
  <2>1. \A i \in 1 .. x.size : replaced[i].key = m[i].key
    BY <1>11
  <2>2. DOMAIN replaced = 1 .. x.size /\ 1 .. x.size \subseteq DOMAIN m
    BY <1>1, <1>11
  <2>3. KeysOnce(replaced)
    BY <1>1, <2>1, <2>2 DEF KeysOnce
  <2>4. PICK j \in 1 .. x.size : m[j].key = k
    BY <1>4, <1>12
  <2>5. ASSUME NEW e \in is PROVE \E i \in 1 .. x.size : replaced[i] = e
    <3>1. CASE e = new
      BY <1>11, <2>4, <3>1
    <3>2. CASE e \in Entries(x) \ current
      BY <1>1, <1>4, <1>11, <3>2
    <3> QED
      BY <2>5, <3>1, <3>2
  <2>6. ASSUME NEW i \in 1 .. x.size PROVE replaced[i] \in is
    <3>1. CASE m[i].key = k
      BY <1>11, <3>1
    <3>2. CASE m[i].key # k
      <4>1. replaced[i] = m[i] /\ m[i] \in Entries(x)
        BY <1>1, <1>11, <3>2
      <4>2. m[i] \notin current
        BY <3>2 DEF Entry
      <4> QED
        BY <4>1, <4>2
    <3> QED
      BY <3>1, <3>2
  <2> HIDE DEF is
  <2> QED
    BY <2>3, <2>5, <2>6
<1>13. CASE current = {} /\ x.size > 0 /\ Len(m) = x.size
  <2> DEFINE y == [map |-> x.map, size |-> x.size + 1, was |-> is]
  <2>1. maps' = [maps EXCEPT ![x.map] = Append(@, new)] /\ indexes' = Append(indexes, y)
    BY <1>13 DEF set
  <2>2. maps' \in Storage(MapEntries) /\ StorageGrows(maps, maps')
    BY <1>1, <1>2, <1>3, <2>1, GrowsByItem
  <2>3. Append(m, new) = added
    BY <1>1, <1>13, Beginning DEF added
  <2>4. /\ DOMAIN maps' = DOMAIN maps /\ x.map \in DOMAIN maps' /\ maps'[x.map] = added
        /\ \A n \in DOMAIN maps : n # x.map => maps'[n] = maps[n]
    BY <1>1, <1>2, <2>1, <2>3
  <2>5. \A n \in DOMAIN maps' : KeysOnce(maps'[n])
    BY <1>2, <1>10, <1>13, <2>4
  <2>6. y \in [map : Nat, size : Nat, was : SUBSET MapEntries]
    BY <1>1, <1>6
  <2>7. MapView(maps', y)
    <3>1. y.map = x.map /\ y.size = x.size + 1 /\ y.was = is
      OBVIOUS
    <3> HIDE DEF y
    <3>2. x.size + 1 <= Len(maps'[x.map]) /\ is = {maps'[x.map][i] : i \in 1 .. x.size + 1}
      BY <1>9, <1>10, <1>13, <2>4
    <3> HIDE DEF is
    <3> QED
      BY <2>4, <2>6, <3>1, <3>2 DEF MapView
  <2> HIDE DEF y
  <2> QED
    BY <1>7, <2>1, <2>2, <2>5, <2>7, IndexAdded
<1>14. CASE ~(current = {} /\ x.size > 0 /\ Len(m) = x.size)
  <2> DEFINE copy == IF current = {} THEN added ELSE replaced
             y == [map |-> Len(maps) + 1, size |-> Len(copy), was |-> is]
  <2>1. maps' = Append(maps, copy) /\ indexes' = Append(indexes, y)
    BY <1>14 DEF set, added, replaced
  <2>2. copy \in Seq(MapEntries) /\ KeysOnce(copy) /\ {copy[i] : i \in 1 .. Len(copy)} = is /\ Len(copy) \in Nat
    BY <1>9, <1>10, <1>11, <1>12
  <2> HIDE DEF copy
  <2>3. maps' \in Storage(MapEntries) /\ StorageGrows(maps, maps')
    BY <1>2, <2>1, <2>2, GrowsByArray
  <2>4. /\ DOMAIN maps' = 1 .. Len(maps) + 1 /\ maps'[Len(maps) + 1] = copy /\ Len(maps) \in Nat
        /\ \A n \in 1 .. Len(maps) : maps'[n] = maps[n]
    BY <1>2, <2>1, <2>2
  <2>5. \A n \in DOMAIN maps' : KeysOnce(maps'[n])
    BY <1>2, <2>2, <2>4
  <2>6. y \in [map : Nat, size : Nat, was : SUBSET MapEntries]
    BY <1>6, <2>2, <2>4
  <2>7. MapView(maps', y)
    BY <2>2, <2>4, <2>6 DEF MapView
  <2> HIDE DEF y
  <2> QED
    BY <1>7, <2>1, <2>3, <2>5, <2>7, IndexAdded
<1> QED
  BY <1>13, <1>14

\* Views begin with one empty view of an empty array, and of an empty map.
LEMMA ViewsInitial == ViewsInit => ViewsInv
<1> SUFFICES ASSUME ViewsInit PROVE ViewsInv
  OBVIOUS
<1> DEFINE v == [array |-> 1, length |-> 0, was |-> <<>>]
           x == [map |-> 1, size |-> 0, was |-> {}]
<1>1. arrays = <<<<>>>> /\ views = <<v>> /\ maps = <<<<>>>> /\ indexes = <<x>>
  BY DEF ViewsInit
<1>2. ArrayView(arrays, v)
  <2>1. SubSeq(<<>>, 1, 0) = <<>>
    OBVIOUS
  <2> QED
    BY <1>1, <2>1 DEF ArrayView
<1>3. MapView(maps, x)
  BY <1>1 DEF MapView
<1>4. \A n \in DOMAIN maps : KeysOnce(maps[n])
  BY <1>1 DEF KeysOnce
<1>5. v \in [array : Nat, length : Nat, was : Seq(Values)] /\ x \in [map : Nat, size : Nat, was : SUBSET MapEntries]
  OBVIOUS
<1> HIDE DEF v, x
<1> QED
  <2>1. <<>> \in Seq(Values) /\ <<>> \in Seq(MapEntries)
    BY EmptySeq
  <2>2. arrays \in Storage(Values) /\ maps \in Storage(MapEntries)
    BY <1>1, <2>1 DEF Storage
  <2>3. \A i \in DOMAIN views : views[i] = v
    BY <1>1
  <2>4. \A i \in DOMAIN indexes : indexes[i] = x
    BY <1>1
  <2> QED
    BY <1>1, <1>2, <1>3, <1>4, <1>5, <2>2, <2>3, <2>4 DEF ViewsInv

\* No step leaves the invariant.
LEMMA ViewsStep == ViewsInv /\ [ViewsNext]_viewVars => ViewsInv'
<1> SUFFICES ASSUME ViewsInv, [ViewsNext]_viewVars PROVE ViewsInv'
  OBVIOUS
<1>1. ASSUME NEW i \in DOMAIN views, NEW n \in 0 .. views[i].length, take(views[i], n) PROVE ViewsInv'
  BY <1>1, TakeKeeps
<1>2. CASE UNCHANGED viewVars
  BY <1>2 DEF ViewsInv, viewVars
<1> QED
  BY <1>1, <1>2, AppendKeeps, SetKeeps DEF ViewsNext

\* However appends, prefixes and updates are made from views that share storage, no view changes,
\* and a view of a map has a key once (LogView, IndexView).
THEOREM ViewsAreFixed == ViewsSpec => []ViewsFixed
<1>1. ASSUME ViewsInv PROVE ViewsFixed
  <2>1. ASSUME NEW i \in DOMAIN views PROVE Items(views[i]) = views[i].was
    BY <1>1 DEF ViewsInv, ArrayView, Items
  <2>2. ASSUME NEW i \in DOMAIN indexes PROVE Entries(indexes[i]) = indexes[i].was
    BY <1>1, EntriesRead
  <2>3. ASSUME NEW i \in DOMAIN indexes, NEW k \in ViewKeys PROVE Cardinality(Entry(indexes[i], k)) <= 1
    <3> DEFINE x == indexes[i]
               m == maps[x.map]
    <3>1. /\ x.size \in 0 .. Len(m) /\ m \in Seq(MapEntries) /\ KeysOnce(m)
          /\ Entries(x) = {m[n] : n \in 1 .. x.size}
      BY <1>1, EntriesRead
    <3>2. ASSUME NEW e \in Entry(x, k), NEW f \in Entry(x, k) PROVE e = f
      <4>1. PICK n \in 1 .. x.size : e = m[n] /\ m[n].key = k
        BY <3>1 DEF Entry
      <4>2. PICK j \in 1 .. x.size : f = m[j] /\ m[j].key = k
        BY <3>1 DEF Entry
      <4>3. n \in DOMAIN m /\ j \in DOMAIN m
        BY <3>1
      <4> QED
        BY <3>1, <4>1, <4>2, <4>3 DEF KeysOnce
    <3>3. CASE Entry(x, k) = {}
      BY <3>3, FS_EmptySet
    <3>4. CASE Entry(x, k) # {}
      <4>1. PICK e : Entry(x, k) = {e}
        BY <3>2, <3>4
      <4>2. Cardinality({e}) = 1
        BY FS_Singleton
      <4> QED
        BY <4>1, <4>2
    <3> QED
      BY <3>3, <3>4
  <2> QED
    BY <2>1, <2>2, <2>3 DEF ViewsFixed
<1> QED
  BY <1>1, ViewsInitial, ViewsStep, PTL DEF ViewsSpec
=============================================================================
