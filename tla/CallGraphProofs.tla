--------------------------- MODULE CallGraphProofs ---------------------------
(***************************************************************************)
(* For any tree of calls between any threads, and any clock and number of  *)
(* faults: a cancellation suppresses the work whose completion nobody has  *)
(* read back yet; a cancelled invocation either completes or is reported,  *)
(* the latter once what it had called is settled; and whatever the engine  *)
(* owes is kept in a mark, a settlement, a timer or a message until it is  *)
(* done.                                                                   *)
(*                                                                         *)
(* None follows from the log alone: a settlement decides from the log      *)
(* as it read it (mark), and events land while it carries the decision     *)
(* out.  The invariant relates each transition and each effect in its      *)
(* hands to that beginning of the log (Follows): work is of an invocation  *)
(* nobody had asked to cancel by then, and a cancellation is reported only *)
(* where no call was open.  Work reads the log back when it ends, and its  *)
(* completion is kept only if nobody asked since (ReadBackKeeps).  It may  *)
(* be appended after a cancellation that landed later; but the invocation  *)
(* still runs then, and nothing is reported in between (Heard), because a  *)
(* report is appended only while the log is as it was read (FreshIs).      *)
(* That no completion of a stopped invocation comes up is a property of    *)
(* steps: each Keeps lemma states what its action may add to a log and to  *)
(* the completions read back (Steady).                                     *)
(*                                                                         *)
(* For what is owed, DebtInv accounts for every transition a log enables:  *)
(* its thread is marked, or has a settlement that read this log and still  *)
(* holds the transition, or the transition waits for another thread.  A    *)
(* pass that ends with the log as it was read therefore ends at rest.      *)
(*                                                                         *)
(* Only is a recursive function, unfolded by induction over the set of     *)
(* lengths at which its recursion has a solution.                          *)
(***************************************************************************)
EXTENDS CallGraph, FiniteSetTheorems, SequenceTheorems, WellFoundedInduction, TLAPS

\* What logs, messages and settlements are made of.
Calls == Ids \X {"call"}
Refs == Ids \X {"call", "control"}
Events ==
    ({"received", "planned", "dispatched", "skipped", "done", "cancelled"} \X Calls \X {""})
    \cup ({"cancel"} \X Calls \X {"control", "alarm", "repair"})
    \cup ({"delivered", "cancelSent"} \X Refs \X {""})
    \cup ({"terminal"} \X Refs \X {"response", "timeout", "skipped"})
    \cup ({"cancelling"} \X Refs \X (0 .. MaxClock + CancelTimeout))
    \cup ({"alarm"} \X {<<>>} \X Nat)
Ends == {CallTree[c].to : c \in Ids} \cup {CallTree[c].from : c \in Ids}
Sent == {e \in Events : e[1] \in {"received", "cancel", "terminal"}}
Messages == Ends \X Sent
Steps ==
    ({"work", "repair", "finish"} \X Calls) \cup ({"timeout", "deliver", "cancel", "wait"} \X Refs)
Effects == {tr \in Steps : tr[1] \in {"work", "deliver", "cancel", "wait"}}
Acts == [tr : Effects, msg : Messages \cup {NoMsg}, end : {"open", "aborted", "lost", "kept", "dropped"}]
Procs == [pc : {"off", "sync", "fire", "acting", "ending"}, mark : Nat, todo : Seq(Steps), acts : SUBSET Acts]

\* By position n of log l nobody had asked to cancel ref.
Unasked(l, n, ref) == \A k \in 1 .. n : ~(l[k][1] = "cancel" /\ l[k][2] = ref)
\* Every call the work of c makes has its terminal.
KidsDone(l, c) == \A i \in DOMAIN Kids[c] : HasTerminal(l, Call(Kids[c][i]))
\* k is a call the running work of its parent makes.
Plans(l, k) ==
    LET c == CallTree[k].parent
    IN MethodState(l, c) = "running" /\ \E i \in DOMAIN Kids[c] : Kids[c][i] = k
\* A log with one end of an invocation at most, none while it has calls open, and no call but of
\* running work.
Clean(l) ==
    \A k \in DOMAIN l :
        /\ l[k][1] \in {"done", "cancelled"} => MethodState(SubSeq(l, 1, k - 1), l[k][2][1]) = "running"
        /\ l[k][1] = "done" => KidsDone(SubSeq(l, 1, k - 1), l[k][2][1])
        /\ l[k][1] = "cancelled" => OpenLinks(SubSeq(l, 1, k - 1), l[k][2][1]) = {}
        /\ l[k][1] = "planned" => Plans(SubSeq(l, 1, k - 1), l[k][2][1])
\* What a transition read from the first n events of l may assume.
Follows(l, n, tr) ==
    /\ tr[1] = "work" => Unasked(l, n, tr[2]) /\ MethodState(SubSeq(l, 1, n), tr[2][1]) = "running"
    /\ tr[1] = "finish" => OpenLinks(SubSeq(l, 1, n), tr[2][1]) = {} /\ MethodState(SubSeq(l, 1, n), tr[2][1]) = "running"
    /\ tr[1] = "cancel" =>
         tr[2] = Control(tr[2][1]) /\ \A k \in 1 .. n : ~(l[k][1] = "cancelling" /\ l[k][2] = tr[2])
\* Work that is about to complete has heard of every call it made, and has not ended.
Heard(l, a) ==
    a.tr[1] = "work" /\ a.msg = NoMsg => KidsDone(l, a.tr[2][1]) /\ MethodState(l, a.tr[2][1]) = "running"
\* A settlement and the log of its thread.
ProcFits(p, l) ==
    /\ p.mark <= Len(l)
    /\ p.pc = "fire" => p.todo # <<>>
    /\ \A k \in DOMAIN p.todo : Follows(l, p.mark, p.todo[k])
    /\ \A a \in p.acts : Follows(l, p.mark, a.tr) /\ Heard(l, a)
    /\ p.acts # {} => p.todo # <<>>

\* The logs with their settlements, and what is around them.
Standing(lg, pr) ==
    /\ lg \in [Threads -> Seq(Events)]
    /\ pr \in [Threads -> Procs]
    /\ \A t \in Threads : Clean(lg[t]) /\ ProcFits(pr[t], lg[t])
Around(nt, ck, rg) ==
    /\ nt \subseteq Messages
    /\ ck \in 0 .. MaxClock
    /\ DOMAIN rg = Threads
    /\ \A t \in Threads : rg[t] # <<>> => rg[t][1] \in Nat /\ rg[t][2] \subseteq Ids
CancellationInv == Standing(logs, procs) /\ Around(net, clock, ringing)

\* What a step may make of a thread: its log grows, by completions only that were read back; and
\* only a completion nobody has asked to suppress is read back.
Goes(l, p, l2, p2) ==
    /\ \E new \in Seq(Events) : /\ l2 = l \o new
                               /\ \A k \in DOMAIN new : new[k][1] = "done" => new[k][2] \in Kept(p)
    /\ \A ref \in Kept(p2) : ref \in Kept(p) \/ Unasked(l, Len(l), ref)
Steady == \A t \in Threads : Goes(logs[t], procs[t], logs'[t], procs'[t])
Moved == Standing(logs', procs') /\ Steady

-----------------------------------------------------------------------------
(* Sequences *)

\* A set of naturals has a least member.
LEMMA LeastNatural ==
  ASSUME NEW T, T \subseteq Nat, T # {}
  PROVE  \E n \in T : \A k \in T : n <= k
  <1> DEFINE R == {ss \in Nat \X Nat : ss[1] < ss[2]}
  <1>1. IsWellFoundedOn(R, Nat)
    BY NatLessThanWellFounded, Zenon DEF OpToRel
  <1>2. PICK x \in T : \A y \in T : ~(<<y, x>> \in R)
    <2> HIDE DEF R
    <2> QED  BY <1>1, WFMin
  <1>3. \A y \in T : <<y, x>> \in R <=> y < x
    OBVIOUS
  <1>4. \A y \in T : ~(y < x)
    <2> HIDE DEF R
    <2> QED  BY <1>2, <1>3
  <1>5. x \in Nat /\ \A y \in T : y \in Nat
    OBVIOUS
  <1> HIDE DEF R
  <1>6. \A y \in T : x <= y
    BY <1>4, <1>5
  <1> QED  BY <1>6

\* Induction up to a bound, over a set.
LEMMA Induction ==
  ASSUME NEW a \in Nat, NEW b \in Nat, NEW S, a \in S,
         \A n \in a .. b : n \in S /\ n < b => n + 1 \in S
  PROVE  \A n \in a .. b : n \in S
  <1> SUFFICES ASSUME NEW m \in a .. b, m \notin S PROVE FALSE
    OBVIOUS
  <1> DEFINE T == {n \in a .. b : n \notin S}
  <1>1. T \subseteq Nat /\ T # {}
    OBVIOUS
  <1>2. PICK n \in T : \A k \in T : n <= k
    <2> HIDE DEF T
    <2> QED  BY <1>1, LeastNatural
  <1>3. n \in a .. b /\ n \notin S /\ n # a
    OBVIOUS
  <1>4. n - 1 \in a .. b /\ n - 1 < b /\ n - 1 < n
    BY <1>3
  <1>5. n - 1 \in S
    BY <1>2, <1>3, <1>4
  <1>6. (n - 1) + 1 \in S
    BY <1>4, <1>5
  <1> QED  BY <1>3, <1>6

\* The recursion of Only has a solution.
LEMMA OnlyEquation ==
  ASSUME NEW seq, NEW places, Len(seq) \in Nat
  PROVE  \E g : /\ Only(seq, places) = g[Len(seq)]
                /\ g[0] = <<>>
                /\ \A n \in 1 .. Len(seq) : g[n] = With(g[n - 1], seq, places, n)
  <1> DEFINE fold == CHOOSE g : g = [n \in 0 .. Len(seq) |-> IF n = 0 THEN <<>> ELSE With(g[n - 1], seq, places, n)]
  <1>1. Only(seq, places) = fold[Len(seq)]
    BY DEF Only
  <1>2. fold = [n \in 0 .. Len(seq) |-> IF n = 0 THEN <<>> ELSE With(fold[n - 1], seq, places, n)]
    <2> DEFINE Solves(g, m) == g = [n \in 0 .. m |-> IF n = 0 THEN <<>> ELSE With(g[n - 1], seq, places, n)]
               S == {m \in 0 .. Len(seq) : \E g : Solves(g, m)}
    <2>1. 0 \in S
      <3> DEFINE g == [n \in 0 .. 0 |-> <<>>]
      <3>1. Solves(g, 0)
        OBVIOUS
      <3> HIDE DEF g, Solves
      <3> QED  BY <3>1
    <2>2. ASSUME NEW m \in 0 .. Len(seq), m \in S, m < Len(seq) PROVE m + 1 \in S
      <3>1. PICK g : Solves(g, m)
        BY <2>2
      <3> DEFINE h == [n \in 0 .. (m + 1) |-> IF n = m + 1 THEN With(g[m], seq, places, m + 1) ELSE g[n]]
      <3>2. \A n \in 0 .. m : g[n] = IF n = 0 THEN <<>> ELSE With(g[n - 1], seq, places, n)
        BY <3>1
      <3>3. ASSUME NEW n \in 0 .. (m + 1)
            PROVE  h[n] = IF n = 0 THEN <<>> ELSE With(h[n - 1], seq, places, n)
        <4>1. CASE n = 0
          BY <4>1, <3>2
        <4>2. CASE n # 0 /\ n <= m
          <5>1. n - 1 \in 0 .. m /\ n \in 0 .. m
            BY <4>2
          <5> QED  BY <4>2, <5>1, <3>2
        <4>3. CASE n = m + 1
          BY <4>3
        <4> QED  BY <4>1, <4>2, <4>3
      <3>4. h = [n \in 0 .. (m + 1) |-> IF n = 0 THEN <<>> ELSE With(h[n - 1], seq, places, n)]
        <4> DEFINE k == [n \in 0 .. (m + 1) |-> IF n = 0 THEN <<>> ELSE With(h[n - 1], seq, places, n)]
        <4>1. DOMAIN h = DOMAIN k /\ \A n \in DOMAIN h : h[n] = k[n]
          <5> HIDE DEF h
          <5>1. DOMAIN h = 0 .. (m + 1)
            BY DEF h
          <5> QED  BY <3>3, <5>1
        <4>2. h = [n \in DOMAIN h |-> h[n]] /\ k = [n \in DOMAIN k |-> k[n]]
          OBVIOUS
        <4> HIDE DEF h, k
        <4>3. h = k
          BY <4>1, <4>2
        <4> QED  BY <4>3 DEF k
      <3>5. Solves(h, m + 1)
        <4> HIDE DEF h
        <4> QED  BY <3>4
      <3> HIDE DEF h, Solves
      <3> QED  BY <2>2, <3>5
    <2>3. Len(seq) \in S
      <3> HIDE DEF S
      <3>1. \A n \in 0 .. Len(seq) : n \in S
        BY <2>1, <2>2, Induction
      <3> QED  BY <3>1
    <2>4. \E g : Solves(g, Len(seq))
      BY <2>3
    <2> QED  BY <2>4
  <1> HIDE DEF fold
  <1>3. fold[0] = <<>>
    <2>1. 0 \in 0 .. Len(seq)
      OBVIOUS
    <2> QED  BY <1>2, <2>1
  <1>4. ASSUME NEW n \in 1 .. Len(seq)
        PROVE  fold[n] = With(fold[n - 1], seq, places, n)
    <2>1. n \in 0 .. Len(seq) /\ n # 0
      OBVIOUS
    <2> QED  BY <1>2, <2>1
  <1> QED  BY <1>1, <1>3, <1>4

\* Elements at some places of a sequence are elements of it, and no more of them.
LEMMA OnlyIs ==
  ASSUME NEW S, NEW seq \in Seq(S), NEW places
  PROVE  /\ Only(seq, places) \in Seq(S)
         /\ Len(Only(seq, places)) <= Len(seq)
         /\ \A k \in DOMAIN Only(seq, places) : \E j \in DOMAIN seq \cap places : Only(seq, places)[k] = seq[j]
  <1>1. Len(seq) \in Nat /\ DOMAIN seq = 1 .. Len(seq)
    OBVIOUS
  <1>2. PICK g : /\ Only(seq, places) = g[Len(seq)]
                 /\ g[0] = <<>>
                 /\ \A n \in 1 .. Len(seq) : g[n] = With(g[n - 1], seq, places, n)
    BY <1>1, OnlyEquation
  <1> DEFINE Part(x, n) == /\ x \in Seq(S) /\ Len(x) <= n
                           /\ \A k \in DOMAIN x : \E j \in DOMAIN seq \cap places : x[k] = seq[j]
             T == {n \in 0 .. Len(seq) : Part(g[n], n)}
  <1>5. Part(g[0], 0)
    BY <1>2
  <1>6. ASSUME NEW n \in 0 .. Len(seq), Part(g[n], n), n < Len(seq) PROVE Part(g[n + 1], n + 1)
    <2>1. n + 1 \in 1 .. Len(seq) /\ n + 1 \in DOMAIN seq /\ seq[n + 1] \in S /\ (n + 1) - 1 = n /\ n \in Nat
      BY <1>1, <1>6
    <2>2. g[n + 1] = IF n + 1 \in places THEN Append(g[n], seq[n + 1]) ELSE g[n]
      BY <1>2, <2>1 DEF With
    <2>3. CASE n + 1 \notin places
      BY <1>6, <2>1, <2>2, <2>3
    <2>4. CASE n + 1 \in places
      <3>1. g[n + 1] = Append(g[n], seq[n + 1]) /\ g[n] \in Seq(S) /\ Len(g[n]) <= n
        BY <1>6, <2>2, <2>4
      <3>2. g[n + 1] \in Seq(S) /\ Len(g[n + 1]) = Len(g[n]) + 1 /\ Len(g[n + 1]) <= n + 1
        BY <2>1, <3>1
      <3>3. ASSUME NEW k \in DOMAIN g[n + 1] PROVE \E j \in DOMAIN seq \cap places : g[n + 1][k] = seq[j]
        <4>1. CASE k = Len(g[n]) + 1
          BY <2>1, <2>4, <3>1, <4>1
        <4>2. CASE k # Len(g[n]) + 1
          <5>1. k \in DOMAIN g[n] /\ g[n + 1][k] = g[n][k]
            BY <3>1, <3>2, <3>3, <4>2, <2>1
          <5> QED  BY <1>6, <5>1
        <4> QED  BY <4>1, <4>2
      <3> QED  BY <3>2, <3>3
    <2> QED  BY <2>3, <2>4
  <1>7. \A n \in 0 .. Len(seq) : n \in T
    <2>1. 0 \in T
      BY <1>1, <1>5
    <2>2. ASSUME NEW n \in 0 .. Len(seq), n \in T, n < Len(seq) PROVE n + 1 \in T
      <3> HIDE DEF Part
      <3>1. Part(g[n + 1], n + 1)
        BY <1>6, <2>2
      <3> QED  BY <1>1, <2>2, <3>1
    <2> HIDE DEF T
    <2> QED  BY <1>1, <2>1, <2>2, Induction
  <1>8. Part(g[Len(seq)], Len(seq))
    <2> HIDE DEF Part
    <2> QED  BY <1>1, <1>7
  <1> QED  BY <1>2, <1>8

\* And all of them.
LEMMA OnlyHas ==
  ASSUME NEW S, NEW seq \in Seq(S), NEW places, NEW j \in DOMAIN seq \cap places
  PROVE  \E k \in DOMAIN Only(seq, places) : Only(seq, places)[k] = seq[j]
  <1>1. Len(seq) \in Nat /\ DOMAIN seq = 1 .. Len(seq)
    OBVIOUS
  <1>2. PICK g : /\ Only(seq, places) = g[Len(seq)]
                 /\ g[0] = <<>>
                 /\ \A n \in 1 .. Len(seq) : g[n] = With(g[n - 1], seq, places, n)
    BY <1>1, OnlyEquation
  <1> DEFINE Part(x, n) == x \in Seq(S) /\ (j <= n => \E k \in DOMAIN x : x[k] = seq[j])
             T == {n \in 0 .. Len(seq) : Part(g[n], n)}
  <1>5. Part(g[0], 0)
    BY <1>1, <1>2
  <1>6. ASSUME NEW n \in 0 .. Len(seq), Part(g[n], n), n < Len(seq) PROVE Part(g[n + 1], n + 1)
    <2>1. n + 1 \in 1 .. Len(seq) /\ seq[n + 1] \in S /\ (n + 1) - 1 = n /\ n \in Nat /\ j \in Nat
      BY <1>1, <1>6
    <2>2. g[n + 1] = IF n + 1 \in places THEN Append(g[n], seq[n + 1]) ELSE g[n]
      BY <1>2, <2>1 DEF With
    <2>3. CASE n + 1 \notin places
      <3>1. j # n + 1
        BY <2>3
      <3> QED  BY <1>6, <2>1, <2>2, <2>3, <3>1
    <2>4. CASE n + 1 \in places
      <3>1. g[n + 1] = Append(g[n], seq[n + 1]) /\ g[n] \in Seq(S)
        BY <1>6, <2>2, <2>4
      <3>2. /\ g[n + 1] \in Seq(S) /\ Len(g[n + 1]) = Len(g[n]) + 1 /\ g[n + 1][Len(g[n]) + 1] = seq[n + 1]
            /\ \A k \in DOMAIN g[n] : k \in DOMAIN g[n + 1] /\ g[n + 1][k] = g[n][k]
            /\ Len(g[n]) + 1 \in DOMAIN g[n + 1]
        BY <2>1, <3>1
      <3>3. CASE j = n + 1
        BY <3>2, <3>3
      <3>4. CASE j <= n
        <4>1. PICK k \in DOMAIN g[n] : g[n][k] = seq[j]
          BY <1>6, <3>4
        <4> QED  BY <3>2, <4>1
      <3>5. j <= n + 1 => j = n + 1 \/ j <= n
        BY <2>1
      <3> QED  BY <3>2, <3>3, <3>4, <3>5
    <2> QED  BY <2>3, <2>4
  <1>7. \A n \in 0 .. Len(seq) : n \in T
    <2>1. 0 \in T
      BY <1>1, <1>5
    <2>2. ASSUME NEW n \in 0 .. Len(seq), n \in T, n < Len(seq) PROVE n + 1 \in T
      <3> HIDE DEF Part
      <3>1. Part(g[n + 1], n + 1)
        BY <1>6, <2>2
      <3> QED  BY <1>1, <2>2, <3>1
    <2> HIDE DEF T
    <2> QED  BY <1>1, <2>1, <2>2, Induction
  <1>8. Part(g[Len(seq)], Len(seq))
    <2> HIDE DEF Part
    <2> QED  BY <1>1, <1>7
  <1>9. j <= Len(seq)
    BY <1>1
  <1> QED  BY <1>2, <1>8, <1>9

\* The order a finite set is listed in lists its members.
LEMMA ListedIs ==
  ASSUME NEW S, IsFiniteSet(S)
  PROVE  SetToSeq(S) \in Seq(S) /\ ToSet(SetToSeq(S)) = S
  <1>1. Cardinality(S) \in Nat /\ ExistsBijection(1 .. Cardinality(S), S)
    BY FS_CardinalityType
  <1>2. \E f \in [1 .. Cardinality(S) -> S] : IsInjective(f)
    BY <1>1 DEF ExistsBijection, Bijection, Injection, Surjection, IsInjective
  <1> DEFINE f == SetToSeq(S)
  <1>3. f \in [1 .. Cardinality(S) -> S] /\ IsInjective(f)
    BY <1>2 DEF SetToSeq
  <1> HIDE DEF f
  <1>4. f \in Injection(1 .. Cardinality(S), S)
    BY <1>3 DEF Injection
  <1>5. Cardinality(1 .. Cardinality(S)) = Cardinality(S)
    BY <1>1, FS_Interval
  <1>6. f \in Surjection(1 .. Cardinality(S), S)
    BY <1>4, <1>5, FS_Injection
  <1>7. f \in Seq(S) /\ DOMAIN f = 1 .. Cardinality(S)
    BY <1>1, <1>3
  <1>8. ToSet(f) = S
    BY <1>3, <1>6, <1>7 DEF ToSet, Surjection
  <1> QED  BY <1>7, <1>8 DEF f

\* The members of a concatenation.
LEMMA ConcatLists ==
  ASSUME NEW S, NEW a \in Seq(S), NEW b \in Seq(S)
  PROVE  a \o b \in Seq(S) /\ ToSet(a \o b) = ToSet(a) \cup ToSet(b)
  <1>1. /\ a \o b \in Seq(S) /\ DOMAIN (a \o b) = 1 .. (Len(a) + Len(b)) /\ Len(a) \in Nat /\ Len(b) \in Nat
        /\ DOMAIN a = 1 .. Len(a) /\ DOMAIN b = 1 .. Len(b)
        /\ \A k \in 1 .. Len(a) : (a \o b)[k] = a[k]
        /\ \A k \in 1 .. Len(b) : (a \o b)[Len(a) + k] = b[k]
    OBVIOUS
  <1> DEFINE c == a \o b
  <1> HIDE DEF c
  <1>2. ASSUME NEW k \in DOMAIN c PROVE c[k] \in ToSet(a) \cup ToSet(b)
    <2>1. CASE k \in 1 .. Len(a)
      BY <1>1, <2>1 DEF ToSet, c
    <2>2. CASE k \notin 1 .. Len(a)
      <3>1. k - Len(a) \in 1 .. Len(b) /\ k = Len(a) + (k - Len(a))
        BY <1>1, <1>2, <2>2 DEF c
      <3>2. c[k] = b[k - Len(a)]
        BY <1>1, <3>1 DEF c
      <3> QED  BY <1>1, <3>1, <3>2 DEF ToSet
    <2> QED  BY <2>1, <2>2
  <1>3. \A k \in 1 .. Len(a) : k \in DOMAIN c /\ c[k] = a[k]
    BY <1>1 DEF c
  <1>4. \A k \in 1 .. Len(b) : Len(a) + k \in DOMAIN c /\ c[Len(a) + k] = b[k]
    BY <1>1 DEF c
  <1>5. ToSet(c) = ToSet(a) \cup ToSet(b)
    BY <1>1, <1>2, <1>3, <1>4 DEF ToSet
  <1> QED  BY <1>1, <1>5 DEF c

-----------------------------------------------------------------------------
(* What a log enables *)

\* What an event is about.
LEMMA EventIs ==
  ASSUME NEW e \in Events
  PROVE  /\ e[1] # "alarm" => e[2] \in Refs
         /\ e[1] \in {"received", "planned", "dispatched", "skipped", "done", "cancelled", "cancel"} => e[2] \in Calls
  BY DEF Events, Refs, Calls

\* There are finitely many transitions.
LEMMA StepsFinite == IsFiniteSet(Steps)
  <1>1. IsFiniteSet(Ids)
    BY CallGraphAssumption DEF Ids
  <1>2. IsFiniteSet({"call"})
    BY FS_Singleton
  <1>3. IsFiniteSet({"control"})
    BY FS_Singleton
  <1>4. IsFiniteSet({"call", "control"})
    <2>1. {"call", "control"} = {"call"} \cup {"control"}
      OBVIOUS
    <2> QED  BY <1>2, <1>3, <2>1, FS_Union
  <1>5. IsFiniteSet(Calls) /\ IsFiniteSet(Refs)
    BY <1>1, <1>2, <1>4, FS_Product DEF Calls, Refs
  <1>6. IsFiniteSet({"work"} \X Calls) /\ IsFiniteSet({"repair"} \X Calls) /\ IsFiniteSet({"finish"} \X Calls)
    BY <1>5, FS_Singleton, FS_Product
  <1>7. IsFiniteSet({"timeout"} \X Refs) /\ IsFiniteSet({"deliver"} \X Refs) /\ IsFiniteSet({"cancel"} \X Refs)
        /\ IsFiniteSet({"wait"} \X Refs)
    BY <1>5, FS_Singleton, FS_Product
  <1> DEFINE A == ({"work"} \X Calls) \cup ({"repair"} \X Calls)
             B == A \cup ({"finish"} \X Calls)
             C == B \cup ({"timeout"} \X Refs)
             D == C \cup ({"deliver"} \X Refs)
             E == D \cup ({"cancel"} \X Refs)
             F == E \cup ({"wait"} \X Refs)
  <1>8. IsFiniteSet(A)
    BY <1>6, FS_Union
  <1>9. IsFiniteSet(B)
    <2> HIDE DEF A
    <2> QED  BY <1>6, <1>8, FS_Union
  <1>10. IsFiniteSet(C)
    <2> HIDE DEF B
    <2> QED  BY <1>7, <1>9, FS_Union
  <1>11. IsFiniteSet(D)
    <2> HIDE DEF C
    <2> QED  BY <1>7, <1>10, FS_Union
  <1>12. IsFiniteSet(E)
    <2> HIDE DEF D
    <2> QED  BY <1>7, <1>11, FS_Union
  <1>13. IsFiniteSet(F)
    <2> HIDE DEF E
    <2> QED  BY <1>7, <1>12, FS_Union
  <1>14. Steps \subseteq F
    BY DEF Steps
  <1> HIDE DEF F
  <1> QED  BY <1>13, <1>14, FS_Subset

\* The first of the replies a log owes.
LEMMA FirstReply ==
  ASSUME NEW l \in Seq(Events), Replies(l) # {}
  PROVE  LET k == CHOOSE k \in Replies(l) : \A j \in Replies(l) : k <= j IN ReplyRef(l[k]) \in Refs
  <1>1. Replies(l) \subseteq Nat
    BY DEF Replies
  <1>2. \E k \in Replies(l) : \A j \in Replies(l) : k <= j
    BY <1>1, LeastNatural
  <1> DEFINE k == CHOOSE k \in Replies(l) : \A j \in Replies(l) : k <= j
  <1>3. k \in Replies(l)
    BY <1>2
  <1> HIDE DEF k
  <1>4. k \in DOMAIN l /\ Accepts(l[k]) /\ l[k] \in Events
    BY <1>3 DEF Replies
  <1>5. l[k][1] \in {"received", "cancel"}
    BY <1>4 DEF Accepts
  <1>6. l[k][2] \in Calls
    BY <1>4, <1>5, EventIs
  <1>7. ReplyRef(l[k]) \in Refs
    BY <1>5, <1>6 DEF ReplyRef, Calls, Refs, Control
  <1> QED  BY <1>7 DEF k

\* Work is enabled only of an invocation nobody asked to cancel, and an invocation is reported
\* cancelled only when it has no open call.  What is owed is enabled: a reply, a cancellation no
\* timer asked for, a report, and the cancellation of a call.
LEMMA TransitionsAre ==
  ASSUME NEW l \in Seq(Events)
  PROVE  /\ Transitions(l) \in Seq({tr \in Steps : Follows(l, Len(l), tr)})
         /\ Replies(l) # {} => \E tr \in ToSet(Transitions(l)) : tr[1] = "deliver"
         /\ \A c \in Crossed(l, Deadline) : Alarmed(l, Deadline) => <<"repair", Call(c)>> \in ToSet(Transitions(l))
         /\ \A c \in PendingCancels(l) :
              /\ OpenLinks(l, c) = {} /\ MethodState(l, c) = "running" => <<"finish", Call(c)>> \in ToSet(Transitions(l))
              /\ \A k \in OpenLinks(l, c) : Obligation(l, k) \in ToSet(Transitions(l))
  <1> DEFINE work == {<<"work", Call(c)>> : c \in {i \in Ids : MethodState(l, i) = "running" /\ ~Suppressed(l, i)}}
             late == {<<"timeout", d[1]>> : d \in {e \in Dispatches(l) : ~HasTerminal(l, e[1]) /\ Alarmed(l, e[2])}}
             repair == {<<"repair", Call(c)>> : c \in {i \in Crossed(l, Deadline) : Alarmed(l, Deadline)}}
             reply == IF Replies(l) = {} THEN {}
                      ELSE {<<"deliver", ReplyRef(l[CHOOSE k \in Replies(l) : \A j \in Replies(l) : k <= j])>>}
             finish == {<<"finish", Call(c)>> : c \in {i \in PendingCancels(l) :
                          OpenLinks(l, i) = {} /\ MethodState(l, i) = "running"}}
             duty == UNION {{Obligation(l, k) : k \in OpenLinks(l, c)} : c \in PendingCancels(l)}
             Good == {tr \in Steps : Follows(l, Len(l), tr)}
  <1>1. Transitions(l) = SetToSeq(work) \o SetToSeq(late) \o SetToSeq(repair) \o SetToSeq(reply)
                           \o SetToSeq(finish) \o SetToSeq(duty)
    BY DEF Transitions, Finishing
  <1>2. \A k \in DOMAIN l : l[k] \in Events
    OBVIOUS
  <1>3. Len(l) \in Nat /\ DOMAIN l = 1 .. Len(l) /\ SubSeq(l, 1, Len(l)) = l
    OBVIOUS
  <1>4. work \subseteq Good
    <2> SUFFICES ASSUME NEW c \in Ids, MethodState(l, c) = "running", ~Suppressed(l, c)
                 PROVE  <<"work", Call(c)>> \in Good
      OBVIOUS
    <2>1. <<"work", Call(c)>> \in Steps
      BY DEF Steps, Calls, Call
    <2>2. Unasked(l, Len(l), Call(c))
      BY <1>3 DEF Suppressed, Unasked, Requests
    <2>3. Call(c)[1] = c /\ MethodState(SubSeq(l, 1, Len(l)), c) = "running"
      BY <1>3 DEF Call
    <2> QED  BY <2>1, <2>2, <2>3 DEF Follows
  <1>5. late \subseteq Good
    <2> SUFFICES ASSUME NEW d \in Dispatches(l) PROVE <<"timeout", d[1]>> \in Good
      OBVIOUS
    <2>1. PICK k \in DOMAIN l : l[k][1] \in {"dispatched", "cancelling"} /\ d[1] = l[k][2]
      BY DEF Dispatches
    <2>2. d[1] \in Refs
      BY <1>2, <2>1, EventIs
    <2> QED  BY <2>2 DEF Steps, Follows
  <1>6. repair \subseteq Good
    <2> SUFFICES ASSUME NEW c \in Ids PROVE <<"repair", Call(c)>> \in Good
      BY DEF Crossed
    <2> QED  BY DEF Steps, Follows, Calls, Call
  <1>7. reply \subseteq Good
    <2> SUFFICES ASSUME Replies(l) # {}
                 PROVE  <<"deliver", ReplyRef(l[CHOOSE k \in Replies(l) : \A j \in Replies(l) : k <= j])>> \in Good
      OBVIOUS
    <2> DEFINE ref == ReplyRef(l[CHOOSE k \in Replies(l) : \A j \in Replies(l) : k <= j])
    <2>1. ref \in Refs
      BY FirstReply
    <2> HIDE DEF ref
    <2>2. <<"deliver", ref>> \in Good
      BY <2>1 DEF Steps, Follows
    <2> QED  BY <2>2 DEF ref
  <1>8. PendingCancels(l) \subseteq Ids
    <2> SUFFICES ASSUME NEW k \in DOMAIN l, l[k][1] = "cancel" PROVE l[k][2][1] \in Ids
      BY DEF PendingCancels, Requests
    <2>1. l[k][2] \in Calls
      BY <1>2, EventIs
    <2> QED  BY <2>1 DEF Calls
  <1>9. finish \subseteq Good
    <2> SUFFICES ASSUME NEW c \in Ids, OpenLinks(l, c) = {}, MethodState(l, c) = "running" PROVE <<"finish", Call(c)>> \in Good
      BY <1>8
    <2> QED  BY <1>3 DEF Steps, Follows, Calls, Call
  <1>10. duty \subseteq Good
    <2> SUFFICES ASSUME NEW c, NEW k \in OpenLinks(l, c) PROVE Obligation(l, k) \in Good
      OBVIOUS
    <2>1. k \in Ids
      BY DEF OpenLinks
    <2>2. Control(k) \in Refs /\ Control(k)[1] = k
      BY <2>1 DEF Refs, Control
    <2>3. CASE \E j \in DOMAIN l : l[j][1] = "cancelling" /\ l[j][2] = Control(k)
      BY <2>2, <2>3 DEF Obligation, Steps, Follows
    <2>4. CASE ~ \E j \in DOMAIN l : l[j][1] = "cancelling" /\ l[j][2] = Control(k)
      BY <1>3, <2>2, <2>4 DEF Obligation, Steps, Follows
    <2> QED  BY <2>3, <2>4
  <1>14. Replies(l) # {} => \E tr \in reply : tr[1] = "deliver"
    OBVIOUS
  <1>15. \A c \in Crossed(l, Deadline) : Alarmed(l, Deadline) => <<"repair", Call(c)>> \in repair
    OBVIOUS
  <1>16. \A c \in PendingCancels(l) : OpenLinks(l, c) = {} /\ MethodState(l, c) = "running" => <<"finish", Call(c)>> \in finish
    OBVIOUS
  <1>17. \A c \in PendingCancels(l) : \A k \in OpenLinks(l, c) : Obligation(l, k) \in duty
    OBVIOUS
  <1> HIDE DEF work, late, repair, reply, finish, duty
  <1>11. ASSUME NEW S, S \subseteq Good PROVE SetToSeq(S) \in Seq(Good) /\ ToSet(SetToSeq(S)) = S
    <2>1. IsFiniteSet(S)
      BY <1>11, StepsFinite, FS_Subset
    <2>2. SetToSeq(S) \in Seq(S) /\ ToSet(SetToSeq(S)) = S
      BY <2>1, ListedIs
    <2> HIDE DEF Good
    <2> QED  BY <1>11, <2>2
  <1>12. /\ SetToSeq(work) \in Seq(Good) /\ SetToSeq(late) \in Seq(Good) /\ SetToSeq(repair) \in Seq(Good)
         /\ SetToSeq(reply) \in Seq(Good) /\ SetToSeq(finish) \in Seq(Good) /\ SetToSeq(duty) \in Seq(Good)
         /\ ToSet(SetToSeq(repair)) = repair /\ ToSet(SetToSeq(reply)) = reply
         /\ ToSet(SetToSeq(finish)) = finish /\ ToSet(SetToSeq(duty)) = duty
    BY <1>4, <1>5, <1>6, <1>7, <1>9, <1>10, <1>11
  <1> DEFINE A == SetToSeq(work) \o SetToSeq(late)
             B == A \o SetToSeq(repair)
             C == B \o SetToSeq(reply)
             D == C \o SetToSeq(finish)
             E == D \o SetToSeq(duty)
  <1>13. Transitions(l) \in Seq(Good) /\ repair \cup reply \cup finish \cup duty \subseteq ToSet(Transitions(l))
    <2> HIDE DEF Good
    <2>1. A \in Seq(Good)
      BY <1>12, ConcatLists
    <2>2. B \in Seq(Good) /\ repair \subseteq ToSet(B)
      <3> HIDE DEF A
      <3> QED  BY <1>12, <2>1, ConcatLists
    <2>3. C \in Seq(Good) /\ repair \cup reply \subseteq ToSet(C)
      <3> HIDE DEF B
      <3> QED  BY <1>12, <2>2, ConcatLists
    <2>4. D \in Seq(Good) /\ repair \cup reply \cup finish \subseteq ToSet(D)
      <3> HIDE DEF C
      <3> QED  BY <1>12, <2>3, ConcatLists
    <2>5. E \in Seq(Good) /\ repair \cup reply \cup finish \cup duty \subseteq ToSet(E)
      <3> HIDE DEF D
      <3> QED  BY <1>12, <2>4, ConcatLists
    <2>6. Transitions(l) = E
      BY <1>1
    <2> HIDE DEF E
    <2> QED  BY <2>5, <2>6
  <1> HIDE DEF A, B, C, D, E
  <1>18. repair \subseteq ToSet(Transitions(l)) /\ reply \subseteq ToSet(Transitions(l))
         /\ finish \subseteq ToSet(Transitions(l)) /\ duty \subseteq ToSet(Transitions(l))
    BY <1>13
  <1> QED  BY <1>13, <1>14, <1>15, <1>16, <1>17, <1>18

-----------------------------------------------------------------------------
(* Appending *)

\* What an append adds are events of the batch, and no more of them.
LEMMA AppendAdds ==
  ASSUME NEW l \in Seq(Events), NEW events \in Seq(Events)
  PROVE  \E new \in Seq(Events) :
           /\ AppendTo(l, events) = l \o new
           /\ Len(new) <= Len(events)
           /\ \A k \in DOMAIN new : \E j \in DOMAIN events : new[k] = events[j]
  <1> DEFINE places == {k \in DOMAIN events :
               events[k][1] = "alarm" \/ KeyOf(events[k]) \notin Recorded(l) \cup Recorded(SubSeq(events, 1, k - 1))}
             new == Only(events, places)
  <1>1. AppendTo(l, events) = l \o new
    BY DEF AppendTo
  <1> HIDE DEF places
  <1>2. /\ new \in Seq(Events)
        /\ Len(new) <= Len(events)
        /\ \A k \in DOMAIN new : \E j \in DOMAIN events \cap places : new[k] = events[j]
    BY OnlyIs
  <1> HIDE DEF new
  <1> QED  BY <1>1, <1>2

\* A log that grew begins as it was.
LEMMA Grown ==
  ASSUME NEW l \in Seq(Events), NEW new \in Seq(Events)
  PROVE  /\ l \o new \in Seq(Events)
         /\ Len(l \o new) = Len(l) + Len(new) /\ Len(l) \in Nat /\ Len(new) \in Nat
         /\ \A k \in 1 .. Len(l) : (l \o new)[k] = l[k]
         /\ \A k \in 1 .. Len(new) : (l \o new)[Len(l) + k] = new[k]
         /\ \A n \in 0 .. Len(l) : SubSeq(l \o new, 1, n) = SubSeq(l, 1, n)
  OBVIOUS

\* What follows from the beginning of a log follows from the beginning of a longer one.
LEMMA FollowsOn ==
  ASSUME NEW l \in Seq(Events), NEW new \in Seq(Events), NEW n \in 0 .. Len(l), NEW tr, Follows(l, n, tr)
  PROVE  Follows(l \o new, n, tr)
  <1>1. SubSeq(l \o new, 1, n) = SubSeq(l, 1, n) /\ \A k \in 1 .. n : (l \o new)[k] = l[k]
    BY Grown
  <1> QED  BY <1>1 DEF Follows, Unasked

\* A terminal stays.
LEMMA TerminalOn ==
  ASSUME NEW l \in Seq(Events), NEW new \in Seq(Events), NEW ref, HasTerminal(l, ref)
  PROVE  HasTerminal(l \o new, ref)
  <1>1. DOMAIN l = 1 .. Len(l) /\ DOMAIN (l \o new) = 1 .. Len(l \o new)
    OBVIOUS
  <1> QED  BY <1>1, Grown DEF HasTerminal

\* Events that end no invocation.
Ordinary(events) == \A k \in DOMAIN events : events[k][1] \notin {"done", "cancelled"}

\* An invocation runs on as long as no end of it is appended.
LEMMA RunningOn ==
  ASSUME NEW l \in Seq(Events), NEW new \in Seq(Events), Ordinary(new), NEW c, MethodState(l, c) = "running"
  PROVE  MethodState(l \o new, c) = "running"
  <1> DEFINE longer == l \o new
  <1>1. /\ Len(longer) = Len(l) + Len(new) /\ Len(l) \in Nat /\ Len(new) \in Nat /\ longer \in Seq(Events)
        /\ \A k \in 1 .. Len(l) : longer[k] = l[k]
        /\ \A k \in 1 .. Len(new) : longer[Len(l) + k] = new[k]
    BY Grown
  <1>2. DOMAIN l = 1 .. Len(l) /\ DOMAIN new = 1 .. Len(new)
    OBVIOUS
  <1> HIDE DEF longer
  <1>3. DOMAIN longer = 1 .. Len(longer)
    BY <1>1
  <1>4. Has(l, Received(c)) /\ ~Has(l, Done(c)) /\ ~Has(l, Cancelled(c))
    BY DEF MethodState
  <1>5. Has(longer, Received(c))
    BY <1>1, <1>2, <1>3, <1>4 DEF Has
  <1>6. ASSUME NEW k \in DOMAIN longer, longer[k][1] \in {"done", "cancelled"} PROVE k \in DOMAIN l /\ longer[k] = l[k]
    <2>1. CASE k <= Len(l)
      BY <1>1, <1>2, <1>3, <2>1
    <2>2. CASE k > Len(l)
      <3> DEFINE i == k - Len(l)
      <3>1. i \in 1 .. Len(new) /\ k = Len(l) + i
        BY <1>1, <1>3, <2>2
      <3>2. longer[k] = new[i]
        BY <1>1, <3>1
      <3> QED  BY <1>2, <1>6, <3>1, <3>2 DEF Ordinary
    <2> QED  BY <1>1, <1>3, <2>1, <2>2
  <1>7. Done(c)[1] = "done" /\ Cancelled(c)[1] = "cancelled"
    BY DEF Done, Cancelled
  <1>8. ~Has(longer, Done(c)) /\ ~Has(longer, Cancelled(c))
    <2>1. ASSUME NEW e, e[1] \in {"done", "cancelled"}, Has(longer, e) PROVE Has(l, e)
      BY <1>6, <2>1 DEF Has
    <2> QED  BY <1>4, <1>7, <2>1
  <1> QED  BY <1>5, <1>8 DEF MethodState, longer

\* So does a settlement.
LEMMA FitsOn ==
  ASSUME NEW l \in Seq(Events), NEW new \in Seq(Events), NEW p \in Procs, ProcFits(p, l), p.acts = {} \/ Ordinary(new)
  PROVE  ProcFits(p, l \o new)
  <1>1. p.mark \in 0 .. Len(l) /\ p.mark <= Len(l \o new)
    BY Grown DEF ProcFits, Procs
  <1>2. \A tr : Follows(l, p.mark, tr) => Follows(l \o new, p.mark, tr)
    BY <1>1, FollowsOn
  <1>3. \A ref : HasTerminal(l, ref) => HasTerminal(l \o new, ref)
    BY TerminalOn
  <1>4. \A a \in p.acts : Heard(l, a) => Heard(l \o new, a)
    BY <1>3, RunningOn DEF Heard, KidsDone
  <1> QED  BY <1>1, <1>2, <1>4 DEF ProcFits

\* A batch that settlement p may append: an end of an invocation, or a call planned, alone and
\* only as the log has it; and a completion only if it was read back.
Admissible(p, l, events) ==
    /\ \A k \in DOMAIN events : events[k][1] \in {"done", "cancelled"} => MethodState(l, events[k][2][1]) = "running"
    /\ \A k \in DOMAIN events : events[k][1] = "done" => KidsDone(l, events[k][2][1]) /\ events[k][2] \in Kept(p)
    /\ \A k \in DOMAIN events : events[k][1] = "cancelled" => OpenLinks(l, events[k][2][1]) = {}
    /\ \A k \in DOMAIN events : events[k][1] = "planned" => Plans(l, events[k][2][1])
    /\ Len(events) > 1 => \A k \in DOMAIN events : events[k][1] \notin {"done", "cancelled", "planned"}

\* Such an append keeps a log clean.
LEMMA AppendKeeps ==
  ASSUME NEW l \in Seq(Events), NEW events \in Seq(Events), Clean(l), NEW q, Admissible(q, l, events)
  PROVE  /\ AppendTo(l, events) \in Seq(Events)
         /\ Clean(AppendTo(l, events))
         /\ \A p \in Procs : ProcFits(p, l) /\ (p.acts = {} \/ Ordinary(events)) => ProcFits(p, AppendTo(l, events))
         /\ \E new \in Seq(Events) : /\ AppendTo(l, events) = l \o new
                                    /\ \A k \in DOMAIN new : new[k][1] = "done" => new[k][2] \in Kept(q)
  <1>1. PICK new \in Seq(Events) :
           /\ AppendTo(l, events) = l \o new
           /\ Len(new) <= Len(events)
           /\ \A k \in DOMAIN new : \E j \in DOMAIN events : new[k] = events[j]
    BY AppendAdds
  <1> DEFINE longer == l \o new
  <1>2. /\ longer \in Seq(Events) /\ Len(longer) = Len(l) + Len(new) /\ Len(l) \in Nat /\ Len(new) \in Nat
        /\ \A k \in 1 .. Len(l) : longer[k] = l[k]
        /\ \A k \in 1 .. Len(new) : longer[Len(l) + k] = new[k]
        /\ \A n \in 0 .. Len(l) : SubSeq(longer, 1, n) = SubSeq(l, 1, n)
    BY Grown
  <1>8. Ordinary(events) => Ordinary(new)
    BY <1>1 DEF Ordinary
  <1>9. \A k \in DOMAIN new : new[k][1] = "done" => new[k][2] \in Kept(q)
    BY <1>1 DEF Admissible
  <1>3. \A p \in Procs : ProcFits(p, l) /\ (p.acts = {} \/ Ordinary(events)) => ProcFits(p, longer)
    BY <1>8, FitsOn
  <1>4. DOMAIN l = 1 .. Len(l) /\ DOMAIN new = 1 .. Len(new) /\ DOMAIN events = 1 .. Len(events) /\ Len(events) \in Nat
        /\ SubSeq(l, 1, Len(l)) = l
    OBVIOUS
  <1> HIDE DEF longer
  <1>5. DOMAIN longer = 1 .. Len(longer)
    BY <1>2
  <1>6. ASSUME NEW k \in DOMAIN longer
        PROVE  /\ longer[k][1] \in {"done", "cancelled"} => MethodState(SubSeq(longer, 1, k - 1), longer[k][2][1]) = "running"
               /\ longer[k][1] = "done" => KidsDone(SubSeq(longer, 1, k - 1), longer[k][2][1])
               /\ longer[k][1] = "cancelled" => OpenLinks(SubSeq(longer, 1, k - 1), longer[k][2][1]) = {}
               /\ longer[k][1] = "planned" => Plans(SubSeq(longer, 1, k - 1), longer[k][2][1])
    <2>1. CASE k <= Len(l)
      <3>1. k \in DOMAIN l /\ longer[k] = l[k] /\ k - 1 \in 0 .. Len(l)
        BY <1>2, <1>4, <1>5, <2>1
      <3>2. SubSeq(longer, 1, k - 1) = SubSeq(l, 1, k - 1)
        BY <1>2, <3>1
      <3> QED  BY <3>1, <3>2 DEF Clean
    <2>2. CASE k > Len(l) /\ longer[k][1] \in {"done", "cancelled", "planned"}
      <3> DEFINE i == k - Len(l)
      <3>1. i \in 1 .. Len(new) /\ k = Len(l) + i
        BY <1>2, <1>5, <2>2
      <3>2. longer[k] = new[i]
        BY <1>2, <3>1
      <3>3. PICK j \in DOMAIN events : new[i] = events[j]
        BY <1>1, <1>4, <3>1
      <3>4. Len(events) = 1
        BY <1>4, <2>2, <3>2, <3>3 DEF Admissible
      <3>5. k - 1 = Len(l)
        BY <1>1, <1>2, <3>1, <3>4
      <3>6. SubSeq(longer, 1, k - 1) = l
        BY <1>2, <1>4, <3>5
      <3>7. longer[k] = events[j]
        BY <3>2, <3>3
      <3> HIDE DEF i
      <3>8. events[j][1] \in {"done", "cancelled"} => MethodState(l, events[j][2][1]) = "running"
        BY <3>3 DEF Admissible
      <3>9. events[j][1] = "cancelled" => OpenLinks(l, events[j][2][1]) = {}
        BY <3>3 DEF Admissible
      <3>10. events[j][1] = "done" => KidsDone(l, events[j][2][1])
        BY <3>3 DEF Admissible
      <3>11. events[j][1] = "planned" => Plans(l, events[j][2][1])
        BY <3>3 DEF Admissible
      <3> QED  BY <3>5, <3>6, <3>7, <3>8, <3>9, <3>10, <3>11
    <2> QED  BY <1>2, <1>4, <1>5, <2>1, <2>2
  <1>7. Clean(longer)
    BY <1>6 DEF Clean
  <1> QED  BY <1>1, <1>2, <1>3, <1>7, <1>9 DEF longer

-----------------------------------------------------------------------------
(* Settlements *)

\* A settlement that has nothing in hand.
LEMMA OffFits ==
  ASSUME NEW pc \in {"off", "sync", "ending"}, NEW l \in Seq(Events)
  PROVE  [Off EXCEPT !.pc = pc] \in Procs /\ ProcFits([Off EXCEPT !.pc = pc], l) /\ [Off EXCEPT !.pc = pc].acts = {}
  <1> DEFINE p == [Off EXCEPT !.pc = pc]
  <1>1. p.pc = pc /\ p.mark = 0 /\ p.todo = <<>> /\ p.acts = {}
    BY DEF Off
  <1>2. Len(l) \in Nat /\ DOMAIN <<>> = {} /\ <<>> \in Seq(Steps)
    OBVIOUS
  <1>3. p \in Procs
    <2>1. Off \in Procs
      <3>1. <<>> \in Seq(Steps) /\ {} \in SUBSET Acts
        OBVIOUS
      <3> QED  BY <3>1, Zenon DEF Procs, Off
    <2> QED  BY <2>1 DEF Procs
  <1> HIDE DEF p
  <1>4. ProcFits(p, l)
    BY <1>1, <1>2 DEF ProcFits
  <1> QED  BY <1>1, <1>3, <1>4 DEF p

\* Off itself.
LEMMA IdleFits ==
  ASSUME NEW l \in Seq(Events)
  PROVE  /\ Off \in Procs /\ ProcFits(Off, l) /\ Off.acts = {}
         /\ Resync \in Procs /\ ProcFits(Resync, l) /\ Resync.acts = {}
  <1>1. Off = [Off EXCEPT !.pc = "off"]
    BY DEF Off
  <1> QED  BY <1>1, OffFits DEF Resync

\* The transition at hand follows from the log as the settlement read it.
LEMMA HeadFits ==
  ASSUME NEW p \in Procs, NEW l \in Seq(Events), ProcFits(p, l), p.todo # <<>>
  PROVE  Head(p.todo) \in Steps /\ Follows(l, p.mark, Head(p.todo))
  <1>1. p.todo \in Seq(Steps)
    BY DEF Procs
  <1>2. 1 \in DOMAIN p.todo /\ Head(p.todo) = p.todo[1] /\ p.todo[1] \in Steps
    BY <1>1
  <1> QED  BY <1>2 DEF ProcFits

\* A pass that runs on.
LEMMA PassFits ==
  ASSUME NEW p \in Procs, NEW l \in Seq(Events), ProcFits(p, l), NEW rest \in Seq(Steps), rest # <<>>,
         \A k \in DOMAIN rest : \E j \in DOMAIN p.todo : rest[k] = p.todo[j],
         NEW q, q \in Procs, q.pc = "fire", q.mark = p.mark, q.todo = rest, q.acts \subseteq p.acts
  PROVE  ProcFits(q, l)
  BY DEF ProcFits

\* What is left of the transitions without the group.
LEMMA SequentialIs ==
  ASSUME NEW p \in Procs
  PROVE  /\ Sequential(p.todo) \in Seq(Steps)
         /\ \A k \in DOMAIN Sequential(p.todo) : \E j \in DOMAIN p.todo : Sequential(p.todo)[k] = p.todo[j]
  <1> DEFINE places == {j \in DOMAIN p.todo : ~Concurrent(p.todo[j])}
             rest == Sequential(p.todo)
  <1>1. rest = Only(p.todo, places)
    BY DEF Sequential
  <1>2. p.todo \in Seq(Steps)
    BY DEF Procs
  <1> HIDE DEF places, rest
  <1>3. /\ rest \in Seq(Steps)
        /\ \A k \in DOMAIN rest : \E j \in DOMAIN p.todo \cap places : rest[k] = p.todo[j]
    BY <1>1, <1>2, OnlyIs
  <1> QED  BY <1>3 DEF places, rest

\* A pass with what is left of its transitions once the group is done.
LEMMA SequentialFits ==
  ASSUME NEW p \in Procs, NEW l \in Seq(Events), ProcFits(p, l), Sequential(p.todo) # <<>>,
         NEW q, q = [p EXCEPT !.pc = "fire", !.todo = Sequential(p.todo), !.acts = {}]
  PROVE  q \in Procs /\ ProcFits(q, l) /\ q.acts = {}
  <1> DEFINE rest == Sequential(p.todo)
  <1>2. rest \in Seq(Steps) /\ \A k \in DOMAIN rest : \E j \in DOMAIN p.todo : rest[k] = p.todo[j]
    BY SequentialIs
  <1> HIDE DEF rest
  <1>3. q = [p EXCEPT !.pc = "fire", !.todo = rest, !.acts = {}]
    BY DEF rest
  <1>4. q \in Procs /\ q.pc = "fire" /\ q.mark = p.mark /\ q.todo = rest /\ q.acts = {}
    BY <1>2, <1>3 DEF Procs
  <1> QED  BY <1>2, <1>4, PassFits DEF rest

\* A pass whose transition was blocked.
LEMMA BlockedFits ==
  ASSUME NEW p \in Procs, NEW l \in Seq(Events), ProcFits(p, l), p.todo # <<>>
  PROVE  Blocked(p) \in Procs /\ ProcFits(Blocked(p), l) /\ Blocked(p).acts = {}
  <1>1. p.todo \in Seq(Steps)
    BY DEF Procs
  <1>2. CASE Len(p.todo) = 1
    BY <1>2, OffFits DEF Blocked
  <1>3. CASE Len(p.todo) # 1
    <2> DEFINE rest == Tail(p.todo)
               q == [p EXCEPT !.pc = "fire", !.todo = rest, !.acts = {}]
    <2>1. Blocked(p) = q
      BY <1>3 DEF Blocked
    <2>2. rest \in Seq(Steps) /\ rest # <<>> /\ \A k \in DOMAIN rest : \E j \in DOMAIN p.todo : rest[k] = p.todo[j]
      <3>1. Len(p.todo) \in Nat /\ Len(p.todo) > 1 /\ DOMAIN p.todo = 1 .. Len(p.todo)
        <4> DEFINE todo == p.todo
        <4>1. todo \in Seq(Steps) /\ todo # <<>> /\ Len(todo) # 1
          BY <1>1, <1>3
        <4> HIDE DEF todo
        <4>2. Len(todo) # 0
          BY <4>1, EmptySeq
        <4>3. Len(todo) \in Nat /\ DOMAIN todo = 1 .. Len(todo)
          BY <4>1
        <4>4. Len(todo) > 1
          BY <4>1, <4>2, <4>3
        <4> QED  BY <4>3, <4>4 DEF todo
      <3>2. rest \in Seq(Steps) /\ Len(rest) = Len(p.todo) - 1 /\ \A k \in 1 .. (Len(p.todo) - 1) : rest[k] = p.todo[k + 1]
        BY <1>1, <3>1
      <3>3. \A k \in 1 .. (Len(p.todo) - 1) : k + 1 \in 1 .. Len(p.todo)
        BY <3>1
      <3>4. DOMAIN rest = 1 .. (Len(p.todo) - 1) /\ rest # <<>>
        <4> HIDE DEF rest
        <4> QED  BY <3>1, <3>2
      <3> HIDE DEF rest
      <3> QED  BY <3>1, <3>2, <3>3, <3>4
    <2> HIDE DEF rest
    <2>3. q \in Procs /\ q.pc = "fire" /\ q.mark = p.mark /\ q.todo = rest /\ q.acts = {}
      BY <2>2 DEF Procs
    <2> HIDE DEF q
    <2>4. ProcFits(q, l)
      BY <2>2, <2>3, PassFits
    <2> QED  BY <2>1, <2>3, <2>4
  <1> QED  BY <1>2, <1>3

\* An interruption ends acts, and changes nothing else.
LEMMA InterruptFits ==
  ASSUME NEW pr \in [Threads -> Procs], NEW t, NEW landed
  PROVE  /\ Interrupt(pr, t, landed) \in [Threads -> Procs]
         /\ \A u \in Threads : \A l : ProcFits(pr[u], l) => ProcFits(Interrupt(pr, t, landed)[u], l)
         /\ \A u \in Threads : Kept(Interrupt(pr, t, landed)[u]) \subseteq Kept(pr[u])
  <1> DEFINE Ended(a) == IF a.tr[1] = "work" /\ a.msg # NoMsg /\ (\E k \in DOMAIN landed : landed[k][1] = "cancel" /\ landed[k][2] = a.tr[2])
                         THEN [a EXCEPT !.end = "aborted"] ELSE a
             ended == {Ended(a) : a \in pr[t].acts}
             after == Interrupt(pr, t, landed)
  <1>1. after = [pr EXCEPT ![t] = [pr[t] EXCEPT !.acts = ended]]
    BY DEF Interrupt
  <1>2. \A a \in Acts : Ended(a) \in Acts /\ Ended(a).tr = a.tr /\ Ended(a).msg = a.msg /\ (Ended(a).end = "kept" => a.end = "kept")
    BY DEF Acts
  <1>3. CASE t \notin Threads
    BY <1>1, <1>3
  <1>4. CASE t \in Threads
    <2>1. pr[t] \in Procs /\ pr[t].acts \subseteq Acts
      BY <1>4 DEF Procs
    <2>2. ended \subseteq Acts /\ \A b \in ended : \E a \in pr[t].acts : b.tr = a.tr /\ b.msg = a.msg /\ (b.end = "kept" => a.end = "kept")
      <3> HIDE DEF Ended
      <3> QED  BY <1>2, <2>1
    <2>3. ended # {} => pr[t].acts # {}
      OBVIOUS
    <2> HIDE DEF ended, after
    <2> DEFINE q == [pr[t] EXCEPT !.acts = ended]
    <2>4. q \in Procs /\ q.pc = pr[t].pc /\ q.mark = pr[t].mark /\ q.todo = pr[t].todo /\ q.acts = ended
      BY <2>1, <2>2 DEF Procs
    <2> HIDE DEF q
    <2>5. \A l : ProcFits(pr[t], l) => ProcFits(q, l)
      BY <2>2, <2>3, <2>4 DEF ProcFits, Heard
    <2>6. after \in [Threads -> Procs] /\ after[t] = q /\ \A u \in Threads \ {t} : after[u] = pr[u]
      BY <1>1, <1>4, <2>4 DEF q
    <2>7. after \in [Threads -> Procs] /\ \A u \in Threads : \A l : ProcFits(pr[u], l) => ProcFits(after[u], l)
      BY <2>5, <2>6
    <2>8. Kept(q) \subseteq Kept(pr[t])
      BY <2>2, <2>4 DEF Kept
    <2>9. \A u \in Threads : Kept(after[u]) \subseteq Kept(pr[u])
      BY <2>6, <2>8
    <2> QED  BY <2>7, <2>9 DEF after
  <1> QED  BY <1>3, <1>4

-----------------------------------------------------------------------------
(* Moves *)

\* A settlement without acts has read nothing back.
LEMMA NothingKept ==
  ASSUME NEW p, \A a \in p.acts : a.end # "kept"
  PROVE  Kept(p) = {}
  BY DEF Kept

\* A thread whose log stays, and that reads nothing back.
LEMMA StaysSteady ==
  ASSUME CancellationInv, NEW u \in Threads, logs'[u] = logs[u],
         \A ref \in Kept(procs'[u]) : ref \in Kept(procs[u]) \/ Unasked(logs[u], Len(logs[u]), ref)
  PROVE  Goes(logs[u], procs[u], logs'[u], procs'[u])
  <1>1. logs[u] \in Seq(Events)
    BY DEF CancellationInv, Standing
  <1>2. <<>> \in Seq(Events) /\ logs[u] \o <<>> = logs[u] /\ DOMAIN <<>> = {}
    BY <1>1, ConcatEmptySeq
  <1>3. \E new \in Seq(Events) : /\ logs'[u] = logs[u] \o new
                                /\ \A k \in DOMAIN new : new[k][1] = "done" => new[k][2] \in Kept(procs[u])
    <2> WITNESS <<>> \in Seq(Events)
    <2> QED  BY <1>2
  <1> QED  BY <1>3 DEF Goes

\* A settlement moves on.
LEMMA ProcMoves ==
  ASSUME CancellationInv, NEW t \in Threads, NEW q \in Procs, ProcFits(q, logs[t]),
         q.acts = {} \/ \A ref \in Kept(q) : ref \in Kept(procs[t]) \/ Unasked(logs[t], Len(logs[t]), ref),
         logs' = logs, procs' = [procs EXCEPT ![t] = q]
  PROVE  Moved
  <1>1. Standing(logs', procs')
    BY DEF CancellationInv, Standing
  <1>2. procs'[t] = q /\ \A u \in Threads \ {t} : procs'[u] = procs[u]
    BY DEF CancellationInv, Standing
  <1>3. \A ref \in Kept(q) : ref \in Kept(procs[t]) \/ Unasked(logs[t], Len(logs[t]), ref)
    BY NothingKept
  <1>4. \A u \in Threads : \A ref \in Kept(procs'[u]) : ref \in Kept(procs[u]) \/ Unasked(logs[u], Len(logs[u]), ref)
    BY <1>2, <1>3
  <1>5. Steady
    BY <1>4, StaysSteady DEF Steady
  <1> QED  BY <1>1, <1>5 DEF Moved

\* A log grows: what becomes of it and of every settlement.
LEMMA LogMoves ==
  ASSUME CancellationInv, NEW t \in Threads, NEW events \in Seq(Events), Admissible(procs[t], logs[t], events),
         NEW q \in Procs, ProcFits(q, logs[t]), q.acts = {} \/ (Ordinary(events) /\ Kept(q) \subseteq Kept(procs[t])),
         NEW next, next = AppendTo(logs[t], events), NEW landed,
         logs' = [logs EXCEPT ![t] = next], procs' = Interrupt([procs EXCEPT ![t] = q], t, landed)
  PROVE  Moved
  <1>1. logs[t] \in Seq(Events) /\ Clean(logs[t])
    BY DEF CancellationInv, Standing
  <1>2. /\ next \in Seq(Events) /\ Clean(next)
        /\ \A p \in Procs : ProcFits(p, logs[t]) /\ (p.acts = {} \/ Ordinary(events)) => ProcFits(p, next)
        /\ \E new \in Seq(Events) : /\ next = logs[t] \o new
                                   /\ \A k \in DOMAIN new : new[k][1] = "done" => new[k][2] \in Kept(procs[t])
    BY <1>1, AppendKeeps
  <1> DEFINE pr == [procs EXCEPT ![t] = q]
  <1>3. pr \in [Threads -> Procs] /\ ProcFits(pr[t], next) /\ \A u \in Threads \ {t} : ProcFits(pr[u], logs[u])
    BY <1>2 DEF CancellationInv, Standing
  <1>4. logs' \in [Threads -> Seq(Events)] /\ logs'[t] = next /\ \A u \in Threads \ {t} : logs'[u] = logs[u]
    BY <1>2 DEF CancellationInv, Standing
  <1>5. procs' = Interrupt(pr, t, landed)
    OBVIOUS
  <1>9. pr[t] = q /\ \A u \in Threads \ {t} : pr[u] = procs[u]
    BY DEF CancellationInv, Standing
  <1> HIDE DEF pr
  <1>6. /\ procs' \in [Threads -> Procs]
        /\ \A u \in Threads : ProcFits(pr[u], logs'[u]) => ProcFits(procs'[u], logs'[u])
        /\ \A u \in Threads : Kept(procs'[u]) \subseteq Kept(pr[u])
    BY <1>3, <1>5, InterruptFits
  <1>7. \A u \in Threads : ProcFits(procs'[u], logs'[u])
    BY <1>3, <1>4, <1>6
  <1>8. \A u \in Threads : Clean(logs'[u])
    BY <1>2, <1>4 DEF CancellationInv, Standing
  <1>10. Kept(q) \subseteq Kept(procs[t])
    BY NothingKept
  <1>11. \A u \in Threads : Kept(procs'[u]) \subseteq Kept(procs[u])
    BY <1>6, <1>9, <1>10
  <1>12. Goes(logs[t], procs[t], logs'[t], procs'[t])
    BY <1>2, <1>4, <1>11 DEF Goes
  <1>13. ASSUME NEW u \in Threads, u # t PROVE Goes(logs[u], procs[u], logs'[u], procs'[u])
    BY <1>4, <1>11, <1>13, StaysSteady
  <1>14. Steady
    BY <1>12, <1>13 DEF Steady
  <1> QED  BY <1>4, <1>6, <1>7, <1>8, <1>14 DEF Standing, Moved

\* A settlement records events and moves on.
LEMMA RecordMoves ==
  ASSUME CancellationInv, NEW t \in Threads, NEW events \in Seq(Events), Admissible(procs[t], logs[t], events),
         NEW q \in Procs, ProcFits(q, logs[t]), q.acts = {} \/ (Ordinary(events) /\ Kept(q) \subseteq Kept(procs[t])),
         Record(t, events, q)
  PROVE  Moved
  <1> DEFINE next == AppendTo(logs[t], events)
             landed == SubSeq(next, Len(logs[t]) + 1, Len(next))
  <1>1. logs' = [logs EXCEPT ![t] = next] /\ procs' = Interrupt([procs EXCEPT ![t] = q], t, landed)
    BY DEF Record
  <1> HIDE DEF landed
  <1> QED  BY <1>1, LogMoves

\* Events land in a log from outside.
LEMMA LandMoves ==
  ASSUME CancellationInv, NEW t, NEW events \in Seq(Events), t \in Threads => Admissible(procs[t], logs[t], events),
         Ordinary(events), Land(t, events)
  PROVE  Moved
  <1> DEFINE next == AppendTo(logs[t], events)
             landed == SubSeq(next, Len(logs[t]) + 1, Len(next))
  <1>1. logs' = [logs EXCEPT ![t] = next] /\ procs' = Interrupt(procs, t, landed)
    BY DEF Land
  <1> HIDE DEF landed
  <1>2. CASE t \in Threads
    <2>1. procs[t] \in Procs /\ ProcFits(procs[t], logs[t]) /\ procs = [procs EXCEPT ![t] = procs[t]]
      BY <1>2 DEF CancellationInv, Standing
    <2> DEFINE pr == [procs EXCEPT ![t] = procs[t]]
    <2>2. procs' = Interrupt(pr, t, landed)
      BY <1>1, <2>1
    <2> QED  BY <1>1, <1>2, <2>1, <2>2, LogMoves
  <1>3. CASE t \notin Threads
    <2>1. logs' = logs
      BY <1>1, <1>3 DEF CancellationInv, Standing
    <2>2. /\ procs' \in [Threads -> Procs]
          /\ \A u \in Threads : ProcFits(procs[u], logs[u]) => ProcFits(procs'[u], logs[u])
          /\ \A u \in Threads : Kept(procs'[u]) \subseteq Kept(procs[u])
      BY <1>1, InterruptFits DEF CancellationInv, Standing
    <2>3. Steady
      BY <2>1, <2>2, StaysSteady DEF Steady
    <2> QED  BY <2>1, <2>2, <2>3 DEF CancellationInv, Standing, Moved
  <1> QED  BY <1>2, <1>3

\* Events that end no invocation and plan no call may always be appended.
LEMMA EndsNothing ==
  ASSUME NEW p, NEW l, NEW events, \A k \in DOMAIN events : events[k][1] \notin {"done", "cancelled", "planned"}
  PROVE  Admissible(p, l, events) /\ Ordinary(events)
  BY DEF Admissible, Ordinary

\* One event.
LEMMA OneEvent ==
  ASSUME NEW e \in Events
  PROVE  /\ <<e>> \in Seq(Events) /\ DOMAIN <<e>> = {1} /\ <<e>>[1] = e /\ Len(<<e>>) = 1
         /\ e[1] \notin {"done", "cancelled"} => Ordinary(<<e>>)
         /\ \A p, l : e[1] \notin {"done", "cancelled", "planned"} => Admissible(p, l, <<e>>)
         /\ \A p, l : e[1] = "planned" /\ Plans(l, e[2][1]) => Admissible(p, l, <<e>>)
  <1>1. <<e>> \in Seq(Events) /\ DOMAIN <<e>> = {1} /\ <<e>>[1] = e /\ Len(<<e>>) = 1
    OBVIOUS
  <1>2. \A p, l : e[1] = "planned" /\ Plans(l, e[2][1]) => Admissible(p, l, <<e>>)
    BY <1>1 DEF Admissible
  <1>3. e[1] \notin {"done", "cancelled"} => Ordinary(<<e>>)
    BY <1>1 DEF Ordinary
  <1> QED  BY <1>1, <1>2, <1>3, EndsNothing

-----------------------------------------------------------------------------
(* The steps *)

\* Initially there is nothing.
LEMMA CancellationInit == Init => CancellationInv
  <1> SUFFICES ASSUME Init PROVE CancellationInv
    OBVIOUS
  <1>1. <<>> \in Seq(Events) /\ DOMAIN <<>> = {} /\ Clean(<<>>)
    BY DEF Clean
  <1>2. Off \in Procs /\ ProcFits(Off, <<>>)
    BY <1>1, IdleFits
  <1>3. Standing(logs, procs)
    BY <1>1, <1>2 DEF Init, Standing
  <1>4. 0 \in 0 .. MaxClock
    BY CallGraphAssumption
  <1> QED  BY <1>3, <1>4 DEF Init, CancellationInv, Around

\* Ingress: a received call or a request to cancel it.
LEMMA IngressKeeps ==
  ASSUME CancellationInv, NEW c \in Ids, NEW e \in {Received(c), CancelRequested(c, "control")}, Ingress(c, e)
  PROVE  CancellationInv' /\ Steady
  <1>1. e \in Events /\ e[1] \notin {"done", "cancelled", "planned"}
    <2>1. Call(c) \in Calls
      BY DEF Call, Calls
    <2>2. CASE e = Received(c)
      BY <2>1, <2>2 DEF Received, Events
    <2>3. CASE e = CancelRequested(c, "control")
      BY <2>1, <2>3 DEF CancelRequested, Events
    <2> QED  BY <2>2, <2>3
  <1>2. Moved
    <2>1. <<e>> \in Seq(Events) /\ Ordinary(<<e>>) /\ \A p, l : Admissible(p, l, <<e>>)
      BY <1>1, OneEvent
    <2>2. Land(CallTree[c].to, <<e>>)
      BY DEF Ingress
    <2> QED  BY <2>1, <2>2, LandMoves
  <1> QED  BY <1>2 DEF CancellationInv, Around, Ingress, Moved

\* Deliver: a message lands.
LEMMA DeliverKeeps ==
  ASSUME CancellationInv, NEW m \in net, Deliver(m)
  PROVE  CancellationInv' /\ Steady
  <1>1. m \in Messages
    BY DEF CancellationInv, Around
  <1>2. m[2] \in Events /\ m[2][1] \notin {"done", "cancelled", "planned"}
    BY <1>1 DEF Messages, Sent
  <1>3. Moved
    <2>1. <<m[2]>> \in Seq(Events) /\ Ordinary(<<m[2]>>) /\ \A p, l : Admissible(p, l, <<m[2]>>)
      BY <1>2, OneEvent
    <2>2. Land(m[1], <<m[2]>>)
      BY DEF Deliver
    <2> QED  BY <2>1, <2>2, LandMoves
  <1> QED  BY <1>3 DEF CancellationInv, Around, Deliver, Moved

\* Launch, ServeEnds, Synchronize: a settlement begins, reads the log, or ends.
LEMMA LaunchKeeps ==
  ASSUME CancellationInv, NEW t \in Threads, Launch(t) \/ ServeEnds(t) \/ Synchronize(t)
  PROVE  CancellationInv' /\ Steady
  <1>1. logs[t] \in Seq(Events) /\ logs' = logs /\ Around(net', clock', ringing')
    BY DEF CancellationInv, Standing, Around, Launch, ServeEnds, Synchronize
  <1>2. CASE Launch(t)
    BY <1>1, <1>2, OffFits, ProcMoves DEF Launch, CancellationInv, Moved
  <1>3. CASE ServeEnds(t)
    BY <1>1, <1>3, IdleFits, ProcMoves DEF ServeEnds, CancellationInv, Moved
  <1>4. CASE Synchronize(t)
    <2> DEFINE todo == Transitions(logs[t])
               q == [pc |-> "fire", mark |-> Len(logs[t]), todo |-> todo, acts |-> {}]
    <2>1. procs' = [procs EXCEPT ![t] = IF todo = <<>> THEN [Off EXCEPT !.pc = "ending"] ELSE q]
      BY <1>4 DEF Synchronize
    <2>2. todo \in Seq(Steps) /\ \A k \in DOMAIN todo : Follows(logs[t], Len(logs[t]), todo[k])
      <3>1. todo \in Seq({tr \in Steps : Follows(logs[t], Len(logs[t]), tr)})
        BY <1>1, TransitionsAre
      <3> HIDE DEF todo
      <3> QED  BY <3>1
    <2> HIDE DEF todo
    <2>3. CASE todo = <<>>
      BY <1>1, <2>1, <2>3, OffFits, ProcMoves DEF CancellationInv, Moved
    <2>4. CASE todo # <<>>
      <3>1. q \in Procs /\ q.acts = {}
        BY <1>1, <2>2 DEF Procs
      <3>2. ProcFits(q, logs[t])
        BY <1>1, <2>2, <2>4 DEF ProcFits
      <3> HIDE DEF q
      <3> QED  BY <1>1, <2>1, <2>4, <3>1, <3>2, ProcMoves DEF CancellationInv, Moved
    <2> QED  BY <2>3, <2>4
  <1> QED  BY <1>2, <1>3, <1>4

\* Stale: the log moved since it was read.
LEMMA StaleKeeps ==
  ASSUME CancellationInv, NEW t \in Threads, Stale(t)
  PROVE  CancellationInv' /\ Steady
  <1>1. logs[t] \in Seq(Events) /\ procs[t] \in Procs /\ ProcFits(procs[t], logs[t]) /\ procs[t].pc = "fire"
    BY DEF CancellationInv, Standing, Stale
  <1>2. logs' = logs /\ Around(net', clock', ringing')
    BY DEF CancellationInv, Around, Stale
  <1> DEFINE rest == Sequential(procs[t].todo)
  <1>3. procs' = [procs EXCEPT ![t] = IF ~Concurrent(Head(procs[t].todo)) THEN Resync
                     ELSE IF rest = <<>> THEN [Off EXCEPT !.pc = "ending"] ELSE [procs[t] EXCEPT !.todo = rest]]
    BY DEF Stale
  <1>4. CASE ~Concurrent(Head(procs[t].todo))
    BY <1>1, <1>2, <1>3, <1>4, IdleFits, ProcMoves DEF CancellationInv, Moved
  <1>5. CASE Concurrent(Head(procs[t].todo)) /\ rest = <<>>
    BY <1>1, <1>2, <1>3, <1>5, OffFits, ProcMoves DEF CancellationInv, Moved
  <1>6. CASE Concurrent(Head(procs[t].todo)) /\ rest # <<>>
    <2> DEFINE q == [procs[t] EXCEPT !.todo = rest]
    <2>1. rest \in Seq(Steps) /\ \A k \in DOMAIN rest : \E j \in DOMAIN procs[t].todo : rest[k] = procs[t].todo[j]
      BY <1>1, SequentialIs
    <2> HIDE DEF rest
    <2>2. q \in Procs /\ q.pc = "fire" /\ q.mark = procs[t].mark /\ q.todo = rest /\ q.acts \subseteq procs[t].acts
      BY <1>1, <2>1 DEF Procs
    <2> HIDE DEF q
    <2>3. ProcFits(q, logs[t])
      BY <1>1, <1>6, <2>1, <2>2, PassFits
    <2>4. procs' = [procs EXCEPT ![t] = q]
      BY <1>3, <1>6 DEF q
    <2>5. Kept(q) \subseteq Kept(procs[t])
      BY <2>2 DEF Kept
    <2>6. Moved
      BY <1>2, <2>2, <2>3, <2>4, <2>5, ProcMoves
    <2> QED  BY <1>2, <2>6 DEF CancellationInv, Moved
  <1> QED  BY <1>4, <1>5, <1>6

\* What a settlement at a transition of an unmoved log holds.
LEMMA FreshIs ==
  ASSUME CancellationInv, NEW t \in Threads, NEW kind, Fresh(t, kind)
  PROVE  /\ logs[t] \in Seq(Events) /\ procs[t] \in Procs /\ ProcFits(procs[t], logs[t])
         /\ procs[t].pc = "fire" /\ procs[t].todo # <<>> /\ procs[t].mark = Len(logs[t])
         /\ Head(procs[t].todo) \in Steps /\ Head(procs[t].todo)[1] \in kind
         /\ Follows(logs[t], Len(logs[t]), Head(procs[t].todo))
  <1>1. logs[t] \in Seq(Events) /\ procs[t] \in Procs /\ ProcFits(procs[t], logs[t])
    BY DEF CancellationInv, Standing
  <1>2. procs[t].pc = "fire" /\ procs[t].todo # <<>> /\ procs[t].mark = Len(logs[t])
    BY <1>1 DEF Fresh, ProcFits
  <1> QED  BY <1>1, <1>2, HeadFits DEF Fresh

\* What it appends then is an event; the report of a cancelled invocation is of one without open calls.
LEMMA IntentIs ==
  ASSUME NEW tr \in Steps, tr[1] \in {"timeout", "repair", "finish"}
  PROVE  /\ IntentEvent(tr) \in Events
         /\ tr[1] # "finish" => IntentEvent(tr)[1] \in {"terminal", "cancel"}
         /\ tr[1] = "finish" => IntentEvent(tr)[1] = "cancelled" /\ IntentEvent(tr)[2][1] = tr[2][1]
  <1> DEFINE e == IntentEvent(tr)
  <1>1. CASE tr[1] = "timeout"
    <2>1. tr[2] \in Refs
      BY <1>1 DEF Steps
    <2>2. e = Terminal(tr[2], "timeout")
      BY <1>1, Zenon DEF IntentEvent
    <2> HIDE DEF e
    <2>3. e \in Events /\ e[1] = "terminal"
      BY <2>1, <2>2 DEF Terminal, Events
    <2> QED  BY <1>1, <2>3 DEF e
  <1>2. CASE tr[1] = "repair"
    <2>1. Call(tr[2][1]) \in Calls
      BY <1>2 DEF Steps, Calls, Call
    <2>2. e = CancelRequested(tr[2][1], "repair")
      BY <1>2 DEF IntentEvent
    <2> HIDE DEF e
    <2>3. e \in Events /\ e[1] = "cancel"
      BY <2>1, <2>2 DEF CancelRequested, Events
    <2> QED  BY <1>2, <2>3 DEF e
  <1>3. CASE tr[1] = "finish"
    <2>1. Call(tr[2][1]) \in Calls
      BY <1>3 DEF Steps, Calls, Call
    <2>2. e = Cancelled(tr[2][1])
      BY <1>3 DEF IntentEvent
    <2> HIDE DEF e
    <2>3. e \in Events /\ e[1] = "cancelled" /\ e[2][1] = tr[2][1]
      BY <2>1, <2>2 DEF Cancelled, Events, Call
    <2> QED  BY <1>3, <2>3 DEF e
  <1> QED  BY <1>1, <1>2, <1>3

\* Intend: a timeout, a repair, or the end of a cancelled invocation whose calls are settled.
LEMMA IntendKeeps ==
  ASSUME CancellationInv, NEW t \in Threads, Intend(t)
  PROVE  CancellationInv' /\ Steady
  <1> DEFINE tr == Head(procs[t].todo)
             e == IntentEvent(tr)
  <1>1. logs[t] \in Seq(Events) /\ tr \in Steps /\ tr[1] \in {"timeout", "repair", "finish"} /\ Follows(logs[t], Len(logs[t]), tr)
    BY FreshIs DEF Intend
  <1>2. Record(t, <<e>>, Resync) /\ Around(net', clock', ringing')
    BY DEF Intend, CancellationInv, Around
  <1> HIDE DEF tr
  <1>3. /\ e \in Events
        /\ tr[1] # "finish" => e[1] \in {"terminal", "cancel"}
        /\ tr[1] = "finish" => e[1] = "cancelled" /\ e[2][1] = tr[2][1]
    BY <1>1, IntentIs
  <1> HIDE DEF e
  <1>4. DOMAIN <<e>> = {1} /\ <<e>>[1] = e /\ Len(<<e>>) = 1 /\ <<e>> \in Seq(Events)
    BY <1>3, OneEvent
  <1>5. Admissible(procs[t], logs[t], <<e>>)
    <2>1. CASE tr[1] # "finish"
      BY <1>3, <2>1, OneEvent
    <2>2. CASE tr[1] = "finish"
      <3>1. OpenLinks(logs[t], tr[2][1]) = {} /\ MethodState(logs[t], tr[2][1]) = "running"
        <4>1. SubSeq(logs[t], 1, Len(logs[t])) = logs[t]
          BY <1>1
        <4> QED  BY <1>1, <2>2, <4>1 DEF Follows
      <3> QED  BY <1>3, <1>4, <2>2, <3>1 DEF Admissible
    <2> QED  BY <2>1, <2>2
  <1>6. Resync \in Procs /\ ProcFits(Resync, logs[t]) /\ Resync.acts = {}
    BY <1>1, IdleFits
  <1>7. Moved
    BY <1>2, <1>4, <1>5, <1>6, RecordMoves
  <1> QED  BY <1>2, <1>7 DEF CancellationInv, Moved

\* A settlement begins an effect of the transition at hand.
LEMMA ActFits ==
  ASSUME CancellationInv, NEW t \in Threads, procs[t].mark = Len(logs[t]), procs[t].todo # <<>>,
         NEW acts, acts \subseteq Acts, \A a \in acts : Follows(logs[t], Len(logs[t]), a.tr) /\ Heard(logs[t], a),
         \A a \in acts : a.end = "open",
         NEW q, q = [procs[t] EXCEPT !.pc = "acting", !.acts = acts]
  PROVE  q \in Procs /\ ProcFits(q, logs[t]) /\ Kept(q) = {}
  <1>1. procs[t] \in Procs /\ ProcFits(procs[t], logs[t])
    BY DEF CancellationInv, Standing
  <1>2. q \in Procs /\ q.pc = "acting" /\ q.mark = procs[t].mark /\ q.todo = procs[t].todo /\ q.acts = acts
    BY <1>1 DEF Procs
  <1>3. Kept(q) = {}
    BY <1>2, NothingKept
  <1> QED  BY <1>1, <1>2, <1>3 DEF ProcFits

\* Work: it plans its next child, calls it, finds it too late, waits, or completes.
LEMMA WorkKeeps ==
  ASSUME CancellationInv, NEW t \in Threads, Work(t)
  PROVE  CancellationInv' /\ Steady
  <1> DEFINE tr == Head(procs[t].todo)
             c == tr[2][1]
             open == OpenKids(logs[t], c)
             k == open[1]
             m == <<CallTree[k].to, Received(k)>>
             Acting(msg) == [procs[t] EXCEPT !.pc = "acting", !.acts = {Act(<<"work", Call(c)>>, msg)}]
  <1>1. /\ logs[t] \in Seq(Events) /\ procs[t] \in Procs /\ ProcFits(procs[t], logs[t])
        /\ procs[t].mark = Len(logs[t]) /\ procs[t].todo # <<>>
        /\ tr \in Steps /\ tr[1] = "work" /\ Follows(logs[t], Len(logs[t]), tr)
    <2>1. Fresh(t, {"work"})
      BY DEF Work
    <2> QED  BY <2>1, FreshIs
  <1>2. c \in Ids /\ tr = <<"work", Call(c)>>
    <2>1. tr[2] \in Calls
      BY <1>1 DEF Steps
    <2> QED  BY <1>1, <2>1 DEF Calls, Call, Steps
  <1>3. /\ open # <<>> => k \in Ids /\ \E i \in DOMAIN Kids[c] : Kids[c][i] = k
        /\ open = <<>> => KidsDone(logs[t], c)
    <2> DEFINE kids == Kids[c]
               places == {i \in DOMAIN kids : ~HasTerminal(logs[t], Call(kids[i]))}
    <2>1. kids \in Seq(Ids)
      BY <1>2, CallGraphAssumption DEF Ids
    <2>2. open = Only(kids, places)
      BY DEF OpenKids
    <2>3. \A i \in DOMAIN kids : i \notin places => HasTerminal(logs[t], Call(kids[i]))
      OBVIOUS
    <2>4. open # <<>> => k = open[1]
      OBVIOUS
    <2> HIDE DEF open, places, kids, k, c
    <2>5. /\ Only(kids, places) \in Seq(Ids)
          /\ \A n \in DOMAIN Only(kids, places) : \E j \in DOMAIN kids \cap places : Only(kids, places)[n] = kids[j]
      BY <2>1, OnlyIs
    <2>6. open \in Seq(Ids) /\ \A n \in DOMAIN open : \E j \in DOMAIN kids : open[n] = kids[j]
      BY <2>2, <2>5
    <2>7. open # <<>> => Len(open) \in Nat \ {0}
      BY <2>6, EmptySeq
    <2>8. open # <<>> => 1 \in DOMAIN open
      BY <2>6, <2>7
    <2>9. ASSUME open = <<>>, NEW i \in DOMAIN kids PROVE HasTerminal(logs[t], Call(kids[i]))
      <3>1. DOMAIN open = {}
        BY <2>9
      <3>2. i \in places => \E n \in DOMAIN Only(kids, places) : Only(kids, places)[n] = kids[i]
        BY <2>1, <2>9, OnlyHas
      <3>3. i \notin places
        BY <2>2, <3>1, <3>2
      <3> QED  BY <2>3, <2>9, <3>3
    <2>10. open # <<>> => k \in Ids /\ \E j \in DOMAIN kids : kids[j] = k
      BY <2>4, <2>6, <2>8
    <2>11. open = <<>> => KidsDone(logs[t], c)
      BY <2>9 DEF KidsDone, kids
    <2> QED  BY <2>10, <2>11 DEF kids
  <1>4. /\ clock' = clock /\ ringing' = ringing
        /\ IF open = <<>> THEN procs' = [procs EXCEPT ![t] = Acting(NoMsg)] /\ logs' = logs /\ net' = net
           ELSE IF ~Has(logs[t], Planned(k)) THEN Record(t, <<Planned(k)>>, Resync) /\ net' = net
           ELSE IF Has(logs[t], Dispatched(k)) THEN procs' = [procs EXCEPT ![t] = Blocked(procs[t])] /\ logs' = logs /\ net' = net
           ELSE IF Deadline <= clock THEN Record(t, <<Skipped(k), Terminal(Call(k), "skipped")>>, Resync) /\ net' = net
           ELSE procs' = [procs EXCEPT ![t] = Acting(m)] /\ net' = net \cup {m} /\ logs' = logs
    BY DEF Work
  <1> HIDE DEF tr, open
  <1>13. MethodState(logs[t], c) = "running"
    <2>1. SubSeq(logs[t], 1, Len(logs[t])) = logs[t]
      BY <1>1
    <2> QED  BY <1>1, <2>1 DEF Follows
  <1>5. ASSUME NEW msg \in Messages \cup {NoMsg}, msg = NoMsg => open = <<>>
        PROVE  Acting(msg) \in Procs /\ ProcFits(Acting(msg), logs[t]) /\ Kept(Acting(msg)) = {}
    <2> DEFINE a == Act(<<"work", Call(c)>>, msg)
    <2>1. a \in Acts /\ a.tr = <<"work", Call(c)>> /\ a.msg = msg /\ a.end = "open"
      <3>1. <<"work", Call(c)>> \in Steps
        BY <1>1, <1>2
      <3> QED  BY <1>1, <1>2, <3>1 DEF Act, Acts, Effects
    <2> HIDE DEF a
    <2>2. Follows(logs[t], Len(logs[t]), a.tr)
      BY <1>1, <1>2, <2>1
    <2>5. Heard(logs[t], a)
      BY <1>3, <1>5, <1>13, <2>1 DEF Heard, Call
    <2>3. {a} \subseteq Acts /\ \A b \in {a} : Follows(logs[t], Len(logs[t]), b.tr) /\ Heard(logs[t], b) /\ b.end = "open"
      BY <2>1, <2>2, <2>5
    <2>4. [procs[t] EXCEPT !.pc = "acting", !.acts = {a}] \in Procs
          /\ ProcFits([procs[t] EXCEPT !.pc = "acting", !.acts = {a}], logs[t])
          /\ Kept([procs[t] EXCEPT !.pc = "acting", !.acts = {a}]) = {}
      BY <1>1, <2>3, ActFits
    <2> QED  BY <2>4 DEF a
  <1>6. k \in Ids => m \in Messages
    <2> SUFFICES ASSUME k \in Ids PROVE m \in Messages
      OBVIOUS
    <2>1. Received(k) \in Events /\ Received(k)[1] = "received"
      BY DEF Received, Call, Calls, Events
    <2> QED  BY <2>1 DEF Messages, Ends, Sent
  <1>7. Resync \in Procs /\ ProcFits(Resync, logs[t]) /\ Resync.acts = {}
    BY <1>1, IdleFits
  <1>8. CASE open = <<>>
    <2>1. Moved
      <3>1. NoMsg \in Messages \cup {NoMsg}
        OBVIOUS
      <3>2. Acting(NoMsg) \in Procs /\ ProcFits(Acting(NoMsg), logs[t]) /\ Kept(Acting(NoMsg)) = {}
        BY <1>5, <1>8, <3>1
      <3> HIDE DEF Acting
      <3> QED  BY <1>4, <1>8, <3>2, ProcMoves
    <2> QED  BY <1>4, <1>8, <2>1 DEF CancellationInv, Around, Moved
  <1>9. CASE open # <<>> /\ ~Has(logs[t], Planned(k))
    <2>1. Planned(k) \in Events /\ Planned(k)[1] = "planned"
      BY <1>3, <1>9 DEF Planned, Call, Calls, Events
    <2>3. Plans(logs[t], k)
      <3>1. CallTree[k].parent = c
        BY <1>2, <1>3, <1>9, CallGraphAssumption DEF Ids
      <3> QED  BY <1>3, <1>9, <1>13, <3>1 DEF Plans
    <2>4. Planned(k)[2][1] = k
      BY DEF Planned, Call
    <2>5. Admissible(procs[t], logs[t], <<Planned(k)>>)
      BY <2>1, <2>3, <2>4, OneEvent
    <2>6. <<Planned(k)>> \in Seq(Events)
      BY <2>1, OneEvent
    <2>2. Moved
      BY <1>4, <1>7, <1>9, <2>5, <2>6, RecordMoves
    <2> QED  BY <1>4, <1>9, <2>2 DEF CancellationInv, Around, Moved
  <1>10. CASE open # <<>> /\ Has(logs[t], Planned(k)) /\ Has(logs[t], Dispatched(k))
    <2>1. Moved
      BY <1>1, <1>4, <1>10, BlockedFits, ProcMoves
    <2> QED  BY <1>4, <1>10, <2>1 DEF CancellationInv, Around, Moved
  <1>11. CASE open # <<>> /\ Has(logs[t], Planned(k)) /\ ~Has(logs[t], Dispatched(k)) /\ Deadline <= clock
    <2> DEFINE events == <<Skipped(k), Terminal(Call(k), "skipped")>>
    <2>1. /\ Skipped(k) \in Events /\ Skipped(k)[1] = "skipped"
          /\ Terminal(Call(k), "skipped") \in Events /\ Terminal(Call(k), "skipped")[1] = "terminal"
      BY <1>3, <1>11 DEF Skipped, Terminal, Call, Calls, Refs, Events
    <2>2. events \in Seq(Events) /\ \A i \in DOMAIN events : events[i][1] \in {"skipped", "terminal"}
      BY <2>1
    <2>3. Record(t, events, Resync)
      BY <1>4, <1>11
    <2> HIDE DEF events
    <2>4. Admissible(procs[t], logs[t], events)
      BY <2>2, EndsNothing
    <2>5. Moved
      BY <1>7, <2>2, <2>3, <2>4, RecordMoves
    <2> QED  BY <1>4, <1>11, <2>5 DEF CancellationInv, Around, Moved
  <1>12. CASE open # <<>> /\ Has(logs[t], Planned(k)) /\ ~Has(logs[t], Dispatched(k)) /\ ~(Deadline <= clock)
    <2>1. m \in Messages
      BY <1>3, <1>6, <1>12
    <2>5. m # NoMsg
      BY DEF NoMsg
    <2> HIDE DEF m
    <2>2. Acting(m) \in Procs /\ ProcFits(Acting(m), logs[t]) /\ Kept(Acting(m)) = {}
      BY <1>5, <2>1, <2>5
    <2>3. procs' = [procs EXCEPT ![t] = Acting(m)] /\ logs' = logs /\ net' = net \cup {m}
      BY <1>4, <1>12 DEF m
    <2> HIDE DEF Acting
    <2>4. Moved
      BY <2>2, <2>3, ProcMoves
    <2> QED  BY <1>4, <2>1, <2>3, <2>4 DEF CancellationInv, Around, Moved
  <1> QED  BY <1>8, <1>9, <1>10, <1>11, <1>12

\* A response is a message to the caller.
LEMMA ResponseIs ==
  ASSUME NEW tr \in Steps, tr[1] = "deliver"
  PROVE  <<CallTree[tr[2][1]].from, Terminal(tr[2], "response")>> \in Messages
  <1>1. tr[2] \in Refs /\ tr[2][1] \in Ids
    <2>1. tr[2] \in Refs
      BY DEF Steps
    <2> QED  BY <2>1 DEF Refs
  <1>2. Terminal(tr[2], "response") \in Sent
    BY <1>1 DEF Terminal, Sent, Events
  <1> QED  BY <1>1, <1>2 DEF Messages, Ends

\* Respond: the reply is sent.
LEMMA RespondKeeps ==
  ASSUME CancellationInv, NEW t \in Threads, Respond(t)
  PROVE  CancellationInv' /\ Steady
  <1> DEFINE tr == Head(procs[t].todo)
             m == <<CallTree[tr[2][1]].from, Terminal(tr[2], "response")>>
             a == Act(tr, m)
             q == [procs[t] EXCEPT !.pc = "acting", !.acts = {a}]
  <1>1. /\ procs[t].mark = Len(logs[t]) /\ procs[t].todo # <<>>
        /\ tr \in Steps /\ tr[1] = "deliver" /\ Follows(logs[t], Len(logs[t]), tr)
    <2>1. Fresh(t, {"deliver"})
      BY DEF Respond
    <2> QED  BY <2>1, FreshIs
  <1>2. /\ procs' = [procs EXCEPT ![t] = q] /\ net' = net \cup {m}
        /\ logs' = logs /\ clock' = clock /\ ringing' = ringing
    BY DEF Respond
  <1> HIDE DEF tr
  <1>3. m \in Messages
    BY <1>1, ResponseIs
  <1> HIDE DEF m
  <1>4. a \in Acts /\ a.tr = tr /\ a.end = "open"
    BY <1>1, <1>3 DEF Act, Acts, Effects
  <1> HIDE DEF a
  <1>5. q \in Procs /\ ProcFits(q, logs[t]) /\ Kept(q) = {}
    <2>1. Heard(logs[t], a)
      BY <1>1, <1>4 DEF Heard
    <2> QED  BY <1>1, <1>4, <2>1, ActFits
  <1> HIDE DEF q
  <1>6. Moved
    BY <1>2, <1>5, ProcMoves
  <1> QED  BY <1>2, <1>3, <1>6 DEF CancellationInv, Around, Moved

\* What a set of events lists, each of them once.
LEMMA ListedEvents ==
  ASSUME NEW S \in SUBSET Events, IsFiniteSet(S), NEW p, NEW l, \A e \in S : e[1] \notin {"done", "cancelled", "planned"}
  PROVE  SetToSeq(S) \in Seq(Events) /\ Admissible(p, l, SetToSeq(S)) /\ Ordinary(SetToSeq(S))
  <1> DEFINE events == SetToSeq(S)
  <1>1. events \in Seq(S)
    BY ListedIs
  <1> HIDE DEF events
  <1>2. \A k \in DOMAIN events : events[k] \in S
    BY <1>1
  <1>3. Admissible(p, l, events) /\ Ordinary(events)
    BY <1>2, EndsNothing
  <1>4. events \in Seq(Events)
    BY <1>1
  <1> QED  BY <1>3, <1>4 DEF events

\* Images of finite sets of identities.
LEMMA IdsFinite ==
  ASSUME NEW S \in SUBSET Ids
  PROVE  IsFiniteSet(S)
  BY CallGraphAssumption, FS_Subset DEF Ids

\* The records of a group.
LEMMA GroupEvents ==
  ASSUME CancellationInv, NEW ready \in SUBSET Steps, \A tr \in ready : tr[1] = "cancel",
         NEW listed, listed = {CancelDispatched(tr[2][1], clock + CancelTimeout) : tr \in ready}
  PROVE  /\ SetToSeq(listed) \in Seq(Events) /\ ToSet(SetToSeq(listed)) = listed
         /\ \A p, l : Admissible(p, l, SetToSeq(listed)) /\ Ordinary(SetToSeq(listed))
  <1>1. IsFiniteSet(ready)
    BY StepsFinite, FS_Subset
  <1>2. clock + CancelTimeout \in 0 .. MaxClock + CancelTimeout
    BY CallGraphAssumption DEF CancellationInv, Around
  <1>3. listed \subseteq Events /\ \A e \in listed : e[1] = "cancelling"
    <2> SUFFICES ASSUME NEW tr \in ready
                 PROVE  /\ CancelDispatched(tr[2][1], clock + CancelTimeout) \in Events
                        /\ CancelDispatched(tr[2][1], clock + CancelTimeout)[1] = "cancelling"
      OBVIOUS
    <2>1. tr[2] \in Refs
      BY DEF Steps
    <2>2. Control(tr[2][1]) \in Refs
      BY <2>1 DEF Control, Refs
    <2> QED  BY <1>2, <2>2 DEF CancelDispatched, Events
  <1>4. IsFiniteSet(listed)
    <2> DEFINE f == [tr \in ready |-> CancelDispatched(tr[2][1], clock + CancelTimeout)]
    <2>1. f \in Surjection(ready, listed)
      BY DEF Surjection
    <2> HIDE DEF f
    <2> QED  BY <1>1, <2>1, FS_Surjection
  <1>5. \A p, l : SetToSeq(listed) \in Seq(Events) /\ Admissible(p, l, SetToSeq(listed)) /\ Ordinary(SetToSeq(listed))
    BY <1>3, <1>4, ListedEvents
  <1> QED  BY <1>4, <1>5, ListedIs

\* CancelChildren: the group of child cancellations is recorded and sent.
LEMMA CancelChildrenKeeps ==
  ASSUME CancellationInv, NEW t \in Threads, CancelChildren(t)
  PROVE  CancellationInv' /\ Steady
  <1> DEFINE todo == procs[t].todo
             group == {tr \in ToSet(todo) : Concurrent(tr)}
             Msg(tr) == <<CallTree[tr[2][1]].to, CancelRequested(tr[2][1], "control")>>
             ready == {tr \in group : tr[1] = "cancel"}
             events == SetToSeq({CancelDispatched(tr[2][1], clock + CancelTimeout) : tr \in ready})
             acts == {Act(tr, Msg(tr)) : tr \in group}
             next == AppendTo(logs[t], events)
             q == [procs[t] EXCEPT !.pc = "acting", !.acts = acts]
  <1>1. /\ logs[t] \in Seq(Events) /\ procs[t] \in Procs /\ ProcFits(procs[t], logs[t])
        /\ procs[t].mark = Len(logs[t]) /\ todo # <<>>
    <2>1. Fresh(t, {"cancel", "wait"})
      BY DEF CancelChildren
    <2> QED  BY <2>1, FreshIs
  <1>2. /\ logs' = [logs EXCEPT ![t] = next]
        /\ procs' = [procs EXCEPT ![t].pc = "acting", ![t].acts = acts]
        /\ net' = net \cup {Msg(tr) : tr \in group} /\ clock' = clock /\ ringing' = ringing
    BY DEF CancelChildren
  <1>3. group \subseteq Steps /\ \A tr \in group : tr[1] \in {"cancel", "wait"}
    <2>1. todo \in Seq(Steps)
      BY <1>1 DEF Procs
    <2> HIDE DEF todo
    <2> QED  BY <2>1 DEF ToSet, Concurrent
  <1>17. \A tr \in group : Follows(logs[t], Len(logs[t]), tr)
    BY <1>1 DEF ToSet, ProcFits
  <1>4. ready \subseteq Steps /\ \A tr \in ready : tr[1] = "cancel"
    BY <1>3
  <1> HIDE DEF todo, group, ready
  <1>5. \A tr \in group : tr[2] \in Refs /\ tr[2][1] \in Ids
    <2>1. \A tr \in group : tr[2] \in Refs
      BY <1>3 DEF Steps
    <2> QED  BY <2>1 DEF Refs
  <1>10. events \in Seq(Events) /\ Admissible(procs[t], logs[t], events) /\ Ordinary(events)
    BY <1>4, GroupEvents
  <1> HIDE DEF events
  <1>11. \A tr \in group : Msg(tr) \in Messages
    <2> SUFFICES ASSUME NEW tr \in group PROVE Msg(tr) \in Messages
      OBVIOUS
    <2>1. tr[2][1] \in Ids
      BY <1>5
    <2>2. CancelRequested(tr[2][1], "control") \in Sent
      <3>1. Call(tr[2][1]) \in Calls
        BY <2>1 DEF Call, Calls
      <3> QED  BY <3>1 DEF CancelRequested, Sent, Events
    <2> QED  BY <2>1, <2>2 DEF Messages, Ends
  <1> HIDE DEF Msg
  <1>12. acts \subseteq Acts /\ \A a \in acts : a.tr[1] \in {"cancel", "wait"} /\ a.tr \in group /\ a.end = "open"
    BY <1>3, <1>11 DEF Act, Acts, Effects
  <1> HIDE DEF acts
  <1>13. q \in Procs /\ ProcFits(q, logs[t]) /\ Kept(q) = {}
    <2>1. \A a \in acts : Follows(logs[t], Len(logs[t]), a.tr) /\ Heard(logs[t], a)
      BY <1>12, <1>17 DEF Heard
    <2> QED  BY <1>1, <1>12, <2>1, ActFits DEF todo
  <1>14. procs' = [procs EXCEPT ![t] = q]
    BY <1>1, <1>2 DEF CancellationInv, Standing
  <1> HIDE DEF q
  <1>15. /\ next \in Seq(Events) /\ Clean(next)
         /\ \A p \in Procs : ProcFits(p, logs[t]) => ProcFits(p, next)
         /\ \E new \in Seq(Events) : /\ next = logs[t] \o new
                                    /\ \A k \in DOMAIN new : new[k][1] = "done" => new[k][2] \in Kept(procs[t])
    BY <1>1, <1>10, AppendKeeps DEF CancellationInv, Standing
  <1> HIDE DEF next
  <1>16. Standing(logs', procs')
    BY <1>2, <1>13, <1>14, <1>15 DEF CancellationInv, Standing
  <1>18. /\ logs'[t] = next /\ procs'[t] = q
         /\ \A u \in Threads \ {t} : logs'[u] = logs[u] /\ procs'[u] = procs[u]
    BY <1>2, <1>14 DEF CancellationInv, Standing
  <1>19. Goes(logs[t], procs[t], logs'[t], procs'[t])
    BY <1>13, <1>15, <1>18 DEF Goes
  <1>20. ASSUME NEW u \in Threads, u # t PROVE Goes(logs[u], procs[u], logs'[u], procs'[u])
    BY <1>18, <1>20, StaysSteady
  <1>21. Steady
    BY <1>19, <1>20 DEF Steady
  <1> QED  BY <1>2, <1>11, <1>16, <1>21 DEF CancellationInv, Around

\* ReadBack: work that came to its end keeps its completion if nobody has asked to stop it by then,
\* neither in the log it began from nor since.
LEMMA ReadBackKeeps ==
  ASSUME CancellationInv, NEW t \in Threads, ReadBack(t)
  PROVE  CancellationInv' /\ Steady
  <1>1. PICK a \in procs[t].acts :
          /\ a.tr[1] = "work" /\ a.msg = NoMsg
          /\ procs' = [procs EXCEPT ![t].acts =
               (@ \ {a}) \cup {[a EXCEPT !.end = IF Interrupted(t, a) THEN "dropped" ELSE "kept"]}]
    BY DEF ReadBack
  <1>2. /\ logs[t] \in Seq(Events) /\ procs[t] \in Procs /\ procs[t].acts \subseteq Acts
        /\ ProcFits(procs[t], logs[t]) /\ procs[t].mark \in Nat /\ procs[t].mark <= Len(logs[t])
        /\ Follows(logs[t], procs[t].mark, a.tr) /\ Heard(logs[t], a)
    BY DEF CancellationInv, Standing, ProcFits, Procs
  <1> DEFINE b == [a EXCEPT !.end = IF Interrupted(t, a) THEN "dropped" ELSE "kept"]
             acts == (procs[t].acts \ {a}) \cup {b}
             q == [procs[t] EXCEPT !.acts = acts]
  <1>3. procs' = [procs EXCEPT ![t] = q]
    BY <1>1
  <1>4. b \in Acts /\ b.tr = a.tr /\ b.msg = a.msg /\ (b.end = "kept" => ~Interrupted(t, a))
    BY <1>2 DEF Acts
  <1> HIDE DEF b
  <1>5. q \in Procs /\ q.mark = procs[t].mark /\ q.pc = procs[t].pc /\ q.todo = procs[t].todo /\ q.acts = acts
    BY <1>2, <1>4 DEF Procs
  <1> HIDE DEF q
  <1>6. ProcFits(q, logs[t])
    BY <1>2, <1>4, <1>5 DEF ProcFits, Heard
  <1>7. ~Interrupted(t, a) => Unasked(logs[t], Len(logs[t]), a.tr[2])
    <2> SUFFICES ASSUME ~Interrupted(t, a) PROVE Unasked(logs[t], Len(logs[t]), a.tr[2])
      OBVIOUS
    <2>1. Unasked(logs[t], procs[t].mark, a.tr[2])
      BY <1>1, <1>2 DEF Follows
    <2>2. \A k \in (procs[t].mark + 1) .. Len(logs[t]) : ~(logs[t][k][1] = "cancel" /\ logs[t][k][2] = a.tr[2])
      BY DEF Interrupted
    <2>3. \A k \in 1 .. Len(logs[t]) : k \in 1 .. procs[t].mark \/ k \in (procs[t].mark + 1) .. Len(logs[t])
      BY <1>2
    <2> QED  BY <2>1, <2>2, <2>3 DEF Unasked
  <1>8. \A ref \in Kept(q) : ref \in Kept(procs[t]) \/ Unasked(logs[t], Len(logs[t]), ref)
    BY <1>4, <1>5, <1>7 DEF Kept
  <1>9. logs' = logs /\ net' = net /\ clock' = clock /\ ringing' = ringing
    BY DEF ReadBack
  <1>10. Moved
    BY <1>3, <1>5, <1>6, <1>8, <1>9, ProcMoves
  <1> QED  BY <1>9, <1>10 DEF CancellationInv, Around, Moved

\* What an effect returns may be appended: of work, only a completion that was read back; of a
\* child cancellation, nothing that ends an invocation.
LEMMA ReturnsAre ==
  ASSUME CancellationInv, NEW t \in Threads, NEW a \in procs[t].acts
  PROVE  /\ Returns(t, a) \in Seq(Events) /\ Admissible(procs[t], logs[t], Returns(t, a))
         /\ Concurrent(a.tr) => Ordinary(Returns(t, a))
  <1>1. /\ logs[t] \in Seq(Events) /\ procs[t] \in Procs /\ procs[t].mark \in Nat /\ procs[t].mark <= Len(logs[t])
        /\ a \in Acts /\ Follows(logs[t], procs[t].mark, a.tr) /\ Heard(logs[t], a)
    BY DEF CancellationInv, Standing, ProcFits, Procs
  <1>2. a.tr \in Steps /\ a.tr[1] \in {"work", "deliver", "cancel", "wait"} /\ a.msg \in Messages \cup {NoMsg}
    BY <1>1 DEF Acts, Effects
  <1>3. <<>> \in Seq(Events) /\ Admissible(procs[t], logs[t], <<>>) /\ Ordinary(<<>>)
    <2>1. DOMAIN <<>> = {} /\ Len(<<>>) = 0 /\ <<>> \in Seq(Events)
      OBVIOUS
    <2> QED  BY <2>1 DEF Admissible, Ordinary
  <1>8. Concurrent(a.tr) => a.tr[1] # "work"
    BY DEF Concurrent
  <1>4. CASE a.tr[1] = "work"
    <2>1. a.tr[2] \in Calls /\ a.tr[2] = Call(a.tr[2][1])
      <3>1. a.tr[2] \in Calls
        BY <1>2, <1>4 DEF Steps
      <3> QED  BY <3>1 DEF Calls, Call
    <2>2. CASE a.msg = NoMsg /\ a.end = "kept"
      <3> DEFINE e == Done(a.tr[2][1])
      <3>1. Returns(t, a) = <<e>>
        BY <1>4, <2>2, Zenon DEF Returns
      <3>2. a.tr[2] \in Kept(procs[t])
        BY <2>2 DEF Kept
      <3>3. e \in Events /\ e[1] = "done" /\ e[2] = a.tr[2]
        BY <2>1 DEF Done, Events
      <3>6. KidsDone(logs[t], e[2][1]) /\ MethodState(logs[t], e[2][1]) = "running"
        BY <1>1, <1>4, <2>2, <3>3 DEF Heard
      <3> HIDE DEF e
      <3>4. <<e>> \in Seq(Events) /\ DOMAIN <<e>> = {1} /\ <<e>>[1] = e /\ Len(<<e>>) = 1
        BY <3>3, OneEvent
      <3>5. Admissible(procs[t], logs[t], <<e>>)
        BY <3>2, <3>3, <3>4, <3>6 DEF Admissible
      <3> QED  BY <1>4, <1>8, <3>1, <3>4, <3>5
    <2>3. CASE a.msg = NoMsg /\ a.end # "kept"
      <3>1. Returns(t, a) = <<>>
        BY <1>4, <2>3, Zenon DEF Returns
      <3> QED  BY <1>3, <3>1
    <2>4. CASE a.msg # NoMsg /\ a.end = "aborted"
      <3>1. Returns(t, a) = <<>>
        BY <1>4, <2>4, Zenon DEF Returns
      <3> QED  BY <1>3, <3>1
    <2>5. CASE a.msg # NoMsg /\ a.end # "aborted"
      <3> DEFINE e == Dispatched(a.msg[2][2][1])
      <3>1. Returns(t, a) = <<e>>
        BY <1>4, <2>5, Zenon DEF Returns
      <3>2. a.msg[2][2][1] \in Ids
        <4>1. a.msg[2] \in Events /\ a.msg[2][1] # "alarm"
          BY <1>2, <2>5 DEF Messages, Sent
        <4>2. a.msg[2][2] \in Refs
          BY <4>1, EventIs
        <4> QED  BY <4>2 DEF Refs
      <3>3. e \in Events /\ e[1] = "dispatched"
        <4>1. Call(a.msg[2][2][1]) \in Calls
          BY <3>2 DEF Call, Calls
        <4> QED  BY <4>1 DEF Dispatched, Events
      <3> HIDE DEF e
      <3> QED  BY <3>1, <3>3, OneEvent
    <2> QED  BY <2>2, <2>3, <2>4, <2>5
  <1>5. CASE a.tr[1] = "deliver"
    <2> DEFINE e == Delivered(a.tr[2])
    <2>1. Returns(t, a) = <<e>>
      BY <1>5, Zenon DEF Returns
    <2>2. a.tr[2] \in Refs
      BY <1>2, <1>5 DEF Steps
    <2>3. e \in Events /\ e[1] = "delivered"
      BY <2>2 DEF Delivered, Events
    <2> HIDE DEF e
    <2> QED  BY <2>1, <2>3, OneEvent
  <1>6. CASE a.tr[1] = "cancel"
    <2> DEFINE e == CancelSent(a.tr[2][1])
    <2>1. Returns(t, a) = <<e>>
      BY <1>6, Zenon DEF Returns
    <2>2. Control(a.tr[2][1]) \in Refs
      <3>1. a.tr[2] \in Refs
        BY <1>2, <1>6 DEF Steps
      <3> QED  BY <3>1 DEF Refs, Control
    <2>3. e \in Events /\ e[1] = "cancelSent"
      BY <2>2 DEF CancelSent, Events
    <2> HIDE DEF e
    <2> QED  BY <2>1, <2>3, OneEvent
  <1>7. CASE a.tr[1] = "wait"
    <2>1. Returns(t, a) = <<>>
      BY <1>7, Zenon DEF Returns
    <2> QED  BY <1>3, <2>1
  <1> QED  BY <1>2, <1>4, <1>5, <1>6, <1>7

\* Finish: a sequential effect ends.
LEMMA FinishKeeps ==
  ASSUME CancellationInv, NEW t \in Threads, Finish(t)
  PROVE  CancellationInv' /\ Steady
  <1>1. PICK a \in procs[t].acts :
          LET events == Returns(t, a)
              moved == events # <<>> \/ Len(logs[t]) # procs[t].mark
          IN Record(t, events, IF moved THEN Resync ELSE Blocked([procs[t] EXCEPT !.acts = {}]))
    BY DEF Finish
  <1> DEFINE events == Returns(t, a)
             moved == events # <<>> \/ Len(logs[t]) # procs[t].mark
             p == [procs[t] EXCEPT !.acts = {}]
             q == IF moved THEN Resync ELSE Blocked(p)
  <1>2. Record(t, events, q) /\ Around(net', clock', ringing')
    BY <1>1 DEF Finish, CancellationInv, Around
  <1>3. logs[t] \in Seq(Events) /\ procs[t] \in Procs /\ ProcFits(procs[t], logs[t]) /\ procs[t].todo # <<>>
    BY DEF CancellationInv, Standing, ProcFits
  <1>4. events \in Seq(Events) /\ Admissible(procs[t], logs[t], events)
    BY ReturnsAre
  <1> HIDE DEF events, moved
  <1>5. Resync \in Procs /\ ProcFits(Resync, logs[t]) /\ Resync.acts = {}
    BY <1>3, IdleFits
  <1>6. Blocked(p) \in Procs /\ ProcFits(Blocked(p), logs[t]) /\ Blocked(p).acts = {}
    <2>1. p \in Procs /\ p.mark = procs[t].mark /\ p.pc = procs[t].pc /\ p.todo = procs[t].todo /\ p.acts = {}
      BY <1>3 DEF Procs
    <2> HIDE DEF p
    <2>2. ProcFits(p, logs[t])
      BY <1>3, <2>1 DEF ProcFits
    <2> QED  BY <1>3, <2>1, <2>2, BlockedFits
  <1>7. q \in Procs /\ ProcFits(q, logs[t]) /\ q.acts = {}
    <2> HIDE DEF p
    <2> QED  BY <1>5, <1>6
  <1> HIDE DEF q
  <1>8. Moved
    BY <1>2, <1>4, <1>7, RecordMoves
  <1> QED  BY <1>2, <1>8 DEF CancellationInv, Moved

\* FinishMember: one of the child cancellations ends.
LEMMA FinishMemberKeeps ==
  ASSUME CancellationInv, NEW t \in Threads, FinishMember(t)
  PROVE  CancellationInv' /\ Steady
  <1>1. PICK a \in procs[t].acts :
          Concurrent(a.tr) /\
          LET left == procs[t].acts \ {a}
              events == Returns(t, a)
              moved == Len(AppendTo(logs[t], events)) # procs[t].mark
              rest == Sequential(procs[t].todo)
          IN Record(t, events,
               IF left # {} THEN [procs[t] EXCEPT !.acts = left]
               ELSE IF moved THEN Resync
               ELSE IF rest = <<>> THEN [Off EXCEPT !.pc = "ending"]
               ELSE [procs[t] EXCEPT !.pc = "fire", !.todo = rest, !.acts = {}])
    BY DEF FinishMember
  <1> DEFINE left == procs[t].acts \ {a}
             events == Returns(t, a)
             moved == Len(AppendTo(logs[t], events)) # procs[t].mark
             rest == Sequential(procs[t].todo)
             fewer == [procs[t] EXCEPT !.acts = left]
             ending == [Off EXCEPT !.pc = "ending"]
             on == [procs[t] EXCEPT !.pc = "fire", !.todo = rest, !.acts = {}]
             q == IF left # {} THEN fewer ELSE IF moved THEN Resync ELSE IF rest = <<>> THEN ending ELSE on
  <1>2. Record(t, events, q) /\ Around(net', clock', ringing')
    BY <1>1 DEF FinishMember, CancellationInv, Around
  <1>3. logs[t] \in Seq(Events) /\ procs[t] \in Procs /\ ProcFits(procs[t], logs[t]) /\ procs[t].todo # <<>>
    BY DEF CancellationInv, Standing, ProcFits
  <1>4. events \in Seq(Events) /\ Admissible(procs[t], logs[t], events) /\ Ordinary(events)
    BY <1>1, ReturnsAre
  <1> HIDE DEF events, moved
  <1>5. /\ Resync \in Procs /\ ProcFits(Resync, logs[t]) /\ Resync.acts = {}
        /\ ending \in Procs /\ ProcFits(ending, logs[t]) /\ ending.acts = {}
    BY <1>3, IdleFits, OffFits
  <1>6. fewer \in Procs /\ ProcFits(fewer, logs[t]) /\ Kept(fewer) \subseteq Kept(procs[t])
    <2>1. left \subseteq procs[t].acts
      OBVIOUS
    <2> HIDE DEF left
    <2>2. fewer \in Procs /\ fewer.mark = procs[t].mark /\ fewer.pc = procs[t].pc /\ fewer.todo = procs[t].todo /\ fewer.acts = left
      BY <1>3, <2>1 DEF Procs
    <2> HIDE DEF fewer
    <2> QED  BY <1>3, <2>1, <2>2 DEF ProcFits, Kept
  <1>7. rest # <<>> => on \in Procs /\ ProcFits(on, logs[t]) /\ on.acts = {}
    BY <1>3, SequentialFits
  <1> HIDE DEF left, rest, fewer, ending, on
  <1>8. q \in Procs /\ ProcFits(q, logs[t]) /\ (q.acts = {} \/ Kept(q) \subseteq Kept(procs[t]))
    BY <1>5, <1>6, <1>7
  <1> HIDE DEF q
  <1>9. Moved
    BY <1>2, <1>4, <1>8, RecordMoves
  <1> QED  BY <1>2, <1>9 DEF CancellationInv, Moved

\* Fail: the settlement dies with its effect.
LEMMA FailKeeps ==
  ASSUME CancellationInv, NEW t \in Threads, Fail(t)
  PROVE  CancellationInv' /\ Steady
  <1>1. logs[t] \in Seq(Events)
    BY DEF CancellationInv, Standing
  <1>2. Off \in Procs /\ ProcFits(Off, logs[t]) /\ Off.acts = {}
    BY <1>1, IdleFits
  <1>3. procs' = [procs EXCEPT ![t] = Off] /\ logs' = logs
    BY DEF Fail, Dies
  <1>4. Moved
    BY <1>2, <1>3, ProcMoves
  <1> QED  BY <1>4 DEF Fail, CancellationInv, Around, Moved

\* Ring: the timer's handler reads the log.
LEMMA RingKeeps ==
  ASSUME CancellationInv, NEW t \in Threads, Ring(t)
  PROVE  CancellationInv' /\ Steady
  <1>1. Crossed(logs[t], clock) \subseteq Ids
    BY DEF Crossed
  <1>2. ringing' = [ringing EXCEPT ![t] = <<clock, Crossed(logs[t], clock)>>]
    BY DEF Ring
  <1>3. DOMAIN ringing' = Threads /\ ringing'[t] = <<clock, Crossed(logs[t], clock)>>
        /\ \A u \in Threads \ {t} : ringing'[u] = ringing[u]
    BY <1>2 DEF CancellationInv, Around
  <1>4. ringing'[t][1] \in Nat /\ ringing'[t][2] \subseteq Ids
    BY <1>1, <1>3 DEF CancellationInv, Around
  <1>5. logs' = logs /\ procs' = procs /\ net' = net /\ clock' = clock
    BY DEF Ring
  <1>6. Steady
    BY <1>5, StaysSteady DEF Steady
  <1> QED  BY <1>3, <1>4, <1>5, <1>6 DEF CancellationInv, Around

\* What it appends of it later: the alarm, and the cancellations it decided on.
LEMMA RungEvents ==
  ASSUME CancellationInv, NEW t \in Threads, ringing[t] # <<>>,
         NEW events, events = <<AlarmFired(ringing[t][1])>> \o SetToSeq({CancelRequested(c, "alarm") : c \in ringing[t][2]})
  PROVE  /\ events \in Seq(Events) /\ events # <<>> /\ events[1][1] = "alarm"
         /\ \A k \in DOMAIN events : events[k][1] \in {"alarm", "cancel"}
  <1> DEFINE S == {CancelRequested(c, "alarm") : c \in ringing[t][2]}
             listed == SetToSeq(S)
             fired == AlarmFired(ringing[t][1])
  <1>1. ringing[t][1] \in Nat /\ ringing[t][2] \subseteq Ids
    BY DEF CancellationInv, Around
  <1>2. events = <<fired>> \o listed
    OBVIOUS
  <1>3. S \subseteq Events /\ \A e \in S : e[1] = "cancel"
    <2> SUFFICES ASSUME NEW c \in Ids
                 PROVE CancelRequested(c, "alarm") \in Events /\ CancelRequested(c, "alarm")[1] = "cancel"
      BY <1>1
    <2>1. Call(c) \in Calls
      BY DEF Call, Calls
    <2> QED  BY <2>1 DEF CancelRequested, Events
  <1>4. IsFiniteSet(S)
    <2> DEFINE asked == ringing[t][2]
               f == [c \in asked |-> CancelRequested(c, "alarm")]
    <2>1. IsFiniteSet(asked)
      BY <1>1, IdsFinite
    <2>2. f \in Surjection(asked, S)
      BY DEF Surjection
    <2> HIDE DEF f, S, asked
    <2> QED  BY <2>1, <2>2, FS_Surjection
  <1> HIDE DEF S
  <1>5. listed \in Seq(S)
    BY <1>4, ListedIs
  <1> HIDE DEF listed
  <1>6. fired \in Events /\ fired[1] = "alarm"
    BY <1>1 DEF AlarmFired, Events
  <1> HIDE DEF fired
  <1>7. /\ events \in Seq(Events) /\ events # <<>> /\ events[1] = fired
        /\ \A k \in DOMAIN events : events[k] \in S \cup {fired}
    <2> DEFINE U == S \cup {fired}
               one == <<fired>>
    <2>1. U \subseteq Events
      BY <1>3, <1>6
    <2>2. one \in Seq(U) /\ listed \in Seq(U) /\ Len(one) = 1 /\ one[1] = fired
      BY <1>5
    <2> HIDE DEF U
    <2>3. events = one \o listed
      BY <1>2
    <2>4. one \in Seq(Events) /\ listed \in Seq(Events)
      BY <2>1, <2>2
    <2> HIDE DEF one
    <2> DEFINE both == one \o listed
    <2>8. both \in Seq(U)
      BY <2>2, ConcatLists
    <2>11. /\ one \o listed \in Seq(Events) /\ Len(one \o listed) = Len(one) + Len(listed) /\ Len(listed) \in Nat
           /\ \A k \in 1 .. Len(one) : (one \o listed)[k] = one[k]
      BY <2>4, Grown
    <2>12. 1 \in 1 .. Len(one)
      BY <2>2
    <2>9. both \in Seq(Events) /\ Len(both) = 1 + Len(listed) /\ Len(listed) \in Nat /\ both[1] = fired
      BY <2>2, <2>11, <2>12
    <2> HIDE DEF both
    <2>10. events = both
      BY <2>3 DEF both
    <2>5. events \in Seq(U)
      BY <2>8, <2>10
    <2>6. events \in Seq(Events) /\ Len(events) = 1 + Len(listed) /\ Len(listed) \in Nat /\ events[1] = fired
      BY <2>9, <2>10
    <2>7. events # <<>>
      BY <2>6
    <2>13. \A k \in DOMAIN events : events[k] \in U
      BY <2>5
    <2> QED  BY <2>6, <2>7, <2>13 DEF U
  <1> QED  BY <1>3, <1>6, <1>7

\* Rung: and appends what it decided from it.
LEMMA RungKeeps ==
  ASSUME CancellationInv, NEW t \in Threads, Rung(t)
  PROVE  CancellationInv' /\ Steady
  <1> DEFINE events == <<AlarmFired(ringing[t][1])>> \o SetToSeq({CancelRequested(c, "alarm") : c \in ringing[t][2]})
  <1>1. ringing[t] # <<>> /\ Land(t, events)
    BY DEF Rung
  <1>2. events \in Seq(Events) /\ \A k \in DOMAIN events : events[k][1] \in {"alarm", "cancel"}
    BY <1>1, RungEvents
  <1> HIDE DEF events
  <1>3. Admissible(procs[t], logs[t], events) /\ Ordinary(events)
    BY <1>2, EndsNothing
  <1>4. Moved
    BY <1>1, <1>2, <1>3, LandMoves
  <1>5. Around(net', clock', ringing')
    BY DEF Rung, CancellationInv, Around
  <1> QED  BY <1>4, <1>5 DEF CancellationInv, Moved

\* Lose, RestartHost: a message or all settlements are lost.
LEMMA FaultKeeps ==
  ASSUME CancellationInv, RestartHost \/ \E m \in net : Lose(m)
  PROVE  CancellationInv' /\ Steady
  <1>1. CASE RestartHost
    <2>1. \A t \in Threads : Off \in Procs /\ ProcFits(Off, logs[t]) /\ Off.acts = {}
      BY IdleFits DEF CancellationInv, Standing
    <2>2. Standing(logs', procs')
      BY <1>1, <2>1 DEF RestartHost, CancellationInv, Standing
    <2>3. ASSUME NEW u \in Threads PROVE logs'[u] = logs[u] /\ Kept(procs'[u]) = {}
      <3>1. logs'[u] = logs[u] /\ procs'[u] = Off
        BY <1>1 DEF RestartHost
      <3> QED  BY <2>1, <3>1, NothingKept
    <2>4. Steady
      BY <2>3, StaysSteady DEF Steady
    <2> QED  BY <1>1, <2>2, <2>4 DEF RestartHost, CancellationInv, Around
  <1>2. ASSUME NEW m \in net, Lose(m) PROVE CancellationInv' /\ Steady
    <2> DEFINE Lost(a) == IF a.msg = m /\ a.end = "open" THEN [a EXCEPT !.end = "lost"] ELSE a
               Acted(t) == {Lost(a) : a \in procs[t].acts}
    <2>1. procs' = [t \in Threads |-> [procs[t] EXCEPT !.acts = Acted(t)]]
      BY <1>2 DEF Lose
    <2>2. logs' = logs /\ net' = net \ {m} /\ clock' = clock /\ ringing' = ringing
      BY <1>2 DEF Lose
    <2>3. \A a \in Acts : Lost(a) \in Acts /\ Lost(a).tr = a.tr /\ Lost(a).msg = a.msg /\ (Lost(a).end = "kept" => a.end = "kept")
      BY DEF Acts
    <2>4. ASSUME NEW t \in Threads
          PROVE  procs'[t] \in Procs /\ ProcFits(procs'[t], logs[t]) /\ Kept(procs'[t]) \subseteq Kept(procs[t])
      <3>1. procs[t] \in Procs /\ procs[t].acts \subseteq Acts /\ ProcFits(procs[t], logs[t])
        BY DEF CancellationInv, Standing, Procs
      <3> DEFINE acted == Acted(t)
      <3>2. /\ acted \subseteq Acts /\ (acted # {} => procs[t].acts # {})
            /\ \A b \in acted : \E a \in procs[t].acts : b.tr = a.tr /\ b.msg = a.msg /\ (b.end = "kept" => a.end = "kept")
        <4> HIDE DEF Lost
        <4> QED  BY <2>3, <3>1
      <3>3. procs'[t] = [procs[t] EXCEPT !.acts = acted]
        BY <2>1
      <3> HIDE DEF acted
      <3> DEFINE q == [procs[t] EXCEPT !.acts = acted]
      <3>4. q \in Procs /\ q.mark = procs[t].mark /\ q.pc = procs[t].pc /\ q.todo = procs[t].todo /\ q.acts = acted
        BY <3>1, <3>2 DEF Procs
      <3> HIDE DEF q
      <3>5. ProcFits(q, logs[t])
        BY <3>1, <3>2, <3>4 DEF ProcFits, Heard
      <3>6. Kept(q) \subseteq Kept(procs[t])
        BY <3>2, <3>4 DEF Kept
      <3> QED  BY <3>3, <3>4, <3>5, <3>6 DEF q
    <2>5. procs' \in [Threads -> Procs]
      <3>1. DOMAIN procs' = Threads /\ procs' = [t \in DOMAIN procs' |-> procs'[t]]
        BY <2>1
      <3> QED  BY <2>4, <3>1
    <2>6. Standing(logs', procs')
      BY <2>2, <2>4, <2>5 DEF CancellationInv, Standing
    <2>7. Steady
      BY <2>2, <2>4, StaysSteady DEF Steady
    <2> QED  BY <2>2, <2>6, <2>7 DEF CancellationInv, Around
  <1> QED  BY <1>1, <1>2

\* Every step keeps the invariant, and makes of a thread what it may.
LEMMA CancellationStep == CancellationInv /\ [Next]_graphVars => CancellationInv' /\ Steady
  <1> SUFFICES ASSUME CancellationInv, [Next]_graphVars PROVE CancellationInv' /\ Steady
    OBVIOUS
  <1>1. CASE UNCHANGED graphVars
    <2>1. logs' = logs /\ procs' = procs
      BY <1>1 DEF graphVars
    <2>2. Steady
      BY <2>1, StaysSteady DEF Steady
    <2> QED  BY <1>1, <2>2 DEF graphVars, CancellationInv, Standing, Around
  <1>2. ASSUME NEW c \in Ids, Ingress(c, Received(c)) \/ Ingress(c, CancelRequested(c, "control"))
        PROVE  CancellationInv' /\ Steady
    BY <1>2, IngressKeeps
  <1>3. ASSUME NEW m \in net, Deliver(m) PROVE CancellationInv' /\ Steady
    BY <1>3, DeliverKeeps
  <1>4. CASE RestartHost \/ \E m \in net : Lose(m)
    BY <1>4, FaultKeeps
  <1>5. CASE Drive \/ DrainEnds \/ Tick
    <2>1. logs' = logs /\ procs' = procs /\ net' = net /\ ringing' = ringing /\ clock' \in 0 .. MaxClock
      BY <1>5, CallGraphAssumption DEF Drive, DrainEnds, Tick, CancellationInv, Around
    <2>2. Steady
      BY <2>1, StaysSteady DEF Steady
    <2> QED  BY <2>1, <2>2 DEF CancellationInv, Standing, Around
  <1>6. ASSUME NEW t \in Threads,
               \/ Launch(t) \/ Synchronize(t) \/ Stale(t) \/ Intend(t) \/ Work(t) \/ Respond(t)
               \/ CancelChildren(t) \/ ReadBack(t) \/ Finish(t) \/ FinishMember(t) \/ Fail(t) \/ ServeEnds(t)
               \/ Ring(t) \/ Rung(t)
        PROVE  CancellationInv' /\ Steady
    BY <1>6, LaunchKeeps, StaleKeeps, IntendKeeps, WorkKeeps, RespondKeeps, CancelChildrenKeeps, ReadBackKeeps,
       FinishKeeps, FinishMemberKeeps, FailKeeps, RingKeeps, RungKeeps
  <1> QED  BY <1>1, <1>2, <1>3, <1>4, <1>5, <1>6 DEF Next

\* A clean log ends and reports as it must: of two ends, the later one would have found the
\* invocation ended.
LEMMA CleanSound == CancellationInv => EndsOnce /\ CancelledLast
  <1> SUFFICES ASSUME CancellationInv PROVE EndsOnce /\ CancelledLast
    OBVIOUS
  <1>1. ASSUME NEW t \in Threads, NEW c \in Ids, Has(logs[t], Done(c)), Has(logs[t], Cancelled(c)) PROVE FALSE
    <2> DEFINE l == logs[t]
    <2>1. l \in Seq(Events) /\ Clean(l) /\ DOMAIN l = 1 .. Len(l) /\ Len(l) \in Nat
      BY DEF CancellationInv, Standing
    <2>2. PICK d \in DOMAIN l : l[d] = Done(c)
      BY <1>1 DEF Has
    <2>3. PICK x \in DOMAIN l : l[x] = Cancelled(c)
      BY <1>1 DEF Has
    <2> HIDE DEF l
    <2>4. l[d][1] = "done" /\ l[d][2][1] = c /\ l[x][1] = "cancelled" /\ l[x][2][1] = c
      <3>1. /\ Done(c)[1] = "done" /\ Done(c)[2] = Call(c)
            /\ Cancelled(c)[1] = "cancelled" /\ Cancelled(c)[2] = Call(c)
        BY Zenon DEF Done, Cancelled
      <3>2. Call(c)[1] = c
        BY DEF Call
      <3> QED  BY <2>2, <2>3, <3>1, <3>2
    <2>5. MethodState(SubSeq(l, 1, d - 1), c) = "running" /\ MethodState(SubSeq(l, 1, x - 1), c) = "running"
      BY <2>1, <2>4 DEF Clean
    <2>6. ASSUME NEW i \in DOMAIN l, NEW j \in DOMAIN l, i < j
          PROVE  Has(SubSeq(l, 1, j - 1), l[i])
      <3> DEFINE before == SubSeq(l, 1, j - 1)
      <3>1. DOMAIN before = 1 .. (j - 1) /\ \A k \in 1 .. (j - 1) : before[k] = l[k]
        BY <2>1
      <3>2. i \in 1 .. (j - 1)
        BY <2>1, <2>6
      <3> HIDE DEF before
      <3>3. Has(before, l[i])
        BY <3>1, <3>2 DEF Has
      <3> QED  BY <3>3 DEF before
    <2>7. CASE d < x
      BY <2>2, <2>5, <2>6, <2>7 DEF MethodState
    <2>8. CASE x < d
      BY <2>3, <2>5, <2>6, <2>8 DEF MethodState
    <2>9. d # x
      BY <2>4
    <2> QED  BY <2>1, <2>7, <2>8, <2>9
  <1>2. EndsOnce
    BY <1>1 DEF EndsOnce
  <1>3. CancelledLast
    BY DEF CancelledLast, CancellationInv, Standing, Clean
  <1> QED  BY <1>2, <1>3

\* Where a step adds to a log only completions that were read back, and reads back only what nobody
\* has asked to suppress, a stopped invocation stays stopped.
LEMMA StoppedStays ==
  ASSUME CancellationInv, Steady, NEW t \in Threads, NEW c \in Ids, Stopped(t, c)
  PROVE  Stopped(t, c)'
  <1>1. logs[t] \in Seq(Events) /\ DOMAIN logs[t] = 1 .. Len(logs[t])
    BY DEF CancellationInv, Standing
  <1>2. PICK new \in Seq(Events) : /\ logs'[t] = logs[t] \o new
                                  /\ \A k \in DOMAIN new : new[k][1] = "done" => new[k][2] \in Kept(procs[t])
    BY DEF Steady, Goes
  <1> DEFINE l == logs[t]
             longer == l \o new
  <1>3. /\ Len(longer) = Len(l) + Len(new) /\ Len(l) \in Nat /\ Len(new) \in Nat /\ longer \in Seq(Events)
        /\ \A k \in 1 .. Len(l) : longer[k] = l[k]
        /\ \A k \in 1 .. Len(new) : longer[Len(l) + k] = new[k]
    BY <1>1, Grown
  <1>4. DOMAIN new = 1 .. Len(new)
    OBVIOUS
  <1> HIDE DEF longer
  <1>5. DOMAIN longer = 1 .. Len(longer)
    BY <1>3
  <1>6. CancelAsked(longer, c)
    BY <1>1, <1>3, <1>5 DEF Stopped, CancelAsked, Requests
  <1>7. Done(c)[1] = "done" /\ Done(c)[2] = Call(c)
    BY DEF Done
  <1>8. ASSUME NEW k \in DOMAIN longer, longer[k] = Done(c) PROVE FALSE
    <2>1. CASE k <= Len(l)
      BY <1>1, <1>3, <1>5, <1>8, <2>1 DEF Stopped, Has
    <2>2. CASE k > Len(l)
      <3> DEFINE i == k - Len(l)
      <3>1. i \in 1 .. Len(new) /\ k = Len(l) + i
        BY <1>3, <1>5, <2>2
      <3>2. longer[k] = new[i]
        BY <1>3, <3>1
      <3> QED  BY <1>2, <1>4, <1>7, <1>8, <3>1, <3>2 DEF Stopped
    <2> QED  BY <1>3, <1>5, <2>1, <2>2
  <1>9. ~Has(longer, Done(c))
    BY <1>8 DEF Has
  <1>10. ~Unasked(l, Len(l), Call(c))
    BY <1>1 DEF Stopped, CancelAsked, Requests, Unasked
  <1>11. Call(c) \notin Kept(procs'[t])
    BY <1>10 DEF Stopped, Steady, Goes
  <1>12. logs'[t] = longer
    BY <1>2 DEF longer
  <1> HIDE DEF l
  <1> QED  BY <1>6, <1>9, <1>11, <1>12 DEF Stopped

\* Once an invocation was asked to end and no completion of it had been read back by then, none is
\* ever recorded, by whatever pass, interruption or restart (runtime/reconciler.ts fire, lines 285-293).
THEOREM SuppressionIsSound == Spec => SuppressionHolds
  <1>1. Init => CancellationInv
    BY CancellationInit
  <1>2. CancellationInv /\ [Next]_graphVars => CancellationInv'
    BY CancellationStep
  <1>3. CancellationInv /\ [Next]_graphVars => [\A t \in Threads, c \in Ids : Stopped(t, c) => Stopped(t, c)']_graphVars
    <2> SUFFICES ASSUME CancellationInv, [Next]_graphVars, NEW t \in Threads, NEW c \in Ids, Stopped(t, c)
                 PROVE  Stopped(t, c)'
      OBVIOUS
    <2>1. Steady
      BY CancellationStep
    <2> QED  BY <2>1, StoppedStays
  <1> QED  BY <1>1, <1>2, <1>3, PTL DEF Spec, SuppressionHolds

\* Besides, an invocation has one end, completed or cancelled, although its completion may be
\* appended after its cancellation landed; and it is reported cancelled only when every call it made
\* is settled, whatever is lost, late, repeated or restarted (runtime/reconciler.ts fire,
\* interaction/cancellation.ts).
THEOREM CancellationIsSound == Spec => CancellationSound
  <1>1. Init => CancellationInv
    BY CancellationInit
  <1>2. CancellationInv /\ [Next]_graphVars => CancellationInv'
    BY CancellationStep
  <1>3. CancellationInv => EndsOnce /\ CancelledLast
    BY CleanSound
  <1>4. Spec => [](EndsOnce /\ CancelledLast)
    BY <1>1, <1>2, <1>3, PTL DEF Spec
  <1> QED  BY <1>4, SuppressionIsSound DEF CancellationSound
-----------------------------------------------------------------------------
(* What is owed.  A settlement under way, or a mark, accounts for every    *)
(* transition its thread's log enables; a thread without either enables    *)
(* only what waits for another thread.                                     *)

\* A transition that waits for another thread's answer.
WaitsIn(l, tr) ==
    \/ tr[1] = "wait"
    \/ tr[1] = "work" /\ Awaiting(l, tr[2][1])
Rests(l) == \A tr \in ToSet(Transitions(l)) : WaitsIn(l, tr)
\* The settlement p still has to try what the log enables.
Carries(p, l) == \A tr \in ToSet(Transitions(l)) : WaitsIn(l, tr) \/ tr \in ToSet(p.todo)
\* A settlement of t, its log, and the marks.
DebtFits(p, l, t, marked) ==
    /\ p.pc = "fire" /\ Len(l) # p.mark => t \in marked
    /\ p.pc \in {"fire", "acting"} /\ Len(l) = p.mark /\ t \notin marked => Carries(p, l)
    /\ p.pc = "acting" /\ Len(l) = p.mark =>
         /\ \A a \in p.acts : a.end \notin {"aborted", "dropped"}
         /\ (\E a \in p.acts : Concurrent(a.tr)) => \A tr \in ToSet(p.todo) : tr[1] # "cancel"
    /\ p.pc \in {"ending", "off"} /\ t \notin marked => Rests(l)
\* The timer of a thread that rests.
TimerFits(p, l, t, marked, rung, at) ==
    p.pc = "off" /\ t \notin marked /\ rung = <<>> => at = EarliestDeadline(l)
DebtInv ==
    /\ DOMAIN armed = Threads
    /\ \A t \in Threads :
         /\ DebtFits(procs[t], logs[t], t, dirty)
         /\ TimerFits(procs[t], logs[t], t, dirty, ringing[t], armed[t])

\* An empty log enables nothing.
LEMMA NothingEnabled == Rests(<<>>) /\ EarliestDeadline(<<>>) = None
  <1> DEFINE l == <<>>
  <1>1. DOMAIN l = {}
    OBVIOUS
  <1>2. \A c : MethodState(l, c) = "unknown"
    BY <1>1 DEF MethodState, Has
  <1>3. Requests(l) = {} /\ Dispatches(l) = {} /\ Replies(l) = {} /\ PendingCancels(l) = {}
    BY <1>1 DEF Requests, Dispatches, Replies, PendingCancels
  <1>4. Deadlines(l) = {}
    BY <1>2, <1>3 DEF Deadlines
  <1>5. EarliestDeadline(l) = None
    BY <1>4 DEF EarliestDeadline
  <1>6. Crossed(l, Deadline) = {}
    BY <1>2 DEF Crossed
  <1> DEFINE E == SetToSeq({})
  <1>7. E = <<>>
    <2>1. E \in Seq({})
      BY ListedIs, FS_EmptySet
    <2> HIDE DEF E
    <2> QED  BY <2>1
  <1>8. Transitions(l) = E \o E \o E \o E \o E \o E
    <2> DEFINE work == {<<"work", Call(c)>> : c \in {i \in Ids : MethodState(l, i) = "running" /\ ~Suppressed(l, i)}}
               late == {<<"timeout", d[1]>> : d \in {e \in Dispatches(l) : ~HasTerminal(l, e[1]) /\ Alarmed(l, e[2])}}
               repair == {<<"repair", Call(c)>> : c \in {i \in Crossed(l, Deadline) : Alarmed(l, Deadline)}}
               reply == IF Replies(l) = {} THEN {}
                        ELSE {<<"deliver", ReplyRef(l[CHOOSE k \in Replies(l) : \A j \in Replies(l) : k <= j])>>}
               finish == {<<"finish", Call(c)>> : c \in {i \in PendingCancels(l) :
                            OpenLinks(l, i) = {} /\ MethodState(l, i) = "running"}}
               duty == UNION {{Obligation(l, k) : k \in OpenLinks(l, c)} : c \in PendingCancels(l)}
    <2>1. Transitions(l) = SetToSeq(work) \o SetToSeq(late) \o SetToSeq(repair) \o SetToSeq(reply)
                             \o SetToSeq(finish) \o SetToSeq(duty)
      BY DEF Transitions, Finishing
    <2>2. work = {} /\ late = {} /\ repair = {} /\ reply = {} /\ finish = {} /\ duty = {}
      <3> HIDE DEF l
      <3> QED  BY <1>2, <1>3, <1>6
    <2> HIDE DEF work, late, repair, reply, finish, duty, l
    <2> QED  BY <2>1, <2>2
  <1>9. Transitions(l) = <<>>
    <2>1. <<>> \o <<>> = <<>>
      OBVIOUS
    <2> HIDE DEF E, l
    <2> QED  BY <1>7, <1>8, <2>1
  <1>10. Rests(l)
    BY <1>9 DEF Rests, ToSet
  <1> QED  BY <1>5, <1>10

\* A log that owes no deadline has a timer that stands nowhere, and no other log has.
LEMMA EarliestIs ==
  ASSUME NEW l \in Seq(Events), EarliestDeadline(l) = None
  PROVE  Deadlines(l) = {}
  <1> SUFFICES ASSUME Deadlines(l) # {} PROVE FALSE
    OBVIOUS
  <1>1. Deadline \in Nat /\ MaxClock \in Nat /\ CancelTimeout \in Nat
    BY CallGraphAssumption
  <1>2. ASSUME NEW d \in Dispatches(l) PROVE d[2] \in 0 .. (Deadline + MaxClock + CancelTimeout)
    <2>1. PICK j \in DOMAIN l : /\ l[j][1] \in {"dispatched", "cancelling"}
                                /\ d[2] = IF l[j][1] = "cancelling" THEN l[j][3] ELSE Deadline
      BY DEF Dispatches
    <2>2. l[j] \in Events
      OBVIOUS
    <2>3. l[j][1] = "cancelling" => l[j][3] \in 0 .. (MaxClock + CancelTimeout)
      BY <2>2 DEF Events
    <2> QED  BY <1>1, <2>1, <2>3
  <1>3. \A d \in Deadlines(l) : d \in 0 .. (Deadline + MaxClock + CancelTimeout)
    BY <1>1, <1>2 DEF Deadlines
  <1>4. \E d \in Deadlines(l) : \A e \in Deadlines(l) : d <= e
    BY <1>1, <1>3, LeastNatural
  <1>5. EarliestDeadline(l) \in Deadlines(l)
    BY <1>4 DEF EarliestDeadline
  <1> QED  BY <1>1, <1>3, <1>5 DEF None

-----------------------------------------------------------------------------
(* How debts move *)

\* One thread moves, and the others stay as they are.
OthersStay(t) ==
  \A u \in Threads \ {t} : /\ logs'[u] = logs[u] /\ procs'[u] = procs[u]
                           /\ ringing'[u] = ringing[u] /\ armed'[u] = armed[u]
                           /\ u \in dirty' <=> u \in dirty

LEMMA DebtMoves ==
  ASSUME DebtInv, NEW t, DOMAIN armed' = Threads, OthersStay(t),
         t \in Threads =>
           /\ DebtFits(procs'[t], logs'[t], t, dirty')
           /\ TimerFits(procs'[t], logs'[t], t, dirty', ringing'[t], armed'[t])
  PROVE  DebtInv'
  <1>1. ASSUME NEW u \in Threads, u # t
        PROVE  /\ DebtFits(procs'[u], logs'[u], u, dirty')
               /\ TimerFits(procs'[u], logs'[u], u, dirty', ringing'[u], armed'[u])
    <2>1. /\ logs'[u] = logs[u] /\ procs'[u] = procs[u] /\ ringing'[u] = ringing[u] /\ armed'[u] = armed[u]
          /\ u \in dirty' <=> u \in dirty
      BY <1>1 DEF OthersStay
    <2>2. DebtFits(procs[u], logs[u], u, dirty) /\ TimerFits(procs[u], logs[u], u, dirty, ringing[u], armed[u])
      BY DEF DebtInv
    <2> QED  BY <2>1, <2>2 DEF DebtFits, TimerFits
  <1> QED  BY <1>1 DEF DebtInv

\* An append that adds nothing leaves the log as it was.
LEMMA AppendIs ==
  ASSUME NEW l \in Seq(Events), NEW events \in Seq(Events)
  PROVE  /\ AppendTo(l, events) \in Seq(Events)
         /\ Len(AppendTo(l, events)) \in Nat /\ Len(l) \in Nat /\ Len(AppendTo(l, events)) >= Len(l)
         /\ Len(AppendTo(l, events)) = Len(l) <=> AppendTo(l, events) = l
  <1>1. PICK new \in Seq(Events) : AppendTo(l, events) = l \o new
    BY AppendAdds
  <1>2. l \o new \in Seq(Events) /\ Len(l \o new) = Len(l) + Len(new) /\ Len(l) \in Nat /\ Len(new) \in Nat
    BY Grown
  <1>3. Len(new) = 0 => new = <<>>
    BY EmptySeq
  <1>4. new = <<>> => l \o new = l
    BY ConcatEmptySeq
  <1> QED  BY <1>1, <1>2, <1>3, <1>4

\* The first event of a batch is added if its key is not there.
LEMMA AppendFirst ==
  ASSUME NEW l \in Seq(Events), NEW events \in Seq(Events), events # <<>>,
         events[1][1] = "alarm" \/ KeyOf(events[1]) \notin Recorded(l)
  PROVE  AppendTo(l, events) # l
  <1> DEFINE places == {k \in DOMAIN events :
               events[k][1] = "alarm" \/ KeyOf(events[k]) \notin Recorded(l) \cup Recorded(SubSeq(events, 1, k - 1))}
             new == Only(events, places)
  <1>1. AppendTo(l, events) = l \o new
    BY DEF AppendTo
  <1>2. 1 \in DOMAIN events
    <2>1. Len(events) # 0 /\ Len(events) \in Nat
      BY EmptySeq
    <2> QED  BY <2>1
  <1>3. Recorded(SubSeq(events, 1, 1 - 1)) = {}
    <2>1. SubSeq(events, 1, 1 - 1) = <<>>
      OBVIOUS
    <2>2. DOMAIN <<>> = {}
      OBVIOUS
    <2> QED  BY <2>1, <2>2 DEF Recorded
  <1>4. 1 \in DOMAIN events \cap places
    BY <1>2, <1>3
  <1> HIDE DEF places
  <1>5. \E k \in DOMAIN new : new[k] = events[1]
    BY <1>4, OnlyHas
  <1>6. new \in Seq(Events)
    BY OnlyIs
  <1> HIDE DEF new
  <1>7. new # <<>>
    BY <1>5
  <1> QED  BY <1>1, <1>6, <1>7, ConcatEqualIffEmpty

\* Nothing is interrupted where no event landed, and otherwise acts only come to an end.
LEMMA InterruptIs ==
  ASSUME NEW pr \in [Threads -> Procs], NEW t, NEW landed
  PROVE  /\ \A u \in Threads \ {t} : Interrupt(pr, t, landed)[u] = pr[u]
         /\ t \in Threads =>
              LET p == pr[t]
                  q == Interrupt(pr, t, landed)[t]
              IN /\ q.pc = p.pc /\ q.mark = p.mark /\ q.todo = p.todo
                 /\ landed = <<>> => q.acts = p.acts
  <1> DEFINE Ended(a) == IF a.tr[1] = "work" /\ a.msg # NoMsg /\ (\E k \in DOMAIN landed : landed[k][1] = "cancel" /\ landed[k][2] = a.tr[2])
                         THEN [a EXCEPT !.end = "aborted"] ELSE a
             ended == {Ended(a) : a \in pr[t].acts}
             after == Interrupt(pr, t, landed)
  <1>1. after = [pr EXCEPT ![t] = [pr[t] EXCEPT !.acts = ended]]
    BY DEF Interrupt
  <1>2. landed = <<>> => ended = pr[t].acts
    <2>1. DOMAIN <<>> = {}
      OBVIOUS
    <2> QED  BY <2>1
  <1> HIDE DEF ended, after
  <1>3. \A u \in Threads \ {t} : after[u] = pr[u]
    BY <1>1
  <1>4. ASSUME t \in Threads
        PROVE  after[t].pc = pr[t].pc /\ after[t].mark = pr[t].mark /\ after[t].todo = pr[t].todo /\ after[t].acts = ended
    <2>1. after[t] = [pr[t] EXCEPT !.acts = ended] /\ pr[t] \in Procs
      BY <1>1, <1>4
    <2> QED  BY <2>1 DEF Procs
  <1> QED  BY <1>2, <1>3, <1>4 DEF after

\* Two settlements that differ in their acts at most.
LEMMA SameDebt ==
  ASSUME NEW p, NEW q, NEW l, NEW t, NEW marked, DebtFits(p, l, t, marked),
         q.pc = p.pc, q.mark = p.mark, q.todo = p.todo, q.acts \subseteq p.acts
  PROVE  DebtFits(q, l, t, marked)
  BY DEF DebtFits, Carries

\* A settlement records events and moves on: where the log grew it is not before a transition.
LEMMA RecordDebts ==
  ASSUME CancellationInv, DebtInv, NEW t \in Threads, NEW events \in Seq(Events), NEW q \in Procs,
         q.mark <= Len(logs[t]), q.pc # "off", Record(t, events, q),
         AppendTo(logs[t], events) = logs[t] => DebtFits(q, logs[t], t, dirty),
         AppendTo(logs[t], events) # logs[t] => q.pc \in {"sync", "acting"},
         dirty' = dirty, armed' = armed, ringing' = ringing
  PROVE  DebtInv'
  <1> DEFINE l == logs[t]
             next == AppendTo(l, events)
             landed == SubSeq(next, Len(l) + 1, Len(next))
             pr == [procs EXCEPT ![t] = q]
  <1>1. logs' = [logs EXCEPT ![t] = next] /\ procs' = Interrupt(pr, t, landed)
    BY DEF Record
  <1>2. l \in Seq(Events) /\ logs \in [Threads -> Seq(Events)] /\ procs \in [Threads -> Procs]
    BY DEF CancellationInv, Standing
  <1>3. next \in Seq(Events) /\ Len(next) \in Nat /\ Len(l) \in Nat /\ Len(next) >= Len(l) /\ (Len(next) = Len(l) <=> next = l)
    BY <1>2, AppendIs
  <1>4. next = l => landed = <<>>
    BY <1>2, <1>3
  <1>5. pr \in [Threads -> Procs] /\ pr[t] = q /\ \A u \in Threads \ {t} : pr[u] = procs[u]
    BY <1>2
  <1> HIDE DEF pr, landed, next
  <1>6. /\ \A u \in Threads \ {t} : procs'[u] = procs[u]
        /\ procs'[t].pc = q.pc /\ procs'[t].mark = q.mark /\ procs'[t].todo = q.todo
        /\ next = l => procs'[t].acts = q.acts
    BY <1>1, <1>4, <1>5, InterruptIs
  <1>7. logs'[t] = next /\ \A u \in Threads \ {t} : logs'[u] = logs[u]
    BY <1>1, <1>2
  <1>8. DebtFits(procs'[t], logs'[t], t, dirty')
    <2>1. CASE next = l
      <3>1. DebtFits(q, l, t, dirty)
        BY <2>1 DEF next
      <3>2. DebtFits(procs'[t], l, t, dirty)
        BY <1>6, <2>1, <3>1, SameDebt
      <3> QED  BY <1>7, <2>1, <3>2
    <2>2. CASE next # l
      <3>1. q.pc \in {"sync", "acting"}
        BY <2>2 DEF next
      <3>2. q.mark \in Nat /\ Len(next) # q.mark
        BY <1>3, <2>2 DEF Procs
      <3> QED  BY <1>6, <1>7, <3>1, <3>2 DEF DebtFits
    <2> QED  BY <2>1, <2>2
  <1>9. TimerFits(procs'[t], logs'[t], t, dirty', ringing'[t], armed'[t])
    BY <1>6 DEF TimerFits
  <1>10. DOMAIN armed' = Threads
    BY DEF DebtInv
  <1> QED  BY <1>6, <1>7, <1>8, <1>9, <1>10, DebtMoves DEF OthersStay

\* Events land in a log from outside, and mark its thread if they are new.
LEMMA LandDebts ==
  ASSUME CancellationInv, DebtInv, NEW t, NEW events \in Seq(Events), Land(t, events), armed' = armed,
         \A u \in Threads \ {t} : ringing'[u] = ringing[u],
         ringing'[t] = ringing[t] \/ (t \in Threads => AppendTo(logs[t], events) # logs[t])
  PROVE  DebtInv'
  <1> DEFINE l == logs[t]
             next == AppendTo(l, events)
             landed == SubSeq(next, Len(l) + 1, Len(next))
  <1>1. /\ logs' = [logs EXCEPT ![t] = next] /\ procs' = Interrupt(procs, t, landed)
        /\ dirty' = IF next = l THEN dirty ELSE dirty \cup {t}
    BY DEF Land
  <1>2. logs \in [Threads -> Seq(Events)] /\ procs \in [Threads -> Procs]
    BY DEF CancellationInv, Standing
  <1>3. ASSUME t \in Threads
        PROVE  /\ l \in Seq(Events) /\ next \in Seq(Events) /\ Len(next) \in Nat /\ Len(l) \in Nat /\ Len(next) >= Len(l)
               /\ Len(next) = Len(l) <=> next = l
               /\ next = l => landed = <<>>
    <2>1. l \in Seq(Events)
      BY <1>2, <1>3
    <2>2. next \in Seq(Events) /\ Len(next) \in Nat /\ Len(l) \in Nat /\ Len(next) >= Len(l) /\ (Len(next) = Len(l) <=> next = l)
      BY <2>1, AppendIs
    <2>3. next = l => landed = <<>>
      <3> HIDE DEF next
      <3> QED  BY <2>1, <2>2
    <2> HIDE DEF next, landed
    <2> QED  BY <2>1, <2>2, <2>3
  <1> HIDE DEF landed, next
  <1>4. \A u \in Threads \ {t} : procs'[u] = procs[u] /\ logs'[u] = logs[u] /\ (u \in dirty' <=> u \in dirty)
    <2>1. \A u \in Threads \ {t} : Interrupt(procs, t, landed)[u] = procs[u]
      BY <1>2, InterruptIs
    <2>2. \A u \in Threads \ {t} : logs'[u] = logs[u]
      BY <1>1, <1>2
    <2>3. \A u \in Threads \ {t} : u \in dirty' <=> u \in dirty
      BY <1>1
    <2> QED  BY <1>1, <2>1, <2>2, <2>3
  <1>5. ASSUME t \in Threads
        PROVE  /\ DebtFits(procs'[t], logs'[t], t, dirty')
               /\ TimerFits(procs'[t], logs'[t], t, dirty', ringing'[t], armed'[t])
    <2>1. logs'[t] = next
      BY <1>1, <1>2, <1>5
    <2>2. /\ procs'[t].pc = procs[t].pc /\ procs'[t].mark = procs[t].mark /\ procs'[t].todo = procs[t].todo
          /\ landed = <<>> => procs'[t].acts = procs[t].acts
      <3>1. procs' = Interrupt(procs, t, landed)
        BY <1>1
      <3>2. LET q == Interrupt(procs, t, landed)[t]
            IN  /\ q.pc = procs[t].pc /\ q.mark = procs[t].mark /\ q.todo = procs[t].todo
                /\ landed = <<>> => q.acts = procs[t].acts
        BY <1>2, <1>5, InterruptIs
      <3> QED  BY <3>1, <3>2
    <2>3. DebtFits(procs[t], l, t, dirty) /\ TimerFits(procs[t], l, t, dirty, ringing[t], armed[t])
      BY <1>5 DEF DebtInv
    <2>4. CASE next = l
      <3>1. ringing'[t] = ringing[t]
        BY <1>5, <2>4 DEF next
      <3>2. DebtFits(procs'[t], l, t, dirty)
        BY <1>3, <1>5, <2>2, <2>3, <2>4, SameDebt
      <3>3. TimerFits(procs'[t], l, t, dirty, ringing'[t], armed'[t])
        BY <2>2, <2>3, <3>1 DEF TimerFits
      <3> QED  BY <1>1, <2>1, <2>4, <3>2, <3>3
    <2>5. CASE next # l
      <3>1. t \in dirty'
        BY <1>1, <2>5
      <3>2. procs[t].mark \in Nat /\ procs[t].mark <= Len(l)
        BY <1>2, <1>5 DEF CancellationInv, Standing, ProcFits, Procs
      <3>3. Len(next) # procs'[t].mark
        BY <1>3, <1>5, <2>2, <2>5, <3>2
      <3> QED  BY <2>1, <3>1, <3>3 DEF DebtFits, TimerFits
    <2> QED  BY <2>4, <2>5
  <1>6. DOMAIN armed' = Threads
    BY DEF DebtInv
  <1> QED  BY <1>4, <1>5, <1>6, DebtMoves DEF OthersStay

\* A settlement moves on, and nothing else does.
LEMMA ProcDebts ==
  ASSUME CancellationInv, DebtInv, NEW t \in Threads, NEW q, q.pc # "off", DebtFits(q, logs[t], t, dirty),
         logs' = logs, procs' = [procs EXCEPT ![t] = q], dirty' = dirty, armed' = armed, ringing' = ringing
  PROVE  DebtInv'
  <1>1. procs \in [Threads -> Procs]
    BY DEF CancellationInv, Standing
  <1>2. procs'[t] = q /\ \A u \in Threads \ {t} : procs'[u] = procs[u]
    BY <1>1
  <1>3. TimerFits(procs'[t], logs'[t], t, dirty', ringing'[t], armed'[t])
    BY <1>2 DEF TimerFits
  <1> QED  BY <1>2, <1>3, DebtMoves DEF DebtInv, OthersStay

\* What a pass still has to try: the transition at hand, and the rest.
LEMMA HeadTail ==
  ASSUME NEW todo \in Seq(Steps), todo # <<>>
  PROVE  \A tr \in ToSet(todo) : tr = Head(todo) \/ (Len(todo) # 1 /\ tr \in ToSet(Tail(todo)))
  <1>1. Len(todo) # 0 /\ Len(todo) \in Nat
    BY EmptySeq
  <1>2. DOMAIN todo = 1 .. Len(todo) /\ Head(todo) = todo[1]
    BY <1>1
  <1>3. Len(Tail(todo)) = Len(todo) - 1 /\ DOMAIN Tail(todo) = 1 .. (Len(todo) - 1)
        /\ \A k \in 1 .. (Len(todo) - 1) : Tail(todo)[k] = todo[k + 1]
    BY <1>1
  <1>4. ASSUME NEW k \in DOMAIN todo, k # 1 PROVE Len(todo) # 1 /\ todo[k] \in ToSet(Tail(todo))
    <2>1. k - 1 \in 1 .. (Len(todo) - 1) /\ (k - 1) + 1 = k /\ Len(todo) # 1
      BY <1>1, <1>2, <1>4
    <2>2. Tail(todo)[k - 1] = todo[k]
      BY <1>3, <2>1
    <2> QED  BY <1>3, <2>1, <2>2 DEF ToSet
  <1> QED  BY <1>2, <1>4 DEF ToSet

\* A pass whose transition waits for another thread goes on with the rest, or ends at rest.
LEMMA BlockedDebts ==
  ASSUME NEW p \in Procs, NEW l, NEW t, NEW marked, p.todo # <<>>, p.mark = Len(l),
         t \notin marked => Carries(p, l) /\ WaitsIn(l, Head(p.todo))
  PROVE  DebtFits(Blocked(p), l, t, marked) /\ Blocked(p).pc # "off"
  <1>1. p.todo \in Seq(Steps)
    BY DEF Procs
  <1>2. CASE Len(p.todo) = 1
    <2>1. Blocked(p).pc = "ending"
      BY <1>2 DEF Blocked, Off
    <2>2. t \notin marked => Rests(l)
      BY <1>1, <1>2, HeadTail DEF Carries, Rests
    <2> QED  BY <2>1, <2>2 DEF DebtFits
  <1>3. CASE Len(p.todo) # 1
    <2> DEFINE q == [p EXCEPT !.pc = "fire", !.todo = Tail(p.todo), !.acts = {}]
    <2>1. Blocked(p) = q
      BY <1>3 DEF Blocked
    <2>2. q.pc = "fire" /\ q.mark = p.mark /\ q.todo = Tail(p.todo)
      BY DEF Procs
    <2> HIDE DEF q
    <2>3. t \notin marked => Carries(q, l)
      BY <1>1, <2>2, HeadTail DEF Carries
    <2> QED  BY <2>1, <2>2, <2>3 DEF DebtFits
  <1> QED  BY <1>2, <1>3

\* A group of which every member waits leaves the rest of the pass.
LEMMA SequentialDebts ==
  ASSUME NEW p \in Procs, NEW l, NEW rest, rest = Sequential(p.todo), Carries(p, l), \A tr \in ToSet(p.todo) : tr[1] # "cancel"
  PROVE  /\ rest = <<>> => Rests(l)
         /\ \A q : q.todo = rest => Carries(q, l)
  <1> DEFINE places == {j \in DOMAIN p.todo : ~Concurrent(p.todo[j])}
  <1>1. p.todo \in Seq(Steps) /\ rest = Only(p.todo, places)
    BY DEF Procs, Sequential
  <1>2. ASSUME NEW tr \in ToSet(p.todo) PROVE tr[1] = "wait" \/ tr \in ToSet(rest)
    <2>1. PICK j \in DOMAIN p.todo : tr = p.todo[j]
      BY DEF ToSet
    <2>2. CASE Concurrent(tr)
      BY <2>2 DEF Concurrent
    <2>3. CASE ~Concurrent(tr)
      <3>1. j \in DOMAIN p.todo \cap places
        BY <2>1, <2>3
      <3> HIDE DEF places
      <3>2. \E k \in DOMAIN rest : rest[k] = tr
        BY <1>1, <2>1, <3>1, OnlyHas
      <3> QED  BY <3>2 DEF ToSet
    <2> QED  BY <2>2, <2>3
  <1>3. rest = <<>> => ToSet(rest) = {}
    BY DEF ToSet
  <1> QED  BY <1>2, <1>3 DEF Carries, Rests, WaitsIn

\* A settlement that starts over owes nothing yet.
LEMMA ResyncDebts ==
  ASSUME NEW l, NEW t, NEW marked
  PROVE  DebtFits(Resync, l, t, marked) /\ Resync.pc = "sync" /\ Resync.mark = 0
  <1>1. Resync.pc = "sync" /\ Resync.mark = 0
    BY DEF Resync, Off
  <1> QED  BY <1>1 DEF DebtFits

-----------------------------------------------------------------------------
(* The steps, and what is owed *)

\* Initially nothing is owed.
LEMMA DebtInit == Init => DebtInv
  <1> SUFFICES ASSUME Init PROVE DebtInv
    OBVIOUS
  <1>1. Off.pc = "off"
    BY DEF Off
  <1> QED  BY <1>1, NothingEnabled DEF Init, DebtInv, DebtFits, TimerFits

\* Ingress, Deliver: what lands marks its thread.
LEMMA IngressDebts ==
  ASSUME CancellationInv, DebtInv,
         \/ \E c \in Ids : Ingress(c, Received(c)) \/ Ingress(c, CancelRequested(c, "control"))
         \/ \E m \in net : Deliver(m)
  PROVE  DebtInv'
  <1>1. ASSUME NEW c \in Ids, NEW e \in {Received(c), CancelRequested(c, "control")}, Ingress(c, e) PROVE DebtInv'
    <2>1. e \in Events
      <3>1. Call(c) \in Calls
        BY DEF Call, Calls
      <3>2. CASE e = Received(c)
        BY <3>1, <3>2 DEF Received, Events
      <3>3. CASE e = CancelRequested(c, "control")
        BY <3>1, <3>3 DEF CancelRequested, Events
      <3> QED  BY <3>2, <3>3
    <2>2. <<e>> \in Seq(Events)
      BY <2>1
    <2> QED  BY <1>1, <2>2, LandDebts DEF Ingress
  <1>2. ASSUME NEW m \in net, Deliver(m) PROVE DebtInv'
    <2>1. m[2] \in Events
      BY DEF CancellationInv, Around, Messages, Sent
    <2>2. <<m[2]>> \in Seq(Events)
      BY <2>1
    <2> QED  BY <1>2, <2>2, LandDebts DEF Deliver
  <1> QED  BY <1>1, <1>2

\* Launch, ServeEnds, Synchronize: the settlement takes the debt, carries it, and ends with none.
LEMMA LaunchDebts ==
  ASSUME CancellationInv, DebtInv, NEW t \in Threads, Launch(t) \/ ServeEnds(t) \/ Synchronize(t)
  PROVE  DebtInv'
  <1>1. procs \in [Threads -> Procs] /\ logs[t] \in Seq(Events) /\ logs' = logs /\ ringing' = ringing
    BY DEF CancellationInv, Standing, Launch, ServeEnds, Synchronize
  <1>2. CASE Launch(t)
    <2> DEFINE q == [Off EXCEPT !.pc = "sync"]
    <2>1. procs' = [procs EXCEPT ![t] = q] /\ dirty' = dirty \ {t} /\ armed' = armed
      BY <1>2 DEF Launch
    <2>2. q.pc = "sync"
      BY DEF Off
    <2> HIDE DEF q
    <2>3. procs'[t].pc = "sync" /\ \A u \in Threads \ {t} : procs'[u] = procs[u]
      BY <1>1, <2>1, <2>2
    <2>4. DebtFits(procs'[t], logs'[t], t, dirty') /\ TimerFits(procs'[t], logs'[t], t, dirty', ringing'[t], armed'[t])
      BY <2>3 DEF DebtFits, TimerFits
    <2>5. \A u \in Threads \ {t} : u \in dirty' <=> u \in dirty
      BY <2>1
    <2>6. DOMAIN armed' = Threads
      BY <2>1 DEF DebtInv
    <2> QED  BY <1>1, <2>1, <2>3, <2>4, <2>5, <2>6, DebtMoves DEF OthersStay
  <1>3. CASE ServeEnds(t)
    <2>1. /\ procs' = [procs EXCEPT ![t] = Off] /\ dirty' = dirty /\ procs[t].pc = "ending"
          /\ armed' = [armed EXCEPT ![t] = EarliestDeadline(logs[t])]
      BY <1>3 DEF ServeEnds
    <2>2. procs'[t].pc = "off" /\ \A u \in Threads \ {t} : procs'[u] = procs[u]
      BY <1>1, <2>1 DEF Off
    <2>3. DOMAIN armed' = Threads /\ armed'[t] = EarliestDeadline(logs[t]) /\ \A u \in Threads \ {t} : armed'[u] = armed[u]
      BY <2>1 DEF DebtInv
    <2>4. t \notin dirty => Rests(logs[t])
      BY <2>1 DEF DebtInv, DebtFits
    <2>5. DebtFits(procs'[t], logs'[t], t, dirty') /\ TimerFits(procs'[t], logs'[t], t, dirty', ringing'[t], armed'[t])
      BY <1>1, <2>1, <2>2, <2>3, <2>4 DEF DebtFits, TimerFits
    <2> QED  BY <1>1, <2>1, <2>2, <2>3, <2>5, DebtMoves DEF OthersStay
  <1>4. CASE Synchronize(t)
    <2> DEFINE todo == Transitions(logs[t])
               ending == [Off EXCEPT !.pc = "ending"]
               on == [pc |-> "fire", mark |-> Len(logs[t]), todo |-> todo, acts |-> {}]
               q == IF todo = <<>> THEN ending ELSE on
    <2>1. procs' = [procs EXCEPT ![t] = q] /\ dirty' = dirty /\ armed' = armed
      BY <1>4 DEF Synchronize
    <2>2. todo = <<>> => Rests(logs[t])
      BY DEF Rests, ToSet
    <2>3. ending.pc = "ending"
      BY DEF Off
    <2>4. on.pc = "fire" /\ on.mark = Len(logs[t]) /\ Carries(on, logs[t])
      BY DEF Carries
    <2> HIDE DEF ending, on, todo
    <2>5. q.pc # "off" /\ DebtFits(q, logs[t], t, dirty)
      BY <2>2, <2>3, <2>4 DEF DebtFits
    <2> HIDE DEF q
    <2> QED  BY <1>1, <2>1, <2>5, ProcDebts
  <1> QED  BY <1>2, <1>3, <1>4

\* Stale: a pass whose log moved is of a marked thread.
LEMMA StaleDebts ==
  ASSUME CancellationInv, DebtInv, NEW t \in Threads, Stale(t)
  PROVE  DebtInv'
  <1> DEFINE rest == Sequential(procs[t].todo)
             ending == [Off EXCEPT !.pc = "ending"]
             on == [procs[t] EXCEPT !.todo = rest]
             q == IF ~Concurrent(Head(procs[t].todo)) THEN Resync ELSE IF rest = <<>> THEN ending ELSE on
  <1>1. procs[t] \in Procs /\ procs[t].pc = "fire" /\ Len(logs[t]) # procs[t].mark
    BY DEF CancellationInv, Standing, Stale
  <1>2. procs' = [procs EXCEPT ![t] = q] /\ logs' = logs /\ dirty' = dirty /\ armed' = armed /\ ringing' = ringing
    BY DEF Stale
  <1>3. t \in dirty
    BY <1>1 DEF DebtInv, DebtFits
  <1>4. ending.pc = "ending"
    BY DEF Off
  <1>5. on.pc = "fire" /\ on.mark = procs[t].mark
    BY <1>1 DEF Procs
  <1> HIDE DEF ending, on, rest
  <1>6. q.pc # "off" /\ DebtFits(q, logs[t], t, dirty)
    BY <1>3, <1>4, <1>5, ResyncDebts DEF DebtFits
  <1> HIDE DEF q
  <1> QED  BY <1>2, <1>6, ProcDebts

\* A settlement records events and starts over.
LEMMA RestartDebts ==
  ASSUME CancellationInv, DebtInv, NEW t \in Threads, NEW events \in Seq(Events), Record(t, events, Resync),
         dirty' = dirty, armed' = armed, ringing' = ringing
  PROVE  DebtInv'
  <1>1. logs[t] \in Seq(Events)
    BY DEF CancellationInv, Standing
  <1>2. Resync \in Procs /\ Resync.pc = "sync" /\ Resync.mark <= Len(logs[t])
    BY <1>1, IdleFits DEF ProcFits, Resync, Off
  <1>3. DebtFits(Resync, logs[t], t, dirty)
    BY ResyncDebts
  <1> HIDE DEF Resync
  <1> QED  BY <1>2, <1>3, RecordDebts

\* Intend: the pass starts over once its intent is recorded.
LEMMA IntendDebts ==
  ASSUME CancellationInv, DebtInv, NEW t \in Threads, Intend(t)
  PROVE  DebtInv'
  <1> DEFINE tr == Head(procs[t].todo)
             e == IntentEvent(tr)
  <1>1. tr \in Steps /\ tr[1] \in {"timeout", "repair", "finish"}
    BY FreshIs DEF Intend
  <1>2. Record(t, <<e>>, Resync) /\ dirty' = dirty /\ armed' = armed /\ ringing' = ringing
    BY DEF Intend
  <1> HIDE DEF tr
  <1>3. e \in Events
    BY <1>1, IntentIs
  <1>4. <<e>> \in Seq(Events)
    BY <1>3
  <1> HIDE DEF e
  <1> QED  BY <1>2, <1>4, RestartDebts

\* What a settlement at a transition of an unmoved log still has to try.
LEMMA FreshDebts ==
  ASSUME CancellationInv, DebtInv, NEW t \in Threads, NEW kind, Fresh(t, kind)
  PROVE  t \notin dirty => Carries(procs[t], logs[t])
  BY FreshIs DEF DebtInv, DebtFits

\* It begins effects of its transitions, and has nothing to cancel beside them.
LEMMA ActDebts ==
  ASSUME NEW p, NEW l, NEW t, NEW marked, NEW q, q.pc = "acting", q.todo = p.todo,
         t \notin marked => Carries(p, l), \A a \in q.acts : a.end = "open",
         (\E a \in q.acts : Concurrent(a.tr)) => \A tr \in ToSet(p.todo) : tr[1] # "cancel"
  PROVE  DebtFits(q, l, t, marked)
  <1>1. t \notin marked => Carries(q, l)
    BY DEF Carries
  <1>2. "open" \notin {"aborted", "dropped"}
    OBVIOUS
  <1> QED  BY <1>1, <1>2 DEF DebtFits

\* One act, of a sequential transition.
LEMMA ActDebt ==
  ASSUME CancellationInv, DebtInv, NEW t \in Threads, t \notin dirty => Carries(procs[t], logs[t]),
         NEW a \in Acts, a.tr[1] \in {"work", "deliver"}, a.end = "open",
         NEW q, q = [procs[t] EXCEPT !.pc = "acting", !.acts = {a}],
         logs' = logs, procs' = [procs EXCEPT ![t] = q],
         dirty' = dirty, armed' = armed, ringing' = ringing
  PROVE  DebtInv'
  <1>1. procs[t] \in Procs
    BY DEF CancellationInv, Standing
  <1>2. q.pc = "acting" /\ q.todo = procs[t].todo /\ q.acts = {a}
    BY <1>1 DEF Procs
  <1>3. \A b \in q.acts : b.end = "open" /\ ~Concurrent(b.tr)
    BY <1>2 DEF Concurrent
  <1>4. DebtFits(q, logs[t], t, dirty)
    BY <1>2, <1>3, ActDebts
  <1> QED  BY <1>2, <1>4, ProcDebts

\* Work: blocked only where it awaits an answer.
LEMMA WorkDebts ==
  ASSUME CancellationInv, DebtInv, NEW t \in Threads, Work(t)
  PROVE  DebtInv'
  <1> DEFINE tr == Head(procs[t].todo)
             c == tr[2][1]
             open == OpenKids(logs[t], c)
             k == open[1]
             m == <<CallTree[k].to, Received(k)>>
             Acting(msg) == [procs[t] EXCEPT !.pc = "acting", !.acts = {Act(<<"work", Call(c)>>, msg)}]
  <1>1. Fresh(t, {"work"})
    BY DEF Work
  <1>2. /\ logs[t] \in Seq(Events) /\ procs[t] \in Procs /\ procs[t].mark = Len(logs[t]) /\ procs[t].todo # <<>>
        /\ tr \in Steps /\ tr[1] = "work"
    BY <1>1, FreshIs
  <1>3. c \in Ids /\ tr = <<"work", Call(c)>>
    <2>1. tr[2] \in Calls
      BY <1>2 DEF Steps
    <2> QED  BY <1>2, <2>1 DEF Calls, Call, Steps
  <1>4. open # <<>> => k \in Ids
    <2>1. Kids[c] \in Seq(Ids)
      BY <1>3, CallGraphAssumption DEF Ids
    <2>2. open \in Seq(Ids)
      BY <2>1, OnlyIs DEF OpenKids
    <2> HIDE DEF open
    <2>3. open # <<>> => Len(open) \in Nat \ {0}
      BY <2>2, EmptySeq
    <2> QED  BY <2>2, <2>3
  <1>5. /\ dirty' = dirty /\ armed' = armed /\ ringing' = ringing
        /\ IF open = <<>> THEN procs' = [procs EXCEPT ![t] = Acting(NoMsg)] /\ logs' = logs
           ELSE IF ~Has(logs[t], Planned(k)) THEN Record(t, <<Planned(k)>>, Resync)
           ELSE IF Has(logs[t], Dispatched(k)) THEN procs' = [procs EXCEPT ![t] = Blocked(procs[t])] /\ logs' = logs
           ELSE IF Deadline <= clock THEN Record(t, <<Skipped(k), Terminal(Call(k), "skipped")>>, Resync)
           ELSE procs' = [procs EXCEPT ![t] = Acting(m)] /\ logs' = logs
    BY DEF Work
  <1> HIDE DEF tr
  <1>6. ASSUME NEW msg \in Messages \cup {NoMsg}, logs' = logs, procs' = [procs EXCEPT ![t] = Acting(msg)] PROVE DebtInv'
    <2> DEFINE a == Act(<<"work", Call(c)>>, msg)
    <2>1. a \in Acts /\ a.tr[1] = "work" /\ a.end = "open"
      <3>1. <<"work", Call(c)>> \in Steps
        BY <1>2, <1>3
      <3> QED  BY <3>1 DEF Act, Acts, Effects
    <2> DEFINE q == Acting(msg)
    <2>2. q = [procs[t] EXCEPT !.pc = "acting", !.acts = {a}] /\ procs' = [procs EXCEPT ![t] = q]
      BY <1>6
    <2>3. t \notin dirty => Carries(procs[t], logs[t])
      BY <1>1, FreshDebts
    <2>4. dirty' = dirty /\ armed' = armed /\ ringing' = ringing /\ logs' = logs
      BY <1>5, <1>6
    <2> HIDE DEF a, q, c, open, k, m, Acting
    <2>5. a.tr[1] \in {"work", "deliver"}
      BY <2>1
    <2> QED  BY <2>1, <2>2, <2>3, <2>4, <2>5, ActDebt
  <1>7. CASE open = <<>>
    <2>1. NoMsg \in Messages \cup {NoMsg} /\ logs' = logs /\ procs' = [procs EXCEPT ![t] = Acting(NoMsg)]
      BY <1>5, <1>7
    <2> HIDE DEF Acting
    <2> QED  BY <1>6, <2>1
  <1>8. CASE open # <<>> /\ ~Has(logs[t], Planned(k))
    <2>1. Planned(k) \in Events
      BY <1>4, <1>8 DEF Planned, Call, Calls, Events
    <2>2. <<Planned(k)>> \in Seq(Events)
      BY <2>1
    <2> QED  BY <1>5, <1>8, <2>2, RestartDebts
  <1>9. CASE open # <<>> /\ Has(logs[t], Planned(k)) /\ Has(logs[t], Dispatched(k))
    <2>1. WaitsIn(logs[t], tr)
      BY <1>2, <1>9 DEF WaitsIn, Awaiting
    <2>2. t \notin dirty => Carries(procs[t], logs[t]) /\ WaitsIn(logs[t], Head(procs[t].todo))
      BY <1>1, <2>1, FreshDebts DEF tr
    <2>3. DebtFits(Blocked(procs[t]), logs[t], t, dirty) /\ Blocked(procs[t]).pc # "off"
      BY <1>2, <2>2, BlockedDebts
    <2> QED  BY <1>5, <1>9, <2>3, ProcDebts
  <1>10. CASE open # <<>> /\ Has(logs[t], Planned(k)) /\ ~Has(logs[t], Dispatched(k)) /\ Deadline <= clock
    <2> DEFINE events == <<Skipped(k), Terminal(Call(k), "skipped")>>
    <2>1. Skipped(k) \in Events /\ Terminal(Call(k), "skipped") \in Events
      BY <1>4, <1>10 DEF Skipped, Terminal, Call, Calls, Refs, Events
    <2>2. events \in Seq(Events)
      BY <2>1
    <2>3. Record(t, events, Resync)
      BY <1>5, <1>10
    <2> HIDE DEF events
    <2> QED  BY <1>5, <2>2, <2>3, RestartDebts
  <1>11. CASE open # <<>> /\ Has(logs[t], Planned(k)) /\ ~Has(logs[t], Dispatched(k)) /\ ~(Deadline <= clock)
    <2>1. m \in Messages
      <3>1. k \in Ids
        BY <1>4, <1>11
      <3>2. Received(k) \in Events /\ Received(k)[1] = "received"
        BY <3>1 DEF Received, Call, Calls, Events
      <3> QED  BY <3>1, <3>2 DEF Messages, Ends, Sent
    <2>2. procs' = [procs EXCEPT ![t] = Acting(m)] /\ logs' = logs
      BY <1>5, <1>11
    <2> HIDE DEF m, Acting
    <2> QED  BY <1>6, <2>1, <2>2
  <1> QED  BY <1>7, <1>8, <1>9, <1>10, <1>11

\* Respond: the reply is under way.
LEMMA RespondDebts ==
  ASSUME CancellationInv, DebtInv, NEW t \in Threads, Respond(t)
  PROVE  DebtInv'
  <1> DEFINE tr == Head(procs[t].todo)
             m == <<CallTree[tr[2][1]].from, Terminal(tr[2], "response")>>
             a == Act(tr, m)
  <1>1. Fresh(t, {"deliver"})
    BY DEF Respond
  <1>2. tr \in Steps /\ tr[1] = "deliver" /\ procs[t] \in Procs
    BY <1>1, FreshIs
  <1> DEFINE q == [procs[t] EXCEPT !.pc = "acting", !.acts = {a}]
  <1>3. /\ procs' = [procs EXCEPT ![t] = q]
        /\ logs' = logs /\ dirty' = dirty /\ armed' = armed /\ ringing' = ringing
    BY DEF Respond
  <1>6. t \notin dirty => Carries(procs[t], logs[t])
    BY <1>1, FreshDebts
  <1>7. q = [procs[t] EXCEPT !.pc = "acting", !.acts = {a}]
    OBVIOUS
  <1> HIDE DEF tr, q
  <1>4. m \in Messages
    BY <1>2, ResponseIs
  <1> HIDE DEF m
  <1>5. a \in Acts /\ a.tr[1] = "deliver" /\ a.end = "open"
    BY <1>2, <1>4 DEF Act, Acts, Effects
  <1> HIDE DEF a
  <1> QED  BY <1>3, <1>5, <1>6, <1>7, ActDebt

\* Only the record of a cancellation has its key.
LEMMA KeyIs ==
  ASSUME NEW e \in Events, NEW ref, KeyOf(e) = <<"cancelling", ref>>
  PROVE  e[1] = "cancelling" /\ e[2] = ref
  <1>1. CASE e[1] = "received"
    BY <1>1, Zenon DEF KeyOf
  <1>2. CASE e[1] = "cancel" /\ e[3] = "control"
    BY <1>2, Zenon DEF KeyOf
  <1>3. CASE e[1] = "cancel" /\ e[3] = "alarm"
    BY <1>3, Zenon DEF KeyOf
  <1>4. CASE e[1] \in {"dispatched", "skipped"}
    BY <1>4, Zenon DEF KeyOf
  <1>5. CASE e[1] = "terminal" /\ e[3] # "timeout"
    BY <1>5, Zenon DEF KeyOf
  <1>6. CASE /\ e[1] # "received" /\ ~(e[1] = "cancel" /\ e[3] = "control") /\ ~(e[1] = "cancel" /\ e[3] = "alarm")
             /\ e[1] \notin {"dispatched", "skipped"} /\ ~(e[1] = "terminal" /\ e[3] # "timeout")
    <2>1. KeyOf(e) = <<e[1], e[2]>>
      BY <1>6, Zenon DEF KeyOf
    <2> QED  BY <2>1
  <1> QED  BY <1>1, <1>2, <1>3, <1>4, <1>5, <1>6

\* CancelChildren: a child that is still to be cancelled makes the log move.
LEMMA CancelChildrenDebts ==
  ASSUME CancellationInv, DebtInv, NEW t \in Threads, CancelChildren(t)
  PROVE  DebtInv'
  <1> DEFINE l == logs[t]
             todo == procs[t].todo
             group == {tr \in ToSet(todo) : Concurrent(tr)}
             Msg(tr) == <<CallTree[tr[2][1]].to, CancelRequested(tr[2][1], "control")>>
             ready == {tr \in group : tr[1] = "cancel"}
             events == SetToSeq({CancelDispatched(tr[2][1], clock + CancelTimeout) : tr \in ready})
             acts == {Act(tr, Msg(tr)) : tr \in group}
             next == AppendTo(l, events)
  <1>1. Fresh(t, {"cancel", "wait"})
    BY DEF CancelChildren
  <1>2. l \in Seq(Events) /\ procs[t] \in Procs /\ ProcFits(procs[t], l) /\ procs[t].mark = Len(l) /\ todo \in Seq(Steps)
    BY <1>1, FreshIs DEF Procs
  <1>3. /\ logs' = [logs EXCEPT ![t] = next]
        /\ procs' = [procs EXCEPT ![t].pc = "acting", ![t].acts = acts]
        /\ dirty' = dirty /\ armed' = armed /\ ringing' = ringing
    BY DEF CancelChildren
  <1>4. /\ procs'[t].pc = "acting" /\ procs'[t].mark = Len(l) /\ procs'[t].todo = todo /\ procs'[t].acts = acts
        /\ \A u \in Threads \ {t} : procs'[u] = procs[u]
        /\ logs'[t] = next /\ \A u \in Threads \ {t} : logs'[u] = logs[u]
    <2> HIDE DEF acts, next
    <2>1. procs \in [Threads -> Procs] /\ logs \in [Threads -> Seq(Events)]
      BY DEF CancellationInv, Standing
    <2>2. procs' = [procs EXCEPT ![t] = [procs[t] EXCEPT !.pc = "acting", !.acts = acts]]
      BY <1>3, <2>1
    <2> DEFINE q == [procs[t] EXCEPT !.pc = "acting", !.acts = acts]
    <2>3. q.pc = "acting" /\ q.mark = procs[t].mark /\ q.todo = procs[t].todo /\ q.acts = acts
      BY <1>2 DEF Procs
    <2> HIDE DEF q
    <2>4. procs'[t] = q /\ \A u \in Threads \ {t} : procs'[u] = procs[u]
      BY <2>1, <2>2 DEF q
    <2> QED  BY <1>2, <1>3, <2>1, <2>3, <2>4
  <1>5. \A a \in acts : a.end = "open"
    BY DEF Act
  <1>6. ready \subseteq Steps /\ \A tr \in ready : tr[1] = "cancel" /\ Follows(l, Len(l), tr)
    BY <1>2 DEF ToSet, ProcFits
  <1>7. ready = {} => \A tr \in ToSet(todo) : tr[1] # "cancel"
    BY DEF Concurrent
  <1> HIDE DEF acts, ready, group
  <1>8. events \in Seq(Events) /\ ToSet(events) = {CancelDispatched(tr[2][1], clock + CancelTimeout) : tr \in ready}
    BY <1>6, GroupEvents
  <1>9. ready # {} => next # l
    <2> SUFFICES ASSUME ready # {} PROVE next # l
      OBVIOUS
    <2>1. ToSet(events) # {}
      BY <1>8
    <2> HIDE DEF events
    <2>2. events # <<>>
      BY <2>1 DEF ToSet
    <2>3. 1 \in DOMAIN events
      <3>1. Len(events) # 0 /\ Len(events) \in Nat
        BY <1>8, <2>2, EmptySeq
      <3> QED  BY <1>8, <3>1
    <2>4. events[1] \in ToSet(events)
      BY <2>3 DEF ToSet
    <2>5. PICK tr \in ready : events[1] = CancelDispatched(tr[2][1], clock + CancelTimeout)
      BY <1>8, <2>4
    <2>6. tr[2] = Control(tr[2][1]) /\ \A k \in 1 .. Len(l) : ~(l[k][1] = "cancelling" /\ l[k][2] = tr[2])
      BY <1>6 DEF Follows
    <2>7. KeyOf(events[1]) = <<"cancelling", tr[2]>>
      <3>1. events[1][1] = "cancelling" /\ events[1][2] = tr[2]
        BY <2>5, <2>6 DEF CancelDispatched
      <3> QED  BY <3>1 DEF KeyOf
    <2>8. KeyOf(events[1]) \notin Recorded(l)
      <3> SUFFICES ASSUME NEW k \in DOMAIN l, KeyOf(l[k]) = <<"cancelling", tr[2]>> PROVE FALSE
        BY <2>7 DEF Recorded
      <3>1. l[k] \in Events /\ k \in 1 .. Len(l)
        BY <1>2
      <3> HIDE DEF l
      <3>2. l[k][1] = "cancelling" /\ l[k][2] = tr[2]
        BY <3>1, KeyIs
      <3> QED  BY <2>6, <3>1, <3>2
    <2> QED  BY <1>2, <1>8, <2>2, <2>8, AppendFirst
  <1> HIDE DEF events, next
  <1>10. DebtFits(procs'[t], logs'[t], t, dirty')
    <2>1. CASE next = l
      <3>1. t \notin dirty => Carries(procs[t], l)
        BY <1>1, FreshDebts
      <3>2. DebtFits(procs'[t], l, t, dirty)
        BY <1>4, <1>5, <1>7, <1>9, <2>1, <3>1, ActDebts
      <3> QED  BY <1>3, <1>4, <2>1, <3>2
    <2>2. CASE next # l
      <3>1. Len(next) # Len(l)
        BY <1>2, <1>8, <2>2, AppendIs DEF next
      <3> QED  BY <1>4, <3>1 DEF DebtFits
    <2> QED  BY <2>1, <2>2
  <1>11. TimerFits(procs'[t], logs'[t], t, dirty', ringing'[t], armed'[t])
    BY <1>4 DEF TimerFits
  <1>12. DOMAIN armed' = Threads
    BY <1>3 DEF DebtInv
  <1>13. OthersStay(t)
    <2>1. dirty' = dirty /\ armed' = armed /\ ringing' = ringing
      BY <1>3
    <2> HIDE DEF l, todo
    <2> QED  BY <1>4, <2>1 DEF OthersStay
  <1> HIDE DEF l, todo
  <1> QED  BY <1>10, <1>11, <1>12, <1>13, DebtMoves

\* ReadBack: work that finds the log as its pass read it was not interrupted.
LEMMA ReadBackDebts ==
  ASSUME CancellationInv, DebtInv, NEW t \in Threads, ReadBack(t)
  PROVE  DebtInv'
  <1>1. PICK a \in procs[t].acts :
          procs' = [procs EXCEPT ![t].acts =
               (@ \ {a}) \cup {[a EXCEPT !.end = IF Interrupted(t, a) THEN "dropped" ELSE "kept"]}]
    BY DEF ReadBack
  <1> DEFINE b == [a EXCEPT !.end = IF Interrupted(t, a) THEN "dropped" ELSE "kept"]
             acts == (procs[t].acts \ {a}) \cup {b}
             q == [procs[t] EXCEPT !.acts = acts]
  <1>2. /\ logs[t] \in Seq(Events) /\ procs[t] \in Procs /\ procs[t].mark \in Nat /\ procs[t].pc = "acting" /\ a \in Acts
        /\ logs' = logs /\ dirty' = dirty /\ armed' = armed /\ ringing' = ringing
    BY DEF CancellationInv, Standing, Procs, ReadBack
  <1>3. procs' = [procs EXCEPT ![t] = q]
    BY <1>1
  <1>4. b.tr = a.tr /\ (Len(logs[t]) = procs[t].mark => b.end = "kept")
    <2>1. Len(logs[t]) = procs[t].mark => ~Interrupted(t, a)
      BY <1>2 DEF Interrupted
    <2> QED  BY <1>2, <2>1 DEF Acts
  <1> HIDE DEF b
  <1>5. q.pc = "acting" /\ q.mark = procs[t].mark /\ q.todo = procs[t].todo /\ q.acts = acts
    BY <1>2 DEF Procs
  <1> HIDE DEF q
  <1>6. DebtFits(q, logs[t], t, dirty)
    BY <1>2, <1>4, <1>5 DEF DebtInv, DebtFits, Carries
  <1> QED  BY <1>2, <1>3, <1>5, <1>6, ProcDebts

\* Finish: an effect that returns nothing was interrupted, and what interrupted it moved the log.
LEMMA FinishDebts ==
  ASSUME CancellationInv, DebtInv, NEW t \in Threads, Finish(t)
  PROVE  DebtInv'
  <1>1. PICK a \in procs[t].acts :
          /\ ~Concurrent(a.tr) /\ Settled(a) /\ a.end # "lost"
          /\ LET events == Returns(t, a)
                 moved == events # <<>> \/ Len(logs[t]) # procs[t].mark
             IN Record(t, events, IF moved THEN Resync ELSE Blocked([procs[t] EXCEPT !.acts = {}]))
    BY DEF Finish
  <1>2. a.tr[1] \in {"work", "deliver"} /\ logs[t] \in Seq(Events) /\ procs[t].mark \in Nat
    <2>1. procs[t] \in Procs /\ a \in Acts /\ logs[t] \in Seq(Events)
      BY DEF CancellationInv, Standing, Procs
    <2>2. a.tr[1] \in {"work", "deliver", "cancel", "wait"}
      BY <2>1 DEF Acts, Effects
    <2> QED  BY <1>1, <2>1, <2>2 DEF Concurrent, Procs
  <1>3. ASSUME Len(logs[t]) = procs[t].mark PROVE Returns(t, a) # <<>>
    <2>1. a.end \notin {"aborted", "dropped"}
      BY <1>3 DEF DebtInv, DebtFits, Finish
    <2>2. a.msg = NoMsg => a.end = "kept"
      <3>1. a \in Acts
        BY DEF CancellationInv, Standing, Procs
      <3> QED  BY <1>1, <2>1, <3>1 DEF Acts, Settled
    <2>3. CASE a.tr[1] = "work" /\ a.msg = NoMsg
      <3>1. Returns(t, a) = <<Done(a.tr[2][1])>>
        BY <2>2, <2>3, Zenon DEF Returns
      <3> QED  BY <3>1
    <2>4. CASE a.tr[1] = "work" /\ a.msg # NoMsg
      <3>1. Returns(t, a) = <<Dispatched(a.msg[2][2][1])>>
        BY <2>1, <2>4, Zenon DEF Returns
      <3> QED  BY <3>1
    <2>5. CASE a.tr[1] = "deliver"
      <3>1. Returns(t, a) = <<Delivered(a.tr[2])>>
        BY <2>5, Zenon DEF Returns
      <3> QED  BY <3>1
    <2> QED  BY <1>2, <2>3, <2>4, <2>5
  <1>4. Record(t, Returns(t, a), Resync)
    BY <1>1, <1>3
  <1>5. Returns(t, a) \in Seq(Events)
    BY ReturnsAre
  <1>6. dirty' = dirty /\ armed' = armed /\ ringing' = ringing
    BY DEF Finish
  <1> QED  BY <1>4, <1>5, <1>6, RestartDebts

\* FinishMember: a group ends with the log unmoved only if every member waits.
LEMMA FinishMemberDebts ==
  ASSUME CancellationInv, DebtInv, NEW t \in Threads, FinishMember(t)
  PROVE  DebtInv'
  <1>1. PICK a \in procs[t].acts :
          /\ Concurrent(a.tr)
          /\ LET left == procs[t].acts \ {a}
                 events == Returns(t, a)
                 moved == Len(AppendTo(logs[t], events)) # procs[t].mark
                 rest == Sequential(procs[t].todo)
             IN Record(t, events,
                  IF left # {} THEN [procs[t] EXCEPT !.acts = left]
                  ELSE IF moved THEN Resync
                  ELSE IF rest = <<>> THEN [Off EXCEPT !.pc = "ending"]
                  ELSE [procs[t] EXCEPT !.pc = "fire", !.todo = rest, !.acts = {}])
    BY DEF FinishMember
  <1> DEFINE l == logs[t]
             p == procs[t]
             left == p.acts \ {a}
             events == Returns(t, a)
             moved == Len(AppendTo(l, events)) # p.mark
             rest == Sequential(p.todo)
             fewer == [p EXCEPT !.acts = left]
             ending == [Off EXCEPT !.pc = "ending"]
             on == [p EXCEPT !.pc = "fire", !.todo = rest, !.acts = {}]
             q == IF left # {} THEN fewer ELSE IF moved THEN Resync ELSE IF rest = <<>> THEN ending ELSE on
  <1>2. Record(t, events, q) /\ dirty' = dirty /\ armed' = armed /\ ringing' = ringing
    BY <1>1 DEF FinishMember
  <1>3. l \in Seq(Events) /\ p \in Procs /\ ProcFits(p, l) /\ p.pc = "acting" /\ DebtFits(p, l, t, dirty) /\ a \in p.acts
    BY DEF CancellationInv, Standing, DebtInv, FinishMember
  <1>4. events \in Seq(Events)
    BY ReturnsAre
  <1>5. p.mark \in Nat /\ p.mark <= Len(l) /\ left \subseteq p.acts /\ rest \in Seq(Steps)
    BY <1>3, SequentialIs DEF ProcFits, Procs
  <1> HIDE DEF events, l, p
  <1>6. (AppendTo(l, events) # l => moved) /\ (AppendTo(l, events) = l /\ ~moved => Len(l) = p.mark)
    BY <1>3, <1>4, <1>5, AppendIs
  <1> HIDE DEF left, moved
  <1>7. fewer \in Procs /\ fewer.pc = "acting" /\ fewer.mark = p.mark /\ fewer.todo = p.todo /\ fewer.acts = left
    BY <1>3, <1>5 DEF Procs
  <1>8. ending \in Procs /\ ending.pc = "ending" /\ ending.mark = 0
    BY <1>3, OffFits DEF Off
  <1> HIDE DEF rest
  <1>9. on \in Procs /\ on.pc = "fire" /\ on.mark = p.mark /\ on.todo = rest
    BY <1>3, <1>5 DEF Procs
  <1>10. Resync \in Procs /\ Resync.pc = "sync" /\ Resync.mark = 0
    BY <1>3, IdleFits, ResyncDebts
  <1> HIDE DEF fewer, ending, on
  <1>11. q \in Procs /\ q.mark <= Len(l) /\ q.pc # "off"
    BY <1>3, <1>5, <1>7, <1>8, <1>9, <1>10
  <1>12. AppendTo(l, events) # l => q.pc \in {"sync", "acting"}
    BY <1>6, <1>7, <1>10
  <1>13. ASSUME AppendTo(l, events) = l PROVE DebtFits(q, l, t, dirty)
    <2>1. CASE left # {}
      <3>1. DebtFits(fewer, l, t, dirty)
        BY <1>3, <1>5, <1>7, SameDebt
      <3> QED  BY <2>1, <3>1
    <2>2. CASE left = {} /\ moved
      BY <2>2, ResyncDebts
    <2>3. CASE left = {} /\ ~moved
      <3>1. Len(l) = p.mark
        BY <1>6, <1>13, <2>3
      <3>2. (t \notin dirty => Carries(p, l)) /\ \A tr \in ToSet(p.todo) : tr[1] # "cancel"
        BY <1>1, <1>3, <3>1 DEF DebtFits
      <3>3. t \notin dirty => (rest = <<>> => Rests(l)) /\ Carries(on, l)
        BY <1>3, <1>9, <3>2, SequentialDebts DEF rest
      <3>4. rest = <<>> => DebtFits(ending, l, t, dirty)
        BY <1>8, <3>3 DEF DebtFits
      <3>5. DebtFits(on, l, t, dirty)
        BY <1>9, <3>1, <3>3 DEF DebtFits
      <3> QED  BY <2>3, <3>4, <3>5
    <2> QED  BY <2>1, <2>2, <2>3
  <1> HIDE DEF q
  <1> QED  BY <1>2, <1>4, <1>11, <1>12, <1>13, RecordDebts DEF l

\* Fail: the debt of a settlement that died is restored.
LEMMA FailDebts ==
  ASSUME CancellationInv, DebtInv, NEW t \in Threads, Fail(t)
  PROVE  DebtInv'
  <1>1. /\ procs' = [procs EXCEPT ![t] = Off] /\ dirty' = dirty \cup {t}
        /\ logs' = logs /\ armed' = armed /\ ringing' = ringing
    BY DEF Fail, Dies
  <1>2. procs'[t].pc = "off" /\ \A u \in Threads \ {t} : procs'[u] = procs[u] /\ (u \in dirty' <=> u \in dirty)
    BY <1>1 DEF CancellationInv, Standing, Off
  <1>3. DebtFits(procs'[t], logs'[t], t, dirty') /\ TimerFits(procs'[t], logs'[t], t, dirty', ringing'[t], armed'[t])
    BY <1>1, <1>2 DEF DebtFits, TimerFits
  <1>4. DOMAIN armed' = Threads
    BY <1>1 DEF DebtInv
  <1> QED  BY <1>1, <1>2, <1>3, <1>4, DebtMoves DEF OthersStay

\* Ring, Rung: the alarm is on its way until it marks the thread.
LEMMA RingDebts ==
  ASSUME CancellationInv, DebtInv, NEW t \in Threads, Ring(t) \/ Rung(t)
  PROVE  DebtInv'
  <1>1. CASE Ring(t)
    <2>1. /\ ringing' = [ringing EXCEPT ![t] = <<clock, Crossed(logs[t], clock)>>] /\ armed' = [armed EXCEPT ![t] = None]
          /\ logs' = logs /\ dirty' = dirty /\ procs' = procs
      BY <1>1 DEF Ring
    <2>2. DOMAIN ringing = Threads /\ DOMAIN armed = Threads
      BY DEF CancellationInv, Around, DebtInv
    <2>3. /\ ringing'[t] # <<>> /\ DOMAIN armed' = Threads
          /\ \A u \in Threads \ {t} : ringing'[u] = ringing[u] /\ armed'[u] = armed[u]
      BY <2>1, <2>2
    <2>4. DebtFits(procs'[t], logs'[t], t, dirty') /\ TimerFits(procs'[t], logs'[t], t, dirty', ringing'[t], armed'[t])
      BY <2>1, <2>3 DEF DebtInv, TimerFits
    <2> QED  BY <2>1, <2>3, <2>4, DebtMoves DEF OthersStay
  <1>2. CASE Rung(t)
    <2> DEFINE events == <<AlarmFired(ringing[t][1])>> \o SetToSeq({CancelRequested(c, "alarm") : c \in ringing[t][2]})
    <2>1. /\ ringing[t] # <<>> /\ Land(t, events)
          /\ ringing' = [ringing EXCEPT ![t] = <<>>] /\ armed' = armed
      BY <1>2 DEF Rung
    <2>2. events \in Seq(Events) /\ events # <<>> /\ events[1][1] = "alarm"
      BY <2>1, RungEvents
    <2> HIDE DEF events
    <2>3. AppendTo(logs[t], events) # logs[t]
      BY <2>2, AppendFirst DEF CancellationInv, Standing
    <2>4. \A u \in Threads \ {t} : ringing'[u] = ringing[u]
      BY <2>1 DEF CancellationInv, Around
    <2> QED  BY <2>1, <2>2, <2>3, <2>4, LandDebts
  <1> QED  BY <1>1, <1>2

\* Lose, RestartHost: a lost message leaves the pass as it is; a restart marks every thread.
LEMMA FaultDebts ==
  ASSUME CancellationInv, DebtInv, RestartHost \/ \E m \in net : Lose(m)
  PROVE  DebtInv'
  <1>1. CASE RestartHost
    <2>1. /\ procs' = [t \in Threads |-> Off] /\ armed' = [t \in Threads |-> None] /\ dirty' = Threads
      BY <1>1 DEF RestartHost
    <2>2. Off.pc = "off"
      BY DEF Off
    <2> QED  BY <2>1, <2>2 DEF DebtInv, DebtFits, TimerFits
  <1>2. ASSUME NEW m \in net, Lose(m) PROVE DebtInv'
    <2> DEFINE Lost(a) == IF a.msg = m /\ a.end = "open" THEN [a EXCEPT !.end = "lost"] ELSE a
               Acted(t) == {Lost(a) : a \in procs[t].acts}
    <2>1. procs' = [t \in Threads |-> [procs[t] EXCEPT !.acts = Acted(t)]]
      BY <1>2 DEF Lose
    <2>2. logs' = logs /\ dirty' = dirty /\ armed' = armed /\ ringing' = ringing
      BY <1>2 DEF Lose
    <2>3. \A a \in Acts : Lost(a).tr = a.tr /\ (Lost(a).end \in {"aborted", "dropped"} => Lost(a).end = a.end)
      BY DEF Acts
    <2>4. ASSUME NEW t \in Threads PROVE DebtFits(procs'[t], logs'[t], t, dirty')
                                         /\ TimerFits(procs'[t], logs'[t], t, dirty', ringing'[t], armed'[t])
      <3>1. procs[t] \in Procs /\ procs[t].acts \subseteq Acts
        BY DEF CancellationInv, Standing, Procs
      <3>2. DebtFits(procs[t], logs[t], t, dirty) /\ TimerFits(procs[t], logs[t], t, dirty, ringing[t], armed[t])
        BY DEF DebtInv
      <3> DEFINE acted == Acted(t)
      <3>3. \A b \in acted : \E a \in procs[t].acts : b.tr = a.tr /\ (b.end \in {"aborted", "dropped"} => b.end = a.end)
        <4> HIDE DEF Lost
        <4> QED  BY <2>3, <3>1
      <3>4. procs'[t] = [procs[t] EXCEPT !.acts = acted]
        BY <2>1
      <3> HIDE DEF acted
      <3>5. procs'[t].mark = procs[t].mark /\ procs'[t].pc = procs[t].pc /\ procs'[t].todo = procs[t].todo /\ procs'[t].acts = acted
        BY <3>1, <3>4 DEF Procs
      <3>6. DebtFits(procs'[t], logs[t], t, dirty)
        BY <3>2, <3>3, <3>5 DEF DebtFits, Carries
      <3>7. TimerFits(procs'[t], logs[t], t, dirty, ringing[t], armed[t])
        BY <3>2, <3>5 DEF TimerFits
      <3> QED  BY <2>2, <3>6, <3>7
    <2> QED  BY <2>2, <2>4 DEF DebtInv
  <1> QED  BY <1>1, <1>2

\* Every step keeps what is owed.
LEMMA DebtStep == CancellationInv /\ DebtInv /\ [Next]_graphVars => DebtInv'
  <1> SUFFICES ASSUME CancellationInv, DebtInv, [Next]_graphVars PROVE DebtInv'
    OBVIOUS
  <1>1. CASE UNCHANGED graphVars
    BY <1>1 DEF graphVars, DebtInv
  <1>2. ASSUME NEW c \in Ids, Ingress(c, Received(c)) \/ Ingress(c, CancelRequested(c, "control")) PROVE DebtInv'
    BY <1>2, IngressDebts
  <1>3. ASSUME NEW m \in net, Deliver(m) PROVE DebtInv'
    BY <1>3, IngressDebts
  <1>4. CASE RestartHost \/ \E m \in net : Lose(m)
    BY <1>4, FaultDebts
  <1>5. CASE Drive \/ DrainEnds \/ Tick
    BY <1>5 DEF Drive, DrainEnds, Tick, DebtInv
  <1>6. ASSUME NEW t \in Threads,
               \/ Launch(t) \/ Synchronize(t) \/ Stale(t) \/ Intend(t) \/ Work(t) \/ Respond(t)
               \/ CancelChildren(t) \/ ReadBack(t) \/ Finish(t) \/ FinishMember(t) \/ Fail(t) \/ ServeEnds(t)
               \/ Ring(t) \/ Rung(t)
        PROVE  DebtInv'
    BY <1>6, LaunchDebts, StaleDebts, IntendDebts, WorkDebts, RespondDebts, CancelChildrenDebts, ReadBackDebts,
       FinishDebts, FinishMemberDebts, FailDebts, RingDebts
  <1> QED  BY <1>1, <1>2, <1>3, <1>4, <1>5, <1>6 DEF Next

-----------------------------------------------------------------------------
(* Nothing is owed where nothing is left to happen                         *)

\* The beginning of a log.
LEMMA Beginning ==
  ASSUME NEW l \in Seq(Events), NEW n \in 0 .. Len(l)
  PROVE  DOMAIN SubSeq(l, 1, n) = 1 .. n /\ (\A k \in 1 .. n : SubSeq(l, 1, n)[k] = l[k]) /\ 1 .. n \subseteq DOMAIN l
  OBVIOUS

\* An invocation that runs now had not ended at any time before.
LEMMA RunningBefore ==
  ASSUME NEW l \in Seq(Events), NEW n \in 0 .. Len(l), NEW c, MethodState(l, c) = "running"
  PROVE  MethodState(SubSeq(l, 1, n), c) \in {"unknown", "running"}
  <1>1. ~Has(l, Done(c)) /\ ~Has(l, Cancelled(c))
    BY DEF MethodState
  <1>2. ~Has(SubSeq(l, 1, n), Done(c)) /\ ~Has(SubSeq(l, 1, n), Cancelled(c))
    BY <1>1, Beginning DEF Has
  <1> QED  BY <1>2 DEF MethodState

\* A log at rest, with no deadline ahead, has an end of every invocation.
LEMMA AllEnded ==
  ASSUME NEW l \in Seq(Events), Rests(l), Deadlines(l) = {}, NEW c \in Ids
  PROVE  MethodState(l, c) # "running"
  <1> SUFFICES ASSUME MethodState(l, c) = "running" PROVE FALSE
    OBVIOUS
  <1>1. CancelAsked(l, c) \/ Alarmed(l, Deadline)
    <2> SUFFICES ASSUME ~CancelAsked(l, c), ~Alarmed(l, Deadline) PROVE FALSE
      OBVIOUS
    <2>1. c \in {i \in Ids : MethodState(l, i) = "running" /\ ~CancelAsked(l, i) /\ ~Alarmed(l, Deadline)}
      OBVIOUS
    <2> QED  BY <2>1, Zenon DEF Deadlines
  <1>2. CancelAsked(l, c)
    <2> SUFFICES ASSUME ~CancelAsked(l, c) PROVE FALSE
      OBVIOUS
    <2>1. Deadline <= Deadline
      BY CallGraphAssumption
    <2>2. c \in Crossed(l, Deadline)
      BY <2>1 DEF Crossed
    <2>3. <<"repair", Call(c)>> \in ToSet(Transitions(l))
      BY <1>1, <2>2, TransitionsAre
    <2>4. WaitsIn(l, <<"repair", Call(c)>>)
      BY <2>3 DEF Rests
    <2> QED  BY <2>4 DEF WaitsIn
  <1>3. PICK k \in Requests(l) : l[k][2] = Call(c)
    BY <1>2 DEF CancelAsked
  <1>4. k \in DOMAIN l /\ k - 1 \in 0 .. Len(l) /\ l[k][2][1] = c
    BY <1>3 DEF Requests, Call
  <1>5. c \in PendingCancels(l)
    <2>1. Accepted(l, k) \in {"unknown", "running"}
      BY <1>4, RunningBefore DEF Accepted
    <2>2. Pends(l, k)
      BY <1>4, <2>1 DEF Pends
    <2> QED  BY <1>3, <1>4, <2>2 DEF PendingCancels
  <1>6. PICK j \in Ids : j \in OpenLinks(l, c)
    <2> SUFFICES ASSUME OpenLinks(l, c) = {} PROVE FALSE
      BY DEF OpenLinks
    <2>1. <<"finish", Call(c)>> \in ToSet(Transitions(l))
      BY <1>5, TransitionsAre
    <2>2. WaitsIn(l, <<"finish", Call(c)>>)
      BY <2>1 DEF Rests
    <2> QED  BY <2>2 DEF WaitsIn
  <1>7. PICK i \in DOMAIN l : l[i][1] = "cancelling" /\ l[i][2] = Control(j)
    <2> SUFFICES ASSUME ~ \E i \in DOMAIN l : l[i][1] = "cancelling" /\ l[i][2] = Control(j) PROVE FALSE
      OBVIOUS
    <2>1. Obligation(l, j) = <<"cancel", Control(j)>>
      BY DEF Obligation
    <2>2. Obligation(l, j) \in ToSet(Transitions(l))
      BY <1>5, <1>6, TransitionsAre
    <2>3. WaitsIn(l, <<"cancel", Control(j)>>)
      BY <2>1, <2>2 DEF Rests
    <2> QED  BY <2>3 DEF WaitsIn
  <1>8. HasTerminal(l, Control(j))
    <2> DEFINE d == <<l[i][2], IF l[i][1] = "cancelling" THEN l[i][3] ELSE Deadline>>
    <2>1. d \in Dispatches(l) /\ d[1] = Control(j)
      BY <1>7 DEF Dispatches
    <2> HIDE DEF d
    <2> SUFFICES ASSUME ~HasTerminal(l, Control(j)) PROVE FALSE
      OBVIOUS
    <2>2. d[2] \in Deadlines(l)
      BY <2>1 DEF Deadlines
    <2> QED  BY <2>2
  <1>9. CallTree[j].parent = c /\ ~ChildSettled(l, j)
    BY <1>6 DEF OpenLinks
  <1> QED  BY <1>3, <1>8, <1>9 DEF ChildSettled

\* A call that was settled stays settled.
LEMMA SettledOn ==
  ASSUME NEW l \in Seq(Events), NEW n \in 0 .. Len(l), NEW k
  PROVE  /\ HasTerminal(SubSeq(l, 1, n), Call(k)) => HasTerminal(l, Call(k))
         /\ ChildSettled(SubSeq(l, 1, n), k) => ChildSettled(l, k)
  <1>1. \A ref : HasTerminal(SubSeq(l, 1, n), ref) => HasTerminal(l, ref)
    BY Beginning DEF HasTerminal
  <1>2. \A j \in Requests(SubSeq(l, 1, n)) : j \in Requests(l) /\ SubSeq(l, 1, n)[j] = l[j]
    BY Beginning DEF Requests
  <1> QED  BY <1>1, <1>2 DEF ChildSettled

\* An invocation that has ended left no call open: a completion heard of every call, a report came
\* last, and no call was planned after either.
LEMMA NothingOpen ==
  ASSUME NEW l \in Seq(Events), Clean(l), NEW c \in Ids, MethodState(l, c) # "running"
  PROVE  OpenLinks(l, c) = {}
  <1> SUFFICES ASSUME NEW k \in OpenLinks(l, c) PROVE FALSE
    OBVIOUS
  <1>1. k \in Ids /\ CallTree[k].parent = c /\ Has(l, Planned(k)) /\ ~ChildSettled(l, k)
    BY DEF OpenLinks
  <1>2. PICK j \in DOMAIN l : l[j] = Planned(k)
    BY <1>1 DEF Has
  <1>12. \A x : /\ Planned(x)[1] = "planned" /\ Planned(x)[2][1] = x
                /\ Done(x)[1] = "done" /\ Done(x)[2][1] = x
                /\ Cancelled(x)[1] = "cancelled" /\ Cancelled(x)[2][1] = x
    BY DEF Planned, Done, Cancelled, Call
  <1>3. l[j][1] = "planned" /\ l[j][2][1] = k
    BY <1>2, <1>12, Zenon
  <1>4. Len(l) \in Nat /\ DOMAIN l = 1 .. Len(l) /\ j \in 1 .. Len(l) /\ j - 1 \in 0 .. Len(l)
    OBVIOUS
  <1> DEFINE before == SubSeq(l, 1, j - 1)
  <1>5. MethodState(before, c) = "running" /\ \E i \in DOMAIN Kids[c] : Kids[c][i] = k
    BY <1>1, <1>3 DEF Clean, Plans
  <1>6. Has(before, Received(c)) /\ ~Has(before, Done(c)) /\ ~Has(before, Cancelled(c))
    BY <1>5 DEF MethodState
  <1>7. Has(l, Received(c))
    BY <1>4, <1>6, Beginning DEF Has
  <1>8. Has(l, Done(c)) \/ Has(l, Cancelled(c))
    BY <1>7 DEF MethodState
  <1>9. ASSUME NEW n \in DOMAIN l, l[n] = Done(c) \/ l[n] = Cancelled(c) PROVE n - 1 \in 0 .. Len(l) /\ j \in 1 .. (n - 1)
    <2>1. n # j
      <3>1. l[n][1] \in {"done", "cancelled"}
        BY <1>9, <1>12, Zenon
      <3> QED  BY <1>3, <3>1
    <2>2. ~(n \in 1 .. (j - 1))
      <3> SUFFICES ASSUME n \in 1 .. (j - 1) PROVE FALSE
        OBVIOUS
      <3>1. n \in DOMAIN before /\ before[n] = l[n]
        BY <1>4, Beginning
      <3> QED  BY <1>6, <1>9, <3>1 DEF Has
    <2> QED  BY <1>4, <2>1, <2>2
  <1> HIDE DEF before
  <1>10. CASE Has(l, Done(c))
    <2>1. PICK n \in DOMAIN l : l[n] = Done(c)
      BY <1>10 DEF Has
    <2>2. l[n][1] = "done" /\ l[n][2][1] = c
      BY <2>1, <1>12, Zenon
    <2>3. KidsDone(SubSeq(l, 1, n - 1), c)
      BY <2>2 DEF Clean
    <2>4. HasTerminal(SubSeq(l, 1, n - 1), Call(k))
      BY <1>5, <2>3 DEF KidsDone
    <2>5. HasTerminal(l, Call(k))
      BY <1>9, <2>1, <2>4, SettledOn
    <2> QED  BY <1>1, <2>5 DEF ChildSettled
  <1>11. CASE Has(l, Cancelled(c))
    <2>1. PICK n \in DOMAIN l : l[n] = Cancelled(c)
      BY <1>11 DEF Has
    <2>2. l[n][1] = "cancelled" /\ l[n][2][1] = c
      BY <2>1, <1>12, Zenon
    <2>3. OpenLinks(SubSeq(l, 1, n - 1), c) = {}
      BY <2>2 DEF Clean
    <2>4. n - 1 \in 0 .. Len(l) /\ j \in 1 .. (n - 1)
      BY <1>9, <2>1
    <2>5. Has(SubSeq(l, 1, n - 1), Planned(k))
      BY <1>2, <2>4, Beginning DEF Has
    <2>6. ChildSettled(SubSeq(l, 1, n - 1), k)
      BY <1>1, <2>3, <2>5 DEF OpenLinks
    <2> QED  BY <1>1, <2>4, <2>6, SettledOn
  <1> QED  BY <1>8, <1>10, <1>11

\* The invariants leave nothing owed.
LEMMA OwedIs == CancellationInv /\ DebtInv => NothingOwed
  <1> SUFFICES ASSUME CancellationInv, DebtInv PROVE NothingOwed
    OBVIOUS
  <1>1. ASSUME NEW t \in Threads, Resting(t)
        PROVE  Rests(logs[t]) /\ (ringing[t] = <<>> => armed[t] = EarliestDeadline(logs[t]))
    <2>1. t \notin dirty /\ procs[t].pc = "off"
      BY <1>1 DEF Resting, InFlight
    <2> QED  BY <2>1 DEF DebtInv, DebtFits, TimerFits
  <1>2. NoLostDebt
    BY <1>1 DEF NoLostDebt, Rests, Waits, WaitsIn
  <1>3. TimerArmed
    BY <1>1 DEF TimerArmed
  <1>4. ASSUME Quiet, NEW t \in Threads
        PROVE  /\ \A c \in Ids : MethodState(logs[t], c) # "running" /\ OpenLinks(logs[t], c) = {}
               /\ Replies(logs[t]) = {}
    <2>1. Resting(t) /\ armed[t] = None /\ ringing[t] = <<>>
      BY <1>4 DEF Quiet, Resting
    <2>2. logs[t] \in Seq(Events) /\ Clean(logs[t])
      BY DEF CancellationInv, Standing
    <2>3. Rests(logs[t]) /\ EarliestDeadline(logs[t]) = None
      BY <1>1, <2>1
    <2>4. Deadlines(logs[t]) = {}
      BY <2>2, <2>3, EarliestIs
    <2>5. \A c \in Ids : MethodState(logs[t], c) # "running"
      BY <2>2, <2>3, <2>4, AllEnded
    <2>6. \A c \in Ids : OpenLinks(logs[t], c) = {}
      BY <2>2, <2>5, NothingOpen
    <2>7. Replies(logs[t]) = {}
      <3> SUFFICES ASSUME Replies(logs[t]) # {} PROVE FALSE
        OBVIOUS
      <3>1. PICK tr \in ToSet(Transitions(logs[t])) : tr[1] = "deliver"
        BY <2>2, TransitionsAre
      <3>2. WaitsIn(logs[t], tr)
        BY <2>3, <3>1 DEF Rests
      <3> QED  BY <3>1, <3>2 DEF WaitsIn
    <2> QED  BY <2>5, <2>6, <2>7
  <1>5. NothingForgotten
    BY <1>4 DEF NothingForgotten
  <1> QED  BY <1>2, <1>3, <1>5 DEF NothingOwed

\* Whatever the engine owes is kept in a mark, a settlement, a timer or a message until it is done:
\* a thread at rest enables only what waits for another thread, its timer stands at the earliest
\* deadline of its log, and when nothing is left to happen every accepted invocation has ended, was
\* answered, and has every call it made settled (runtime/driver.ts, runtime/reconciler.ts fire).
THEOREM OwedIsKept == Spec => []NothingOwed
  <1>1. Init => CancellationInv /\ DebtInv
    BY CancellationInit, DebtInit
  <1>2. CancellationInv /\ DebtInv /\ [Next]_graphVars => CancellationInv' /\ DebtInv'
    BY CancellationStep, DebtStep
  <1>3. CancellationInv /\ DebtInv => NothingOwed
    BY OwedIs
  <1> QED  BY <1>1, <1>2, <1>3, PTL DEF Spec
=============================================================================
