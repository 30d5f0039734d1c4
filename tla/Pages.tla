------------------------------- MODULE Pages -------------------------------
(***************************************************************************)
(* Reading a journal page by page while it grows: rows of one event key    *)
(* (core/src/experimental/durable-atom-log.ts), rows of several keys       *)
(* (log.ts, log-atom.ts), and the keys of a family (durable-atom-          *)
(* family.ts), over the committed prefix and the records of a commit       *)
(* under way (readFamily and familyKeys in runtime/replay.ts).             *)
(*                                                                         *)
(* Positions start at zero, and a range holds from <= position < to.  A    *)
(* record is its event key; keys are numbers, in the order of              *)
(* compareFamilyKeys.  Reads of one key up to a position are exact         *)
(* (module SqlJournal).                                                    *)
(***************************************************************************)
EXTENDS Naturals, Sequences, SequencesExt, FiniteSetsExt

CONSTANTS
    EventKeys,     \* keys of records, numbers
    Limits,        \* page limits
    BatchSize,     \* readBatchSize and journalReadBatchSize
    MaxRecords     \* bound on the journal

VARIABLES
    records,       \* the records the reader's snapshot can see
    committed,     \* how many of them are in the journal
    reader         \* the read in progress

vars == <<records, committed, reader>>

At(p) == records[p + 1]
Position == Len(records)
Least(a, b) == IF a < b THEN a ELSE b
Most(a, b) == IF a < b THEN b ELSE a

-----------------------------------------------------------------------------
(* Sources of rows: sequences of positions in the order of the read *)

Interval(from, to, order) == [i \in 1 .. (to - from) |-> IF order = "asc" THEN from + i - 1 ELSE to - i]
Matching(S, from, to, order) == SelectSeq(Interval(from, to, order), LAMBDA p : At(p) \in S)

\* Faulty variant of readFamily: in descending order, too, the journal's part comes first.
readFamilyPrefixFirst(key, from, to, order) ==
    LET end == Least(committed, to)
    IN  (IF from < end THEN Matching({key}, from, end, order) ELSE <<>>)
        \o (IF Most(from, committed) < to THEN Matching({key}, Most(from, committed), to, order) ELSE <<>>)
\* The journal's rows below the tail, and those of the tail.
readFamily(key, from, to, order) ==
    LET end == Least(committed, to)
        prefix == IF from < end THEN Matching({key}, from, end, order) ELSE <<>>
        start == Most(from, committed)
        suffix == IF start < to THEN Matching({key}, start, to, order) ELSE <<>>
    IN  IF order = "desc" THEN suffix \o prefix ELSE prefix \o suffix

\* log.ts: the iterators of the selected keys are merged, the foremost head first.
Merge(heads, order) ==
    LET total == FoldFunction(LAMBDA s, n : Len(s) + n, 0, heads)
        Foremost(h) == CHOOSE k \in DOMAIN h : /\ h[k] # <<>>
                         /\ \A j \in DOMAIN h : h[j] # <<>> => IF order = "asc" THEN Head(h[k]) <= Head(h[j]) ELSE Head(h[k]) >= Head(h[j])
        fold[n \in 0 .. total] ==
            IF n = 0 THEN [out |-> <<>>, h |-> heads]
            ELSE LET s == fold[n - 1]
                     k == Foremost(s.h)
                 IN  [out |-> Append(s.out, Head(s.h[k])), h |-> [s.h EXCEPT ![k] = Tail(@)]]
    IN  fold[total].out
Merged(S, from, to, order) == Merge([k \in S |-> readFamily(k, from, to, order)], order)

\* log.ts without an index: the range is read in batches from its near end.
Scanned(S, from, to, order) ==
    LET batches == (to - from + BatchSize - 1) \div BatchSize
        Batch(n) == IF order = "asc" THEN Matching(S, from + (n - 1) * BatchSize, Least(to, from + n * BatchSize), order)
                    ELSE LET upper == to - (n - 1) * BatchSize
                         IN  Matching(S, IF upper < from + BatchSize THEN from ELSE upper - BatchSize, upper, order)
        fold[n \in 0 .. batches] == IF n = 0 THEN <<>> ELSE fold[n - 1] \o Batch(n)
    IN  fold[batches]

Source(r, from, to) ==
    CASE r.kind = "log" -> readFamily(CHOOSE k \in r.keys : TRUE, from, to, r.order)
      [] r.kind = "view" -> Merged(r.keys, from, to, r.order)
      [] r.kind = "scan" -> Scanned(r.keys, from, to, r.order)

\* collectFamilyKeys: a key is inserted into the ordered page unless it is there, or beyond it;
\* what the page has no room for then leaves it.
collectFamilyKeys(input, after, limit) ==
    LET Insert(page, k) ==
            LET at == Cardinality({i \in DOMAIN page : page[i] < k}) + 1
            IN  IF k <= after \/ at > limit \/ (at <= Len(page) /\ page[at] = k) THEN page
                ELSE LET longer == InsertAt(page, at, k) IN SubSeq(longer, 1, Least(limit, Len(longer)))
        fold[n \in 0 .. Len(input)] == IF n = 0 THEN <<>> ELSE Insert(fold[n - 1], input[n])
    IN  fold[Len(input)]

\* familyKeys: the journal answers with a page of its own, the tail's keys are merged into it.
familyKeys(after, limit) ==
    LET journal == collectFamilyKeys(SubSeq(records, 1, committed), after, limit)
    IN  collectFamilyKeys(journal \o SubSeq(records, committed + 1, Position), after, limit)

-----------------------------------------------------------------------------
(* Steps *)

NoKey == 0
NoReader == [kind |-> "none"]

Commit ==
    /\ committed < Position
    /\ committed' = Position
    /\ UNCHANGED <<records, reader>>

\* A commit holds a record and what follows from it.
Appended(k) ==
    /\ Position - committed < 2
    /\ Position < MaxRecords
    /\ records' = Append(records, k)
    /\ UNCHANGED <<committed, reader>>

\* The first page of a range: of one key, of several with and without an index.
BeginRows(kind, keys, order, from, to) ==
    /\ reader = NoReader
    /\ kind = "log" => Cardinality(keys) = 1
    /\ reader' = [kind |-> kind, keys |-> keys, order |-> order, from |-> from, to |-> to,
                  first |-> TRUE, last |-> 0, got |-> <<>>, more |-> TRUE]
    /\ UNCHANGED <<records, committed>>

\* A page from the start or after a cursor; one row more is looked at to see whether more follow.
Page(limit) ==
    LET r == reader
        lower == IF r.order = "asc" /\ ~r.first THEN r.last + 1 ELSE r.from
        upper == IF r.order = "desc" /\ ~r.first THEN r.last ELSE r.to
    IN  /\ r.kind \in {"log", "view", "scan"} /\ r.more
        /\ \E source \in {Source(r, lower, upper)} :
             LET page == SubSeq(source, 1, Least(limit, Len(source)))
             IN  reader' = [r EXCEPT !.got = @ \o page, !.first = FALSE, !.more = Len(source) > limit,
                                     !.last = IF page = <<>> THEN @ ELSE Last(page)]
        /\ UNCHANGED <<records, committed>>

BeginKeys ==
    /\ reader = NoReader
    /\ reader' = [kind |-> "keys", begun |-> ToSet(records), after |-> NoKey, got |-> <<>>, more |-> TRUE]
    /\ UNCHANGED <<records, committed>>

\* A page asks for one key more than it shows.
KeysPage(limit) ==
    /\ reader.kind = "keys" /\ reader.more
    /\ \E keys \in {familyKeys(reader.after, limit + 1)} :
         LET page == SubSeq(keys, 1, Least(limit, Len(keys)))
         IN  reader' = [reader EXCEPT !.got = @ \o page, !.more = Len(keys) > limit,
                                      !.after = IF page = <<>> THEN @ ELSE Last(page)]
    /\ UNCHANGED <<records, committed>>

Init == records = <<>> /\ committed = 0 /\ reader = NoReader

Next ==
    \/ \E k \in EventKeys : Appended(k)
    \/ Commit
    \/ \E kind \in {"log", "view", "scan"}, keys \in SUBSET EventKeys \ {{}}, order \in {"asc", "desc"},
          from \in 0 .. Position, to \in 0 .. Position : from <= to /\ BeginRows(kind, keys, order, from, to)
    \/ BeginKeys
    \/ \E n \in Limits : Page(n) \/ KeysPage(n)

Spec == Init /\ [][Next]_vars

-----------------------------------------------------------------------------
(* Properties *)

\* Pages put together are the rows of the range, each once and in order, however the journal
\* grows meanwhile; key pages are ordered and miss no key that was there from the start.
PagesExact ==
    /\ reader.kind \in {"log", "view", "scan"} =>
         LET rows == Matching(reader.keys, reader.from, reader.to, reader.order)
         IN  IsPrefix(reader.got, rows) /\ (~reader.more => reader.got = rows)
    /\ reader.kind = "keys" =>
         /\ \A i \in 2 .. Len(reader.got) : reader.got[i - 1] < reader.got[i]
         /\ ToSet(reader.got) \subseteq ToSet(records)
         /\ {k \in reader.begun : ~reader.more \/ k <= reader.after} \subseteq ToSet(reader.got)
=============================================================================
