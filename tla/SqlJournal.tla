----------------------------- MODULE SqlJournal -----------------------------
(***************************************************************************)
(* The SQL journal of one actor (platform/src/shared/sql-journal.ts,       *)
(* sql-family-index.ts and checkpoint/): the events, the tables derived    *)
(* from them (invocation index, message index, family keys, pending        *)
(* inputs) and the checkpoints.  Several connections work on one database: *)
(* two processes of a deployment, or one after another.  A transaction is  *)
(* one step; backfills take several, and a connection can die between any  *)
(* two of them.  A deployment may change the version of its family, that   *)
(* is the key it gives a record, and the state its atoms fold to.          *)
(*                                                                         *)
(* Left out: chunking of payloads, digests of bytes (a stored value is the *)
(* version that computed it) and the wake rows (module Scheduler).         *)
(***************************************************************************)
EXTENDS Naturals, Sequences, FiniteSets, FiniteSetsExt

CONSTANTS
    Connections,   \* processes with the database open
    Runs,          \* connection -> the version of the actor its process runs
    MessageIds,    \* identities of messages
    BatchSize,     \* familyIndexBatchSize and invocationIndexBatchSize
    MaxWrites,     \* bound on the transactions that append or checkpoint
    MaxOpens       \* bound on the times a connection opens

VARIABLES
    events,        \* experimental_events
    invocations,   \* experimental_invocation_index and _events: position, rows
    family,        \* experimental_journal_family_index: version, position
    keys,          \* experimental_journal_keys: rows [key, seq]
    messages,      \* experimental_messages: rows [id, seq]
    inputs,        \* effect_inputs: references of pending operations
    atoms,         \* atom_checkpoints: rows [name, version, pos, by, pinned]
    manifest,      \* checkpoint: [pos, refs], NoManifest when absent
    migrated,      \* checkpoint_migrations has run 003_atom_positions
    conns,         \* connection -> what it is doing
    opens,         \* times a connection opened
    writes         \* transactions that appended or checkpointed

Versions == {Runs[c] : c \in Connections}

journalVars == <<events, invocations, family, keys, messages, inputs, atoms, manifest, migrated, conns, opens, writes>>
tables == <<events, invocations, family, keys, messages, inputs, atoms, manifest, migrated, writes>>

NoVersion == "none"

\* A process runs a version, and a transaction of a backfill covers some record.
JournalAssumption ==
    /\ NoVersion \notin Versions
    /\ BatchSize \in Nat \ {0}
ASSUME JournalAssumption

NoManifest == [pos |-> 0, refs |-> {}]
Length == Len(events)

Requested(n) == [type |-> "request", ref |-> n, id |-> 0]
Settlement(n) == [type |-> "settle", ref |-> n, id |-> 0]
Note(m) == [type |-> "note", ref |-> 0, id |-> m]

\* Positions are counted from 1: the record at position n is the code's seq n - 1.
HasRef(e) == e.type # "note"
PositionsAfter(p, n) == {q \in 1..Length : p < q /\ q <= n}

\* family.key: the versions disagree on which records have one.
KeyOf(v, e) == IF e.type = "note" THEN {"note"} ELSE IF v = CHOOSE w \in Versions : TRUE THEN {} ELSE {"operation"}
KeyRows(v, ps, log) == {r \in [key : {"note", "operation"}, seq : ps] : r.key \in KeyOf(v, log[r.seq])}

Idle == [status |-> "closed", version |-> NoVersion, pos |-> 0, indexed |-> FALSE,
         then |-> "none", upto |-> 0, lower |-> 0, got |-> {}]
Become(c, s) == conns' = [conns EXCEPT ![c].status = s]
Rest(c) == conns' = [conns EXCEPT ![c].status = "idle", ![c].then = "none", ![c].upto = 0, ![c].lower = 0, ![c].got = {}]
Proceed(c) == Become(c, conns[c].then)
CloseJournal(c) == conns' = [conns EXCEPT ![c] = Idle]

-----------------------------------------------------------------------------
(* Opening: migrations, then the backfill of the invocation index *)

OpenJournal(c) ==
    /\ conns[c].status = "closed"
    /\ opens < MaxOpens
    /\ opens' = opens + 1
    /\ conns' = [conns EXCEPT ![c] = [Idle EXCEPT !.status = "setup", !.version = Runs[c]]]
    /\ UNCHANGED tables

\* 003_atom_positions pins what the manifest of an older schema refers to.
Migrate(c) ==
    /\ conns[c].status = "setup"
    /\ ~migrated
    /\ migrated' = TRUE
    /\ atoms' = {[a EXCEPT !.pinned = @ \/ (a.version = NoVersion /\ manifest # NoManifest /\ a.pos = manifest.pos)] : a \in atoms}
    /\ UNCHANGED <<events, invocations, family, keys, messages, inputs, manifest, conns, opens, writes>>

\* indexInvocationRecord
RefRows(ps, log) == {[ref |-> log[q].ref, seq |-> q] : q \in {p \in ps : HasRef(log[p])}}

\* One transaction of the backfill loop: the next batch, and the position with it.
Batch(p, n) == IF p + BatchSize < n THEN p + BatchSize ELSE n

IndexInvocations(c) ==
    LET to == Batch(invocations.pos, Length)
    IN  /\ conns[c].status = "setup"
        /\ migrated
        /\ invocations' = [pos |-> to, rows |-> invocations.rows \cup RefRows(PositionsAfter(invocations.pos, to), events)]
        /\ IF to = Length THEN conns' = [conns EXCEPT ![c].status = "idle", ![c].pos = Length] ELSE UNCHANGED conns
        /\ UNCHANGED <<events, family, keys, messages, inputs, atoms, manifest, migrated, opens, writes>>

-----------------------------------------------------------------------------
(* The family index *)

\* prepare registers the family with the connection and brings the index up to a length read before.
Preparing(c, next) ==
    conns' = [conns EXCEPT ![c].status = "prepare", ![c].indexed = TRUE, ![c].then = next, ![c].upto = Length,
                           ![c].lower = 0, ![c].got = {}]

ReadFamily(c) ==
    /\ conns[c].status = "idle"
    /\ Preparing(c, "read")
    /\ UNCHANGED <<tables, opens>>

Current(c) == family.version = conns[c].version

Kept(c) == IF Current(c) THEN keys ELSE {}

PrepareBatch(c) ==
    LET from == IF Current(c) THEN family.pos ELSE 0
        upto == conns[c].upto
        to == Batch(from, upto)
    IN  /\ conns[c].status = "prepare"
        /\ UNCHANGED <<events, invocations, messages, inputs, atoms, manifest, migrated, opens, writes>>
        /\ \/ /\ Current(c) /\ from = upto
              /\ Proceed(c)
              /\ UNCHANGED <<family, keys>>
           \/ /\ from > upto    \* another connection is ahead of the length read: the caller fails
              /\ Rest(c)
              /\ UNCHANGED <<family, keys>>
           \/ /\ from <= upto /\ ~(Current(c) /\ from = upto)
              /\ keys' = Kept(c) \cup KeyRows(conns[c].version, PositionsAfter(from, to), events)
              /\ family' = [version |-> conns[c].version, pos |-> to]
              /\ IF to = upto THEN Proceed(c) ELSE UNCHANGED conns

\* readPage: a page of the rows after the last one, or a refusal; an empty page ends the read.
ReadPage(c) ==
    LET r == conns[c]
        rest == {k.seq : k \in {x \in keys : x.key = "operation" /\ x.seq > r.lower /\ x.seq <= r.upto}}
        page == {q \in rest : Cardinality({p \in rest : p < q}) < BatchSize}
    IN  /\ r.status = "read"
        /\ IF ~Current(c) \/ family.pos < r.upto THEN Rest(c)
           ELSE IF page = {} THEN Become(c, "done")
           ELSE conns' = [conns EXCEPT ![c].got = @ \cup page, ![c].lower = Max(page)]
        /\ UNCHANGED <<tables, opens>>

ReadEnds(c) ==
    /\ conns[c].status = "done"
    /\ Rest(c)
    /\ UNCHANGED <<tables, opens>>

-----------------------------------------------------------------------------
(* Checkpoints *)

Same(a, b) == a.name = b.name /\ a.version = b.version
At(a, b) == Same(a, b) /\ a.pos = b.pos
Strip(a) == [name |-> a.name, version |-> a.version, pos |-> a.pos, by |-> a.by]

\* Faulty variant of Collect: a snapshot the manifest refers to goes when a newer one is there.
CollectPinned(rows) == {a \in rows : ~\E b \in rows : Same(a, b) /\ b.pos > a.pos}
\* collectAtomCheckpoints
Collect(rows) == {a \in rows : a.pinned \/ ~\E b \in rows : Same(a, b) /\ b.pos > a.pos}

\* writeAtomCheckpoints: a pinned row is not replaced by another state.
Clash(rows, new) == \E a \in rows, b \in new : At(a, b) /\ a.pinned /\ a.by # b.by
Upsert(rows, new, pin) ==
    {a \in rows : ~\E b \in new : At(a, b)}
    \cup {[b EXCEPT !.pinned = pin \/ \E a \in rows : At(a, b) /\ a.pinned] : b \in new}
Unpinned(rows) == {[a EXCEPT !.pinned = FALSE] : a \in rows}

\* What a connection snapshots: a regular atom at the position its state was folded to, or a
\* member of a family, whose identity holds the version.
Snapshot(c, n, v, p) == {[name |-> n, version |-> v, pos |-> p, by |-> conns[c].version, pinned |-> FALSE]}
Snapshots(c, n) ==
    {Snapshot(c, "regular", NoVersion, p) : p \in {n, IF n = 0 THEN 0 ELSE n - 1}} \cup {Snapshot(c, "member", conns[c].version, n)}

-----------------------------------------------------------------------------
(* Appending *)

\* What the runtime hands over: an event, with it a snapshot or a whole checkpoint, or a
\* checkpoint alone.  The tables of events and of checkpoints do not meet, so the combinations
\* are left to one kind of event.
EventsOnly(es) == [events |-> es, kind |-> "atoms", atoms |-> {}]
Records(n) == {Requested(n)} \cup {Settlement(q) : q \in inputs} \cup {Note(m) : m \in MessageIds}
Writes(c) ==
    LET n == conns[c].pos + 1
    IN  {EventsOnly(<<e>>) : e \in Records(n)}
        \cup [events : {<<Requested(n)>>}, kind : {"atoms", "actor"}, atoms : Snapshots(c, n)]
        \cup [events : {<<>>}, kind : {"actor"}, atoms : Snapshots(c, conns[c].pos)]

\* append: with a family registered the index catches up first.  What is written matters to the
\* transaction alone, so it is chosen there.
AppendCall(c) ==
    /\ conns[c].status = "idle"
    /\ conns' = [conns EXCEPT ![c].status = IF conns[c].indexed THEN "prepare" ELSE "append",
                              ![c].then = "append", ![c].upto = Length]
    /\ UNCHANGED <<tables, opens>>

\* The conditions under which the transaction rolls back.
Repeated(w) == \E n \in DOMAIN w.events : w.events[n].id \in {m.id : m \in messages}
Uncovered(c) == conns[c].indexed /\ (~Current(c) \/ family.pos # Length)
Refused(c, w) ==
    \/ Length # conns[c].pos                         \* JournalConflict
    \/ Repeated(w)                                   \* the key of the message table
    \/ Uncovered(c)
    \/ w.kind = "atoms" /\ Clash(atoms, w.atoms)

\* The caller of a failed append closes its runtime.
Rejected(c, w) ==
    /\ conns[c].status = "append"
    /\ Refused(c, w)
    /\ CloseJournal(c)
    /\ UNCHANGED <<tables, opens>>

\* Faulty variant of Covers: the index is marked as covering records it skipped.
CoversAnyway(c, n) == [family EXCEPT !.pos = n]
Covers(c, n) == IF conns[c].indexed THEN [family EXCEPT !.pos = n] ELSE family

CommitWrite(c, w) ==
    LET log == events \o w.events
        new == (Length + 1)..Len(log)
    IN  /\ conns[c].status = "append"
        /\ ~Refused(c, w)
        /\ writes < MaxWrites
        /\ writes' = writes + 1
        /\ events' = log
        /\ messages' = messages \cup {[id |-> log[q].id, seq |-> q] : q \in {p \in new : log[p].type = "note"}}
        /\ invocations' = [pos |-> Len(log), rows |-> invocations.rows \cup RefRows(new, log)]
        /\ keys' = IF conns[c].indexed THEN keys \cup KeyRows(conns[c].version, new, log) ELSE keys
        /\ family' = Covers(c, Len(log))
        /\ inputs' = (inputs \cup {q \in new : log[q].type = "request"}) \ {log[q].ref : q \in {p \in new : log[p].type = "settle"}}
        /\ IF w.kind = "actor"
           THEN /\ atoms' = Collect(Upsert(Unpinned(atoms), w.atoms, TRUE))
                /\ manifest' = [pos |-> Len(log), refs |-> {Strip(a) : a \in w.atoms}]
           ELSE /\ atoms' = IF w.atoms = {} THEN atoms ELSE Collect(Upsert(atoms, w.atoms, FALSE))
                /\ UNCHANGED manifest
        /\ conns' = [conns EXCEPT ![c].status = "idle", ![c].then = "none", ![c].upto = 0, ![c].pos = Len(log)]
        /\ UNCHANGED <<migrated, opens>>

\* The process ends; what it was doing is lost.
Crash(c) ==
    /\ conns[c].status \notin {"closed"}
    /\ CloseJournal(c)
    /\ UNCHANGED <<tables, opens>>

-----------------------------------------------------------------------------
(* A new database, or one written before the derived tables existed: a checkpoint at its
   end whose regular atom is not pinned yet. *)
Legacy == <<Requested(1)>>

JournalInit ==
    /\ \/ events = <<>> /\ manifest = NoManifest /\ atoms = {} /\ migrated = TRUE
       \/ /\ events = Legacy
          /\ atoms = {[name |-> "regular", version |-> NoVersion, pos |-> 1, by |-> CHOOSE v \in Versions : TRUE, pinned |-> FALSE]}
          /\ manifest = [pos |-> 1, refs |-> {Strip(a) : a \in atoms}]
          /\ migrated = FALSE
    /\ invocations = [pos |-> 0, rows |-> {}]
    /\ family = [version |-> NoVersion, pos |-> 0]
    /\ keys = {}
    /\ messages = {[id |-> events[q].id, seq |-> q] : q \in {p \in 1..Length : events[p].type = "note"}}
    /\ inputs = {q \in 1..Length : events[q].type = "request"}
    /\ conns = [c \in Connections |-> Idle]
    /\ opens = 0
    /\ writes = 0

Work(c) ==
    \/ Migrate(c)
    \/ IndexInvocations(c)
    \/ PrepareBatch(c)
    \/ ReadPage(c)
    \/ ReadEnds(c)
    \/ \E w \in Writes(c) : Rejected(c, w) \/ CommitWrite(c, w)

JournalNext ==
    \E c \in Connections :
        \/ OpenJournal(c)
        \/ ReadFamily(c)
        \/ AppendCall(c)
        \/ Crash(c)
        \/ Work(c)

JournalSpec == JournalInit /\ [][JournalNext]_journalVars

-----------------------------------------------------------------------------
(* Properties *)

\* Every derived row is what the covered prefix gives, no more and no less: the invocation rows
\* up to their position, the family keys under the version recorded with them, a message row per
\* message, a pending input per unsettled request.
IndexesExact ==
    /\ invocations.rows = RefRows(1..invocations.pos, events)
    /\ \A c \in Connections : conns[c].status \notin {"closed", "setup"} => invocations.pos = Length
    /\ keys = IF family.version = NoVersion THEN {} ELSE KeyRows(family.version, 1..family.pos, events)
    /\ \A m1, m2 \in messages : m1.id = m2.id => m1 = m2
    /\ inputs = {q \in 1..Length : events[q].type = "request" /\ ~\E p \in 1..Length : events[p] = Settlement(q)}

\* The manifest can always be read back: each snapshot it refers to is there, at its position and
\* in the state that was checkpointed, whatever other versions wrote since.
Restorable ==
    /\ manifest.refs \subseteq {Strip(a) : a \in atoms}
    /\ migrated => \A a \in atoms : Strip(a) \in manifest.refs => a.pinned

\* A family read that ends has seen every record of its key up to the length it began with, even
\* when another version rebuilt the index between two of its pages.
ReadsExact ==
    \A c \in Connections : conns[c].status = "done" =>
        conns[c].got = {k.seq : k \in {x \in KeyRows(conns[c].version, 1..conns[c].upto, events) : x.key = "operation"}}

\* Indexes and the reads that use them agree with the events of the journal, and its
\* checkpoints can be read back, whichever versions of the actor write to it.
TablesExact == IndexesExact /\ ReadsExact /\ Restorable
=============================================================================
