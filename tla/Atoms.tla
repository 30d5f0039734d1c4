------------------------------- MODULE Atoms -------------------------------
(***************************************************************************)
(* Durable atoms of one actor: states folded from the journal              *)
(* (core/src/atoms/durable.ts), the engines and frames that carry them     *)
(* from one snapshot to the next (runtime/replay.ts), the checkpoints a    *)
(* commit writes of them and startup seeds them with (runtime/             *)
(* execution.ts, initialise.ts), and the live store that reads the         *)
(* published snapshot.                                                     *)
(*                                                                         *)
(* Atoms do not meet in any of this, so one of them is followed.  A "root" *)
(* is evaluated at every record, because the actor's proposals need it; a  *)
(* "lazy" one when it is read; both are kept alive.  A "member" belongs to *)
(* a family with idleTTL 0: a registry may drop it whenever nobody looks,  *)
(* and the version of the family's index is part of its identity.  A state *)
(* is what it was started from and the records it has consumed since.      *)
(***************************************************************************)
EXTENDS Naturals, Sequences, SequencesExt, FiniteSetsExt

CONSTANTS
    Every,         \* the threshold policy's everyEvents
    MaxAtomLog,    \* bound on the journal
    MaxLiveLog,    \* bound on it where the atom is dropped, or watched by a subscriber
    MaxRestarts    \* bound on restarts

VARIABLES
    atom,          \* the kind of the atom
    atomLog,       \* durable: the journal
    rows,          \* durable: atom checkpoints
    manifest,      \* durable: the actor checkpoint
    boot,          \* the checkpoint this runtime was started from
    version,       \* the family's index version in this process
    tail,          \* records of the commit under way, <<>> when there is none
    plan,          \* the checkpoints that commit writes
    published,     \* engine of the published snapshot, NoEngine when disposed
    prepared,      \* engine of the snapshot the commit under way leads to
    held,          \* frame of the published snapshot
    live,          \* the live store: whether it has a subscriber, its observation and its registry
    marks,         \* checkpointPosition and atomCheckpointPosition
    status,        \* down, loading or up
    restarts

vars == <<status, atom, atomLog, rows, manifest, boot, version, tail, plan, published, prepared, held, live, marks, restarts>>
durable == <<atom, atomLog, rows, manifest>>

Kinds == {"root", "lazy", "member"}
Versions == {"v1", "v2"}
Member == atom = "member"

\* codec.identity
Identity(v) == IF Member THEN v ELSE "regular"

\* StateInitialised may name the atom, or others only; the name of a member holds its version.
Markers == {"init", "others"}
Initialised(v, log) == log[2] = "init" /\ (Member => v = "v1")

NoEntry == [pos |-> 0, base |-> "none", got |-> <<>>]
NoManifest == [pos |-> 0, version |-> "none", entry |-> NoEntry]
NoFrame == [pos |-> 0, pending |-> NoEntry, states |-> NoEntry]
NoEngine == [pos |-> 0, cache |-> NoEntry, pending |-> NoEntry, states |-> NoEntry, inherited |-> NoEntry]
NoPlan == [kind |-> "plain", entry |-> NoEntry]
NoView == [pos |-> 0, states |-> NoEntry, target |-> "none"]
Broken(p) == [pos |-> p, base |-> "thrown", got |-> <<>>]

-----------------------------------------------------------------------------
(* Evaluation of an atom *)

\* options.input and the family's key
Accepts(v, e) == e \in {"x", "y"} /\ (Member => e = IF v = "v1" THEN "x" ELSE "y")

\* initialStateSeed without a checkpoint: the marker after the thread's creation
Marker(log, p) == IF p >= 2 /\ log[2] \in Markers THEN 2 ELSE 0

Consumed(v, log, from, to) == SelectSeq([i \in 1 .. to |-> i], LAMBDA i : i > from /\ Accepts(v, log[i]))

\* seed.atoms, or the marker's state for an atom that is no member
Seeded(log, p) ==
    IF boot # NoManifest THEN (IF Member => boot.version = version THEN boot.entry ELSE NoEntry)
    ELSE IF Marker(log, p) > 0 /\ ~Member /\ Initialised(version, log)
    THEN [pos |-> Marker(log, p), base |-> "seed", got |-> <<>>]
    ELSE NoEntry

\* readAtomCheckpoint: the newest row of the identity that is not ahead
Stored(p) ==
    LET found == {r.entry : r \in {q \in rows : q.id = Identity(version) /\ q.entry.pos <= p}}
    IN  IF found = {} THEN NoEntry ELSE CHOOSE e \in found : \A f \in found : f.pos <= e.pos

\* Faulty variant of Continues: what the registry holds is continued whatever the seed says.
ContinuesAnyway(self, seeded) == self # NoEntry
\* continued, and likewise retained: the state is not older than its seed
Continues(self, seeded) == self # NoEntry /\ self.pos >= seeded.pos

\* The state at position p, given the previous one of the registry and the one inherited from a frame.
Evaluate(log, p, self, inherited) ==
    LET seeded == Seeded(log, p)
        goesOn == Continues(self, seeded) \/ Continues(inherited, seeded)
        start == IF Continues(self, seeded) THEN self
                 ELSE IF Continues(inherited, seeded) THEN inherited
                 ELSE IF seeded # NoEntry THEN seeded ELSE [NoEntry EXCEPT !.base = "initial"]
        stored == Stored(p)
        read == IF ~goesOn /\ stored # NoEntry /\ stored.pos >= start.pos THEN stored ELSE start
        first == IF ~goesOn /\ read.pos = 0 /\ Marker(log, p) > 0
                 THEN [read EXCEPT !.pos = Marker(log, p), !.base = IF Initialised(version, log) THEN "seed" ELSE @]
                 ELSE read
    IN  IF self.pos > p \/ boot.pos > p \/ first.pos > p THEN Broken(p)
        ELSE [pos |-> p, base |-> first.base, got |-> first.got \o Consumed(version, log, first.pos, p)]

-----------------------------------------------------------------------------
(* Engines and frames *)

\* captureAtomCheckpoint
Capture(e, entry) == [e EXCEPT !.pending = entry, !.states = IF Member THEN @ ELSE entry]

Reads(e, log) ==
    LET entry == Evaluate(log, e.pos, e.cache, e.inherited)
    IN  [Capture(e, entry) EXCEPT !.cache = entry]

\* effects(): what the actor proposes is computed from its roots.
Effects(e, log) == IF atom = "root" THEN Reads(e, log) ELSE e

\* append, one record after another
AppendAll(e, log) ==
    LET fold[p \in e.pos .. Len(log)] ==
            IF p = e.pos THEN e ELSE Effects([fold[p - 1] EXCEPT !.pos = p], log)
    IN  fold[Len(log)]

FrameOf(e) == [pos |-> e.pos, pending |-> e.pending, states |-> e.states]

\* engineOf: a disposed engine is restored from the snapshot's frame.
Restored(f) ==
    Effects([pos |-> f.pos, cache |-> NoEntry, pending |-> f.pending, states |-> f.states, inherited |-> f.states],
            atomLog)
EngineOf == IF published = NoEngine THEN Restored(held) ELSE published

\* replay: a fresh engine at the checkpoint appends what follows it.
Replayed == AppendAll(Effects([NoEngine EXCEPT !.pos = boot.pos], atomLog), atomLog)

Busy(log) == Len(SelectSeq(log, LAMBDA e : e = "req")) > Len(SelectSeq(log, LAMBDA e : e = "done"))

\* checkpoint: what is pending, or else retained
Captured(e) == IF e.pending # NoEntry THEN e.pending ELSE e.states

\* What a commit that leads to engine e writes beside the records.
Planned(e, log) ==
    IF e.pos - marks.actor >= Every /\ ~Busy(log) THEN [kind |-> "actor", entry |-> Captured(e)]
    ELSE IF e.pos - marks.atoms >= Every THEN [kind |-> "atoms", entry |-> e.pending]
    ELSE NoPlan

\* releaseAtomCheckpoints
Released(e, kind) == IF kind = "plain" THEN e ELSE [e EXCEPT !.pending = NoEntry]

\* writeAtomCheckpoints and collectAtomCheckpoints: older unpinned rows of the identity go.
Rows(old, p) ==
    LET pin == p.kind = "actor"
        rest == {[r EXCEPT !.pinned = @ /\ ~pin] : r \in old}
        At(r) == r.id = Identity(version) /\ r.entry.pos = p.entry.pos
        new == IF p.entry = NoEntry THEN {}
               ELSE {[id |-> Identity(version), entry |-> p.entry, pinned |-> pin \/ \E r \in rest : At(r) /\ r.pinned]}
        all == IF new = {} THEN rest ELSE {r \in rest : ~At(r)} \cup new
    IN  {r \in all : r.pinned \/ ~\E n \in all : n.id = r.id /\ n.entry.pos > r.entry.pos}

Persist(log, p) ==
    /\ atomLog' = log
    /\ rows' = IF p.kind = "plain" THEN rows ELSE Rows(rows, p)
    /\ manifest' = IF p.kind = "actor" THEN [pos |-> Len(log), version |-> version, entry |-> p.entry] ELSE manifest
    /\ UNCHANGED atom

Marked(p, n) ==
    marks' = [actor |-> IF p.kind = "actor" THEN n ELSE marks.actor, atoms |-> IF p.kind = "plain" THEN marks.atoms ELSE n]

-----------------------------------------------------------------------------
(* Steps *)

Idle == tail = <<>>

\* snapshot.get: also while a commit is under way, when the engine has moved on.
Read ==
    /\ published' = Reads(EngineOf, atomLog)
    /\ UNCHANGED <<durable, boot, version, tail, plan, prepared, held, live, marks, restarts>>

\* idleTTL 0: a registry drops what nobody holds.
Evict ==
    /\ Member
    /\ \/ /\ published' = [published EXCEPT !.cache = NoEntry]
          /\ UNCHANGED live
       \/ /\ live' = [live EXCEPT !.cache = NoEntry]
          /\ UNCHANGED published
    /\ UNCHANGED <<durable, boot, version, tail, plan, prepared, held, marks, restarts>>

\* prepare: the engine moves from the published snapshot to the next one.
Batches == {<<"x">>, <<"req">>, <<"done", "x">>} \cup (IF Member THEN {<<"y">>} ELSE {})
Prepare(batch) ==
    LET log == atomLog \o batch
    IN  /\ Idle
        /\ Len(log) <= IF live.on \/ Member THEN MaxLiveLog ELSE MaxAtomLog
        /\ batch[1] = "req" => ~Busy(atomLog)
        /\ batch[1] = "done" => Busy(atomLog)
        /\ \E e \in {AppendAll(EngineOf, log)} : prepared' = e /\ plan' = Planned(e, log)
        /\ tail' = batch
        /\ published' = NoEngine
        /\ live' = [live EXCEPT !.view.target = IF @ = "published" THEN "prepared" ELSE @]
        /\ UNCHANGED <<durable, boot, version, held, marks, restarts>>

\* publish
Committed ==
    LET e == Released(prepared, plan.kind)
    IN  /\ ~Idle
        /\ Persist(atomLog \o tail, plan)
        /\ Marked(plan, e.pos)
        /\ tail' = <<>> /\ plan' = NoPlan
        /\ published' = e /\ prepared' = NoEngine
        /\ held' = FrameOf(e)
        /\ live' = [live EXCEPT !.view = NoView]
        /\ UNCHANGED <<boot, version, restarts>>

\* checkCheckpointWrite: too many bytes.  The next snapshot is discarded, and the published
\* one has its frame.
TooLarge ==
    /\ ~Idle
    /\ plan.kind # "plain"
    /\ tail' = <<>> /\ plan' = NoPlan
    /\ prepared' = NoEngine
    /\ live' = [live EXCEPT !.view.target = IF @ = "prepared" THEN "gone" ELSE @]
    /\ UNCHANGED <<durable, boot, version, published, held, marks, restarts>>

\* The checkpoint operation, an admission of its own.  It goes on after a failure, also when the
\* write is durable and only its acknowledgement was lost.
Checkpoint(heard) ==
    /\ Idle
    /\ ~Busy(atomLog)
    /\ \E e \in {EngineOf} :
         LET p == [kind |-> "actor", entry |-> Captured(e)]
         IN  /\ Persist(atomLog, p)
             /\ IF heard THEN Marked(p, e.pos) ELSE UNCHANGED marks
             /\ published' = IF heard THEN Released(e, "actor") ELSE e
    /\ UNCHANGED <<boot, version, tail, plan, prepared, held, live, restarts>>

\* The live store's replay atom: an observation of the published snapshot, kept until another
\* snapshot is published.  Taking it refreshes the snapshot's frame.
Observe ==
    /\ live.on
    /\ live.view = NoView
    /\ \E e \in {EngineOf} :
         /\ published' = e
         /\ held' = FrameOf(e)
         /\ live' = [live EXCEPT !.view = [pos |-> e.pos, states |-> e.states, target |-> "published"]]
    /\ UNCHANGED <<durable, boot, version, tail, plan, prepared, marks, restarts>>

\* A subscriber's atom; what it computes is captured by the engine the observation was taken from.
LiveRead ==
    LET target == live.view.target
    IN  /\ live.view # NoView
        /\ \E entry \in {Evaluate(atomLog, live.view.pos, live.cache, live.view.states)} :
             /\ live' = [live EXCEPT !.cache = entry]
             /\ published' = IF target = "published" THEN Capture(published, entry) ELSE published
             /\ prepared' = IF target = "prepared" THEN Capture(prepared, entry) ELSE prepared
        /\ UNCHANGED <<durable, boot, version, tail, plan, held, marks, restarts>>

\* The process ends, or the commit fails and latches; its batch is durable or not.
Restart(done) ==
    /\ status = "up"
    /\ restarts < MaxRestarts
    /\ restarts' = restarts + 1
    /\ status' = "down"
    /\ IF done THEN ~Idle /\ Persist(atomLog \o tail, plan) ELSE UNCHANGED durable
    /\ tail' = <<>> /\ plan' = NoPlan
    /\ published' = NoEngine /\ prepared' = NoEngine
    /\ held' = NoFrame
    /\ live' = [live EXCEPT !.view = NoView, !.cache = NoEntry]
    /\ UNCHANGED <<boot, version, marks>>

\* createStore reads the checkpoint; the family of the new process may have another version.
Load(v) ==
    /\ status = "down"
    /\ v # version => Member
    /\ status' = "loading"
    /\ boot' = manifest
    /\ version' = v
    /\ marks' = [actor |-> manifest.pos, atoms |-> manifest.pos]
    /\ UNCHANGED <<durable, tail, plan, published, prepared, held, live, restarts>>

\* What follows the checkpoint is replayed; the engine is then discarded, its frame kept.
Replay ==
    /\ status = "loading"
    /\ status' = "up"
    /\ held' = FrameOf(Replayed)
    /\ UNCHANGED <<durable, boot, version, tail, plan, published, prepared, live, marks, restarts>>

Init ==
    /\ atom \in Kinds
    /\ status = "down"
    /\ atomLog \in {<<"created">>} \cup {<<"created", m>> : m \in Markers}
    /\ rows = {} /\ manifest = NoManifest /\ boot = NoManifest
    /\ version = "v1"
    /\ tail = <<>> /\ plan = NoPlan
    /\ published = NoEngine /\ prepared = NoEngine
    /\ held = NoFrame
    /\ live \in {[on |-> on, view |-> NoView, cache |-> NoEntry] : on \in BOOLEAN}
    /\ marks = [actor |-> 0, atoms |-> 0]
    /\ restarts = 0

Running ==
    \/ Read
    \/ LiveRead
    \/ Evict
    \/ \E b \in Batches : Prepare(b)
    \/ Committed
    \/ TooLarge
    \/ \E heard \in BOOLEAN : Checkpoint(heard)
    \/ Observe

Next ==
    \/ status = "up" /\ Running /\ UNCHANGED status
    \/ \E done \in BOOLEAN : Restart(done)
    \/ \E v \in Versions : Load(v)
    \/ Replay

Spec == Init /\ [][Next]_vars

-----------------------------------------------------------------------------
(* Properties *)

\* What the state is by definition: the fold of the journal up to a position.
Exact(v, log, entry) ==
    \/ entry = NoEntry
    \/ /\ entry.pos <= Len(log)
       /\ entry.base = IF Marker(log, entry.pos) > 0 /\ Initialised(v, log) THEN "seed" ELSE "initial"
       /\ entry.got = Consumed(v, log, 0, entry.pos)

\* Every state that is cached, retained, inherited, pending, published, checkpointed or seeded is
\* the fold of the journal up to its own position, whatever was evicted, restored from a frame,
\* given up, checkpointed or replayed in between.
AtomsExact ==
    LET next == atomLog \o tail
        Of(log, e) == Exact(version, log, e)
    IN  /\ \A f \in {"cache", "pending", "states", "inherited"} : Of(atomLog, published[f]) /\ Of(next, prepared[f])
        /\ Of(next, plan.entry)
        /\ Of(atomLog, held.pending) /\ Of(atomLog, held.states)
        /\ Of(atomLog, live.cache) /\ Of(atomLog, live.view.states)
        /\ \A r \in rows : Exact(r.id, atomLog, r.entry)
        /\ Exact(manifest.version, atomLog, manifest.entry)
=============================================================================
