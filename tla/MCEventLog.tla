----------------------------- MODULE MCEventLog -----------------------------
(***************************************************************************)
(* The event log of an actor thread (EventLog) and what is read from it:   *)
(* the atoms folded from it and their checkpoints (Atoms), pages of its    *)
(* records and keys (Pages), and the shared views snapshots are made of    *)
(* (Views).  The parts share no state here, so an initial choice says      *)
(* which one moves and the others stay as they begin.                      *)
(***************************************************************************)
EXTENDS EventLog, Views

CONSTANTS Every, MaxAtomLog, MaxLiveLog, MaxRestarts,
          EventKeys, Limits, BatchSize, MaxRecords

VARIABLES part,
          atom, atomLog, rows, manifest, boot, version, tail, plan, published, prepared, held, live,
          marks, status, restarts,
          records, committed, reader

logVars == <<journal, inputs, checkpoint, frame, failed>>
atomVars == <<atom, atomLog, rows, manifest, boot, version, tail, plan, published, prepared, held, live,
              marks, status, restarts>>
pageVars == <<records, committed, reader>>

LogAtoms == INSTANCE Atoms
JournalPages == INSTANCE Pages

MCInit ==
    /\ part \in {"log", "atoms", "pages", "views"}
    /\ Init
    /\ LogAtoms!Init
    /\ part # "atoms" => atom = "root" /\ atomLog = <<"created">> /\ ~live.on
    /\ JournalPages!Init /\ ViewsInit

MCNext ==
    \/ part = "log" /\ Next /\ UNCHANGED <<part, atomVars, pageVars, viewVars>>
    \/ part = "atoms" /\ LogAtoms!Next /\ UNCHANGED <<part, logVars, pageVars, viewVars>>
    \/ part = "pages" /\ JournalPages!Next /\ UNCHANGED <<part, logVars, atomVars, viewVars>>
    \/ part = "views" /\ ViewsNext /\ UNCHANGED <<part, logVars, atomVars, pageVars>>

MCSpec == MCInit /\ [][MCNext]_<<part, logVars, atomVars, pageVars, viewVars>>

\* Every state an atom has anywhere is the fold of the journal up to its position, and
\* pages read while the journal grows put together to what they should.
ReadsExact == LogAtoms!AtomsExact /\ JournalPages!PagesExact
=============================================================================
