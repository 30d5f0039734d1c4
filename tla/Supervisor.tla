----------------------------- MODULE Supervisor -----------------------------
(***************************************************************************)
(* The directory of one actor instance (core/src/services/supervisor.ts    *)
(* and supervisor/graph.ts): callers allocate named threads, the           *)
(* supervisor's own actor records each request and provisions the thread   *)
(* in the thread's own store (services/journal/thread.ts, ThreadObject in  *)
(* platform/src/cloudflare/objects.ts).                                    *)
(*                                                                         *)
(* Durable are the directory's journal and the thread stores.  A runtime   *)
(* of the supervisor sees the journal up to its own position and appends   *)
(* there or not at all.  invalidate forgets a runtime before it has closed *)
(* it, so an admission already under way can still land while a second     *)
(* runtime opens on the same journal.  Each platform supports one child    *)
(* placement, so placement is left out; the initial state is kept.         *)
(***************************************************************************)
EXTENDS Naturals, Sequences, FiniteSets

CONSTANTS
    Requests,      \* call -> [parent, name, seed, generated]
    Root,          \* the parent of a root thread
    NoSeed,        \* no initial state requested
    RetryLimit,    \* DEFAULT_PROVISION_RETRY_LIMIT
    MaxRuntimes,   \* bound on runtimes opened
    MaxFaults      \* bound on lost calls, restarts and invalidations

VARIABLES
    dirLog,       \* durable: the supervisor's journal
    stores,       \* durable: thread -> coordinate put, creation record
    runtimes,     \* volatile: runtimes of the supervisor, in opening order
    cached,       \* the supervisors map: index of the runtime, 0 when absent
    allocLock,    \* the call holding the allocation lock, or NoCall
    callers,      \* call -> step, runtime, event to send, thread
    provisions,   \* provision calls under way at thread stores
    dirFaults     \* faults so far

directoryVars == <<dirLog, stores, runtimes, cached, allocLock, callers, provisions, dirFaults>>

CallIds == DOMAIN Requests
NoCall == 0
NoEvent == [type |-> "none"]
NoThread == <<>>
Nothing == [put |-> FALSE, created |-> <<>>]

\* A thread's identity is its name, or the name and a random suffix.
Plain(n) == <<n>>
Suffixed(n) == <<n, "r">>
Threads == UNION {{Plain(Requests[c].name), Suffixed(Requests[c].name)} : c \in CallIds}

-----------------------------------------------------------------------------
(* The directory: durable atoms over the journal *)

\* thread: a request opens the entry, a registration settles a requested one and is
\* ignored otherwise; a recorded retry counts the attempt.
Reduce(dir, e) ==
    LET t == e.thread
    IN  CASE e.type = "requested" -> [dir EXCEPT ![t] = <<[alloc |-> e.alloc, status |-> "requested", tries |-> 0]>>]
          [] e.type = "retry" -> [dir EXCEPT ![t][1].tries = @ + 1]
          [] OTHER -> IF dir[t][1].status # "requested" THEN dir
                      ELSE [dir EXCEPT ![t][1].status = e.type]

Directory(log) ==
    LET dir[n \in 0 .. Len(log)] ==
          IF n = 0 THEN [t \in Threads |-> <<>>] ELSE Reduce(dir[n - 1], log[n])
    IN  dir[Len(log)]
View(r) == Directory(SubSeq(dirLog, 1, runtimes[r].pos))
Recorded == Directory(dirLog)

Known(dir, t) == t \in Threads /\ dir[t] # <<>>
Is(dir, t, status) == Known(dir, t) /\ dir[t][1].status = status
PendingThreads(dir) == {t \in Threads : Is(dir, t, "requested")}

\* threadByName
Named(dir, parent, name) ==
    {t \in Threads : Known(dir, t) /\ dir[t][1].alloc.parent = parent /\ dir[t][1].alloc.name = name}

\* validateParent
ParentHolds(dir, alloc) ==
    IF alloc.parent = Root THEN alloc.depth = 0
    ELSE Is(dir, alloc.parent, "registered") /\ alloc.depth = dir[alloc.parent][1].alloc.depth + 1

\* validate of the supervisor's actor: a request repeats a failed allocation exactly or
\* takes a free identity and name; an outcome belongs to a requested thread.
Valid(dir, e) ==
    IF e.type # "requested" THEN Is(dir, e.thread, "requested")
    ELSE /\ ParentHolds(dir, e.alloc)
         /\ Known(dir, e.thread) => dir[e.thread][1].status = "failed" /\ dir[e.thread][1].alloc = e.alloc
         /\ Named(dir, e.alloc.parent, e.alloc.name) \subseteq {e.thread}

-----------------------------------------------------------------------------
(* Opening and closing runtimes of the supervisor *)

Fresh(pos) == [status |-> "opening", pos |-> pos, admission |-> NoEvent, for |-> NoCall,
               acts |-> [t \in Threads |-> "none"]]

Live(r) == r # 0 /\ runtimes[r].status = "live"
Usable(r) == r # 0 /\ runtimes[r].status \in {"live", "failed"}
DirectoryFault == dirFaults < MaxFaults /\ dirFaults' = dirFaults + 1

\* openSupervisor reads the journal once and resumes what is pending.
SupervisorOpened(r) ==
    /\ runtimes[r].status = "opening"
    /\ runtimes' = [runtimes EXCEPT ![r].status = "live", ![r].pos = Len(dirLog)]
    /\ UNCHANGED <<dirLog, stores, cached, allocLock, callers, provisions, dirFaults>>

\* The calls that wait on a runtime fail when it goes.
Failed(cs) == [c \in CallIds |-> IF c \in cs THEN [callers[c] EXCEPT !.pc = "failed", !.event = NoEvent] ELSE callers[c]]
Served(r) == {c \in CallIds : callers[c].rt = r /\ callers[c].pc \in {"locked", "sending", "await"}}
Unlock(cs) == IF allocLock \in cs THEN NoCall ELSE allocLock

\* A runtime that does not open leaves the map, and its callers fail.
OpenFails(r) ==
    /\ runtimes[r].status = "opening"
    /\ DirectoryFault
    /\ runtimes' = [runtimes EXCEPT ![r].status = "closed"]
    /\ cached' = IF cached = r THEN 0 ELSE cached
    /\ callers' = Failed(Served(r))
    /\ allocLock' = Unlock(Served(r))
    /\ UNCHANGED <<dirLog, stores, provisions>>

\* close: no new admission; the one under way runs to its end.
Closing(r) ==
    [runtimes EXCEPT ![r].status = IF runtimes[r].admission = NoEvent THEN "closed" ELSE "closing",
                     ![r].acts = [t \in Threads |-> "none"]]

\* invalidate: the map forgets the runtime, then the runtime is closed.
InvalidateSupervisor ==
    /\ cached # 0
    /\ DirectoryFault
    /\ runtimes' = Closing(cached)
    /\ cached' = 0
    /\ LET lost == {c \in Served(cached) : runtimes[cached].for # c}
       IN  callers' = Failed(lost) /\ allocLock' = Unlock(lost)
    /\ provisions' = {[m EXCEPT !.by = IF @ = cached THEN 0 ELSE @] : m \in provisions}
    /\ UNCHANGED <<dirLog, stores>>

\* The object is evicted or crashes: every runtime and every call is gone; calls that
\* reached a thread store may still be carried out there.
RestartSupervisor ==
    /\ \E r \in DOMAIN runtimes : runtimes[r].status # "closed"
    /\ DirectoryFault
    /\ runtimes' = [r \in DOMAIN runtimes |-> [runtimes[r] EXCEPT !.status = "closed", !.admission = NoEvent, !.for = NoCall,
                                                !.acts = [t \in Threads |-> "none"]]]
    /\ cached' = 0
    /\ callers' = Failed({c \in CallIds : callers[c].pc \notin {"idle", "done"}})
    /\ allocLock' = NoCall
    /\ provisions' = {[m EXCEPT !.by = 0] : m \in provisions}
    /\ UNCHANGED <<dirLog, stores>>

-----------------------------------------------------------------------------
(* allocate *)

\* A call takes the allocation lock and the cached runtime, opening one if there is none.
Enter(c) ==
    /\ callers[c].pc \in {"idle", "failed"}
    /\ allocLock = NoCall
    /\ IF cached # 0 THEN UNCHANGED <<runtimes, cached>>
       ELSE /\ Len(runtimes) < MaxRuntimes
            /\ runtimes' = Append(runtimes, Fresh(0))
            /\ cached' = Len(runtimes) + 1
    /\ allocLock' = c
    /\ callers' = [callers EXCEPT ![c].pc = "locked", ![c].rt = cached']
    /\ UNCHANGED <<dirLog, stores, provisions, dirFaults>>

Allocation(dir, q, t) ==
    [thread |-> t, name |-> q.name, parent |-> q.parent, seed |-> q.seed,
     depth |-> IF q.parent = Root THEN 0 ELSE dir[q.parent][1].alloc.depth + 1]

Request(a) == [type |-> "requested", thread |-> a.thread, alloc |-> a]

\* The identity a new allocation takes: the name, or with a suffix when that is taken.
NewThread(dir, q) == IF Known(dir, Plain(q.name)) THEN Suffixed(q.name) ELSE Plain(q.name)

\* A name that is claimed is answered only on the terms it was requested on.
Agrees(q, a) == (q.seed # NoSeed => a.seed = q.seed) /\ ~q.generated

\* What the locked part of allocate decides from the directory it reads: refuse, answer
\* an existing allocation (requesting a failed one again), or request a new one.
Decision(dir, q) ==
    LET refuse == [act |-> "refuse", event |-> NoEvent, thread |-> NoThread]
        claimed == Named(dir, q.parent, q.name)
    IN  IF q.parent # Root /\ ~Is(dir, q.parent, "registered") THEN refuse
        ELSE IF claimed # {}
             THEN LET t == CHOOSE t \in claimed : TRUE
                  IN  IF ~Agrees(q, dir[t][1].alloc) THEN refuse
                      ELSE IF Is(dir, t, "failed") THEN [act |-> "send", event |-> Request(dir[t][1].alloc), thread |-> t]
                      ELSE [act |-> "resume", event |-> NoEvent, thread |-> t]
        ELSE IF Known(dir, NewThread(dir, q)) THEN refuse
        ELSE [act |-> "send", event |-> Request(Allocation(dir, q, NewThread(dir, q))), thread |-> NewThread(dir, q)]

Decide(c) ==
    LET r == callers[c].rt
        d == Decision(View(r), Requests[c])
    IN  /\ callers[c].pc = "locked"
        /\ Usable(r)
        /\ IF d.act = "send" /\ Live(r)
           THEN callers' = [callers EXCEPT ![c].pc = "sending", ![c].event = d.event, ![c].thread = d.thread]
           ELSE IF d.act = "resume" /\ Live(r)
           THEN callers' = [callers EXCEPT ![c].pc = "await", ![c].thread = d.thread]
           ELSE callers' = Failed({c})
        /\ allocLock' = IF callers'[c].pc = "sending" THEN c ELSE NoCall
        /\ UNCHANGED <<dirLog, stores, runtimes, cached, provisions, dirFaults>>

\* send: the event is validated in an admission of its own, at the runtime's position.
Admit(c) ==
    LET r == callers[c].rt
    IN  /\ callers[c].pc = "sending" /\ callers[c].event # NoEvent
        /\ Live(r) /\ runtimes[r].admission = NoEvent
        /\ IF Valid(View(r), callers[c].event)
           THEN /\ runtimes' = [runtimes EXCEPT ![r].admission = callers[c].event, ![r].for = c]
                /\ callers' = [callers EXCEPT ![c].event = NoEvent]
                /\ UNCHANGED allocLock
           ELSE callers' = Failed({c}) /\ allocLock' = NoCall /\ UNCHANGED runtimes
        /\ UNCHANGED <<dirLog, stores, cached, provisions, dirFaults>>

\* The journal's conditional append.
Extends(r) == runtimes[r].pos = Len(dirLog)

\* commit: the append succeeds at the runtime's position or latches a failure.
Commit(r) ==
    LET e == runtimes[r].admission
        c == runtimes[r].for
        ended == IF runtimes[r].status = "closing" THEN "closed" ELSE "live"
    IN  /\ e # NoEvent
        /\ IF Extends(r)
           THEN /\ dirLog' = Append(dirLog, e)
                /\ runtimes' = [runtimes EXCEPT ![r].pos = Len(dirLog) + 1, ![r].admission = NoEvent, ![r].for = NoCall,
                                                ![r].status = ended, ![r].acts[e.thread] = "none"]
                /\ callers' = IF c = NoCall THEN callers
                              ELSE [callers EXCEPT ![c].pc = IF ended = "live" THEN "await" ELSE "failed"]
           ELSE /\ UNCHANGED dirLog
                /\ runtimes' = [runtimes EXCEPT ![r].admission = NoEvent, ![r].for = NoCall, ![r].acts = [t \in Threads |-> "none"],
                                                ![r].status = IF ended = "closed" THEN "closed" ELSE "failed"]
                /\ callers' = Failed(Served(r))
        /\ allocLock' = Unlock({d \in CallIds : callers'[d].pc \in {"failed", "await"}})
        /\ UNCHANGED <<stores, cached, provisions, dirFaults>>

\* The waiting part of allocate: the entry's status in the runtime's own view.
Await(c) ==
    LET r == callers[c].rt
        t == callers[c].thread
    IN  /\ callers[c].pc = "await"
        /\ \/ Usable(r) /\ Is(View(r), t, "registered") /\ callers' = [callers EXCEPT ![c].pc = "done"]
           \/ (~Live(r) \/ Is(View(r), t, "failed")) /\ callers' = Failed({c})
        /\ UNCHANGED <<dirLog, stores, runtimes, cached, allocLock, provisions, dirFaults>>

-----------------------------------------------------------------------------
(* The provision act and the thread's own store *)

\* A pending thread's act calls the thread's store with the recorded allocation.
ProvisionThread(r, t) ==
    /\ Live(r) /\ t \in PendingThreads(View(r)) /\ runtimes[r].acts[t] = "none"
    /\ runtimes' = [runtimes EXCEPT ![r].acts[t] = "calling"]
    /\ provisions' = provisions \cup {[alloc |-> View(r)[t][1].alloc, by |-> r, made |-> FALSE]}
    /\ UNCHANGED <<dirLog, stores, cached, allocLock, callers, dirFaults>>

\* ThreadObject.provision first records the coordinate the object stands for.
PutCoordinate(m) ==
    /\ ~stores[m.alloc.thread].put
    /\ stores' = [stores EXCEPT ![m.alloc.thread].put = TRUE]
    /\ UNCHANGED <<dirLog, runtimes, cached, allocLock, callers, provisions, dirFaults>>

\* initializeThread: creation is recorded at position zero; a creation already there must
\* have the same lineage and, when one is asked for, the same initial state.
Initialize(m) ==
    LET s == stores[m.alloc.thread]
        same == s.created = <<m.alloc>>
    IN  /\ s.put /\ ~m.made
        /\ stores' = IF s.created = <<>> THEN [stores EXCEPT ![m.alloc.thread].created = <<m.alloc>>] ELSE stores
        /\ provisions' = IF s.created = <<>> \/ same
                         THEN (provisions \ {m}) \cup {[m EXCEPT !.made = TRUE]}
                         ELSE (provisions \ {m})
        /\ runtimes' = IF s.created = <<>> \/ same \/ m.by = 0 THEN runtimes
                       ELSE [runtimes EXCEPT ![m.by].acts[m.alloc.thread] = "bad"]
        /\ UNCHANGED <<dirLog, cached, allocLock, callers, dirFaults>>

\* The call's answer reaches the act, or is dropped when nobody waits for it.
Answer(m) ==
    /\ m.made
    /\ provisions' = provisions \ {m}
    /\ runtimes' = IF m.by = 0 THEN runtimes ELSE [runtimes EXCEPT ![m.by].acts[m.alloc.thread] = "ok"]
    /\ UNCHANGED <<dirLog, stores, cached, allocLock, callers, dirFaults>>

\* The act sees a failure, while the thread's store may still carry the call out.
Lose(m) ==
    /\ m.by # 0
    /\ DirectoryFault
    /\ provisions' = (provisions \ {m}) \cup {[m EXCEPT !.by = 0]}
    /\ runtimes' = [runtimes EXCEPT ![m.by].acts[m.alloc.thread] = "bad"]
    /\ UNCHANGED <<dirLog, stores, cached, allocLock, callers>>

\* Faulty variant of Outcome: the last attempt counts as success however it ended.
OutcomeLastAttempt(r, t) ==
    IF runtimes[r].acts[t] = "ok" \/ View(r)[t][1].tries >= RetryLimit THEN "registered" ELSE "retry"

\* The act's end: registration, another attempt while the limit allows, or failure.
Outcome(r, t) ==
    IF runtimes[r].acts[t] = "ok" THEN "registered"
    ELSE IF View(r)[t][1].tries < RetryLimit THEN "retry" ELSE "failed"

SettleProvision(r, t) ==
    /\ Live(r) /\ runtimes[r].admission = NoEvent /\ runtimes[r].acts[t] \in {"ok", "bad"}
    /\ LET e == [type |-> Outcome(r, t), thread |-> t]
       IN  /\ Valid(View(r), e)
           /\ runtimes' = [runtimes EXCEPT ![r].admission = e]
    /\ UNCHANGED <<dirLog, stores, cached, allocLock, callers, provisions, dirFaults>>

-----------------------------------------------------------------------------
DirectoryInit ==
    /\ dirLog = <<>>
    /\ stores = [t \in Threads |-> Nothing]
    /\ runtimes = <<>>
    /\ cached = 0
    /\ allocLock = NoCall
    /\ callers = [c \in CallIds |-> [pc |-> "idle", rt |-> 0, event |-> NoEvent, thread |-> NoThread]]
    /\ provisions = {}
    /\ dirFaults = 0

DirectoryNext ==
    \/ InvalidateSupervisor \/ RestartSupervisor
    \/ \E c \in CallIds : Enter(c) \/ Decide(c) \/ Admit(c) \/ Await(c)
    \/ \E r \in DOMAIN runtimes : SupervisorOpened(r) \/ OpenFails(r) \/ Commit(r)
    \/ \E r \in DOMAIN runtimes, t \in Threads : ProvisionThread(r, t) \/ SettleProvision(r, t)
    \/ \E m \in provisions : PutCoordinate(m) \/ Initialize(m) \/ Answer(m) \/ Lose(m)

DirectorySpec == DirectoryInit /\ [][DirectoryNext]_directoryVars

-----------------------------------------------------------------------------
(* Properties *)

\* A thread the directory calls registered has its creation record, with the lineage and
\* the initial state of the allocation.
RegisteredExists ==
    \A t \in Threads : Is(Recorded, t, "registered") => stores[t].created = <<Recorded[t][1].alloc>>

\* A thread's store is created only for a thread the directory holds, and never on other
\* terms, whatever failed in between.
StoresOwned ==
    \A t \in Threads : stores[t].created # <<>> => Known(Recorded, t) /\ stores[t].created = <<Recorded[t][1].alloc>>

\* Parents are registered before their children exist, one level above them.
Rooted ==
    \A t \in Threads : Known(Recorded, t) => ParentHolds(Recorded, Recorded[t][1].alloc)

\* A name under a parent stands for one thread.
NamesUnique ==
    \A c \in CallIds : Cardinality(Named(Recorded, Requests[c].parent, Requests[c].name)) <= 1

\* What a caller was answered is registered under the parent and name it asked for, on
\* the terms it asked for.
AnswersHold ==
    \A c \in CallIds : callers[c].pc = "done" =>
        LET t == callers[c].thread
        IN  /\ Is(Recorded, t, "registered")
            /\ t \in Named(Recorded, Requests[c].parent, Requests[c].name)
            /\ Agrees(Requests[c], Recorded[t][1].alloc) \/ Requests[c].generated

\* The directory and the thread stores agree through crashes, lost answers, retries and
\* two runtimes of one supervisor on the same journal (supervisor.ts allocate,
\* invalidate; graph.ts validate; journal/thread.ts initializeThread).
DirectoryAgrees == RegisteredExists /\ StoresOwned /\ Rooted /\ NamesUnique /\ AnswersHold
=============================================================================
