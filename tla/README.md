# Tardigrade in TLA+

Tardigrade runs durable, event-driven actors: every thread is a journal of
events, all live state is a replay of it, and effects are accepted, executed,
retried, cancelled and resolved through records of that journal. This directory
models the part of the code that has to be right for that to hold across
crashes, lost acknowledgements, late answers and concurrent callers: the core
runtime (`packages/core/src`), the parts of the hosts (`packages/platform/src`)
that store journals, keep runtimes and wake threads, the agent built on them
(`packages/agent/src`), and the older engine and agent the repository still
carries (`packages/deprecated`, `packages/code`).

All paths below are relative to `src/packages/`. Line ranges are in
`PROJECT.json` under `map`.

## 1. Inventory

| Component | State it keeps | Operations | What is hard about it | What makes it correct |
|---|---|---|---|---|
| Operation lifecycle (`core/src/runtime/operation.ts`, `events.ts`, `effects.ts`) | one record per accepted effect: execution outcome, promise result, retry count, and after a cancellation a cleanup part | fold of the lifecycle records; predicates "complete", "cleanup owed", "cleanup runnable" | execution and cleanup overlap; a cancelled effect may still report a promise handle that its cleanup needs | the table of operations is what the journal implements |
| Event log (`core/src/runtime/replay.ts`) | the runtime frame: position, progress cursor, active operations, first defect; the admission filter in front of it | admit, append with follow-ups, release, replay, checkpoint | late, duplicate and conflicting deliveries, also for operations long released; equality of the live path and of replay | same state from live appends, from a full replay and from a checkpoint; each act decided once |
| Commit and startup (`core/src/runtime/execution.ts` `commit`, `createStore`) | latch `persistenceFailure`, published snapshot | one transaction of records, inputs and checkpoint; startup replay | a commit that is durable though its acknowledgement is lost | recovery finds what the journal promises, the inputs included |
| Drain and fibres (`execution.ts` rest) | volatile producers, cleanup fibres, observers, admission queue | drain, send, submit, cancel, clean up, expire promises, retry, recoveryState | fibres that outlive what they work for; a handle that arrives after the cancellation that needs it; a probe of a thread whose producer is gone | no external job leaks, cleanup runs alone and has an owner, no wakeup lost, recovery is reported honestly, work and cancellations end |
| SQL journal (`platform/src/shared/sql-journal.ts`, `sql-family-index.ts`, `checkpoint/`) | events and the tables derived from them, checkpoints | append with expectations, index in batches, checkpoint, collect, migrate, read | two versions of an actor write to one database; backfills interleave with appends | derived rows are exactly those of the covered prefix; a checkpoint can be restored; reads are exact |
| Scheduler and alarm (`core/src/services/scheduler.ts`, `platform/src/cloudflare/scheduler.ts`, `shared/sql-scheduler.ts`, `shared/retry-wakes.ts`, `bun/alarm.ts`) | durable wakes with generations, one physical alarm | schedule, cancel, wakes written by a journal append, the handler's transactions, restore | replacement during delivery; alarm set after the append's transaction; spent timer; crash between claim and acknowledgement | no wake lost, alarm never later than needed, delivery in the end |
| Watchdog (`core/src/services/watchdog.ts`, `platform/src/cloudflare/watchdog.ts`, `objects.ts`) | durable entry per supervised thread: generation, budget, cursor, attempts, status; the "watchdog" wake; volatile attempts and `cleanupLock` | admit, resume, restore, alarm (probe, precharge, launch), detached attempts, finish | attempts outlive the alarm and the budget they were charged to; admissions between look and record | bounded recoveries, no forgotten admission, renewals fence old attempts, supervision ends |
| Actor runtimes (`core/src/runtime/actors.ts`, `layers.ts`) | open runtimes by address, live runtimes, subscriptions | open, subscribe, invalidate, recover, close | invalidation races with openers and holders; close takes no lock | one runtime per thread; listeners follow the live one |
| Supervisor (`core/src/services/supervisor.ts`, `supervisor/graph.ts`, `journal/thread.ts`) | directory of threads, per instance; a store per thread | allocate, register, provision, await, recover | allocation and provisioning are two durable steps in two stores; two runtimes can be on one directory | a registered thread exists on its terms; answers agree with the directory |
| Messages and replies (`core/src/runtime/messages.ts`, `services/invocation.ts`) | message identities in the journal, reply obligations and acts | send, receive, cancel, reply | redelivery after a lost receipt; a result that changes between proposal and acceptance; reused identities | admitted once, replies are the recorded result, an admitted message is acknowledged |
| Promise resolver (`platform/src/cloudflare/promise-resolver.ts`, `core/src/services/promises.ts`) | durable jobs: request, settlement, next time | register, accept, alarm, discard | completion, deadline, cancellation and delivery race across transactions; a run works from a listing | one answer, decided by the deadline; a cancellation holds; every watched promise is resolved |
| Agent (`agent/src/atoms`) | turns, queue, budget, permissions, conversation rows, compaction, folded from one journal | turn, inference, tool call, permission, budget decision, abort, compaction | acts settle in any order around aborts, budget waits and compaction | conversation coherent, tools permitted and within budget, turns answered |
| Legacy engine (`deprecated/core`, `deprecated/host`, `platform/bun/src/host.ts` at the root) | a log per thread, marks of owed settlements, timers | reconcile, invoke, reply, time out, cancel a call tree, drive, recover | a deadline, an answer and a cancellation of one call race; effects outlive the log they read | cancelled work never completes; nothing owed is forgotten |
| Legacy agent (`code/src/execution`, `deprecated/agent`) | the turns of one log and the projections folded from it | inference with retries and fallbacks, corrections, tool dispatch, cancellation, resume in a new epoch | epochs, dead attempts, interrupted effects, incremental projections | projections equal replay; an attempt's key is never reused; no turn is stranded |
| Atoms and projections (`core/src/atoms`, `core/src/experimental`, `core/src/runtime/log-view.ts`) | per atom: captured value, version, live value; per page: a window of the committed log and the uncommitted tail; append views sharing storage | evaluate, capture, checkpoint, restore, observe, page, append | an atom can be lazy, dropped or joined late; a page straddles the committed prefix and the tail; views fork from one storage | every read equals the fold of the whole log; pages partition the log; an older view never changes |
| Legacy Cloudflare host (`src/platform/cloudflare/src`, `deprecated/host`) | per object: its log, one alarm; volatile: admissions, the pass under way, waiters, marks | allocate, create and register a thread; deliver; alarm pass; deadlines | a pass decides the next alarm while admissions go on; the actor's pass calls the thread, whose pass waits for the actor; evictions between any two steps | what was answered for is covered by an alarm and done in the end; nobody waits for a pass that will not come; threads run as they were allocated |
| Streams, backup, HTTP, workspaces, other packages and apps | data of the above, files | I/O | - | not modelled |

The components meet as follows. Drain and its callers hand records to the event
log, one admission at a time; commit writes the admitted batch, the changed
inputs and a checkpoint in one journal transaction. On the Bun host the append
also writes the retry wakes, and the alarm follows at the append's
acknowledgement; on the Durable Object host the commit admits the thread to the
watchdog in the same transaction. The watchdog keeps one wake in the scheduler;
the physical alarm runs the scheduler's handler, which delivers due wakes: to
the watchdog, to promise deadlines, to retries. A delivered watchdog wake runs
recovery of the thread, which opens its runtime: startup (replay) and drain.
Threads are allocated by their instance's supervisor, itself an actor with a
journal, and call each other with messages admitted into journals. An agent is
an actor on top of all this; the legacy engine and its agent are the older
implementation of the same ideas, which the apps of the repository still run.

## 2. Modules

| Module | Models | Role |
|---|---|---|
| `Operation` | operation.ts, the event schemas | constant-level: the stored operation, its predicates, the records, `Fold` |
| `Lifecycle` | what the log promises of its operations | abstract specification: a table of operations and the records each may take next |
| `EventLog` | replay.ts, commit and startup of execution.ts, invocation lookup, the journal's transaction | state machine of one thread's log; implements `Lifecycle` |
| `Execution` | the rest of execution.ts, promises and cleanup | state machine of one thread's drain, fibres and timers; extends `Lifecycle` |
| `Messages` | runtime/messages.ts, services/invocation.ts, `receive` and `send` | state machine of threads that call each other |
| `Scheduler` | scheduler.ts over both storages, retry-wakes.ts, bun/alarm.ts | state machine of the wakes and the alarm |
| `Watchdog` | watchdog.ts and the Durable Object's alarm around it | state machine of the entries, the run and the attempts |
| `PromiseResolver` | cloudflare/promise-resolver.ts | state machine of the jobs, buffers and the alarm handler |
| `Supervisor` | supervisor.ts, supervisor/graph.ts, journal/thread.ts, thread provisioning | state machine of one instance's directory |
| `ThreadHost` | actors.ts, layers.ts, both hosts' ownership of runtimes | state machine of the runtimes of one thread |
| `SqlJournal` | sql-journal.ts, sql-family-index.ts, checkpoint/ | state machine of the tables of one journal |
| `Agent` | agent/src | state machine of one agent |
| `CallGraph` | deprecated/core, deprecated/host, the old Bun host | state machine of the legacy engine |
| `Turns` | code/src/execution, deprecated/agent | state machine of a legacy agent's thread |
| `DurableObjects` | src/platform/cloudflare/src and the allocator and driver of deprecated/host | state machine of one actor object and its thread objects, with their alarms |
| `Atoms` | core/src/atoms, frames and checkpoints of atoms | state machine of one atom across evaluations, checkpoints and restarts |
| `Pages` | the paged reads of the journal and of keyed events | state machine of a reader that pages while the log grows |
| `Views` | runtime/log-view.ts, the persistent append views | state machine of views that share storage |
| `SchedulerProofs`, `WatchdogProofs`, `PromiseResolverProofs`, `MessagesProofs` | | theorems about the module of that name (section 5) |
| `ExecutionProofs` | | theorems about `Execution` and `DurableObjects` |
| `HostProofs` | | theorems about `ThreadHost`, `Supervisor` and `SqlJournal` |
| `EventLogProofs` | | theorems about `EventLog`: its invariant and replay; the refinement of `Lifecycle`, lookup, inputs and callbacks; and about `Views` |
| `CallGraphProofs` | | theorems about `CallGraph` |
| `MC*` | | instances for TLC (section 3) |

Operators whose comment starts with "Faulty variant of" are not part of a
specification. Each is the named definition with one plausible mistake in it,
and putting it in that definition's place makes the property named beside it in
`PROJECT.json` (`mutants`) fail: this shows the property can see that mistake.

### Lifecycle and its refinement

`Lifecycle` has one variable, the table of operations, and one step: a batch of
admissible records changes the table. `LifecycleOfLog` in `EventLog` is
`Lifecycle`'s specification with the table read off the journal (every
operation of the journal, also those the frame released), so filters, releases,
checkpoints, lost acknowledgements and restarts must all be invisible in it. `Execution`
extends `Lifecycle` and moves the same table, so what it assumes of the log is
what the `event_log` run shows the log to do.

### EventLog

A reference's `seq` is the position of its `EffectRequested` record, so the
model's references are journal indices. Payloads are kinds: a settlement is a
value, a rejection or a promise handle; invocation identities are `Origins`, of
which `ReplyOrigins` belong to the atom `host.message.replies`, which the code
exempts from the rules for a defect.

- `release`, `EngineAccepts`, `EngineFold`, `EngineAppend` are the engine's
  `append`: completed operations leave the frame before the next record is
  folded, the guards throw, the fold updates cursor, defect, operations and
  the set to release. `replay` folds a suffix into an engine seeded at a
  checkpoint. An engine that threw is `ok = FALSE`.
- `Admits` is the filter of `append`: `DefectBars`, `LifecycleAdmits`
  (cancellation races), `HasPrior` (duplicates and conflicts, against the frame
  or, for a released operation, against the journal).
- `Batch` adds the follow-ups: the bound act's callbacks, recorded in the same
  batch. `Callback` stands for the domain event a callback returns.
- `commit` is one transaction with three outcomes: done; durable but its
  acknowledgement lost; not durable. The last two latch the runtime
  (`failed`), and only `Recreate` goes on from there. `Recreate` is also a crash
  at any time: nothing it reads is volatile.
- The callers (`Accept`, `Settle`, `Die`, `Retry`, `Cancel`, `CleanUp`,
  `Resolve`, `Dispatch`) keep only the guards the code applies before it
  enqueues the admission. What arrives when is left open, so every late,
  repeated or reordered delivery is a behaviour.

Because admissions run one at a time (`execution.ts` `enqueue`), a batch is one
step.

### Atoms, Pages and Views

These three read the log and never write it, so each has its own small log.
`Atoms` follows one atom, since atoms do not meet: it is a root (always
captured), lazy (captured when first read) or a member of a family, and may have a
live observer. `Checkpoint` may go on although its acknowledgement was lost, and a
restart loads the last durable frame and folds the rest. `Pages` reads by
position and by key over the committed prefix and the uncommitted tail, while
both grow between two pages. `Views` has the storage sharing of append views:
appending to the newest view extends the storage in place, appending to an older
one copies. Left out: the incremental validator, the actor graph's typing and
the reducers themselves (a value is the sequence of events folded into it).

### Execution

An admission (`enqueue`) runs alone, so `Accept`, `Settle`, `Submit`, `Retry`,
`Cancel` and the others are one step each; the interleavings are those between
admissions, of the drain (`Drain` steps: claim, execute, await, recover), the
fibre it waits for, the producer an execution forks, the cleanup fibre, the
deadline and the answer to a watched promise. `MayBlock` is the host's
`canDrive`. A latched persistence failure ends in the same restart as a crash,
so `Restart` stands for both. Who answers a promise, and when, is left open
(`Answer`): the Durable Object's resolver and the fibres of a Bun process are
two ways to do it. A submission may fail, or time out, when its job exists already
(`SubmitFails`): the act hears of no handle, and `jobs` no longer counts it, since
nothing in the code can know of it. Because an admission is one step, one
that enqueued another and waited for it would not show here as the deadlock it is; the
bodies of admissions enqueue nothing. Left out: an act that throws after its own
successful `submit`, one that retries a failed submission, a recovered act that submits
again, failures of `observePromises` and `canDrive` themselves, and the wait for a recorded
retry's `dueAt` after a restart (the recovered act or cleanup goes on at once).

### Messages

A thread's journal holds its inbox only. `Send`, `Receive` and `Hear` are the
two ends of a call and may each be lost (`MaxFaults`); a sender may repeat a
message at any time. A thread proposes the reply of an invocation from its
result atom and remembers what it proposed (`proposed`), the request is
recorded at acceptance (`reply`), and the act (`act`) retries until the caller
takes it, or its attempt times out (`AttemptsBounded`). The refusals of `receive` that
depend on the method or on the shape of the input (`execution.ts:861`) are left out.

### Scheduler

Absolute times are modelled by what is left of them, and `Tick` lets a unit
pass; this makes the state space finite without bounding the clock. Every
storage transaction of `alarm` is one step (`List`, `Claim`/`Skip`, `Settle`),
a delivery begins with `Claim` and ends with `DeliverSucceeds` or
`DeliverFails`. `recordSchedule`/`recordCancel` change a wake inside a journal
append and leave the alarm behind until `acknowledge`. `Fail` is a failed
transaction in a run: the Bun timer sets itself again after `retryIntervalMs`,
and a Durable Object alarm whose handler throws is retried by the platform.
`Crash` may lose the alarm (a timer) or keep it (a Durable Object alarm).
`owed` is a history variable: the generation of each wake that nobody has
delivered, replaced or cancelled.

### Watchdog

One `run` of the Durable Object's alarm is `Restore` (objects.ts calls
`watchdog.restore`), `ClaimWake` (the scheduler), `ListEntries`, then for each
listed entry `Pass`, `StillActive`, or `Probe` followed by `FinishProbe` or
`Precharge` and `Launch`, and `Return`. Launched attempts (`work`) go on by
themselves: `RecoverReturns`, `Invalidate`, `Invalidated`, `Finish`, and may be
lost (`AttemptLost`). `launch` is modelled because the Durable Object always
passes it; without it the attempt would run inside the alarm, which is one of
the interleavings. `release` and `finish` are one step: the transaction is
issued in the same turn. `schedule` runs at the end of every transaction, as in
the code.

What a recovery or a probe reports is left open (`Results`), except that a
"settled" report is taken to reflect the admissions committed before it. The
probe reads the in-memory snapshot, which trails a commit until it is flushed;
the storage's FIFO order between a commit and a later listing is what justifies
the assumption. Generations start at 1 for a new entry and only count up, and
`budget` is `budgetGeneration ?? 0`, as in the code.

A change of interpreter version is adopted at `Restart`. The constructor's
`ThreadUpdated` commit adopts the same version one transaction earlier and is
otherwise an `admit` without admission, so it adds no behaviour of its own.
Coarser than the code: probes that throw, that find a terminal error and that find the
object dying are one failed outcome (`watchdog.ts:105`, `:132`, `:156`); a thread that
reports a `wakeAt` already passed counts as alive (`:97`); and a restarted host never
runs an older version than before.

### PromiseResolver

`watch` and `cancel` are `register`; `accept` is the body shared by `complete`
(a trusted caller), `webhook` (with a receipt against repetition) and a poll's
result; a conflicting completion fails its transaction and so is no step.
`discard` runs after a cancellation and at both ends of a handler run. The
handler is `Fire`, `FirstDiscard`, `List`, then per listed job `Skip`, or `Begin`
(put it off durably), `Expire` or `Poll` with its outcomes, `ReadLatest`,
`Deliver`, `MarkDone` or `CatchError`, and at the end `LastDiscard` and `Sweep`.
Steps between transactions interleave with every caller; decisions the code
takes from the listed job (`p.job`) and from the current one (`jobs`) are kept
apart. `resultReceivedAt` is only ever compared with a deadline, so a buffer
keeps the set of references whose deadline had passed (`late`). A polling
adapter is assumed to be configured, and outsiders complete no clock. A late
copy of a registration may arrive while the job it repeats is retained; one
delayed beyond `retentionMs` is not considered, nor is a delivery to the thread that timed
out at the sender and arrives later.

### Supervisor, ThreadHost and SqlJournal

`Supervisor`: the directory is an actor, so its runtime can be invalidated while
an admission of it is under way, and a second runtime then opens on the same
journal; an append succeeds only at the position its runtime has seen. The
caller, the allocation lock, the provisioning call to the thread's store and
its answer are steps of their own.

`ThreadHost`: opening and invalidating hold the lifecycle lock of the
coordinate from start to end; `close` takes no lock. Callers subscribe, and
`bound` is the runtime their listener is attached to. `Close` interrupts every caller
first, as the Bun layer does; on Cloudflare a `receive` in flight is outside that scope, so
the branch for a runtime that opens into a closed map (`actors.ts:199`) is not reached here.
In `Supervisor` an invalidation closes a runtime that is still opening at once, where the
code waits for it to open first (`supervisor.ts:176`).

`SqlJournal`: two connections that run versions v1 and v2 of the actor write to one
database. A transaction is one step; the backfills of the invocation index and
of the family index take one transaction per batch, and a connection may stop
between any two. A stored value is named by the version that computed it, so
chunking, encoding and digests are left out. A runtime takes its position when the setup
ends, where the code reads it a little later; pages are read in ascending order, and the
version is checked at the end of the range.

### Agent

The state is one record folded from the journal (`Reduce`), and what the atoms
propose is computed from it: cancellations, events and acts, admitted by the
core in this order, one at a time. Admitted acts settle in any order. The size
of a message is one row. Left out: token usage reports and their anchors, spend
in tokens, dollars and time (the tool budget is modelled), rendering, caches,
code mode.

### CallGraph and Turns

`CallGraph`: threads with logs, the reconciler that settles a thread, the
transitions for calls, replies, timeouts and cancellations, marks of owed
settlements, the drive, alarms. A method's work calls its children in order and
completes. When work that completes has run, the reconciler reads the log back
(`ReadBack`: the completion is `Kept`, or dropped if the invocation was cancelled
since the snapshot) and then appends without looking again (`Finish`;
`reconciler.ts:289`, `:293`). A cancellation that lands between the two precedes
the completion in the log and does not stop it. So what holds is not that no `Done` follows a
cancellation, but that once a cancellation finds no completion read back none
comes (`SuppressionHolds`), and that the late completion excludes the report of
the cancellation (`EndsOnce`); both are parts of `CancellationSound`. Two steps of the code are one here: an append by
the host and the mark and interruption that follow it (`Land`, `Rung`;
`host.ts:504`, `:618`), and the head checks of the members of a concurrent group, of which
the code makes one per member (`CancelChildren`; `reconciler.ts:275`, `:320`), so that the
dispatch of one can make the next stale; the run's groups have one member.
Left out: forks and detached work, provider links, the deadlock
sentinel, epochs, `CommitDispatcher`.

`Turns`: the log of a legacy agent's thread; views are sequences of positions.
The incremental machine the reconciler keeps (`machine`) and the projections by
complete replay are two definitions, because they are two implementations in
the code. Left out: delegated output (`OutputRetryRequested`, `OutputRepaired`;
without it a rejection stays open, so the limit on them is tested whenever one is counted),
text beside tool calls, offers per model call, budget, permission and escalation
components, compaction, costs.

### DurableObjects

`Admitting` is an admission up to the end of its stage, `Publish` (or
`AdmissionFails`) the rest: the alarm is set to now, and only then the caller is
told. A pass is `Fire`, `Arm`, the work, and `Synchronize` or `Fail`; what it calls
at other objects (`create`, `commitCreation`, `ensureThreadReady`) are steps of its
own. The version counter is kept as the comparisons made with it (`admitted`, and
`waiting` for callers of `wakeAndWait`). `Evict` loses what is volatile; a
handler that did not return is run again, which is the platform's contract.
`recordAlarm`'s read and append, and `recover`'s mark, are part of the step they
belong to. Left
out: forks, streams, queries, alarms the actor itself requests (`nextAlarm` knows
method deadlines only) and what a served item makes a thread do.

## 3. Runs

| Run | Instance | Question |
|---|---|---|
| `event_log` | the parts log, atoms, pages, views. Log: 2 effects, one a reply; 1 domain event; retries up to attempt 1; 8 records; checkpoint every 3 | replay equals live; acts told once; lookup and engine agree; inputs kept exactly as long as needed; the log implements `Lifecycle`; atoms, pages and views read what the log says |
| `execution` | 2 invocations, one a reply, one with an unbounded producer; a host that may refuse; 1 restart. Objects: a thread and its child, two requests for one name, or deliveries to one thread, 1 fault | the objects' alarms cover what was answered for; cleanup runs alone and has an owner; no external job leaks; no wakeup lost; `recoveryState` is honest |
| `execution_liveness` | 1 invocation, 1 retry, 2 restarts. Objects: 1 thread, a delivery with a deadline, 1 fault | cancellations and work end; what an object answered for is done |
| `messages` | 3 threads and a client; an identity shared by two receivers, or reused and cancelled; 1 fault | admitted once; replies are the recorded result and never conflict; an admitted message is acknowledged |
| `scheduler` | 2 wakes, delays 0..2, generations up to 3, 1 fault | no lost wake, alarm covers wakes, delivery in the end |
| `watchdog` | 1 thread, every result, 2 attempts, 1 fault, generations up to 2, versions 1 and 2 | bounded recoveries, fenced invalidation, no forgotten admission, blocked by its own budget only, supervision ends |
| `promise_resolver` | 1 promise of each kind (pushed, polled, clock), 2 results, 1 webhook identity, 1 fault | one answer, deadline or clock decides, alarm covers, cancellation holds, resolved in the end |
| `hosts` | the parts directory, thread, journal, agent, tools | see below |
| `legacy` | the parts graph, turns, attempts | see below |
| `watchdog_stale_pass`, `promise_early_arrival`, `messages_reply_timeout` | | findings (section 4) |

`event_log`, `execution`, `execution_liveness`, `hosts` and `legacy` put machines that share no state into one run: an initial
choice (`part`) says which of them moves. Three machines appear more than once, because what
they need at once differs: `Agent` with two callers and one tool call, and with
one caller and two tool calls; `Turns` with two turns, and with one turn, more
attempts, two crashes and two calls at once; `DurableObjects` as below.

- `event_log`, atoms: one atom of each kind, five events, one restart, frames every
  two events (`ReadsExact`). Pages: three keys, limits one and two, batches of
  two, three records (`ReadsExact`). Views: four views of length up to three over two
  keys (`ViewsFixed`).
- `execution`, objects: one constant instance with two threads and three clients, of
  which each part lets some ask. A thread and its child under a generated name;
  a requested name and a generated one with only that name free; one thread
  that takes a delivery with a deadline, where the part also lets time close it
  and a cancellation be recorded. All three check `ObjectsSound`.
- `hosts`, directory: three requests, two for one name and one for its child, with
  one retry, two runtimes and two faults (`DirectoryAgrees`). Thread: two
  callers and the watchdog, four runtimes, two faults (`RuntimesSound`).
  Journal: two versions, batches of one, two writes, two openings of connections in
  all (`TablesExact`). Agent: a window of five
  rows compacted at four, every budget policy (`AgentSound`).
- `legacy`: a root call with one child, one fault, and a clock long enough for a
  timeout, a cancellation and its own timeout in a row (`CancellationSound`,
  `NothingOwed`; larger trees and more faults are the theorems');
  turns with a fallback model, corrections, a backoff, a tool limited to one at a
  time, resumes and crashes (`ProjectionExact`, `AttemptsSound`,
  `NoTurnStranded`).

Why the bounds are enough to see the interesting cases:

- Eight records hold two operations with request, handle, cancellation and
  cleanup, with a defect of one while the other owes cleanup, and a
  checkpoint in the middle; every pair of lifecycle records meets in both
  orders, before and after the release of the operation. Two operations are
  needed (a defect of one bars the other); the code never relates three.
- In `execution` two invocations are needed because the drain runs one at a
  time while producers and cleanups of the other go on.
- Two wakes let one be replaced while the other is delivered; three generations
  allow a replacement during a delivery and another after it. `RetryDelay` is
  smaller than `MaxDelay`, so a claim may make a wake later or earlier than its
  neighbours.
- One thread is enough for the watchdog: entries share only the wake, the
  listing and `cleanupLock`. Two threads, and four generations with two faults,
  were explored with the same outcome, outside the runs kept here for time.
- A resolver's jobs meet only through a shared handle. Two promises of one
  execution are explored in `promise_early_arrival`. A timeout and a retention of
  one unit let every pair of polls, completions, expiries and discards happen
  in either order.

Deadlock is not checked: a log at its bound, a scheduler without wakes before
the next call, or a watchdog with nothing to supervise may stop.

**Fairness.** `Scheduler`: time passes, a due alarm fires, a started run goes
on, an append is acknowledged, the host restarts (weak fairness each: timers,
fibres and the platform guarantee them), and a wake that is delivered again and
again is not refused for ever (strong fairness of one successful delivery per
wake, which is the contract of an at-least-once delivery: without it the retries
go on for ever, by design). `Watchdog`: time, the alarm's run, each attempt
(`recover` is cut off at `attemptTimeoutMs`) and the reconstruction of the
object. `PromiseResolver`: time, the alarm, the handler's steps (polls and
deliveries are cut off at `attemptTimeoutMs`), and a thread that is not
unreachable for ever. `Execution`: the drain, the execution fibre, each producer
and each cleanup fibre go on (the runtime schedules its fibres), a deadline
passes, and a watched promise is answered. `DurableObjects`: time, due alarms,
passes, admissions and remote calls go on; nothing is assumed of clients. `Messages` (finding only): a reply is
accepted, sent, received and its receipt heard when that stays possible.
Nothing is assumed of admissions, renewals, cancellations or faults, which are
bounded.

## 4. Findings

`watchdog_stale_pass` violates `PreservesLaterAdmissions`. The repository's own
model says a pass "clears covered work while preserving admissions made after
the pass snapshot" (`platform/quint/watchdog.qnt:80`, and "preserve later
admissions" in `platform/quint/README.md:17`). The code tells a later admission
by its generation, but a deleted entry that is admitted again starts at
generation 1 with no `budgetGeneration` (`watchdog.ts` `admit`). Suppose a pass
lists an entry while its attempt is still running, close to `attemptTimeoutMs`,
so that the listed entry is due. The attempt returns "settled", is released and
deletes the entry; the pass sees no active attempt and probes "settled"; a
message commits and creates the entry anew, at the listed generation; the
probe's finish finds equal generations and deletes it. The message has neither
entry nor wake: if the host dies before executing it, nothing recovers the
thread until the next message. No fault is needed up to that point.
`NoForgottenAdmission` is the same statement for entries that were not made anew
under a pass, and holds.

`promise_early_arrival` violates `RetainsEarlyArrivals`. A comment says `accept`
"retains early arrivals" (`platform/src/cloudflare/promise-resolver.ts:112`). A
completion is buffered with its result only if no job of its handle exists or
one still waits (lines 125 and 134). Suppose a thread cancels one promise of a
remote execution and records another for the same execution (a resubmission the
backend answers with the same id). The execution completes before the second
`watch` arrives: the first job's tombstone makes `needed` false, the result is
not kept (line 141), and in push mode the second promise times out.
`DeadlineDecides` states what does hold: a result is never lost to a job that
was waiting, nor to the only promise of its execution.

`messages_reply_timeout` violates `ReplyProgress`. The repository's own model
states `obligationProgress`, that an obligation leads to its reply's completion
(`core/quint/invocation/messageReply.qnt:90`), and a comment says that return addresses
are retained "until accepted delivery discharges their obligations"
(`core/src/runtime/messages.ts:12`). The retries run inside one attempt
of the act (`execution.ts:399`), and the runtime ends an attempt after 60
seconds by default (`execution.ts:1010`). The rejection that this records
produces no event (`messages.ts:46`), so the obligation stays, and its
act, already decided, is never proposed again: a caller that was unreachable
for a minute never hears the result. With `AttemptsBounded = FALSE` the property
holds.

A smaller observation, without consequences for recovery: after a defect, the
retained input of a reply that died or was cancelled is never removed
(`execution.ts` `inputChanges` excludes replies); `InputsExact` states this
exactly.

An observation that came out of proving `NoLeakedJob`, outside the runs because it needs
three operations. A model of the repository states that a job its producer created has
its handle recorded, and names the dropped late handle as the mistake to avoid
(`core/quint/operationRecovery.qnt:58`, `:64`). The code keeps that
promise against a cancellation of the job's own operation, but not against the defect of
another: once an act of the thread has died, `append` drops the handle of
a submission under way (`core/src/runtime/replay.ts:833`), since that is no cleanup
submission. If the operation is then cancelled while a third one still owes
cleanup, so that the drain still runs cleanups, its own cleanup is acknowledged and knows of
no job to withdraw. `NoLeakedJob` excepts exactly this: a defect, and no handle recorded.

Another, seen while modelling `Turns` and outside its runs: when all a turn did
before a resume was to fail, `trajectoryOf` (`code/src/execution/turns.ts:118`)
places its message before the first event of the new epoch, and the incremental
`trajectoryFrom` (`turn-projection.ts:104`, `:148`) before the abandoned
failure. The test that compares the two (`turn-projection.test.ts:19`) generates
epoch 0 only. `ProjectionExact` compares the trajectories in every epoch, with the
place of such a message left open.

## 5. Proofs

Every theorem holds for all values of the constants that satisfy the named
assumption of its module (bounds are natural numbers, sets are arbitrary), and the
run of its module shows the same property on the instance of section 3. The
bounds on faults, restarts and positions are constants too, so "any number of
crashes" is part of the statement.

| Module | Theorem | Property |
|---|---|---|
| `SchedulerProofs` | `TypeCorrect` | |
| | `WakesAreKept` | `NoLostWake` |
| | `AlarmsCoverWakes` | `AlarmCovers` |
| `WatchdogProofs` | `RecoveriesAreBounded` | `BoundedRecoveries` |
| | `InvalidationIsFenced` | `InvalidationFenced` |
| | `AdmissionsAreKept` | `NoForgottenAdmission`, of steps |
| | `BlockingIsOwn` | `BlockedByOwnBudget`, of steps |
| `PromiseResolverProofs` | `AnsweredOnce` | `OneAnswer` |
| | `StoredTimesAreCovered` | `AlarmCovers` |
| | `CancelledStays` | `CancelHolds` |
| | `DeadlinesDecide` | `DeadlineDecides` |
| `ExecutionProofs` | `ExecutionIsConsistent` | the invariant `ExecutionInv` |
| | `CleanupIsOwned` | `CleanupOwned` |
| | `NoJobLeaks` | `NoLeakedJob` |
| | `WakeupsAreKept` | `NoLostWakeup` |
| | `RecoveryIsHonest` | `HonestRecovery` |
| | `ObjectsAreSound` | `ObjectsSound`, of `DurableObjects` |
| `MessagesProofs` | `MessagesAreConsistent` | the invariant `MessagesInv` |
| | `AdmissionIsIdempotent` | `AdmittedOnce` |
| | `RepliesAreFaithful` | `ReplyFaithful` |
| | `AdmittedAreAcknowledged` | `AdmittedIsAcknowledged`, of steps |
| `EventLogProofs` | `LogIsConsistent` | the invariant `LogInv` |
| | `ReplayIsExact` | `ReplayEquivalent` |
| | `LogImplementsTable` | `LifecycleOfLog`, the refinement |
| | `HistoryIsKept` | the invariant `LogHistory` |
| | `LookupIsExact` | `LookupAgrees` |
| | `InputsAreExact` | `InputsExact` |
| | `DecisionsAreTold` | `DecidedOnce` |
| | `ViewsAreFixed` | `ViewsFixed`, of `Views` |
| `HostProofs` | `RuntimesAreSound` | `RuntimesSound` |
| | `DirectoryIsSound` | `DirectoryAgrees` |
| | `TablesAreExact` | `TablesExact`, of `SqlJournal` |
| `CallGraphProofs` | `CancellationIsSound` | `CancellationSound`, of states and of steps |
| | `OwedIsKept` | `NothingOwed` |

None of these properties is inductive. What each needs beside itself:

- **Scheduler.** The acknowledgement of a delivery deletes an entry by comparing
  generations, so one needs that stored, listed and claimed generations never
  exceed the counter (a replacement is then newer than anything in the handler's
  hands), that one entry is claimed at a time, and that a wake reported as
  delivered is no longer owed (`GenerationFence`). For the alarm the work is in
  `Earliest`, whose `CHOOSE` needs a lemma (a nonempty set of delays has a least
  element), and in `Tick`, where alarm and wakes move together.
- **Watchdog.** `SupervisionInv` relates each copy of an entry to the entry: what
  the run holds or has listed is not newer, an attempt under way keeps its entry,
  a charged entry has paid for one recovery more than ran, the cleanup lock is
  held by at most one attempt, which is of the current budget. The waits of entries are left
  untyped: they come from `retryDelay`, an exponential about which the provers
  know nothing, and no safety property depends on them.
- **PromiseResolver.** `CoverInv` says that only a run that has just begun may
  have spent the alarm; `AnswerInv` that what the thread was told is the stored
  settlement, and that the answer in the handler's hands is that settlement, or
  its promise was cancelled meanwhile. `DeadlineInv` says what each outcome tells
  of its deadline (`Fits`) wherever it is kept: in a job, a buffer, the handler's
  hands or the thread; that a result promised to a promise yet to be watched is still in the buffer
  and will be found in time (`Waits`); and that promises of one clock agree on
  its time, without which a run for one could settle the other early. The mode of
  a promise is a variable, chosen once, so that the theorem covers every
  mixture of pushed and polled promises of one execution.
- **Execution.** `ExecutionInv` says, part by part, how an operation's records
  and handles agree (`RecordInv`), that cleanup fibres mirror the cleanups that
  are owed (`FibreInv`), what the drain may assume of its claim after each
  interleaving (`WorkInv`), where a submitted job is until its handle is recorded
  (`JobInv`), what a drain about to sleep has seen (`WakeInv`), and who works on a local
  promise (`OrphanInv`). The proof goes by the records of `Lifecycle` first
  (how the table may evolve) and by the actions then.
- **DurableObjects.** An alarm is lost when it fires, so what keeps work covered is what
  a pass leaves behind: once armed, it has an alarm within the recovery delay whatever
  becomes of it (`AlarmInv`), and it may move that alarm only if nothing was admitted
  since it began, to a place where its work needs it (`SynchronizeLeaves`). For that
  the work must be in storage before it is answered for (`AckInv`). A waiter counts on
  the version: whoever came after the pass began has changed it (`NextInv`), so that pass
  leaves the alarm due. Behind this stands an account of who may be told
  what: an admission under way still has the caller and the records it stands for, though
  the caller may have been evicted and have come again (`AdmissionInv`, `WaitInv`), and
  a client names the thread reserved for its own request (`ClientInv`). `DirectoryInv`
  orders reservation, creation, registration and service. `ObjectsAssumption` says that
  the delays are naturals and that the names of actor, threads, clients and
  the kinds of admission are told apart.
- **Messages.** `OriginInv` says that whatever is on its way or in a journal is
  a call of the scenario or the reply of an accepted act, and a discharged
  obligation has its reply in the caller's journal. `RepliesAreFaithful` has the
  hypothesis `OwnIdentities`: no caller uses, for a call of its own, the identity
  a reply is given. The code does not enforce it (an identity is any non-empty
  string, `core/src/services/invocation.ts:9`) and `receive` tells messages
  apart by nothing else; every scenario of the run satisfies it, reused
  identities included. The other theorems do not need it.
- **EventLog.** `LogInv` says that an engine mirrors the journal: its frame holds
  the operations the journal records as unfinished, exactly as recorded, and of
  the complete ones only those it is about to release. It says so of the running
  engine and of the engines that replay would seed at the start and at the
  checkpoint, which makes it inductive: an accepted record extends the journal
  and the three frames alike. That commit lost its acknowledgement, or did not
  happen, changes the running engine or the journal alone; the latch (`failed`)
  frees the invariant of the running engine until it is made anew.
- **Lifecycle.** The refinement is a step simulation with `TableOf(journal)` as the
  mapping; a checkpoint, a crash and a refused record are stutters. `LookupAgrees`
  needs that a folded operation remembers which records it was folded from
  (`HistoryInv`), `InputsExact` needs which requests may be without an input
  before the engine's next record tells (`InputInv`), and `DecidedOnce` that the frame
  the follow-ups are computed from holds the very operation the journal then records
  (`CallInv`).
- **Views.** `ViewsInv` says where a view reads what it read when it was made. Storage
  only grows (`StorageGrows`): an append that writes in place comes from a view that
  reads all of its array, so nothing another view reads is written. That a map has
  a key once is needed for the update that replaces an entry in a copy.
- **ThreadHost.** A runtime that is open or opening is the one the map holds; one
  that is closing has the invalidation holding the lock, and the map is
  empty; after `close` no caller holds the lock (`OwnerInv`, `CloseInv`).
  `HostAssumption` says that the two markers of the lock are not callers.
- **Supervisor.** Two runtimes can be on one directory, so `DirectoryInv` speaks
  of views that are behind: the directory a runtime folds from its prefix of the
  log grows into the current one (`Grows`: threads, allocations and registrations
  stay), and what it decided is valid in its own view. Its append finds its
  view current or fails. What a provisioning call told a runtime remains so because a
  store keeps its thread (`StoreFits`, `ProvisionFits`); a caller waits for, or was
  given, the thread it asked for (`CallerFits`), and the runtime committing a
  caller's request is the one it waits in (`Serves`). No assumption on requests,
  names or depths is needed.
- **SqlJournal.** A connection past its setup finds the invocation index complete, and a
  read has found what its own version files up to the position it has come to
  (`ConnectionFits`); `PageOf` says that a page, the first rows that fit, leaves nothing
  out before its last, so the read goes on from there although another version may
  rebuild the index between two pages. That a request is open until it is settled needs that a
  settlement is of a record before it (`HistoryFits`); that the migration pins all the manifest refers to,
  that the older schema refers to rows without a version at one position (`Unmigrated`).
  A checkpoint pins its rows, and a later snapshot can replace a pinned row only by the same
  state (`ActorCheckpoint`, `AtomCheckpoint`). `JournalAssumption` says that a batch
  covers a record and that no process runs the version that stands for none.
- **CallGraph.** A settlement decides from its thread's log as it read it (`mark`),
  and events land while it carries the decision out. `CancellationInv` says of each
  transition and effect in its hands what it may assume of that beginning of the
  log (`Follows`): work is of a running invocation nobody had asked to cancel, a report
  of cancellation is of a running one with no open call. A log is extended only by what then
  remains true of it (`Clean`): a completion may be appended after a cancellation, but
  the invocation still runs then (`Heard`), since nothing but the settlement itself
  reports its end, and a report is appended only to the log it was read from. That no
  completion of a stopped invocation comes up is said of steps: each action is shown to add to
  a log only the completions its thread had read back, and to read one back only when
  nobody has asked since the snapshot (`Steady`, `ReadBackKeeps`), and a pass that begins
  later finds the invocation suppressed. What is owed needs an
  account of every transition a log enables (`DebtInv`): its thread is marked, or is
  settled by a pass that read this very log and has the transition ahead (`Carries`),
  or the transition waits for another thread (`Rests`). A pass therefore ends at rest
  or marked; that its timer stands at the earliest deadline is kept with it
  (`TimerFits`). At rest, with no deadline ahead, a running invocation would be one
  nobody asked to cancel, whose repair is enabled, or one whose calls are all settled
  or due (`AllEnded`); and an invocation that ended left no call open, because a completion
  heard of every call and only running work plans one (`NothingOpen`, from `Clean`).
  `CallGraphAssumption` says that the calls are finitely many, `Kids` lists calls
  that name their parent, and times are naturals.

`recordedOperation`, `EngineAppendAll`, `Directory` and `Only` (`CallGraph`) are recursive
functions over a log. The induction theorems of the library take operators as
parameters, which the provers cannot instantiate; the induction is done in set form
instead, on the set of lengths at which the statement holds, from the
well-foundedness of `<` (`Induction` in `EventLogProofs`; the same in `HostProofs` and
`CallGraphProofs`).

The proofs corrected the models in seven places, where TLC's instances had
agreed with a formula that was wrong beyond them: the conditions of the resolver's
`Sweep` stood under the quantifier over promises, so that with no promises buffers and
receipts did not count; `recoveryState`, `followups` and `Returns` had overlapping `CASE`
guards, of which TLC takes the first but TLA+ any; `NoLeakedJob` does not hold when a
third operation's defect drops a handle (section 4); and in `CallGraph` and `DurableObjects`
a long enough delay could be the value that stands for no deadline.

Model-checked only:

- all liveness (`SupervisionEnds`, `Resolved`, `WakeDelivered`, `ObjectsSettle`,
  `CancellationsEnd`, `OperationsEnd`), which is out of the prover's reach;
- the invariants of the parts that are folds over a sequence and whose proofs would
  need an induction like `EventLog`'s each: `AgentSound`, `ReadsExact`,
  `ProjectionExact`, `AttemptsSound`, `NoTurnStranded`. They filter their
  sequences with `SelectSeq`, of which the library states no theorem.

## 6. Plan

1. `Pages` and `Atoms`, whose folds are short.
2. A wake registry (scheduled, then delivered or withdrawn) as an abstract
   specification that `Scheduler` implements, with the refinement proved.

## 7. Not modelled

Of atoms, the incremental validator, the actor graph and the reducers; schemas, encoding and chunking of
records; HTTP, streaming, backup and observation (they move data the models
already hold); workspaces and isolates, which run code and keep files outside
the durable core; the client, model and store packages and the apps, whose
state is at services outside the repository or is that of the core; promise
polling inside a Bun process, of which `Execution` keeps only that an
answer may come at any time. Within the modelled parts, what section 2 lists as
left out. Wall-clock adjustments are not modelled: time moves forward at one
rate for all timers of a host.
