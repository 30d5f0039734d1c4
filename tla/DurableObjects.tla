--------------------------- MODULE DurableObjects ---------------------------
(***************************************************************************)
(* The objects of the older Cloudflare host (platform/cloudflare/src): one *)
(* actor object, which allocates and registers threads, and one object per *)
(* thread, which takes deliveries and runs the thread.  Each has one       *)
(* durable alarm, kept by an AlarmScheduler: an admission stages its work, *)
(* sets the alarm to now and only then answers; a pass, started by the     *)
(* alarm, works and puts the alarm where the remaining work needs it.      *)
(*                                                                         *)
(* Admissions of one object, and a pass at its two ends, exclude each      *)
(* other (serialize); the work of a pass excludes nothing, and calls the   *)
(* other objects: a thread asks its actor to have it registered, which     *)
(* waits for a pass of the actor, which calls the thread.                  *)
(*                                                                         *)
(* Times are what is left of them.  A scheduler's version is only ever     *)
(* compared with the one a pass began with, so the model keeps the result  *)
(* of the comparison (`admitted', and for a waiter whether the pass under  *)
(* way covers it).  The log of a thread is its creation and a set of       *)
(* items; what a served item makes the thread do is not modelled.          *)
(***************************************************************************)
EXTENDS Naturals, FiniteSets

CONSTANTS
    Threads,         \* thread names
    Wants,           \* client -> the allocation it asks for: [name, parent]
    Anyone,          \* the name in a request whose thread is generated
    Root,            \* the parent of a root thread
    Messages,        \* messages clients deliver
    Timed,           \* those that call a method with a deadline
    RecoveryDelay,   \* recoveryDelayMillis
    Deadline,        \* the timeout of a timed message
    MaxObjectFaults  \* bound on failed storage calls, lost answers, failed effects and evictions

VARIABLES
    directory,     \* durable, actor: thread -> the request it was reserved for, or Free
    registered,    \* durable, actor: threads with a ThreadRegistered record
    lineage,       \* durable, thread: parent in its ThreadCreated record, or Uncreated
    ready,         \* durable, thread: threads whose threadReady flag is set
    items,         \* durable, thread: messages and deadline cancellations in the log
    served,        \* durable, thread: items the reconciler has settled
    left,          \* durable, thread: time left for each open timed message
    alarm,         \* durable: object -> time left, or Unset
    admission,     \* object -> the admission that holds serialize, or Idle
    admitted,      \* object -> version is not the one the pass began with
    pass,          \* object -> where its alarm pass is, or Idle
    marked,        \* thread -> the driver owes it a settlement
    seen,          \* thread -> the items the settlement under way has read
    waiting,       \* caller -> its place among the waiters of the actor
    clients,       \* client -> its allocation
    acked,         \* history: reservations and deliveries that were answered
    objectFaults   \* faults so far

objectVars == <<directory, registered, lineage, ready, items, served, left, alarm, admission, admitted, pass,
          marked, seen, waiting, clients, acked, objectFaults>>
stored == <<directory, registered, lineage, ready, items, served, left>>

Clients == DOMAIN Wants
Objects == {"actor"} \cup Threads
Free == [name |-> "free", parent |-> "free"]
Uncreated == "uncreated"
Unset == RecoveryDelay + Deadline + 2     \* later than every time
Closed == RecoveryDelay + Deadline + 1    \* no deadline, or one that is decided
Idling == [step |-> "idle"]

Times == 0 .. (IF Deadline > RecoveryDelay THEN Deadline ELSE RecoveryDelay)
Items == ({"message"} \X Messages) \cup ({"cancelled"} \X Timed)
Callers == Clients \cup Threads
Requested == {t \in Threads : directory[t] # Free} \ registered

\* Delays are whole numbers; actor, threads and clients, and messages and the kinds of
\* admission, are told apart; a request is no free name.
ASSUME ObjectsAssumption ==
    /\ RecoveryDelay \in Nat /\ Deadline \in Nat
    /\ "actor" \notin Threads /\ Clients \cap Threads = {}
    /\ Timed \subseteq Messages /\ Messages \cap {"reserve", "wake", "commit"} = {}
    /\ Uncreated \notin Threads \cup {Root}
    /\ \A c \in Clients : Wants[c] \in [name : Threads \cup {Anyone}, parent : Threads \cup {Root}] \ {Free}

ObjectsTypeOK ==
    /\ directory \in [Threads -> {Wants[c] : c \in Clients} \cup {Free}]
    /\ registered \subseteq Threads /\ ready \subseteq Threads
    /\ lineage \in [Threads -> Threads \cup {Root, Uncreated}]
    /\ items \in [Threads -> SUBSET Items] /\ served \in [Threads -> SUBSET Items]
    /\ left \in [Threads -> [Timed -> Times \cup {Closed}]]
    /\ alarm \in [Objects -> Times \cup {Unset}]
    /\ admitted \in [Objects -> BOOLEAN]
    /\ marked \in [Threads -> BOOLEAN] /\ seen \in [Threads -> SUBSET Items]
    /\ waiting \in [Callers -> {"no", "next", "covered"}]
    /\ objectFaults \in 0 .. MaxObjectFaults

ObjectsInit ==
    /\ directory = [t \in Threads |-> Free]
    /\ registered = {} /\ ready = {}
    /\ lineage = [t \in Threads |-> Uncreated]
    /\ items = [t \in Threads |-> {}] /\ served = items /\ seen = items
    /\ left = [t \in Threads |-> [m \in Timed |-> Closed]]
    /\ alarm = [o \in Objects |-> Unset]
    /\ admission = [o \in Objects |-> Idling] /\ pass = admission
    /\ admitted = [o \in Objects |-> FALSE]
    /\ marked = [t \in Threads |-> FALSE]
    /\ waiting = [x \in Callers |-> "no"]
    /\ clients = [c \in Clients |-> [step |-> "idle", thread |-> Root]]
    /\ acked = {}
    /\ objectFaults = 0

Fault == objectFaults < MaxObjectFaults /\ objectFaults' = objectFaults + 1

-----------------------------------------------------------------------------
(* AlarmScheduler.admit.  The first step has run `stage' and holds         *)
(* serialize; the second sets the alarm, syncs, counts the version and     *)
(* answers.  A failed second step leaves what was staged, with or without  *)
(* the alarm.                                                              *)

\* The caller takes serialize of o with a stage that succeeded.
Admitting(o, what, who) ==
    /\ admission[o] = Idling
    /\ admission' = [admission EXCEPT ![o] = [step |-> "staged", what |-> what, who |-> who]]

\* The caller of wakeAndWait is still there.
Asking(x) == x \in Clients \/ pass[x].step = "asking"

\* What the answer does to the caller of an admission a, when it still waits for it.
Told(a, ok) ==
    \/ /\ a.what = "reserve"
       /\ clients' = IF clients[a.who].step # "reserving" THEN clients
                     ELSE [clients EXCEPT ![a.who].step = IF ok THEN "reserved" ELSE "failed"]
       /\ acked' = IF ok /\ clients[a.who].step = "reserving" THEN acked \cup {<<"actor", clients[a.who].thread>>} ELSE acked
       /\ UNCHANGED <<waiting, pass>>
    \/ /\ a.what = "wake"
       /\ waiting' = IF ok /\ Asking(a.who) THEN [waiting EXCEPT ![a.who] = "next"] ELSE waiting
       /\ clients' = IF ok \/ a.who \notin Clients THEN clients ELSE [clients EXCEPT ![a.who].step = "failed"]
       /\ pass' = IF ok \/ a.who \notin Threads \/ ~Asking(a.who) THEN pass ELSE [pass EXCEPT ![a.who] = [step |-> "failed"]]
       /\ UNCHANGED acked
    \/ /\ a.what = "commit"
       /\ pass' = IF pass["actor"] # [step |-> "committing", thread |-> a.who] THEN pass
                  ELSE [pass EXCEPT !["actor"] = IF ok THEN [step |-> "committed", thread |-> a.who] ELSE [step |-> "failed"]]
       /\ UNCHANGED <<clients, acked, waiting>>
    \/ /\ a.what \in Messages
       /\ acked' = IF ok THEN acked \cup {<<a.who, a.what>>} ELSE acked
       /\ UNCHANGED <<clients, waiting, pass>>

\* Faulty variant of Publish: the answer does not wait for the alarm.
PublishUnarmed(o) ==
    /\ admission[o] # Idling
    /\ admitted' = [admitted EXCEPT ![o] = TRUE]
    /\ Told(admission[o], TRUE)
    /\ admission' = [admission EXCEPT ![o] = Idling]
    /\ UNCHANGED <<stored, alarm, marked, seen, objectFaults>>
Publish(o) ==
    /\ admission[o] # Idling
    /\ alarm' = [alarm EXCEPT ![o] = 0]
    /\ admitted' = [admitted EXCEPT ![o] = TRUE]
    /\ Told(admission[o], TRUE)
    /\ admission' = [admission EXCEPT ![o] = Idling]
    /\ UNCHANGED <<stored, marked, seen, objectFaults>>

AdmissionFails(o) ==
    /\ admission[o] # Idling
    /\ Fault
    /\ \E set \in BOOLEAN : alarm' = IF set THEN [alarm EXCEPT ![o] = 0] ELSE alarm
    /\ Told(admission[o], FALSE)
    /\ admission' = [admission EXCEPT ![o] = Idling]
    /\ UNCHANGED <<stored, admitted, marked, seen>>

-----------------------------------------------------------------------------
(* Allocation: hostThreadAllocator over the actor's directory *)

\* complete: a child needs a parent that was created; one that is requested is waited for.
\* finish: a registered thread is the answer, another waits for a pass of the actor.
\* In both cases the wait is wakeAndWait, an admission that stages nothing.
Awaited(c) == IF clients[c].step = "idle" THEN Wants[c].parent ELSE clients[c].thread

Wait(c) ==
    /\ \/ clients[c].step = "idle" /\ Wants[c].parent \in Requested
       \/ clients[c].step = "reserved" /\ clients[c].thread \notin registered
    /\ Admitting("actor", "wake", c)
    /\ clients' = [clients EXCEPT ![c] = [step |-> IF @.step = "idle" THEN "forParent" ELSE "forThread", thread |-> Awaited(c)]]
    /\ UNCHANGED <<stored, alarm, admitted, pass, marked, seen, waiting, acked, objectFaults>>

FinishAllocation(c) ==
    /\ clients[c].step = "reserved" /\ clients[c].thread \in registered
    /\ clients' = [clients EXCEPT ![c].step = "answered"]
    /\ UNCHANGED <<stored, alarm, admission, admitted, pass, marked, seen, waiting, acked, objectFaults>>

\* registeredThreadAllocator and claim, one transaction inside an admission: the thread of
\* the same request, else the requested name, or a generated one, if it is free.
Assigned(want) == {t \in Threads : directory[t] = want}
\* Faulty variant of Candidates: a name that another request has is given out again.
CandidatesTaken(want) ==
    IF Assigned(want) # {} THEN Assigned(want)
    ELSE {t \in Threads : t # want.parent /\ want.name \in {t, Anyone}}
Candidates(want) ==
    IF Assigned(want) # {} THEN Assigned(want)
    ELSE {t \in Threads : directory[t] = Free /\ t # want.parent /\ want.name \in {t, Anyone}}

ParentCreated(c) == Wants[c].parent # Root => Wants[c].parent \in registered /\ lineage[Wants[c].parent] # Uncreated

reserveThread(c) ==
    /\ clients[c].step = "idle"
    /\ ParentCreated(c)
    /\ \E t \in Candidates(Wants[c]) :
          /\ directory' = [directory EXCEPT ![t] = Wants[c]]
          /\ clients' = [clients EXCEPT ![c] = [step |-> "reserving", thread |-> t]]
    /\ Admitting("actor", "reserve", c)
    /\ UNCHANGED <<registered, lineage, ready, items, served, left, alarm, admitted, pass, marked, seen, waiting, acked, objectFaults>>

\* The name is taken: the stage throws, and nothing is admitted.
Refuse(c) ==
    /\ clients[c].step = "idle" /\ admission["actor"] = Idling
    /\ ParentCreated(c)
    /\ Candidates(Wants[c]) = {}
    /\ clients' = [clients EXCEPT ![c].step = "refused"]
    /\ UNCHANGED <<stored, alarm, admission, admitted, pass, marked, seen, waiting, acked, objectFaults>>

\* A client that was told of a failure asks again.
Again(c) ==
    /\ clients[c].step = "failed"
    /\ clients' = [clients EXCEPT ![c] = [step |-> "idle", thread |-> Root]]
    /\ UNCHANGED <<stored, alarm, admission, admitted, pass, marked, seen, waiting, acked, objectFaults>>

-----------------------------------------------------------------------------
(* Deliveries to a thread: accept, stage (commitDelivery) *)

\* The record of creation must be there and the thread be ready; a message that is in the
\* log is staged without effect; a new one marks the driver.
deliver(t, m) ==
    /\ lineage[t] # Uncreated
    /\ t \in ready \cup registered
    /\ <<t, m>> \notin acked
    /\ Admitting(t, m, t)
    /\ ready' = ready \cup {t}
    /\ items' = [items EXCEPT ![t] = @ \cup {<<"message", m>>}]
    /\ marked' = IF <<"message", m>> \in items[t] THEN marked ELSE [marked EXCEPT ![t] = TRUE]
    /\ left' = IF m \in Timed /\ <<"message", m>> \notin items[t] THEN [left EXCEPT ![t][m] = Deadline] ELSE left
    /\ UNCHANGED <<directory, registered, lineage, served, alarm, admitted, pass, seen, waiting, clients, acked, objectFaults>>

-----------------------------------------------------------------------------
(* The pass: AlarmScheduler.run *)

PassAt(o, s) == pass[o].step = s
Go(o, s) == pass' = [pass EXCEPT ![o] = [step |-> s]]

\* The platform fires a due alarm, one handler at a time, and forgets it.
Fire(o) ==
    /\ PassAt(o, "idle") /\ alarm[o] = 0
    /\ alarm' = [alarm EXCEPT ![o] = Unset]
    /\ Go(o, "fired")
    /\ UNCHANGED <<stored, admission, admitted, marked, seen, waiting, clients, acked, objectFaults>>

\* armAt
armAt(due) == IF due = Unset \/ due = 0 \/ due > RecoveryDelay THEN RecoveryDelay ELSE due

\* The pass notes the version and leaves an alarm behind for the case that it dies.
Covering == IF pass["actor"].step = "fired" THEN [x \in Callers |-> IF waiting[x] = "next" THEN "covered" ELSE waiting[x]] ELSE waiting
\* Faulty variant of Arm: the pass leaves no alarm behind.
ArmNothing(o) ==
    /\ PassAt(o, "fired") /\ admission[o] = Idling
    /\ admitted' = [admitted EXCEPT ![o] = FALSE]
    /\ waiting' = IF o = "actor" THEN Covering ELSE waiting
    /\ Go(o, "armed")
    /\ UNCHANGED <<stored, alarm, admission, marked, seen, clients, acked, objectFaults>>
Arm(o) ==
    /\ PassAt(o, "fired") /\ admission[o] = Idling
    /\ admitted' = [admitted EXCEPT ![o] = FALSE]
    /\ waiting' = IF o = "actor" THEN Covering ELSE waiting
    /\ alarm' = [alarm EXCEPT ![o] = armAt(@)]
    /\ Go(o, "armed")
    /\ UNCHANGED <<stored, admission, marked, seen, clients, acked, objectFaults>>

\* scheduledAlarmAt: nothing to do but a deadline, or work whose recovery must not wait.
scheduledAlarmAt(current, resting, wakeAt) ==
    IF resting THEN wakeAt
    ELSE LET target == IF wakeAt < RecoveryDelay THEN wakeAt ELSE RecoveryDelay
         IN  IF current # Unset /\ current > 0 /\ current <= target THEN current ELSE target

\* earliestDeadlineOf over the open timed messages of the log
Open(t) == {m \in Timed : left[t][m] # Closed}
nextAlarmDeadline(t) ==
    IF Open(t) = {} THEN Unset
    ELSE CHOOSE d \in Times : /\ \E m \in Open(t) : left[t][m] = d
                              /\ \A m \in Open(t) : d <= left[t][m]

Needed(o) ==
    IF o = "actor" THEN scheduledAlarmAt(alarm[o], Requested = {}, Unset)
    ELSE scheduledAlarmAt(alarm[o], ~marked[o] /\ items[o] \subseteq served[o], nextAlarmDeadline(o))

\* What becomes of a caller whose wait of the actor ends.
Heard(x, ok) ==
    IF x \in Threads THEN [step |-> IF ok /\ x \in registered THEN "ready" ELSE "failed"]
    ELSE LET c == clients[x]
         IN  IF ~ok \/ c.thread \notin registered THEN [c EXCEPT !.step = "failed"]
             ELSE IF c.step = "forParent" THEN [step |-> "idle", thread |-> Root]
             ELSE [c EXCEPT !.step = "answered"]

\* The end of a pass of o: next is what its alarm becomes; the covered waiters are told.
End(o, ok, next) ==
    /\ alarm' = [alarm EXCEPT ![o] = next]
    /\ LET told == IF o = "actor" THEN {x \in Callers : waiting[x] = "covered"} ELSE {}
       IN  /\ waiting' = [x \in Callers |-> IF x \in told THEN "no" ELSE waiting[x]]
           /\ clients' = [c \in Clients |-> IF c \in told THEN Heard(c, ok) ELSE clients[c]]
           /\ pass' = [x \in Objects |-> IF x = o THEN Idling ELSE IF x \in told THEN Heard(x, ok) ELSE pass[x]]

\* Faulty variant of Synchronize: the alarm is set although work was admitted during the pass.
SynchronizeAnyway(o) ==
    /\ PassAt(o, "worked") /\ admission[o] = Idling
    /\ End(o, TRUE, Needed(o))
    /\ UNCHANGED <<stored, admission, admitted, marked, seen, acked, objectFaults>>
Synchronize(o) ==
    /\ PassAt(o, "worked") /\ admission[o] = Idling
    /\ End(o, TRUE, IF admitted[o] THEN alarm[o] ELSE Needed(o))
    /\ UNCHANGED <<stored, admission, admitted, marked, seen, acked, objectFaults>>

\* A pass that throws.  The platform runs the handler again unless it set an alarm.
Fail(o) ==
    /\ PassAt(o, "failed")
    /\ End(o, FALSE, IF alarm[o] = Unset THEN 0 ELSE alarm[o])
    /\ UNCHANGED <<stored, admission, admitted, marked, seen, acked, objectFaults>>

\* A storage call, a remote call or an effect of the pass fails.
Break(o) ==
    /\ pass[o].step \in {"fired", "armed", "created", "committing", "committed", "ready", "serving", "worked"}
    /\ Fault
    /\ Go(o, "failed")
    /\ marked' = IF PassAt(o, "serving") THEN [marked EXCEPT ![o] = TRUE] ELSE marked
    /\ seen' = IF PassAt(o, "serving") THEN [seen EXCEPT ![o] = {}] ELSE seen
    /\ waiting' = IF o = "actor" THEN Covering ELSE waiting
    /\ UNCHANGED <<stored, alarm, admission, admitted, clients, acked>>

-----------------------------------------------------------------------------
(* The work of the actor's pass: the supervisor's effect for each request *)

\* create: init and provision of the thread, an append at head 0 outside its scheduler.
create(t) ==
    /\ PassAt("actor", "armed") /\ t \in Requested
    /\ lineage' = [lineage EXCEPT ![t] = IF @ = Uncreated THEN directory[t].parent ELSE @]
    /\ marked' = IF lineage[t] = Uncreated THEN [marked EXCEPT ![t] = TRUE] ELSE marked
    /\ pass' = [pass EXCEPT !["actor"] = [step |-> "created", thread |-> t]]
    /\ UNCHANGED <<directory, registered, ready, items, served, left, alarm, admission, admitted, seen, waiting, clients, acked, objectFaults>>

\* register: commitCreation, an admission of the thread that makes it ready.
commitCreation(t) ==
    /\ pass["actor"] = [step |-> "created", thread |-> t]
    /\ Admitting(t, "commit", t)
    /\ ready' = ready \cup {t}
    /\ pass' = [pass EXCEPT !["actor"].step = "committing"]
    /\ UNCHANGED <<directory, registered, lineage, items, served, left, alarm, admitted, marked, seen, waiting, clients, acked, objectFaults>>

ThreadRegistered(t) ==
    /\ pass["actor"] = [step |-> "committed", thread |-> t]
    /\ registered' = registered \cup {t}
    /\ Go("actor", "armed")
    /\ UNCHANGED <<directory, lineage, ready, items, served, left, alarm, admission, admitted, marked, seen, waiting, clients, acked, objectFaults>>

Reconciled ==
    /\ PassAt("actor", "armed") /\ Requested = {}
    /\ Go("actor", "worked")
    /\ UNCHANGED <<stored, alarm, admission, admitted, marked, seen, waiting, clients, acked, objectFaults>>

-----------------------------------------------------------------------------
(* The work of a thread's pass *)

\* ensureThreadReady: the actor answers for a registered thread, and otherwise waits for a
\* pass of its own.
ensureThreadReady(t) ==
    /\ PassAt(t, "armed")
    /\ \/ /\ t \in registered
          /\ Go(t, "ready")
          /\ UNCHANGED admission
       \/ /\ t \in Requested
          /\ Admitting("actor", "wake", t)
          /\ Go(t, "asking")
    /\ UNCHANGED <<stored, alarm, admitted, marked, seen, waiting, clients, acked, objectFaults>>

\* recordAlarm: one append of the alarm with the cancellation of every crossed deadline;
\* recover marks the thread.
recordAlarm(t) ==
    /\ PassAt(t, "ready")
    /\ LET crossed == {m \in Timed : left[t][m] = 0}
       IN  /\ items' = [items EXCEPT ![t] = @ \cup {<<"cancelled", m>> : m \in crossed}]
           /\ left' = [left EXCEPT ![t] = [m \in Timed |-> IF m \in crossed THEN Closed ELSE @[m]]]
    /\ marked' = [marked EXCEPT ![t] = TRUE]
    /\ Go(t, "driving")
    /\ UNCHANGED <<directory, registered, lineage, ready, served, alarm, admission, admitted, seen, waiting, clients, acked, objectFaults>>

\* The driver settles the thread as often as it is marked meanwhile.
Serve(t) ==
    /\ PassAt(t, "driving") /\ marked[t]
    /\ marked' = [marked EXCEPT ![t] = FALSE]
    /\ seen' = [seen EXCEPT ![t] = items[t]]
    /\ Go(t, "serving")
    /\ UNCHANGED <<stored, alarm, admission, admitted, waiting, clients, acked, objectFaults>>

\* A timed call may have been answered by then; otherwise it stays open and is no work.
Served(t) ==
    /\ PassAt(t, "serving")
    /\ served' = [served EXCEPT ![t] = @ \cup seen[t]]
    /\ \E answered \in SUBSET {m \in Open(t) : <<"message", m>> \in seen[t]} :
          left' = [left EXCEPT ![t] = [m \in Timed |-> IF m \in answered THEN Closed ELSE @[m]]]
    /\ seen' = [seen EXCEPT ![t] = {}]
    /\ Go(t, "driving")
    /\ UNCHANGED <<directory, registered, lineage, ready, items, alarm, admission, admitted, marked, waiting, clients, acked, objectFaults>>

Drained(t) ==
    /\ PassAt(t, "driving") /\ ~marked[t]
    /\ Go(t, "worked")
    /\ UNCHANGED <<stored, alarm, admission, admitted, marked, seen, waiting, clients, acked, objectFaults>>

-----------------------------------------------------------------------------
(* The platform evicts an object: what is volatile is lost, the calls it   *)
(* was serving fail, a handler that ran is run again.                      *)

Evict(o) ==
    /\ Fault
    /\ alarm' = IF ~PassAt(o, "idle") /\ alarm[o] = Unset THEN [alarm EXCEPT ![o] = 0] ELSE alarm
    /\ admission' = [admission EXCEPT ![o] = Idling]
    /\ admitted' = [admitted EXCEPT ![o] = FALSE]
    /\ marked' = IF o = "actor" THEN marked ELSE [marked EXCEPT ![o] = FALSE]
    /\ seen' = IF o = "actor" THEN seen ELSE [seen EXCEPT ![o] = {}]
    /\ waiting' = IF o = "actor" THEN [x \in Callers |-> "no"] ELSE [waiting EXCEPT ![o] = "no"]
    /\ clients' = IF o # "actor" THEN clients
                  ELSE [c \in Clients |-> IF clients[c].step \in {"reserving", "reserved", "forParent", "forThread"}
                                          THEN [clients[c] EXCEPT !.step = "failed"] ELSE clients[c]]
    /\ pass' = [x \in Objects |->
                  IF x = o THEN Idling
                  ELSE IF (o = "actor" /\ pass[x].step = "asking") \/ pass[x] = [step |-> "committing", thread |-> o] THEN [step |-> "failed"]
                  ELSE pass[x]]
    /\ UNCHANGED <<stored, acked>>

Tick ==
    /\ \/ \E o \in Objects : alarm[o] \in Times \ {0}
       \/ \E t \in Threads, m \in Timed : left[t][m] \in Times \ {0}
    /\ alarm' = [o \in Objects |-> IF alarm[o] \in Times \ {0} THEN alarm[o] - 1 ELSE alarm[o]]
    /\ left' = [t \in Threads |-> [m \in Timed |-> IF left[t][m] \in Times \ {0} THEN left[t][m] - 1 ELSE left[t][m]]]
    /\ UNCHANGED <<directory, registered, lineage, ready, items, served, admission, admitted, pass, marked, seen, waiting, clients, acked, objectFaults>>

ObjectsNext ==
    \/ \E c \in Clients : reserveThread(c) \/ Refuse(c) \/ Wait(c) \/ FinishAllocation(c) \/ Again(c)
    \/ \E t \in Threads, m \in Messages : deliver(t, m)
    \/ \E o \in Objects : Publish(o) \/ AdmissionFails(o) \/ Fire(o) \/ Arm(o) \/ Synchronize(o) \/ Fail(o) \/ Break(o) \/ Evict(o)
    \/ \E t \in Threads : create(t) \/ commitCreation(t) \/ ThreadRegistered(t)
    \/ Reconciled
    \/ \E t \in Threads : ensureThreadReady(t) \/ recordAlarm(t) \/ Serve(t) \/ Served(t) \/ Drained(t)
    \/ Tick

ObjectsSpec == ObjectsInit /\ [][ObjectsNext]_objectVars

\* Handlers, admissions and remote calls go on, and a due alarm fires.
Work ==
    \/ \E c \in Clients : Wait(c) \/ FinishAllocation(c)
    \/ \E t \in Threads : create(t) \/ commitCreation(t) \/ ThreadRegistered(t)
    \/ Reconciled

ObjectsFairness ==
    /\ WF_objectVars(Tick) /\ WF_objectVars(Work)
    /\ \A o \in Objects : /\ WF_objectVars(Publish(o)) /\ WF_objectVars(Fire(o)) /\ WF_objectVars(Arm(o))
                          /\ WF_objectVars(Synchronize(o)) /\ WF_objectVars(Fail(o))
    /\ \A t \in Threads : WF_objectVars(ensureThreadReady(t) \/ recordAlarm(t) \/ Serve(t) \/ Served(t) \/ Drained(t))

ObjectsFairSpec == ObjectsSpec /\ ObjectsFairness
-----------------------------------------------------------------------------
(* Properties *)

\* An alarm within the recovery delay, or one that the platform has not seen handled.
Soon(o) == alarm[o] <= RecoveryDelay \/ pass[o].step \in {"fired", "failed"}

\* Work that was answered for has an alarm within the recovery delay until it is done,
\* whatever fails or is evicted meanwhile; a thread that only waits for a deadline has an
\* alarm for that (AlarmScheduler.admit, pass, synchronizeAlarm).
WorkCovered ==
    /\ \A t \in Threads : <<"actor", t>> \in acked /\ t \notin registered => Soon("actor")
    /\ \A t \in Threads, m \in Messages : <<t, m>> \in acked /\ <<"message", m>> \notin served[t] => Soon(t)
    /\ \A t \in Threads : \A m \in Open(t) : <<t, m>> \in acked => Soon(t) \/ alarm[t] <= left[t][m]

\* A caller that waits for the actor is told by the pass under way, or the alarm for the
\* next one is due: the actor and its threads never wait for each other
\* (AlarmScheduler.wakeAndWait).
WaitersCovered ==
    \A x \in Callers :
        /\ waiting[x] = "next" => alarm["actor"] = 0 \/ PassAt("actor", "fired")
        /\ waiting[x] = "covered" => pass["actor"].step \notin {"idle", "fired"}

\* A thread runs only when the directory has it registered, and then its creation record
\* has the parent it was reserved under; an answer names a thread registered for that
\* very request, so no two requests share one (ensureThreadReady, provision, claim).
AllocationSound ==
    /\ \A t \in Threads : served[t] # {} => t \in registered
    /\ \A t \in registered : lineage[t] = directory[t].parent
    /\ \A c \in Clients : clients[c].step = "answered" =>
          clients[c].thread \in registered /\ directory[clients[c].thread] = Wants[c]

\* A delivery that was answered is settled in the end, and a reservation registered,
\* although handlers fail and objects are evicted.
AcceptedSettles ==
    /\ \A t \in Threads : <<"actor", t>> \in acked ~> t \in registered
    /\ \A t \in Threads, m \in Messages : <<t, m>> \in acked ~> <<"message", m>> \in served[t]

ObjectsSound == WorkCovered /\ WaitersCovered /\ AllocationSound
=============================================================================
