----------------------------- MODULE ThreadHost -----------------------------
(***************************************************************************)
(* The runtimes a host keeps of one thread (core/src/runtime/actors.ts):   *)
(* open, invalidate, close, method calls that wait for their result over a *)
(* subscription, and the host that owns them (runtime/layers.ts, Bun's     *)
(* createBunHost, the Thread object of platform/src/cloudflare).           *)
(*                                                                         *)
(* open and invalidate of a coordinate take its lifecycle lock and hold it *)
(* until the runtime has opened or closed.  close takes no lock: it first  *)
(* interrupts the host's callers, then closes what the map holds.  What a  *)
(* runtime executes is the Execution module's; here it settles messages.   *)
(***************************************************************************)
EXTENDS Naturals, Sequences, FiniteSets

CONSTANTS
    Clients,         \* callers of a method, each with a message of its own
    Watchdog,        \* the watchdog's recovery, which only opens and resumes
    MaxThreadRuntimes,
    MaxThreadFaults  \* bound on restarts, invalidations, interrupts and closes

VARIABLES
    threadLog,     \* durable: creation, admitted and settled messages, version
    threadRts,     \* runtimes of the thread, in opening order
    threadsMap,    \* threads: the cached opening, 0 when absent
    liveThread,    \* liveThreads: the runtime projections read, 0 when absent
    lifecycle,     \* holder of the lifecycle lock, or Nobody
    clients,       \* caller -> step and the runtime it was given
    bound,         \* subscriptions: caller -> runtime its listener is on, 0 detached
    hostState,     \* open, closing or closed
    threadFaults

vars == <<threadLog, threadRts, threadsMap, liveThread, lifecycle, clients, bound, hostState, threadFaults>>

Nobody == "nobody"
Invalidator == "invalidator"
Everyone == Clients \cup {Watchdog}

\* The lock's holder is told apart from no holder and from an invalidation.
ASSUME HostAssumption == Nobody \notin Everyone /\ Invalidator \notin Everyone

Unclosed == {"opening", "live", "closing"}

Fault == threadFaults < MaxThreadFaults /\ threadFaults' = threadFaults + 1
SetRt(r, s) == [threadRts EXCEPT ![r] = s]
Goes(c, pc) == [clients EXCEPT ![c].pc = pc]

\* Listeners are notified when they are bound and when their runtime publishes; the
\* check they run reads the live runtime.
Heard(c) == c \in threadLog.settled

-----------------------------------------------------------------------------
(* open *)

\* provision: initializeThread has recorded the creation before anything opens.
Provision ==
    /\ ~threadLog.created
    /\ threadLog' = [threadLog EXCEPT !.created = TRUE]
    /\ UNCHANGED <<threadRts, threadsMap, liveThread, lifecycle, clients, bound, hostState, threadFaults>>

\* A caller takes the lock and the cached opening, or starts one.
Open(c) ==
    /\ clients[c].pc \in {"call", "look"}
    /\ lifecycle = Nobody
    /\ IF hostState # "open"
       THEN /\ clients' = Goes(c, "failed")
            /\ UNCHANGED <<lifecycle, threadRts, threadsMap>>
       ELSE /\ lifecycle' = c
            /\ clients' = [clients EXCEPT ![c].then = clients[c].pc, ![c].pc = "opening"]
            /\ IF threadsMap # 0 THEN UNCHANGED <<threadRts, threadsMap>>
               ELSE /\ Len(threadRts) < MaxThreadRuntimes
                    /\ threadRts' = Append(threadRts, "opening")
                    /\ threadsMap' = Len(threadRts) + 1
    /\ UNCHANGED <<threadLog, liveThread, bound, hostState, threadFaults>>

\* createActorStore reads the journal, whose first record must be the creation; an
\* opening that fails leaves the map and fails its caller.
Opened(r) ==
    /\ threadRts[r] = "opening"
    /\ IF threadLog.created
       THEN threadRts' = SetRt(r, "live") /\ UNCHANGED <<threadsMap, clients, lifecycle>>
       ELSE /\ threadRts' = SetRt(r, "closed")
            /\ threadsMap' = 0
            /\ clients' = IF lifecycle \in Everyone THEN Goes(lifecycle, "failed") ELSE clients
            /\ lifecycle' = IF lifecycle \in Everyone THEN Nobody ELSE lifecycle
    /\ UNCHANGED <<threadLog, liveThread, bound, hostState, threadFaults>>

\* The new live runtime takes over every subscription of the coordinate.
Rebound(r) == [c \in DOMAIN bound |-> r]

\* The opening is done: a host closed meanwhile closes the runtime again; otherwise the
\* runtime becomes the live one and the caller goes on with it.
OpenDone(c) ==
    /\ lifecycle = c /\ clients[c].pc = "opening"
    /\ threadsMap # 0 /\ threadRts[threadsMap] \notin {"opening", "closing"}
    /\ lifecycle' = Nobody
    /\ IF hostState # "open" \/ threadRts[threadsMap] # "live"
       THEN /\ threadRts' = SetRt(threadsMap, "closed")
            /\ clients' = Goes(c, "failed")
            /\ UNCHANGED <<liveThread, bound>>
       ELSE /\ liveThread' = threadsMap
            /\ bound' = IF liveThread = threadsMap THEN bound ELSE Rebound(threadsMap)
            /\ clients' = [clients EXCEPT ![c].pc = IF clients[c].then = "call" THEN "send" ELSE "check",
                                          ![c].rt = threadsMap]
            /\ UNCHANGED threadRts
    /\ UNCHANGED <<threadLog, threadsMap, hostState, threadFaults>>

\* The caller's fibre is interrupted: an opening it runs is abandoned and leaves the map.
Interrupt(c) ==
    /\ clients[c].pc \notin {"call", "done", "failed"}
    /\ Fault
    /\ clients' = Goes(c, "failed")
    /\ bound' = [d \in DOMAIN bound \ {c} |-> bound[d]]
    /\ IF lifecycle # c THEN UNCHANGED <<lifecycle, threadRts, threadsMap>>
       ELSE /\ lifecycle' = Nobody
            /\ IF threadsMap # 0 /\ threadRts[threadsMap] = "opening"
               THEN threadRts' = SetRt(threadsMap, "closed") /\ threadsMap' = 0
               ELSE UNCHANGED <<threadRts, threadsMap>>
    /\ UNCHANGED <<threadLog, liveThread, hostState>>

-----------------------------------------------------------------------------
(* A method call: invoke, then result *)

\* invoke: the runtime the caller was given admits the message once, or is closed by now.
\* The watchdog's caller resumes the runtime instead.
Send(c) ==
    /\ clients[c].pc = "send"
    /\ IF threadRts[clients[c].rt] # "live"
       THEN clients' = Goes(c, "failed") /\ UNCHANGED threadLog
       ELSE IF c = Watchdog THEN clients' = Goes(c, "done") /\ UNCHANGED threadLog
       ELSE /\ clients' = Goes(c, "look")
            /\ threadLog' = [threadLog EXCEPT !.admitted = @ \cup {c}]
    /\ UNCHANGED <<threadRts, threadsMap, liveThread, lifecycle, bound, hostState, threadFaults>>

\* result: subscribe, then check once; without a live runtime the check throws.
Subscribe(c) ==
    /\ clients[c].pc = "check"
    /\ IF c \notin threadLog.admitted \/ liveThread = 0
       THEN clients' = Goes(c, "failed") /\ UNCHANGED bound
       ELSE IF Heard(c) THEN clients' = Goes(c, "done") /\ UNCHANGED bound
       ELSE clients' = Goes(c, "wait") /\ bound' = [d \in DOMAIN bound \cup {c} |-> IF d = c THEN liveThread ELSE bound[d]]
    /\ UNCHANGED <<threadLog, threadRts, threadsMap, liveThread, lifecycle, hostState, threadFaults>>

\* The listener's check finds the result.
Notify(c) ==
    /\ clients[c].pc = "wait" /\ c \in DOMAIN bound
    /\ bound[c] # 0 /\ bound[c] = liveThread /\ Heard(c)
    /\ clients' = Goes(c, "done")
    /\ bound' = [d \in DOMAIN bound \ {c} |-> bound[d]]
    /\ UNCHANGED <<threadLog, threadRts, threadsMap, liveThread, lifecycle, hostState, threadFaults>>

\* The runtime settles an admitted message.
Settle(r, c) ==
    /\ threadRts[r] = "live" /\ c \in threadLog.admitted \ threadLog.settled
    /\ threadLog' = [threadLog EXCEPT !.settled = @ \cup {c}]
    /\ UNCHANGED <<threadRts, threadsMap, liveThread, lifecycle, clients, bound, hostState, threadFaults>>

\* The watchdog's alarm finds the thread owing work and opens it.
Recover ==
    /\ clients[Watchdog].pc \in {"done", "failed"}
    /\ hostState = "open" /\ threadLog.created /\ liveThread = 0
    /\ clients' = Goes(Watchdog, "call")
    /\ UNCHANGED <<threadLog, threadRts, threadsMap, liveThread, lifecycle, bound, hostState, threadFaults>>

-----------------------------------------------------------------------------
(* Losing runtimes *)

\* Faulty variant of Invalidate: the lock is released before the runtime has closed.
InvalidateUnlocked ==
    /\ lifecycle = Nobody /\ threadsMap # 0 /\ hostState = "open"
    /\ Fault
    /\ threadsMap' = 0 /\ liveThread' = 0
    /\ bound' = [c \in DOMAIN bound |-> 0]
    /\ threadRts' = SetRt(threadsMap, "closing")
    /\ UNCHANGED <<threadLog, clients, hostState, lifecycle>>

\* invalidate: forgets the runtime, detaches its listeners and closes it, under the lock.
Invalidate ==
    /\ lifecycle = Nobody /\ threadsMap # 0 /\ hostState = "open"
    /\ Fault
    /\ lifecycle' = Invalidator
    /\ threadsMap' = 0 /\ liveThread' = 0
    /\ bound' = [c \in DOMAIN bound |-> 0]
    /\ threadRts' = SetRt(threadsMap, "closing")
    /\ UNCHANGED <<threadLog, clients, hostState>>

Closed(r) ==
    /\ threadRts[r] = "closing"
    /\ threadRts' = SetRt(r, "closed")
    /\ lifecycle' = IF lifecycle = Invalidator THEN Nobody ELSE lifecycle
    /\ UNCHANGED <<threadLog, threadsMap, liveThread, clients, bound, hostState, threadFaults>>

\* close of the host: its scope interrupts every caller, the listeners are dropped.
Close ==
    /\ hostState = "open"
    /\ Fault
    /\ hostState' = "closing"
    /\ liveThread' = 0
    /\ bound' = <<>>
    /\ clients' = [c \in Everyone |-> IF clients[c].pc \in {"call", "done", "failed"} THEN clients[c] ELSE [clients[c] EXCEPT !.pc = "failed"]]
    /\ lifecycle' = IF lifecycle \in Everyone THEN Nobody ELSE lifecycle
    /\ IF threadsMap # 0 /\ threadRts[threadsMap] = "opening"
       THEN threadRts' = SetRt(threadsMap, "closed") /\ threadsMap' = 0
       ELSE UNCHANGED <<threadRts, threadsMap>>
    /\ UNCHANGED threadLog

\* Every runtime of the map is closed, then the storage; the scope has waited for an
\* invalidation under way, whose closing cannot be interrupted.
CloseThreads ==
    /\ hostState = "closing"
    /\ lifecycle # Invalidator
    /\ threadRts' = IF threadsMap = 0 THEN threadRts ELSE SetRt(threadsMap, "closed")
    /\ hostState' = "closed"
    /\ UNCHANGED <<threadLog, threadsMap, liveThread, lifecycle, clients, bound, threadFaults>>

\* The process or object is gone; a new one starts with empty maps.
Restart ==
    /\ Fault
    /\ threadRts' = [r \in DOMAIN threadRts |-> "closed"]
    /\ threadsMap' = 0 /\ liveThread' = 0 /\ lifecycle' = Nobody /\ bound' = <<>>
    /\ clients' = [c \in Everyone |-> IF clients[c].pc \in {"call", "done"} THEN clients[c] ELSE [clients[c] EXCEPT !.pc = "failed"]]
    /\ hostState' = "open"
    /\ UNCHANGED threadLog

\* A caller that failed asks again with the same message identity.
Retry(c) ==
    /\ clients[c].pc = "failed" /\ hostState = "open"
    /\ clients' = Goes(c, "call")
    /\ UNCHANGED <<threadLog, threadRts, threadsMap, liveThread, lifecycle, bound, hostState, threadFaults>>

Init ==
    /\ threadLog = [created |-> FALSE, admitted |-> {}, settled |-> {}]
    /\ threadRts = <<>> /\ threadsMap = 0 /\ liveThread = 0 /\ lifecycle = Nobody
    /\ clients = [c \in Everyone |-> [pc |-> IF c = Watchdog THEN "done" ELSE "call", rt |-> 0, then |-> "call"]]
    /\ bound = <<>>
    /\ hostState = "open"
    /\ threadFaults = 0

Next ==
    \/ Provision \/ Recover \/ Invalidate \/ Close \/ CloseThreads \/ Restart
    \/ \E c \in Everyone : Open(c) \/ OpenDone(c) \/ Interrupt(c) \/ Send(c)
    \/ \E c \in Clients : Subscribe(c) \/ Notify(c) \/ Retry(c)
    \/ \E r \in DOMAIN threadRts : Opened(r) \/ Closed(r)
    \/ \E r \in DOMAIN threadRts, c \in Clients : Settle(r, c)

Spec == Init /\ [][Next]_vars

-----------------------------------------------------------------------------
(* Properties *)

\* Two runtimes of one thread never run on its journal at once, through invalidation,
\* interrupted openings and a host that closes while one opens.
OneRuntime == Cardinality({r \in DOMAIN threadRts : threadRts[r] \in Unclosed}) <= 1

\* A waiting caller's listener is on the live runtime whenever there is one, so the
\* result a new runtime publishes reaches callers that waited through its predecessor.
ListenersFollow ==
    \A c \in Clients : clients[c].pc = "wait" => c \in DOMAIN bound /\ bound[c] = liveThread

\* Projections read the runtime the map holds, and that runtime is running.
LiveIsCurrent == liveThread # 0 => liveThread = threadsMap /\ threadRts[liveThread] = "live"

\* A closed host leaves no runtime behind.
ClosedIsQuiet == hostState = "closed" => \A r \in DOMAIN threadRts : threadRts[r] \notin Unclosed

\* What open, invalidate, close and the subscriptions of actors.ts keep between them.
RuntimesSound == OneRuntime /\ ListenersFollow /\ LiveIsCurrent /\ ClosedIsQuiet
=============================================================================
