---------------------------- MODULE HostProofs -----------------------------
(***************************************************************************)
(* For any callers and any number of runtimes and faults: one runtime of a *)
(* thread at a time, which projections and listeners follow (ThreadHost);  *)
(* a directory in which a thread, once registered, exists with the name,   *)
(* parent and depth it was allocated with (Supervisor); and tables that    *)
(* say what the events of a journal say (SqlJournal).                      *)
(*                                                                         *)
(* What makes the first inductive is who may close what: a runtime that is *)
(* open or opening is the one the map holds, and one that is closing has   *)
(* the invalidation holding the lifecycle lock, so that no opening can     *)
(* begin beside it; and after close no caller holds the lock.              *)
(*                                                                         *)
(* The second is about views that are behind. A runtime that another one   *)
(* has superseded keeps deciding from a prefix of the log: the directory   *)
(* it folds grows into the current one, so an allocation, a registration   *)
(* or a thread it knows of is still there, and an admission it decided is  *)
(* valid in its own view until its append finds the log longer. What an    *)
(* answer of a provisioning call tells a runtime stays true because a      *)
(* store that holds its thread never loses it. And the caller that a       *)
(* runtime's admission serves waits for nobody else.                       *)
(*                                                                         *)
(* In the third, a read trusts its own version alone: what it has found is *)
(* what that version files up to where it is, whoever rebuilt the index    *)
(* between two of its pages.                                               *)
(***************************************************************************)
EXTENDS ThreadHost, Supervisor, SqlJournal, SequenceTheorems, FiniteSetTheorems, WellFoundedInduction, TLAPS

(* ThreadHost *)

States == {"opening", "live", "closing", "closed"}

TypeInv ==
    /\ threadRts \in Seq(States)
    /\ threadsMap \in 0 .. Len(threadRts)
    /\ lifecycle \in Everyone \cup {Nobody, Invalidator}
    /\ DOMAIN clients = Everyone
    /\ \A c \in Everyone : DOMAIN clients[c] = {"pc", "rt", "then"} /\ clients[c].then \in {"call", "look"}
    /\ hostState \in {"open", "closing", "closed"}

\* Whose a runtime is.
OwnerInv ==
    /\ \A r, s \in DOMAIN threadRts : threadRts[r] \in Unclosed /\ threadRts[s] \in Unclosed => r = s
    /\ \A r \in DOMAIN threadRts : threadRts[r] \in {"opening", "live"} => r = threadsMap
    /\ \A r \in DOMAIN threadRts : threadRts[r] = "closing" => lifecycle = Invalidator
    /\ lifecycle = Invalidator => threadsMap = 0

\* close leaves no holder and no live runtime.
CloseInv == hostState # "open" => lifecycle \notin Everyone /\ liveThread = 0

HostInv == TypeInv /\ OwnerInv /\ CloseInv /\ ListenersFollow /\ LiveIsCurrent /\ ClosedIsQuiet

-----------------------------------------------------------------------------

\* What a step may do to clients, listeners and projections while it changes no runtime.
LEMMA QuietStep ==
  ASSUME HostInv, UNCHANGED <<threadRts, threadsMap, liveThread, hostState>>,
         lifecycle' = lifecycle,
         DOMAIN clients' = Everyone,
         \A c \in Everyone : DOMAIN clients'[c] = {"pc", "rt", "then"} /\ clients'[c].then \in {"call", "look"},
         \A c \in Clients : clients'[c].pc = "wait" => c \in DOMAIN bound' /\ bound'[c] = liveThread
  PROVE  HostInv'
  BY DEF HostInv, TypeInv, OwnerInv, CloseInv, ListenersFollow, LiveIsCurrent, ClosedIsQuiet

\* A caller that moves on without waiting: what becomes of the callers and their listeners.
LEMMA OneMoves ==
  ASSUME HostInv, NEW c \in Everyone, NEW pc, pc # "wait", clients' = Goes(c, pc), liveThread' = liveThread,
         \A d \in Clients \ {c} : d \in DOMAIN bound => d \in DOMAIN bound' /\ bound'[d] = bound[d]
  PROVE  /\ DOMAIN clients' = Everyone
         /\ \A d \in Everyone : DOMAIN clients'[d] = {"pc", "rt", "then"} /\ clients'[d].then \in {"call", "look"}
         /\ \A d \in Clients : clients'[d].pc = "wait" => d \in DOMAIN bound' /\ bound'[d] = liveThread'
  <1>1. /\ DOMAIN clients' = Everyone /\ clients'[c].pc = pc
        /\ \A d \in Everyone : DOMAIN clients'[d] = {"pc", "rt", "then"} /\ clients'[d].then = clients[d].then
        /\ \A d \in Everyone \ {c} : clients'[d] = clients[d]
    BY DEF HostInv, TypeInv, Goes
  <1>2. \A d \in Clients : clients'[d].pc = "wait" => d \in DOMAIN bound' /\ bound'[d] = liveThread'
    BY <1>1 DEF HostInv, ListenersFollow, Everyone
  <1> QED  BY <1>1, <1>2 DEF HostInv, TypeInv

\* The same while nothing else moves.
LEMMA GoesOn ==
  ASSUME HostInv, NEW c \in Everyone, NEW pc, pc # "wait",
         UNCHANGED <<threadRts, threadsMap, liveThread, hostState, lifecycle>>,
         clients' = Goes(c, pc),
         \A d \in Clients \ {c} : d \in DOMAIN bound => d \in DOMAIN bound' /\ bound'[d] = bound[d]
  PROVE  HostInv'
  <1>1. /\ DOMAIN clients' = Everyone
        /\ \A d \in Everyone : DOMAIN clients'[d] = {"pc", "rt", "then"} /\ clients'[d].then \in {"call", "look"}
        /\ \A d \in Clients : clients'[d].pc = "wait" => d \in DOMAIN bound' /\ bound'[d] = liveThread'
    BY OneMoves
  <1> QED  BY <1>1, QuietStep

\* A host starts with nothing open.
LEMMA HostInit == Init => HostInv
  BY DEF Init, HostInv, TypeInv, OwnerInv, CloseInv, ListenersFollow, LiveIsCurrent, ClosedIsQuiet, Everyone

\* Taking the lock, and the cached opening or a new one.
LEMMA OpenKeeps ==
  ASSUME HostInv, NEW c \in Everyone, Open(c)
  PROVE  HostInv'
  <1>1. CASE hostState # "open"
    <2>1. /\ clients' = Goes(c, "failed")
          /\ UNCHANGED <<threadRts, threadsMap, liveThread, hostState, lifecycle, bound>>
      BY <1>1 DEF Open
    <2> QED  BY <2>1, GoesOn
  <1>2. CASE hostState = "open"
    <2>1. /\ clients[c].pc \in {"call", "look"} /\ lifecycle = Nobody /\ lifecycle' = c
          /\ clients' = [clients EXCEPT ![c].then = clients[c].pc, ![c].pc = "opening"]
          /\ UNCHANGED <<liveThread, bound, hostState>>
          /\ \/ UNCHANGED <<threadRts, threadsMap>>
             \/ threadsMap = 0 /\ threadRts' = Append(threadRts, "opening") /\ threadsMap' = Len(threadRts) + 1
      BY <1>2 DEF Open
    <2>2. /\ DOMAIN clients' = Everyone /\ clients'[c].pc = "opening"
          /\ \A d \in Everyone : DOMAIN clients'[d] = {"pc", "rt", "then"} /\ clients'[d].then \in {"call", "look"}
          /\ \A d \in Everyone \ {c} : clients'[d] = clients[d]
      BY <2>1 DEF HostInv, TypeInv
    <2>3. ListenersFollow'
      BY <2>1, <2>2 DEF HostInv, ListenersFollow, Everyone
    <2>4. c # Invalidator /\ Nobody # Invalidator
      BY HostAssumption DEF Nobody, Invalidator
    <2>5. CASE UNCHANGED <<threadRts, threadsMap>>
      BY <1>2, <2>1, <2>2, <2>3, <2>4, <2>5 DEF HostInv, TypeInv, OwnerInv, CloseInv, LiveIsCurrent, ClosedIsQuiet
    <2>6. CASE threadsMap = 0 /\ threadRts' = Append(threadRts, "opening") /\ threadsMap' = Len(threadRts) + 1
      <3>1. \A r \in 1 .. Len(threadRts) : threadRts[r] \in States /\ threadRts[r] \notin Unclosed
        BY <2>1, <2>4, <2>6 DEF HostInv, TypeInv, OwnerInv, Unclosed, States
      <3>2. /\ threadRts' \in Seq(States) /\ Len(threadRts') = Len(threadRts) + 1
            /\ \A r \in 1 .. Len(threadRts) : threadRts'[r] = threadRts[r]
            /\ threadRts'[Len(threadRts) + 1] = "opening" /\ Len(threadRts) \in Nat
            /\ DOMAIN threadRts' = 1 .. Len(threadRts) + 1
        BY <2>6 DEF HostInv, TypeInv, States
      <3>3. OwnerInv'
        BY <2>1, <2>4, <2>6, <3>1, <3>2 DEF OwnerInv, Unclosed
      <3>4. TypeInv'
        BY <2>1, <2>2, <2>6, <3>2 DEF HostInv, TypeInv
      <3>5. LiveIsCurrent' /\ ClosedIsQuiet' /\ CloseInv'
        BY <1>2, <2>1, <2>6 DEF HostInv, LiveIsCurrent, ClosedIsQuiet, CloseInv
      <3> QED  BY <2>3, <3>3, <3>4, <3>5 DEF HostInv
    <2> QED  BY <2>1, <2>5, <2>6
  <1> QED  BY <1>1, <1>2

\* What setting one runtime's step leaves of the sequence.
LEMMA SetOne ==
  ASSUME HostInv, NEW r \in DOMAIN threadRts, NEW s \in States, threadRts' = SetRt(r, s)
  PROVE  /\ threadRts' \in Seq(States) /\ Len(threadRts') = Len(threadRts)
         /\ DOMAIN threadRts' = DOMAIN threadRts /\ threadRts'[r] = s
         /\ \A t \in DOMAIN threadRts \ {r} : threadRts'[t] = threadRts[t]
  BY DEF HostInv, TypeInv, SetRt

\* A runtime that is closed, by whoever closes it: nobody else may be closing one, nor
\* projections still read it.
LEMMA ClosingKeeps ==
  ASSUME HostInv, NEW r \in DOMAIN threadRts, threadRts' = SetRt(r, "closed"),
         threadsMap' \in {0, threadsMap}, threadsMap' = 0 => threadsMap \in {0, r},
         threadRts[r] = "closing" \/ lifecycle # Invalidator \/ threadsMap # 0,
         lifecycle' \in Everyone \cup {Nobody},
         (liveThread' = liveThread /\ liveThread # r) \/ liveThread' = 0,
         hostState' \in {"open", "closing", "closed"},
         hostState' # "open" => lifecycle' \notin Everyone /\ liveThread' = 0,
         hostState' = "closed" => hostState = "closed" \/ r = threadsMap \/ threadRts[r] = "closing",
         DOMAIN clients' = Everyone,
         \A c \in Everyone : DOMAIN clients'[c] = {"pc", "rt", "then"} /\ clients'[c].then \in {"call", "look"},
         \A c \in Clients : clients'[c].pc = "wait" => c \in DOMAIN bound' /\ bound'[c] = liveThread',
         Nobody # Invalidator, Invalidator \notin Everyone
  PROVE  HostInv'
  <1>1. /\ threadRts' \in Seq(States) /\ Len(threadRts') = Len(threadRts)
        /\ DOMAIN threadRts' = DOMAIN threadRts /\ threadRts'[r] = "closed"
        /\ \A t \in DOMAIN threadRts \ {r} : threadRts'[t] = threadRts[t]
    BY SetOne DEF States
  <1>2. threadsMap' \in 0 .. Len(threadRts')
    BY <1>1 DEF HostInv, TypeInv
  <1>3. TypeInv'
    BY <1>1, <1>2 DEF TypeInv
  <1>4. \A t \in DOMAIN threadRts : threadRts[t] = "closing" => t = r
    BY DEF HostInv, OwnerInv, Unclosed
  <1>5. OwnerInv'
    BY <1>1, <1>4 DEF HostInv, OwnerInv, Unclosed
  <1>6. CloseInv' /\ ListenersFollow'
    BY DEF CloseInv, ListenersFollow
  <1>7. LiveIsCurrent'
    BY <1>1 DEF HostInv, TypeInv, LiveIsCurrent
  <1>8. ClosedIsQuiet'
    BY <1>1, <1>4 DEF HostInv, OwnerInv, ClosedIsQuiet, Unclosed
  <1> QED  BY <1>3, <1>5, <1>6, <1>7, <1>8 DEF HostInv

-----------------------------------------------------------------------------

\* An opening that succeeds is the map's; one that fails leaves it and the lock.
LEMMA OpenedKeeps ==
  ASSUME HostInv, NEW r \in DOMAIN threadRts, Opened(r)
  PROVE  HostInv'
  <1>1. /\ threadRts[r] = "opening" /\ UNCHANGED <<liveThread, bound, hostState>>
        /\ r = threadsMap /\ threadsMap # 0 /\ lifecycle # Invalidator /\ liveThread # r
        /\ Nobody # Invalidator /\ Invalidator \notin Everyone /\ Nobody \notin Everyone
    BY HostAssumption DEF Opened, HostInv, TypeInv, OwnerInv, LiveIsCurrent, Nobody, Invalidator
  <1>2. CASE threadLog.created
    <2>1. threadRts' = SetRt(r, "live") /\ UNCHANGED <<threadsMap, clients, lifecycle>>
      BY <1>2 DEF Opened
    <2>2. /\ threadRts' \in Seq(States) /\ Len(threadRts') = Len(threadRts)
          /\ DOMAIN threadRts' = DOMAIN threadRts /\ threadRts'[r] = "live"
          /\ \A t \in DOMAIN threadRts \ {r} : threadRts'[t] = threadRts[t]
      BY <2>1, SetOne DEF States
    <2>3. TypeInv'
      BY <1>1, <2>1, <2>2 DEF HostInv, TypeInv
    <2>4. OwnerInv'
      BY <1>1, <2>1, <2>2 DEF HostInv, OwnerInv, Unclosed
    <2>5. hostState # "closed"
      BY <1>1 DEF HostInv, ClosedIsQuiet, Unclosed
    <2> QED  BY <1>1, <2>1, <2>2, <2>3, <2>4, <2>5
             DEF HostInv, CloseInv, ListenersFollow, LiveIsCurrent, ClosedIsQuiet
  <1>3. CASE ~threadLog.created
    <2>1. /\ threadRts' = SetRt(r, "closed") /\ threadsMap' = 0
          /\ clients' = IF lifecycle \in Everyone THEN Goes(lifecycle, "failed") ELSE clients
          /\ lifecycle' = IF lifecycle \in Everyone THEN Nobody ELSE lifecycle
      BY <1>3 DEF Opened
    <2>2. /\ DOMAIN clients' = Everyone
          /\ \A d \in Everyone : DOMAIN clients'[d] = {"pc", "rt", "then"} /\ clients'[d].then \in {"call", "look"}
          /\ \A d \in Clients : clients'[d].pc = "wait" => d \in DOMAIN bound' /\ bound'[d] = liveThread'
      <3>1. CASE lifecycle \in Everyone
        BY <1>1, <2>1, <3>1, OneMoves
      <3>2. CASE lifecycle \notin Everyone
        BY <1>1, <2>1, <3>2 DEF HostInv, TypeInv, ListenersFollow
      <3> QED  BY <3>1, <3>2
    <2>3. lifecycle' \in Everyone \cup {Nobody} /\ lifecycle' \notin Everyone
      BY <1>1, <2>1 DEF HostInv, TypeInv
    <2>4. /\ hostState' \in {"open", "closing", "closed"}
          /\ hostState' # "open" => lifecycle' \notin Everyone /\ liveThread' = 0
      BY <1>1, <2>3 DEF HostInv, TypeInv, CloseInv
    <2> QED  BY <1>1, <2>1, <2>2, <2>3, <2>4, ClosingKeeps
  <1> QED  BY <1>2, <1>3

\* The runtime becomes the live one with every listener on it, or is closed.
LEMMA OpenDoneKeeps ==
  ASSUME HostInv, NEW c \in Everyone, OpenDone(c)
  PROVE  HostInv'
  <1>1. /\ lifecycle = c /\ threadsMap # 0 /\ threadRts[threadsMap] \notin {"opening", "closing"}
        /\ lifecycle' = Nobody /\ UNCHANGED <<threadsMap, hostState>> /\ hostState = "open"
        /\ Nobody # Invalidator /\ Invalidator \notin Everyone /\ Nobody \notin Everyone
        /\ threadsMap \in DOMAIN threadRts
    BY HostAssumption DEF OpenDone, HostInv, TypeInv, CloseInv, Nobody, Invalidator
  <1>2. CASE threadRts[threadsMap] # "live"
    <2>1. /\ threadRts' = SetRt(threadsMap, "closed") /\ clients' = Goes(c, "failed")
          /\ UNCHANGED <<liveThread, bound>>
      BY <1>2 DEF OpenDone
    <2>2. liveThread # threadsMap
      BY <1>1, <1>2 DEF HostInv, LiveIsCurrent
    <2>3. /\ DOMAIN clients' = Everyone
          /\ \A d \in Everyone : DOMAIN clients'[d] = {"pc", "rt", "then"} /\ clients'[d].then \in {"call", "look"}
          /\ \A d \in Clients : clients'[d].pc = "wait" => d \in DOMAIN bound' /\ bound'[d] = liveThread'
      BY <2>1, OneMoves
    <2> QED  BY <1>1, <2>1, <2>2, <2>3, ClosingKeeps
  <1>3. CASE threadRts[threadsMap] = "live"
    <2>1. /\ liveThread' = threadsMap /\ UNCHANGED threadRts
          /\ bound' = IF liveThread = threadsMap THEN bound ELSE Rebound(threadsMap)
          /\ clients' = [clients EXCEPT ![c].pc = IF clients[c].then = "call" THEN "send" ELSE "check",
                                        ![c].rt = threadsMap]
      BY <1>1, <1>3 DEF OpenDone
    <2>2. /\ DOMAIN clients' = Everyone /\ clients'[c].pc # "wait"
          /\ \A d \in Everyone : DOMAIN clients'[d] = {"pc", "rt", "then"} /\ clients'[d].then = clients[d].then
          /\ \A d \in Everyone \ {c} : clients'[d] = clients[d]
      BY <2>1 DEF HostInv, TypeInv
    <2>3. ListenersFollow'
      BY <2>1, <2>2 DEF HostInv, ListenersFollow, Everyone, Rebound
    <2>4. TypeInv' /\ OwnerInv'
      BY <1>1, <2>1, <2>2 DEF HostInv, TypeInv, OwnerInv
    <2> QED  BY <1>1, <1>3, <2>1, <2>3, <2>4 DEF HostInv, CloseInv, LiveIsCurrent, ClosedIsQuiet
  <1> QED  BY <1>2, <1>3

\* An interrupted caller leaves its listener, its lock and the opening it runs.
LEMMA InterruptKeeps ==
  ASSUME HostInv, NEW c \in Everyone, Interrupt(c)
  PROVE  HostInv'
  <1>1. /\ clients' = Goes(c, "failed") /\ bound' = [d \in DOMAIN bound \ {c} |-> bound[d]]
        /\ UNCHANGED <<liveThread, hostState>>
        /\ Nobody # Invalidator /\ Invalidator \notin Everyone /\ Nobody \notin Everyone
    BY HostAssumption DEF Interrupt, Nobody, Invalidator
  <1>2. \A d \in Clients \ {c} : d \in DOMAIN bound => d \in DOMAIN bound' /\ bound'[d] = bound[d]
    BY <1>1
  <1>3. CASE lifecycle # c
    <2>1. UNCHANGED <<lifecycle, threadRts, threadsMap>>
      BY <1>3 DEF Interrupt
    <2> QED  BY <1>1, <1>2, <2>1, GoesOn
  <1>4. CASE lifecycle = c
    <2>1. /\ lifecycle' = Nobody /\ hostState = "open"
          /\ DOMAIN clients' = Everyone
          /\ \A d \in Everyone : DOMAIN clients'[d] = {"pc", "rt", "then"} /\ clients'[d].then \in {"call", "look"}
          /\ \A d \in Clients : clients'[d].pc = "wait" => d \in DOMAIN bound' /\ bound'[d] = liveThread'
      <3>1. lifecycle' = Nobody
        BY <1>4 DEF Interrupt
      <3>2. hostState = "open"
        BY <1>4 DEF HostInv, CloseInv
      <3> QED  BY <1>1, <1>2, <3>1, <3>2, OneMoves
    <2>2. CASE threadsMap # 0 /\ threadRts[threadsMap] = "opening"
      <3>1. threadRts' = SetRt(threadsMap, "closed") /\ threadsMap' = 0
        BY <1>4, <2>2 DEF Interrupt
      <3>2. threadsMap \in DOMAIN threadRts /\ liveThread # threadsMap
        BY <2>2 DEF HostInv, TypeInv, LiveIsCurrent
      <3> QED  BY <1>1, <2>1, <2>2, <3>1, <3>2, ClosingKeeps
    <2>3. CASE ~(threadsMap # 0 /\ threadRts[threadsMap] = "opening")
      <3>1. UNCHANGED <<threadRts, threadsMap>>
        BY <1>4, <2>3 DEF Interrupt
      <3>2. TypeInv' /\ OwnerInv'
        BY <1>1, <1>4, <2>1, <3>1 DEF HostInv, TypeInv, OwnerInv
      <3>3. ListenersFollow'
        BY <1>1, <2>1 DEF ListenersFollow
      <3> QED  BY <1>1, <2>1, <3>1, <3>2, <3>3 DEF HostInv, CloseInv, LiveIsCurrent, ClosedIsQuiet
    <2> QED  BY <2>2, <2>3
  <1> QED  BY <1>3, <1>4

\* Sending moves only the caller.
LEMMA SendKeeps ==
  ASSUME HostInv, NEW c \in Everyone, Send(c)
  PROVE  HostInv'
  <1>1. /\ UNCHANGED <<threadRts, threadsMap, liveThread, hostState, lifecycle, bound>>
        /\ clients' = Goes(c, "failed") \/ clients' = Goes(c, "done") \/ clients' = Goes(c, "look")
    BY DEF Send
  <1> QED  BY <1>1, GoesOn

\* A caller that begins to wait listens to the live runtime.
LEMMA SubscribeKeeps ==
  ASSUME HostInv, NEW c \in Clients, Subscribe(c)
  PROVE  HostInv'
  <1>1. UNCHANGED <<threadRts, threadsMap, liveThread, hostState, lifecycle>> /\ c \in Everyone
    BY DEF Subscribe, Everyone
  <1>2. CASE clients' = Goes(c, "wait") /\ bound' = [d \in DOMAIN bound \cup {c} |-> IF d = c THEN liveThread ELSE bound[d]]
    <2>1. /\ DOMAIN clients' = Everyone
          /\ \A d \in Everyone : DOMAIN clients'[d] = {"pc", "rt", "then"} /\ clients'[d].then = clients[d].then
          /\ \A d \in Everyone \ {c} : clients'[d] = clients[d]
      BY <1>1, <1>2 DEF HostInv, TypeInv, Goes
    <2>2. \A d \in Clients : clients'[d].pc = "wait" => d \in DOMAIN bound' /\ bound'[d] = liveThread
      BY <1>2, <2>1 DEF HostInv, ListenersFollow, Everyone
    <2>3. \A d \in Everyone : DOMAIN clients'[d] = {"pc", "rt", "then"} /\ clients'[d].then \in {"call", "look"}
      BY <2>1 DEF HostInv, TypeInv
    <2> QED  BY <1>1, <2>1, <2>2, <2>3, QuietStep
  <1>3. CASE (clients' = Goes(c, "failed") \/ clients' = Goes(c, "done")) /\ UNCHANGED bound
    BY <1>1, <1>3, GoesOn
  <1> QED  BY <1>2, <1>3 DEF Subscribe

\* A caller that has its result leaves its listener.
LEMMA NotifyKeeps ==
  ASSUME HostInv, NEW c \in Clients, Notify(c)
  PROVE  HostInv'
  <1>1. /\ UNCHANGED <<threadRts, threadsMap, liveThread, hostState, lifecycle>> /\ c \in Everyone
        /\ clients' = Goes(c, "done") /\ bound' = [d \in DOMAIN bound \ {c} |-> bound[d]]
    BY DEF Notify, Everyone
  <1> QED  BY <1>1, GoesOn

\* Settling, provisioning and asking again touch no runtime.
LEMMA OthersKeep ==
  ASSUME HostInv, Provision \/ Recover \/ (\E c \in Clients : Retry(c))
                  \/ (\E r \in DOMAIN threadRts, c \in Clients : Settle(r, c))
  PROVE  HostInv'
  <1>1. CASE Provision \/ \E r \in DOMAIN threadRts, c \in Clients : Settle(r, c)
    <2>1. UNCHANGED <<threadRts, threadsMap, liveThread, hostState, lifecycle, clients, bound>>
      BY <1>1 DEF Provision, Settle
    <2> QED  BY <2>1 DEF HostInv, TypeInv, OwnerInv, CloseInv, ListenersFollow, LiveIsCurrent, ClosedIsQuiet
  <1>2. CASE Recover
    <2>1. Watchdog \in Everyone
      BY DEF Everyone
    <2> QED  BY <1>2, <2>1, GoesOn DEF Recover
  <1>3. ASSUME NEW c \in Clients, Retry(c) PROVE HostInv'
    <2>1. c \in Everyone
      BY DEF Everyone
    <2> QED  BY <1>3, <2>1, GoesOn DEF Retry
  <1> QED  BY <1>1, <1>2, <1>3

-----------------------------------------------------------------------------

\* Invalidation takes the lock with the runtime it closes.
LEMMA InvalidateKeeps ==
  ASSUME HostInv, Invalidate
  PROVE  HostInv'
  <1>1. /\ lifecycle = Nobody /\ threadsMap # 0 /\ hostState = "open" /\ hostState' = "open"
        /\ lifecycle' = Invalidator /\ threadsMap' = 0 /\ liveThread' = 0
        /\ bound' = [c \in DOMAIN bound |-> 0] /\ threadRts' = SetRt(threadsMap, "closing")
        /\ clients' = clients /\ Nobody # Invalidator /\ Nobody \notin Everyone
        /\ threadsMap \in DOMAIN threadRts
    BY HostAssumption DEF Invalidate, HostInv, TypeInv, Nobody, Invalidator
  <1>2. /\ threadRts' \in Seq(States) /\ Len(threadRts') = Len(threadRts)
        /\ DOMAIN threadRts' = DOMAIN threadRts /\ threadRts'[threadsMap] = "closing"
        /\ \A t \in DOMAIN threadRts \ {threadsMap} : threadRts'[t] = threadRts[t]
    BY <1>1, SetOne DEF States
  <1>3. \A t \in DOMAIN threadRts \ {threadsMap} : threadRts'[t] \notin Unclosed
    BY <1>1, <1>2 DEF HostInv, OwnerInv, Unclosed
  <1>4. TypeInv'
    BY <1>1, <1>2 DEF HostInv, TypeInv
  <1>5. OwnerInv'
    BY <1>1, <1>2, <1>3 DEF OwnerInv, Unclosed
  <1> QED  BY <1>1, <1>4, <1>5 DEF HostInv, CloseInv, ListenersFollow, LiveIsCurrent, ClosedIsQuiet

\* The invalidated runtime closes and the lock is free again.
LEMMA ClosedKeeps ==
  ASSUME HostInv, NEW r \in DOMAIN threadRts, Closed(r)
  PROVE  HostInv'
  <1>1. /\ threadRts[r] = "closing" /\ lifecycle = Invalidator /\ lifecycle' = Nobody /\ threadsMap = 0
        /\ threadRts' = SetRt(r, "closed") /\ UNCHANGED <<threadsMap, liveThread, clients, bound, hostState>>
        /\ Nobody # Invalidator /\ Nobody \notin Everyone /\ Invalidator \notin Everyone
    BY HostAssumption DEF Closed, HostInv, OwnerInv, Nobody, Invalidator
  <1>2. liveThread # r
    BY <1>1 DEF HostInv, TypeInv, LiveIsCurrent
  <1>3. /\ hostState' \in {"open", "closing", "closed"}
        /\ hostState' # "open" => liveThread' = 0
        /\ DOMAIN clients' = Everyone
        /\ \A d \in Everyone : DOMAIN clients'[d] = {"pc", "rt", "then"} /\ clients'[d].then \in {"call", "look"}
        /\ \A d \in Clients : clients'[d].pc = "wait" => d \in DOMAIN bound' /\ bound'[d] = liveThread'
    BY <1>1 DEF HostInv, TypeInv, CloseInv, ListenersFollow
  <1> QED  BY <1>1, <1>2, <1>3, ClosingKeeps

\* close interrupts every caller: nobody waits and nobody holds the lock.
LEMMA CloseKeeps ==
  ASSUME HostInv, Close
  PROVE  HostInv'
  <1>1. /\ hostState = "open" /\ hostState' = "closing" /\ liveThread' = 0
        /\ clients' = [c \in Everyone |-> IF clients[c].pc \in {"call", "done", "failed"} THEN clients[c]
                                           ELSE [clients[c] EXCEPT !.pc = "failed"]]
        /\ lifecycle' = IF lifecycle \in Everyone THEN Nobody ELSE lifecycle
        /\ Nobody # Invalidator /\ Nobody \notin Everyone /\ Invalidator \notin Everyone
    BY HostAssumption DEF Close, Nobody, Invalidator
  <1>2. /\ DOMAIN clients' = Everyone
        /\ \A d \in Everyone : DOMAIN clients'[d] = {"pc", "rt", "then"} /\ clients'[d].then \in {"call", "look"}
        /\ \A d \in Everyone : clients'[d].pc # "wait"
    BY <1>1 DEF HostInv, TypeInv
  <1>3. /\ \A d \in Clients : clients'[d].pc = "wait" => d \in DOMAIN bound' /\ bound'[d] = liveThread'
        /\ lifecycle' \notin Everyone /\ lifecycle' \in {Nobody, Invalidator}
        /\ lifecycle' = Invalidator => lifecycle = Invalidator
        /\ lifecycle = Invalidator => lifecycle' = Invalidator
    BY <1>1, <1>2 DEF HostInv, TypeInv, Everyone
  <1>4. CASE threadsMap # 0 /\ threadRts[threadsMap] = "opening"
    <2>1. threadRts' = SetRt(threadsMap, "closed") /\ threadsMap' = 0
      BY <1>4 DEF Close
    <2>2. threadsMap \in DOMAIN threadRts /\ lifecycle # Invalidator
      BY <1>4 DEF HostInv, TypeInv, OwnerInv
    <2>3. lifecycle' \in Everyone \cup {Nobody}
      BY <1>3, <2>2
    <2> QED  BY <1>1, <1>2, <1>3, <1>4, <2>1, <2>2, <2>3, ClosingKeeps
  <1>5. CASE ~(threadsMap # 0 /\ threadRts[threadsMap] = "opening")
    <2>1. UNCHANGED <<threadRts, threadsMap>>
      BY <1>5 DEF Close
    <2>2. TypeInv' /\ OwnerInv'
      BY <1>1, <1>2, <1>3, <2>1 DEF HostInv, TypeInv, OwnerInv
    <2> QED  BY <1>1, <1>3, <2>1, <2>2 DEF HostInv, CloseInv, ListenersFollow, LiveIsCurrent, ClosedIsQuiet
  <1> QED  BY <1>4, <1>5

\* What is left to close is the map's.
LEMMA CloseThreadsKeeps ==
  ASSUME HostInv, CloseThreads
  PROVE  HostInv'
  <1>1. /\ hostState = "closing" /\ hostState' = "closed" /\ lifecycle # Invalidator
        /\ UNCHANGED <<threadsMap, liveThread, lifecycle, clients, bound>>
        /\ lifecycle \notin Everyone /\ liveThread = 0
        /\ Nobody # Invalidator /\ Invalidator \notin Everyone
    BY HostAssumption DEF CloseThreads, HostInv, CloseInv, Nobody, Invalidator
  <1>2. /\ DOMAIN clients' = Everyone
        /\ \A d \in Everyone : DOMAIN clients'[d] = {"pc", "rt", "then"} /\ clients'[d].then \in {"call", "look"}
        /\ \A d \in Clients : clients'[d].pc = "wait" => d \in DOMAIN bound' /\ bound'[d] = liveThread'
        /\ lifecycle' \in Everyone \cup {Nobody}
    BY <1>1 DEF HostInv, TypeInv, ListenersFollow
  <1>3. CASE threadsMap # 0
    <2>1. threadRts' = SetRt(threadsMap, "closed") /\ threadsMap \in DOMAIN threadRts
      BY <1>3 DEF CloseThreads, HostInv, TypeInv
    <2> QED  BY <1>1, <1>2, <1>3, <2>1, ClosingKeeps
  <1>4. CASE threadsMap = 0
    <2>1. threadRts' = threadRts
      BY <1>4 DEF CloseThreads
    <2>2. \A r \in DOMAIN threadRts : threadRts[r] \notin Unclosed
      BY <1>1, <1>4 DEF HostInv, TypeInv, OwnerInv, Unclosed
    <2>3. TypeInv' /\ OwnerInv'
      BY <1>1, <2>1 DEF HostInv, TypeInv, OwnerInv
    <2> QED  BY <1>1, <2>1, <2>2, <2>3 DEF HostInv, CloseInv, ListenersFollow, LiveIsCurrent, ClosedIsQuiet
  <1> QED  BY <1>3, <1>4

\* A new process has no runtimes and no listeners.
LEMMA RestartKeeps ==
  ASSUME HostInv, Restart
  PROVE  HostInv'
  <1>1. /\ threadRts' = [r \in DOMAIN threadRts |-> "closed"]
        /\ threadsMap' = 0 /\ liveThread' = 0 /\ lifecycle' = Nobody /\ hostState' = "open"
        /\ clients' = [c \in Everyone |-> IF clients[c].pc \in {"call", "done"} THEN clients[c]
                                           ELSE [clients[c] EXCEPT !.pc = "failed"]]
        /\ Nobody # Invalidator
    BY DEF Restart, Nobody, Invalidator
  <1>2. /\ DOMAIN clients' = Everyone
        /\ \A d \in Everyone : DOMAIN clients'[d] = {"pc", "rt", "then"} /\ clients'[d].then \in {"call", "look"}
        /\ \A d \in Everyone : clients'[d].pc # "wait"
    BY <1>1 DEF HostInv, TypeInv
  <1>3. /\ threadRts' \in Seq(States) /\ Len(threadRts') = Len(threadRts) /\ Len(threadRts) \in Nat
        /\ \A r \in DOMAIN threadRts' : threadRts'[r] \notin Unclosed
    BY <1>1 DEF HostInv, TypeInv, States, Unclosed
  <1>4. OwnerInv'
    BY <1>1, <1>3 DEF OwnerInv, Unclosed
  <1>5. TypeInv'
    BY <1>1, <1>2, <1>3 DEF TypeInv
  <1> QED  BY <1>1, <1>2, <1>4, <1>5 DEF HostInv, CloseInv, ListenersFollow, LiveIsCurrent, ClosedIsQuiet, Everyone

-----------------------------------------------------------------------------

\* Every step of the host.
LEMMA HostStep ==
  ASSUME HostInv, [Next]_vars
  PROVE  HostInv'
  <1>1. CASE UNCHANGED vars
    BY <1>1 DEF vars, HostInv, TypeInv, OwnerInv, CloseInv, ListenersFollow, LiveIsCurrent, ClosedIsQuiet
  <1>2. CASE Provision \/ Recover \/ (\E c \in Clients : Retry(c))
             \/ (\E r \in DOMAIN threadRts, c \in Clients : Settle(r, c))
    BY <1>2, OthersKeep
  <1>3. CASE Invalidate
    BY <1>3, InvalidateKeeps
  <1>4. CASE Close
    BY <1>4, CloseKeeps
  <1>5. CASE CloseThreads
    BY <1>5, CloseThreadsKeeps
  <1>6. CASE Restart
    BY <1>6, RestartKeeps
  <1>7. CASE \E c \in Everyone : Open(c)
    BY <1>7, OpenKeeps
  <1>8. CASE \E c \in Everyone : OpenDone(c)
    BY <1>8, OpenDoneKeeps
  <1>9. CASE \E c \in Everyone : Interrupt(c)
    BY <1>9, InterruptKeeps
  <1>10. CASE \E c \in Everyone : Send(c)
    BY <1>10, SendKeeps
  <1>11. CASE \E c \in Clients : Subscribe(c)
    BY <1>11, SubscribeKeeps
  <1>12. CASE \E c \in Clients : Notify(c)
    BY <1>12, NotifyKeeps
  <1>13. CASE \E r \in DOMAIN threadRts : Opened(r)
    BY <1>13, OpenedKeeps
  <1>14. CASE \E r \in DOMAIN threadRts : Closed(r)
    BY <1>14, ClosedKeeps
  <1> QED  BY <1>1, <1>2, <1>3, <1>4, <1>5, <1>6, <1>7, <1>8, <1>9, <1>10, <1>11, <1>12, <1>13, <1>14 DEF Next

\* At most one runtime that is not closed is at most one element.
LEMMA HostSound == HostInv => RuntimesSound
  <1> SUFFICES ASSUME HostInv PROVE RuntimesSound
    OBVIOUS
  <1> DEFINE Open1 == {r \in DOMAIN threadRts : threadRts[r] \in Unclosed}
  <1>1. \A r, s \in Open1 : r = s
    BY DEF HostInv, OwnerInv
  <1>2. Cardinality(Open1) <= 1
    <2>1. CASE Open1 = {}
      BY <2>1, FS_EmptySet
    <2>2. CASE Open1 # {}
      <3>1. PICK r \in Open1 : TRUE
        BY <2>2
      <3>2. Open1 = {r}
        BY <1>1, <3>1
      <3>3. Cardinality({r}) = 1
        BY FS_Singleton
      <3>4. Cardinality(Open1) = 1
        BY <3>2, <3>3
      <3> QED  BY <3>4
    <2> QED  BY <2>1, <2>2
  <1> QED  BY <1>2 DEF HostInv, RuntimesSound, OneRuntime

\* Two runtimes of a thread never run on its journal at once, projections and every
\* waiting caller follow the one there is, and a closed host leaves none behind,
\* through interrupted openings, invalidations, closes and restarts (runtime/actors.ts).
THEOREM RuntimesAreSound == Spec => []RuntimesSound
  <1>1. Init => HostInv
    BY HostInit
  <1>2. HostInv /\ [Next]_vars => HostInv'
    BY HostStep
  <1> QED  BY <1>1, <1>2, HostSound, PTL DEF Spec

-----------------------------------------------------------------------------
(* Supervisor *)

\* What the directory is made of: an allocation is of a request of some caller.
Allocs ==
    [thread : Threads, name : {Requests[c].name : c \in CallIds}, parent : {Requests[c].parent : c \in CallIds},
     seed : {Requests[c].seed : c \in CallIds}, depth : Nat]
Events ==
    {e \in [type : {"requested"}, thread : Threads, alloc : Allocs] : e.alloc.thread = e.thread}
        \cup [type : {"retry", "registered", "failed"}, thread : Threads]
Entries == [alloc : Allocs, status : {"requested", "registered", "failed"}, tries : Nat]
Optional(S) == {<<>>} \cup {<<x>> : x \in S}
Directories == [Threads -> Optional(Entries)]
Stores == [Threads -> [put : BOOLEAN, created : Optional(Allocs)]]
Runtimes ==
    [status : {"opening", "live", "failed", "closing", "closed"}, pos : Nat, admission : Events \cup {NoEvent},
     for : CallIds \cup {NoCall}, acts : [Threads -> {"none", "calling", "ok", "bad"}]]
Callers ==
    [pc : {"idle", "locked", "sending", "await", "done", "failed"}, rt : Nat, event : Events \cup {NoEvent},
     thread : Threads \cup {NoThread}]
Calls == [alloc : Allocs, by : Nat, made : BOOLEAN]

\* Each entry is of its own thread, under a parent that is there and less deep.
Holds(dir) ==
    \A t \in Threads : Known(dir, t) => dir[t][1].alloc.thread = t /\ ParentHolds(dir, dir[t][1].alloc)
\* No parent has two threads of one name.
OneName(dir) ==
    \A t, u \in Threads :
        /\ Known(dir, t) /\ Known(dir, u)
        /\ dir[t][1].alloc.parent = dir[u][1].alloc.parent
        /\ dir[t][1].alloc.name = dir[u][1].alloc.name
        => t = u
\* What an earlier directory tells that stays true: its threads, their allocations and registrations.
Grows(dir, later) ==
    \A t \in Threads : Known(dir, t) =>
        /\ Known(later, t)
        /\ later[t][1].alloc = dir[t][1].alloc
        /\ dir[t][1].status = "registered" => later[t][1].status = "registered"
\* The store of t holds the thread the directory allocated.
Created(dir, st, t) == Known(dir, t) /\ st[t].created = <<dir[t][1].alloc>>
\* a is the allocation a caller c asked for.
Matches(c, a) ==
    /\ a.parent = Requests[c].parent
    /\ a.name = Requests[c].name
    /\ Agrees(Requests[c], a) \/ Requests[c].generated

\* A store that was initialized holds its allocation, and a registered thread's store was initialized.
StoreFits(t, dir, st) ==
    /\ st[t].created # <<>> => Created(dir, st, t)
    /\ Is(dir, t, "registered") => Created(dir, st, t)
\* A provisioning call carries its thread's allocation, and leaves a store that holds it.
ProvisionFits(m, dir, st) ==
    /\ Known(dir, m.alloc.thread) /\ dir[m.alloc.thread][1].alloc = m.alloc
    /\ m.made => Created(dir, st, m.alloc.thread)
\* What a caller sends is its own request; the thread it waits for, or was given, is the one it asked for.
CallerFits(c, k, dir) ==
    /\ k.pc = "sending" /\ k.event # NoEvent =>
          k.event.type = "requested" /\ k.event.thread = k.thread /\ Matches(c, k.event.alloc)
    /\ k.pc \in {"await", "done"} => Known(dir, k.thread) /\ Matches(c, dir[k.thread][1].alloc)
    /\ k.pc = "done" => Is(dir, k.thread, "registered")
\* The caller whose request runtime r is committing waits there.
Serves(x, r, c, k) ==
    /\ x.admission.type = "requested" /\ Matches(c, x.admission.alloc)
    /\ k.pc = "sending" /\ k.rt = r /\ k.event = NoEvent /\ k.thread = x.admission.thread
\* A runtime, behind or not: its view grew into the current directory, what it decided follows from its
\* view, and what its calls told it is so.
RuntimeFits(x, r, log, st, cs) ==
    LET v == Directory(SubSeq(log, 1, x.pos))
        dir == Directory(log)
    IN  /\ x.pos <= Len(log)
        /\ v \in Directories /\ Grows(v, dir)
        /\ x.admission # NoEvent =>
              /\ x.status \in {"live", "closing"}
              /\ Valid(v, x.admission)
              /\ x.admission.type = "registered" => Created(dir, st, x.admission.thread)
        /\ \A t \in Threads : x.acts[t] = "ok" => Created(dir, st, t)
        /\ x.for # NoCall => Serves(x, r, x.for, cs[x.for])

DirectoryTypes ==
    /\ dirLog \in Seq(Events)
    /\ stores \in Stores
    /\ runtimes \in Seq(Runtimes)
    /\ cached \in 0 .. Len(runtimes)
    /\ callers \in [CallIds -> Callers]
    /\ \A m \in provisions : m \in Calls /\ m.by \in 0 .. Len(runtimes)
    /\ \A c \in CallIds : callers[c].rt \in 0 .. Len(runtimes)
DirectoryInv ==
    /\ DirectoryTypes
    /\ Directory(dirLog) \in Directories /\ Holds(Directory(dirLog)) /\ OneName(Directory(dirLog))
    /\ \A t \in Threads : StoreFits(t, Directory(dirLog), stores)
    /\ \A m \in provisions : ProvisionFits(m, Directory(dirLog), stores)
    /\ \A c \in CallIds : CallerFits(c, callers[c], Directory(dirLog))
    /\ \A r \in DOMAIN runtimes : RuntimeFits(runtimes[r], r, dirLog, stores, callers)

-----------------------------------------------------------------------------
(* The recursion of Directory *)

\* A set of naturals has a least member.
LEMMA LeastNatural ==
  ASSUME NEW T, T \subseteq Nat, T # {}
  PROVE  \E n \in T : \A k \in T : n <= k
  <1> DEFINE R == {ss \in Nat \X Nat : ss[1] < ss[2]}
  <1>1. IsWellFoundedOn(R, Nat)
    BY NatLessThanWellFounded, Zenon DEF OpToRel
  <1>2. PICK x \in T : \A y \in T : ~(<<y, x>> \in R)
    <2> HIDE DEF R
    <2> QED  BY <1>1, WFMin
  <1>3. \A y \in T : <<y, x>> \in R <=> y < x
    OBVIOUS
  <1>4. \A y \in T : ~(y < x)
    <2> HIDE DEF R
    <2> QED  BY <1>2, <1>3
  <1>5. x \in Nat /\ \A y \in T : y \in Nat
    OBVIOUS
  <1> HIDE DEF R
  <1>6. \A y \in T : x <= y
    BY <1>4, <1>5
  <1> QED  BY <1>6

\* Induction up to a bound, over a set.
LEMMA Induction ==
  ASSUME NEW a \in Nat, NEW b \in Nat, NEW S, a \in S,
         \A n \in a .. b : n \in S /\ n < b => n + 1 \in S
  PROVE  \A n \in a .. b : n \in S
  <1> SUFFICES ASSUME NEW m \in a .. b, m \notin S PROVE FALSE
    OBVIOUS
  <1> DEFINE T == {n \in a .. b : n \notin S}
  <1>1. T \subseteq Nat /\ T # {}
    OBVIOUS
  <1>2. PICK n \in T : \A k \in T : n <= k
    <2> HIDE DEF T
    <2> QED  BY <1>1, LeastNatural
  <1>3. n \in a .. b /\ n \notin S /\ n # a
    OBVIOUS
  <1>4. n - 1 \in a .. b /\ n - 1 < b /\ n - 1 < n
    BY <1>3
  <1>5. n - 1 \in S
    BY <1>2, <1>3, <1>4
  <1>6. (n - 1) + 1 \in S
    BY <1>4, <1>5
  <1> QED  BY <1>3, <1>6


\* The recursion has a solution, built one record at a time.
LEMMA DirectoryExists ==
  ASSUME NEW log, NEW b \in Nat
  PROVE  \E g : g = [n \in 0 .. b |-> IF n = 0 THEN [t \in Threads |-> <<>>] ELSE Reduce(g[n - 1], log[n])]
  <1> DEFINE Solves(g, m) == g = [n \in 0 .. m |-> IF n = 0 THEN [t \in Threads |-> <<>>] ELSE Reduce(g[n - 1], log[n])]
             S == {m \in 0 .. b : \E g : Solves(g, m)}
  <1>1. 0 \in S
    <2> DEFINE g == [n \in 0 .. 0 |-> [t \in Threads |-> <<>>]]
    <2>1. Solves(g, 0)
      OBVIOUS
    <2> HIDE DEF g, Solves
    <2> QED  BY <2>1
  <1>2. ASSUME NEW m \in 0 .. b, m \in S, m < b PROVE m + 1 \in S
    <2>1. PICK g : Solves(g, m)
      BY <1>2
    <2> DEFINE h == [n \in 0 .. (m + 1) |-> IF n = m + 1 THEN Reduce(g[m], log[m + 1]) ELSE g[n]]
    <2>2. \A n \in 0 .. m : g[n] = IF n = 0 THEN [t \in Threads |-> <<>>] ELSE Reduce(g[n - 1], log[n])
      BY <2>1
    <2>3. ASSUME NEW n \in 0 .. (m + 1)
          PROVE  h[n] = IF n = 0 THEN [t \in Threads |-> <<>>] ELSE Reduce(h[n - 1], log[n])
      <3>1. CASE n = 0
        BY <3>1, <2>2
      <3>2. CASE n # 0 /\ n <= m
        <4>1. n - 1 \in 0 .. m /\ n \in 0 .. m
          BY <3>2
        <4> QED  BY <3>2, <4>1, <2>2
      <3>3. CASE n = m + 1
        BY <3>3
      <3> QED  BY <3>1, <3>2, <3>3
    <2>4. h = [n \in 0 .. (m + 1) |-> IF n = 0 THEN [t \in Threads |-> <<>>] ELSE Reduce(h[n - 1], log[n])]
      <3> DEFINE k == [n \in 0 .. (m + 1) |-> IF n = 0 THEN [t \in Threads |-> <<>>] ELSE Reduce(h[n - 1], log[n])]
      <3>1. DOMAIN h = DOMAIN k /\ \A n \in DOMAIN h : h[n] = k[n]
        <4> HIDE DEF h
        <4>1. DOMAIN h = 0 .. (m + 1)
          BY DEF h
        <4> QED  BY <2>3, <4>1
      <3>2. h = [n \in DOMAIN h |-> h[n]] /\ k = [n \in DOMAIN k |-> k[n]]
        OBVIOUS
      <3> HIDE DEF h, k
      <3>3. h = k
        BY <3>1, <3>2
      <3> QED  BY <3>3 DEF k
    <2>5. Solves(h, m + 1)
      <3> HIDE DEF h
      <3> QED  BY <2>4
    <2> HIDE DEF h, Solves
    <2> QED  BY <1>2, <2>5
  <1>3. b \in S
    <2> HIDE DEF S
    <2>1. \A n \in 0 .. b : n \in S
      BY <1>1, <1>2, Induction
    <2> QED  BY <2>1
  <1> QED  BY <1>3

\* So its equation holds.
LEMMA DirectoryEquation ==
  ASSUME NEW log, Len(log) \in Nat
  PROVE  \E g : /\ Directory(log) = g[Len(log)]
                /\ g[0] = [t \in Threads |-> <<>>]
                /\ \A n \in 1 .. Len(log) : g[n] = Reduce(g[n - 1], log[n])
  <1> DEFINE fold == CHOOSE g : g = [n \in 0 .. Len(log) |-> IF n = 0 THEN [t \in Threads |-> <<>>] ELSE Reduce(g[n - 1], log[n])]
  <1>1. Directory(log) = fold[Len(log)]
    BY DEF Directory
  <1>2. fold = [n \in 0 .. Len(log) |-> IF n = 0 THEN [t \in Threads |-> <<>>] ELSE Reduce(fold[n - 1], log[n])]
    <2>1. \E g : g = [n \in 0 .. Len(log) |-> IF n = 0 THEN [t \in Threads |-> <<>>] ELSE Reduce(g[n - 1], log[n])]
      BY DirectoryExists
    <2> QED  BY <2>1
  <1> HIDE DEF fold
  <1>3. fold[0] = [t \in Threads |-> <<>>]
    <2>1. 0 \in 0 .. Len(log)
      OBVIOUS
    <2> QED  BY <1>2, <2>1
  <1>4. ASSUME NEW n \in 1 .. Len(log) PROVE fold[n] = Reduce(fold[n - 1], log[n])
    <2>1. n \in 0 .. Len(log) /\ n # 0
      OBVIOUS
    <2> QED  BY <1>2, <2>1
  <1> QED  BY <1>1, <1>3, <1>4

\* The directory of an empty journal holds nothing.
LEMMA EmptyDirectory == Directory(<<>>) = [t \in Threads |-> <<>>]
  <1>1. Len(<<>>) = 0 /\ Len(<<>>) \in Nat
    OBVIOUS
  <1>2. PICK g : /\ Directory(<<>>) = g[Len(<<>>)]
                 /\ g[0] = [t \in Threads |-> <<>>]
    BY <1>1, DirectoryEquation
  <1> QED  BY <1>1, <1>2

\* One more record is one more step of the reducer.
LEMMA LongerDirectory ==
  ASSUME NEW S, NEW log \in Seq(S), NEW e \in S
  PROVE  Directory(Append(log, e)) = Reduce(Directory(log), e)
  <1> DEFINE longer == Append(log, e)
  <1>1. /\ Len(log) \in Nat /\ Len(longer) = Len(log) + 1 /\ longer[Len(log) + 1] = e
        /\ \A n \in 1 .. Len(log) : longer[n] = log[n]
    OBVIOUS
  <1> HIDE DEF longer
  <1>2. PICK g : /\ Directory(log) = g[Len(log)]
                 /\ g[0] = [t \in Threads |-> <<>>]
                 /\ \A n \in 1 .. Len(log) : g[n] = Reduce(g[n - 1], log[n])
    BY <1>1, DirectoryEquation
  <1>3. PICK h : /\ Directory(longer) = h[Len(longer)]
                 /\ h[0] = [t \in Threads |-> <<>>]
                 /\ \A n \in 1 .. Len(longer) : h[n] = Reduce(h[n - 1], longer[n])
    BY <1>1, DirectoryEquation
  <1> DEFINE E == {n \in 0 .. Len(log) : g[n] = h[n]}
  <1>4. 0 \in E
    BY <1>1, <1>2, <1>3
  <1>5. ASSUME NEW n \in 0 .. Len(log), n \in E, n < Len(log) PROVE n + 1 \in E
    <2>1. n + 1 \in 1 .. Len(log) /\ n + 1 \in 1 .. Len(longer) /\ n + 1 \in 0 .. Len(log) /\ (n + 1) - 1 = n
      BY <1>1, <1>5
    <2>2. g[n + 1] = Reduce(g[n], log[n + 1]) /\ h[n + 1] = Reduce(h[n], longer[n + 1])
      BY <1>2, <1>3, <2>1
    <2> QED  BY <1>1, <1>5, <2>1, <2>2
  <1>6. \A n \in 0 .. Len(log) : n \in E
    <2> HIDE DEF E
    <2> QED  BY <1>1, <1>4, <1>5, Induction
  <1>7. g[Len(log)] = h[Len(log)]
    BY <1>1, <1>6
  <1>8. h[Len(log) + 1] = Reduce(h[Len(log)], e)
    <2>1. Len(log) + 1 \in 1 .. Len(longer) /\ (Len(log) + 1) - 1 = Len(log)
      BY <1>1
    <2> QED  BY <1>1, <1>3, <2>1
  <1> QED  BY <1>1, <1>2, <1>3, <1>7, <1>8 DEF longer

\* What a runtime has read is the same when the journal grows.
LEMMA Prefixes ==
  ASSUME NEW S, NEW log \in Seq(S), NEW e \in S, NEW n \in 0 .. Len(log)
  PROVE  /\ SubSeq(Append(log, e), 1, n) = SubSeq(log, 1, n)
         /\ SubSeq(log, 1, 0) = <<>>
         /\ SubSeq(log, 1, Len(log)) = log
  OBVIOUS

-----------------------------------------------------------------------------
(* What the reducer makes of an event *)

\* An entry with one field replaced.
LEMMA OptionalOne ==
  ASSUME NEW S, NEW s \in Optional(S), s # <<>>
  PROVE  \E x \in S : s = <<x>> /\ s[1] = x
  BY DEF Optional

\* A valid event moves its own thread only, which keeps its allocation unless it is
\* requested anew.
LEMMA ReduceIs ==
  ASSUME NEW dir \in Directories, NEW e \in Events, Valid(dir, e)
  PROVE  LET later == Reduce(dir, e)
             t == e.thread
         IN  /\ later \in Directories
             /\ \A u \in Threads \ {t} : later[u] = dir[u]
             /\ later[t] # <<>>
             /\ e.type = "requested" => later[t][1].alloc = e.alloc /\ later[t][1].status = "requested"
             /\ e.type # "requested" => later[t][1].alloc = dir[t][1].alloc
             /\ e.type = "retry" => later[t][1].status = "requested"
             /\ e.type \in {"registered", "failed"} => later[t][1].status = e.type
  <1> DEFINE t == e.thread
             later == Reduce(dir, e)
  <1>1. t \in Threads /\ DOMAIN dir = Threads
    BY DEF Events, Directories
  <1>2. CASE e.type = "requested"
    <2> DEFINE x == [alloc |-> e.alloc, status |-> "requested", tries |-> 0]
    <2>1. later = [dir EXCEPT ![t] = <<x>>]
      BY <1>2 DEF Reduce
    <2>2. x \in Entries /\ x.alloc = e.alloc /\ x.status = "requested"
      BY <1>2 DEF Entries, Events
    <2> HIDE DEF x
    <2>3. <<x>> \in Optional(Entries) /\ <<x>> # <<>> /\ <<x>>[1] = x
      BY <2>2 DEF Optional
    <2>4. later[t] = <<x>>
      BY <1>1, <2>1
    <2>5. later \in Directories
      BY <1>1, <2>1, <2>3 DEF Directories
    <2> HIDE DEF later
    <2>6. \A u \in Threads \ {t} : later[u] = dir[u]
      BY <2>1, <1>1 DEF later
    <2> QED  BY <1>2, <2>2, <2>3, <2>4, <2>5, <2>6 DEF later
  <1>3. CASE e.type # "requested"
    <2>1. dir[t] # <<>> /\ dir[t][1].status = "requested"
      BY <1>3 DEF Valid, Is, Known
    <2>2. PICK x \in Entries : dir[t] = <<x>> /\ dir[t][1] = x
      <3>1. dir[t] \in Optional(Entries)
        BY <1>1 DEF Directories
      <3> QED  BY <2>1, <3>1, OptionalOne
    <2> DEFINE y == IF e.type = "retry" THEN [x EXCEPT !.tries = @ + 1] ELSE [x EXCEPT !.status = e.type]
    <2>3. y \in Entries /\ y.alloc = x.alloc /\ y.status = IF e.type = "retry" THEN "requested" ELSE e.type
      BY <1>3, <2>1, <2>2 DEF Entries, Events
    <2>4. later = [dir EXCEPT ![t] = <<y>>]
      <3>1. CASE e.type = "retry"
        <4>1. later = [dir EXCEPT ![t] = [dir[t] EXCEPT ![1] = [dir[t][1] EXCEPT !.tries = dir[t][1].tries + 1]]]
          BY <3>1 DEF Reduce
        <4>2. [dir[t] EXCEPT ![1] = y] = <<y>>
          BY <2>2
        <4> QED  BY <3>1, <4>1, <4>2, <2>2
      <3>2. CASE e.type # "retry"
        <4>1. later = [dir EXCEPT ![t] = [dir[t] EXCEPT ![1] = [dir[t][1] EXCEPT !.status = e.type]]]
          BY <3>2, <1>3, <2>1 DEF Reduce
        <4>2. [dir[t] EXCEPT ![1] = y] = <<y>>
          BY <2>2
        <4> QED  BY <3>2, <4>1, <4>2, <2>2
      <3> QED  BY <3>1, <3>2
    <2> HIDE DEF y, later
    <2>5. <<y>> \in Optional(Entries) /\ <<y>> # <<>> /\ <<y>>[1] = y
      BY <2>3 DEF Optional
    <2>6. later \in Directories /\ later[t] = <<y>> /\ \A u \in Threads \ {t} : later[u] = dir[u]
      BY <1>1, <2>4, <2>5 DEF Directories
    <2> QED  BY <1>3, <2>2, <2>3, <2>5, <2>6 DEF later
  <1> QED  BY <1>2, <1>3

\* The parents in a directory stay parents, and names stay unique, when an event the
\* reducer accepts is added.
LEMMA ReduceKeeps ==
  ASSUME NEW dir \in Directories, Holds(dir), OneName(dir), NEW e \in Events, Valid(dir, e)
  PROVE  LET later == Reduce(dir, e)
         IN  later \in Directories /\ Holds(later) /\ OneName(later) /\ Grows(dir, later)
  <1> DEFINE later == Reduce(dir, e)
             t == e.thread
  <1>1. /\ later \in Directories
        /\ \A u \in Threads \ {t} : later[u] = dir[u]
        /\ later[t] # <<>> /\ t \in Threads
        /\ e.type = "requested" => later[t][1].alloc = e.alloc /\ later[t][1].status = "requested"
        /\ e.type # "requested" => later[t][1].alloc = dir[t][1].alloc
    <2>1. t \in Threads
      BY DEF Events
    <2> QED  BY <2>1, ReduceIs
  <1> HIDE DEF later
  <1>2. Known(dir, t) => later[t][1].alloc = dir[t][1].alloc /\ dir[t][1].status # "registered"
    BY <1>1 DEF Valid, Is
  <1>3. Grows(dir, later)
    BY <1>1, <1>2 DEF Grows, Known
  <1>4. \A a : ParentHolds(dir, a) => ParentHolds(later, a)
    BY <1>3 DEF ParentHolds, Is, Grows, Known
  <1>5. ParentHolds(dir, later[t][1].alloc) /\ later[t][1].alloc.thread = t
    <2>1. CASE e.type = "requested"
      BY <1>1, <2>1 DEF Valid, Events
    <2>2. CASE e.type # "requested"
      <3>1. Known(dir, t)
        BY <2>2 DEF Valid, Is
      <3> QED  BY <1>1, <2>2, <3>1 DEF Holds
    <2> QED  BY <2>1, <2>2
  <1>6. Holds(later)
    <2> SUFFICES ASSUME NEW u \in Threads, Known(later, u)
                 PROVE  later[u][1].alloc.thread = u /\ ParentHolds(later, later[u][1].alloc)
      BY DEF Holds
    <2>1. CASE u = t
      BY <2>1, <1>4, <1>5
    <2>2. CASE u # t
      BY <2>2, <1>1, <1>4 DEF Holds, Known
    <2> QED  BY <2>1, <2>2
  <1>7. ASSUME NEW u \in Threads, Known(dir, u),
               dir[u][1].alloc.parent = later[t][1].alloc.parent, dir[u][1].alloc.name = later[t][1].alloc.name
        PROVE  u = t
    <2>1. CASE e.type = "requested"
      <3>1. u \in Named(dir, e.alloc.parent, e.alloc.name)
        BY <1>1, <1>7, <2>1 DEF Named
      <3> QED  BY <2>1, <3>1 DEF Valid
    <2>2. CASE e.type # "requested"
      <3>1. Known(dir, t)
        BY <2>2 DEF Valid, Is
      <3> QED  BY <1>1, <1>7, <2>2, <3>1 DEF OneName
    <2> QED  BY <2>1, <2>2
  <1>8. OneName(later)
    <2> SUFFICES ASSUME NEW u \in Threads, NEW v \in Threads, Known(later, u), Known(later, v),
                        later[u][1].alloc.parent = later[v][1].alloc.parent,
                        later[u][1].alloc.name = later[v][1].alloc.name
                 PROVE  u = v
      BY DEF OneName
    <2>1. CASE u = t /\ v # t
      BY <2>1, <1>1, <1>7 DEF Known
    <2>2. CASE u # t /\ v = t
      BY <2>2, <1>1, <1>7 DEF Known
    <2>3. CASE u # t /\ v # t
      BY <2>3, <1>1 DEF OneName, Known
    <2> QED  BY <2>1, <2>2, <2>3
  <1> QED  BY <1>1, <1>3, <1>6, <1>8 DEF later

\* What follows from a directory that only grows.
LEMMA GrowsOn ==
  ASSUME NEW dir, NEW later, Grows(dir, later)
  PROVE  /\ \A v : Grows(v, dir) => Grows(v, later)
         /\ \A st, t : Created(dir, st, t) => Created(later, st, t)
         /\ \A m, st : ProvisionFits(m, dir, st) => ProvisionFits(m, later, st)
         /\ \A c, k : CallerFits(c, k, dir) => CallerFits(c, k, later)
  <1>1. \A v : Grows(v, dir) => Grows(v, later)
    BY DEF Grows, Known
  <1>2. \A st, t : Created(dir, st, t) => Created(later, st, t)
    BY DEF Grows, Created, Known
  <1>3. \A m, st : ProvisionFits(m, dir, st) => ProvisionFits(m, later, st)
    BY <1>2 DEF Grows, ProvisionFits, Known
  <1>4. \A c, k : CallerFits(c, k, dir) => CallerFits(c, k, later)
    BY DEF Grows, CallerFits, Known, Is
  <1> QED  BY <1>1, <1>2, <1>3, <1>4

\* A runtime still fits when it gives up what it was doing, or keeps it, and so do those
\* it serves.
LEMMA RuntimeBecomes ==
  ASSUME NEW log, NEW st, NEW cs, NEW later, NEW cs2, NEW r, NEW x, NEW y,
         RuntimeFits(x, r, log, st, cs),
         y.pos = x.pos,
         y.admission = NoEvent \/ (y.admission = x.admission /\ y.status \in {"live", "closing"}),
         y.for = NoCall \/ (y.for = x.for /\ y.admission = x.admission /\ cs2[x.for] = cs[x.for]),
         \A t \in Threads : y.acts[t] = "ok" => x.acts[t] = "ok" \/ Created(Directory(log), later, t),
         \A t \in Threads : Created(Directory(log), st, t) => Created(Directory(log), later, t)
  PROVE  RuntimeFits(y, r, log, later, cs2)
  <1> DEFINE v == Directory(SubSeq(log, 1, x.pos))
             dir == Directory(log)
  <1>1. x.pos <= Len(log) /\ v \in Directories /\ Grows(v, dir)
    BY DEF RuntimeFits
  <1>2. /\ x.admission # NoEvent =>
              /\ Valid(v, x.admission)
              /\ x.admission.type = "registered" => Created(dir, st, x.admission.thread)
        /\ \A t \in Threads : x.acts[t] = "ok" => Created(dir, st, t)
        /\ x.for # NoCall => Serves(x, r, x.for, cs[x.for])
    BY DEF RuntimeFits
  <1>3. \A t \in Threads : y.acts[t] = "ok" => Created(dir, later, t)
    BY <1>2
  <1>4. y.admission # NoEvent =>
              /\ y.status \in {"live", "closing"}
              /\ Valid(v, y.admission)
              /\ y.admission.type = "registered" => Created(dir, later, y.admission.thread)
    <2>1. Created(dir, st, x.admission.thread) => x.admission.thread \in Threads
      BY DEF Created, Known
    <2> QED  BY <1>2, <2>1
  <1>5. y.for # NoCall => Serves(y, r, y.for, cs2[y.for])
    BY <1>2 DEF Serves
  <1>6. Directory(SubSeq(log, 1, y.pos)) = v
    OBVIOUS
  <1> HIDE DEF v, dir
  <1> QED  BY <1>1, <1>3, <1>4, <1>5, <1>6 DEF RuntimeFits, dir

\* A journal that grows changes nothing for the runtimes that do not read on.
LEMMA RuntimeGrows ==
  ASSUME NEW log \in Seq(Events), NEW e \in Events, NEW st, NEW cs, NEW r, NEW x, x.pos \in Nat,
         RuntimeFits(x, r, log, st, cs), Grows(Directory(log), Directory(Append(log, e)))
  PROVE  RuntimeFits(x, r, Append(log, e), st, cs)
  <1> DEFINE v == Directory(SubSeq(log, 1, x.pos))
             dir == Directory(log)
             later == Directory(Append(log, e))
  <1>1. /\ x.pos <= Len(log) /\ v \in Directories /\ Grows(v, dir)
        /\ x.admission # NoEvent =>
              /\ x.status \in {"live", "closing"}
              /\ Valid(v, x.admission)
              /\ x.admission.type = "registered" => Created(dir, st, x.admission.thread)
        /\ \A t \in Threads : x.acts[t] = "ok" => Created(dir, st, t)
        /\ x.for # NoCall => Serves(x, r, x.for, cs[x.for])
    BY DEF RuntimeFits
  <1>2. x.pos \in 0 .. Len(log) /\ Len(Append(log, e)) = Len(log) + 1 /\ Len(log) \in Nat
    BY <1>1
  <1>3. Directory(SubSeq(Append(log, e), 1, x.pos)) = v
    <2>1. SubSeq(Append(log, e), 1, x.pos) = SubSeq(log, 1, x.pos)
      BY <1>2, Prefixes
    <2> QED  BY <2>1
  <1>4. Grows(v, later) /\ \A t : Created(dir, st, t) => Created(later, st, t)
    BY <1>1, GrowsOn
  <1>5. x.pos <= Len(Append(log, e))
    BY <1>1, <1>2
  <1> HIDE DEF v, dir, later
  <1> QED  BY <1>1, <1>3, <1>4, <1>5 DEF RuntimeFits, later

\* A call that fails owes nothing.
LEMMA FailedFits ==
  ASSUME callers \in [CallIds -> Callers], NEW cs, NEW cs2, cs2 = Failed(cs)
  PROVE  /\ cs2 \in [CallIds -> Callers]
         /\ \A c \in CallIds : cs2[c].rt = callers[c].rt
         /\ \A c \in CallIds \ cs : cs2[c] = callers[c]
         /\ \A c \in CallIds : c \in cs => cs2[c].pc = "failed"
         /\ \A c \in CallIds : \A dir : CallerFits(c, callers[c], dir) => CallerFits(c, cs2[c], dir)
  <1>1. ASSUME NEW c \in CallIds
        PROVE  /\ cs2[c] \in Callers /\ cs2[c].rt = callers[c].rt
               /\ c \notin cs => cs2[c] = callers[c]
               /\ c \in cs => cs2[c].pc = "failed"
    BY DEF Failed, Callers
  <1>2. cs2 = [c \in CallIds |-> cs2[c]]
    BY DEF Failed
  <1>3. cs2 \in [CallIds -> Callers]
    BY <1>1, <1>2
  <1>4. \A c \in CallIds : \A dir : CallerFits(c, callers[c], dir) => CallerFits(c, cs2[c], dir)
    BY <1>1 DEF CallerFits
  <1> QED  BY <1>1, <1>3, <1>4

\* A runtime that does not move, beside callers or stores that do.
LEMMA RuntimeStays ==
  ASSUME NEW log, NEW st, NEW cs, NEW later, NEW cs2, NEW r, NEW x,
         RuntimeFits(x, r, log, st, cs), x.for # NoCall => cs2[x.for] = cs[x.for],
         \A t \in Threads : Created(Directory(log), st, t) => Created(Directory(log), later, t)
  PROVE  RuntimeFits(x, r, log, later, cs2)
  <1>1. x.admission # NoEvent => x.status \in {"live", "closing"}
    BY DEF RuntimeFits
  <1> QED  BY <1>1, RuntimeBecomes

\* The call a runtime serves waits for it.
LEMMA ServedWaits ==
  ASSUME DirectoryInv, NEW r \in DOMAIN runtimes, runtimes[r].for # NoCall
  PROVE  /\ runtimes[r].for \in CallIds /\ runtimes[r].admission # NoEvent
         /\ Serves(runtimes[r], r, runtimes[r].for, callers[runtimes[r].for])
         /\ callers[runtimes[r].for].rt = r
         /\ callers[runtimes[r].for].pc = "sending" /\ callers[runtimes[r].for].event = NoEvent
  <1>1. RuntimeFits(runtimes[r], r, dirLog, stores, callers)
    BY DEF DirectoryInv
  <1>2. Serves(runtimes[r], r, runtimes[r].for, callers[runtimes[r].for])
    BY <1>1 DEF RuntimeFits
  <1>3. runtimes[r].for \in CallIds
    <2>1. runtimes[r] \in Runtimes
      BY DEF DirectoryInv, DirectoryTypes
    <2> QED  BY <2>1 DEF Runtimes
  <1> QED  BY <1>2, <1>3 DEF Serves, NoEvent

\* One runtime of the sequence replaced.
LEMMA RuntimeSet ==
  ASSUME NEW rts \in Seq(Runtimes), NEW r \in DOMAIN rts, NEW y \in Runtimes,
         NEW rts2, rts2 = [rts EXCEPT ![r] = y]
  PROVE  /\ rts2 \in Seq(Runtimes) /\ Len(rts2) = Len(rts) /\ DOMAIN rts2 = DOMAIN rts
         /\ rts2[r] = y /\ \A s \in DOMAIN rts : s # r => rts2[s] = rts[s]
  OBVIOUS

\* A step that only moves callers, none of them one a runtime serves.
LEMMA CallersMove ==
  ASSUME DirectoryInv, UNCHANGED <<dirLog, stores, runtimes, cached, provisions>>,
         callers' \in [CallIds -> Callers],
         \A c \in CallIds : callers'[c].rt \in 0 .. Len(runtimes) /\ CallerFits(c, callers'[c], Directory(dirLog)),
         \A c \in CallIds : callers'[c] = callers[c] \/ ~(callers[c].pc = "sending" /\ callers[c].event = NoEvent)
  PROVE  DirectoryInv'
  <1>1. \A r \in DOMAIN runtimes : RuntimeFits(runtimes[r], r, dirLog, stores, callers')
    <2> SUFFICES ASSUME NEW r \in DOMAIN runtimes PROVE RuntimeFits(runtimes[r], r, dirLog, stores, callers')
      OBVIOUS
    <2>1. RuntimeFits(runtimes[r], r, dirLog, stores, callers)
      BY DEF DirectoryInv
    <2>2. runtimes[r].for # NoCall => callers'[runtimes[r].for] = callers[runtimes[r].for]
      BY ServedWaits
    <2> QED  BY <2>1, <2>2, RuntimeStays
  <1>2. DirectoryTypes'
    BY DEF DirectoryInv, DirectoryTypes
  <1> QED  BY <1>1, <1>2 DEF DirectoryInv

\* One call moves on.
LEMMA CallerMoves ==
  ASSUME DirectoryInv, UNCHANGED <<dirLog, stores, runtimes, cached, provisions>>, NEW c \in CallIds, NEW k \in Callers,
         callers' = [callers EXCEPT ![c] = k], k.rt \in 0 .. Len(runtimes), CallerFits(c, k, Directory(dirLog)),
         ~(callers[c].pc = "sending" /\ callers[c].event = NoEvent)
  PROVE  DirectoryInv'
  <1>1. callers \in [CallIds -> Callers] /\ \A d \in CallIds : callers[d].rt \in 0 .. Len(runtimes)
    BY DEF DirectoryInv, DirectoryTypes
  <1>2. callers' \in [CallIds -> Callers] /\ callers'[c] = k /\ \A d \in CallIds \ {c} : callers'[d] = callers[d]
    BY <1>1
  <1>3. \A d \in CallIds : CallerFits(d, callers'[d], Directory(dirLog))
    BY <1>2 DEF DirectoryInv
  <1> QED  BY <1>1, <1>2, <1>3, CallersMove

\* A call that fails while nothing else moves.
LEMMA CallerFails ==
  ASSUME DirectoryInv, UNCHANGED <<dirLog, stores, runtimes, cached, provisions>>, NEW c \in CallIds,
         callers' = Failed({c}), ~(callers[c].pc = "sending" /\ callers[c].event = NoEvent)
  PROVE  DirectoryInv'
  <1>1. callers \in [CallIds -> Callers] /\ \A d \in CallIds : callers[d].rt \in 0 .. Len(runtimes)
    BY DEF DirectoryInv, DirectoryTypes
  <1>2. /\ callers' \in [CallIds -> Callers]
        /\ \A d \in CallIds : callers'[d].rt = callers[d].rt
        /\ \A d \in CallIds \ {c} : callers'[d] = callers[d]
        /\ \A d \in CallIds : \A dir : CallerFits(d, callers[d], dir) => CallerFits(d, callers'[d], dir)
    BY <1>1, FailedFits
  <1>3. \A d \in CallIds : CallerFits(d, callers'[d], Directory(dirLog))
    BY <1>2 DEF DirectoryInv
  <1> QED  BY <1>1, <1>2, <1>3, CallersMove

-----------------------------------------------------------------------------
(* The steps *)

\* Nothing is recorded, open or asked for at first.
LEMMA DirectoryInvInit == DirectoryInit => DirectoryInv
  <1> SUFFICES ASSUME DirectoryInit PROVE DirectoryInv
    OBVIOUS
  <1> DEFINE dir == [t \in Threads |-> <<>>]
  <1>1. Directory(dirLog) = dir
    BY EmptyDirectory DEF DirectoryInit
  <1>2. dir \in Directories /\ \A t \in Threads : ~Known(dir, t)
    BY DEF Directories, Optional, Known
  <1> HIDE DEF dir
  <1>3. Holds(dir) /\ OneName(dir)
    BY <1>2 DEF Holds, OneName
  <1>4. stores \in Stores /\ \A t \in Threads : stores[t].created = <<>>
    BY DEF DirectoryInit, Stores, Nothing, Optional
  <1>5. \A t \in Threads : StoreFits(t, dir, stores)
    BY <1>2, <1>4 DEF StoreFits, Is
  <1>6. callers \in [CallIds -> Callers] /\ \A c \in CallIds : callers[c].pc = "idle" /\ callers[c].rt = 0
    BY DEF DirectoryInit, Callers
  <1>7. \A c \in CallIds : CallerFits(c, callers[c], dir)
    BY <1>6 DEF CallerFits
  <1>8. runtimes = <<>> /\ provisions = {} /\ cached = 0 /\ dirLog = <<>>
    BY DEF DirectoryInit
  <1>9. DirectoryTypes
    BY <1>4, <1>6, <1>8 DEF DirectoryTypes
  <1> QED  BY <1>1, <1>2, <1>3, <1>5, <1>7, <1>8, <1>9 DEF DirectoryInv

\* A runtime that has read nothing fits any journal.
LEMMA FreshFits ==
  ASSUME NEW log \in Seq(Events), NEW r, NEW st, NEW cs
  PROVE  Fresh(0) \in Runtimes /\ RuntimeFits(Fresh(0), r, log, st, cs)
  <1> DEFINE x == Fresh(0)
             v == Directory(SubSeq(log, 1, x.pos))
  <1>1. /\ x \in Runtimes /\ x.pos = 0 /\ x.admission = NoEvent /\ x.for = NoCall
        /\ \A t \in Threads : x.acts[t] # "ok"
    BY DEF Fresh, Runtimes
  <1>2. v = [t \in Threads |-> <<>>]
    <2>1. SubSeq(log, 1, x.pos) = <<>>
      BY <1>1
    <2> QED  BY <2>1, EmptyDirectory
  <1>3. v \in Directories /\ \A t \in Threads : ~Known(v, t)
    BY <1>2 DEF Directories, Optional, Known
  <1>4. x.pos <= Len(log) /\ Grows(v, Directory(log))
    BY <1>1, <1>3 DEF Grows
  <1> HIDE DEF x, v
  <1> QED  BY <1>1, <1>3, <1>4 DEF RuntimeFits, x, v

\* A call enters, with the runtime the map holds or a new one.
LEMMA EnterKeeps ==
  ASSUME DirectoryInv, NEW c \in CallIds, Enter(c) PROVE DirectoryInv'
  <1>1. /\ DirectoryTypes /\ callers \in [CallIds -> Callers] /\ runtimes \in Seq(Runtimes) /\ dirLog \in Seq(Events)
        /\ cached \in 0 .. Len(runtimes)
        /\ \A d \in CallIds : callers[d].rt \in 0 .. Len(runtimes)
    BY DEF DirectoryInv, DirectoryTypes
  <1>2. /\ callers[c].pc \in {"idle", "failed"}
        /\ UNCHANGED <<dirLog, stores, provisions, dirFaults>>
        /\ callers' = [callers EXCEPT ![c].pc = "locked", ![c].rt = cached']
    BY DEF Enter
  <1>3. \/ runtimes' = runtimes /\ cached' = cached
        \/ runtimes' = Append(runtimes, Fresh(0)) /\ cached' = Len(runtimes) + 1
    BY DEF Enter
  <1>4. /\ runtimes' \in Seq(Runtimes) /\ cached' \in 0 .. Len(runtimes') /\ Len(runtimes) <= Len(runtimes')
        /\ Len(runtimes) \in Nat /\ Len(runtimes') \in Nat
        /\ \A r \in DOMAIN runtimes' : (r \in DOMAIN runtimes /\ runtimes'[r] = runtimes[r]) \/ runtimes'[r] = Fresh(0)
    <2>1. Fresh(0) \in Runtimes
      BY <1>1, FreshFits
    <2> DEFINE f == Fresh(0)
    <2> HIDE DEF f
    <2>2. CASE runtimes' = runtimes /\ cached' = cached
      BY <1>1, <2>2
    <2>3. CASE runtimes' = Append(runtimes, f) /\ cached' = Len(runtimes) + 1
      <3>1. f \in Runtimes
        BY <2>1 DEF f
      <3>2. /\ runtimes' \in Seq(Runtimes) /\ Len(runtimes') = Len(runtimes) + 1 /\ Len(runtimes) \in Nat
            /\ runtimes'[Len(runtimes) + 1] = f /\ \A r \in 1 .. Len(runtimes) : runtimes'[r] = runtimes[r]
        BY <1>1, <2>3, <3>1
      <3>3. DOMAIN runtimes' = 1 .. (Len(runtimes) + 1) /\ DOMAIN runtimes = 1 .. Len(runtimes)
        BY <1>1, <3>2
      <3> QED  BY <2>3, <3>2, <3>3 DEF f
    <2> QED  BY <1>3, <2>2, <2>3 DEF f
  <1>5. /\ callers' \in [CallIds -> Callers] /\ callers'[c].pc = "locked" /\ callers'[c].rt = cached'
        /\ \A d \in CallIds \ {c} : callers'[d] = callers[d]
    <2>1. callers[c] \in Callers
      BY <1>1
    <2>2. [callers[c] EXCEPT !.pc = "locked", !.rt = cached'] \in Callers
      <3>1. cached' \in Nat
        BY <1>4
      <3> QED  BY <2>1, <3>1 DEF Callers
    <2>3. /\ callers'[c] = [callers[c] EXCEPT !.pc = "locked", !.rt = cached']
          /\ callers' = [callers EXCEPT ![c] = [callers[c] EXCEPT !.pc = "locked", !.rt = cached']]
      BY <1>1, <1>2
    <2> QED  BY <1>1, <2>1, <2>2, <2>3 DEF Callers
  <1>6. \A d \in CallIds : CallerFits(d, callers'[d], Directory(dirLog))
    <2>1. CallerFits(c, callers'[c], Directory(dirLog))
      BY <1>5 DEF CallerFits
    <2> QED  BY <1>5, <2>1 DEF DirectoryInv
  <1>7. \A r \in DOMAIN runtimes' : RuntimeFits(runtimes'[r], r, dirLog, stores, callers')
    <2> SUFFICES ASSUME NEW r \in DOMAIN runtimes' PROVE RuntimeFits(runtimes'[r], r, dirLog, stores, callers')
      OBVIOUS
    <2>1. CASE r \in DOMAIN runtimes /\ runtimes'[r] = runtimes[r]
      <3>1. RuntimeFits(runtimes[r], r, dirLog, stores, callers)
        BY <2>1 DEF DirectoryInv
      <3>2. runtimes[r].for # NoCall => callers'[runtimes[r].for] = callers[runtimes[r].for]
        BY <1>2, <1>5, <2>1, ServedWaits
      <3> QED  BY <2>1, <3>1, <3>2, RuntimeStays
    <2>2. CASE runtimes'[r] = Fresh(0)
      BY <1>1, <2>2, FreshFits
    <2> QED  BY <1>4, <2>1, <2>2
  <1>8. \A d \in CallIds : callers'[d].rt \in 0 .. Len(runtimes')
    BY <1>1, <1>4, <1>5
  <1>9. \A m \in provisions : m \in Calls /\ m.by \in 0 .. Len(runtimes')
    BY <1>4 DEF DirectoryInv, DirectoryTypes
  <1>10. DirectoryTypes'
    BY <1>2, <1>4, <1>5, <1>8, <1>9 DEF DirectoryInv, DirectoryTypes
  <1> QED  BY <1>2, <1>6, <1>7, <1>10 DEF DirectoryInv

\* A thread a runtime has read of is one the journal holds, typed.
LEMMA EntryIs ==
  ASSUME NEW dir \in Directories, NEW t, Known(dir, t)
  PROVE  t \in Threads /\ dir[t][1] \in Entries /\ dir[t][1].alloc \in Allocs /\ dir[t][1].alloc.depth \in Nat
  <1>1. t \in Threads /\ dir[t] \in Optional(Entries) /\ dir[t] # <<>>
    BY DEF Known, Directories
  <1>2. dir[t][1] \in Entries
    BY <1>1, OptionalOne
  <1> QED  BY <1>1, <1>2 DEF Entries, Allocs

\* The same of a runtime's view.
LEMMA ViewIs ==
  ASSUME DirectoryInv, NEW r \in DOMAIN runtimes
  PROVE  /\ View(r) \in Directories
         /\ Grows(View(r), Directory(dirLog))
         /\ RuntimeFits(runtimes[r], r, dirLog, stores, callers)
         /\ runtimes[r] \in Runtimes /\ runtimes[r].pos \in Nat /\ runtimes[r].pos <= Len(dirLog)
  <1>1. RuntimeFits(runtimes[r], r, dirLog, stores, callers)
    BY DEF DirectoryInv
  <1>2. runtimes[r] \in Runtimes
    BY DEF DirectoryInv, DirectoryTypes
  <1>3. runtimes[r].pos \in Nat
    BY <1>2 DEF Runtimes
  <1> QED  BY <1>1, <1>2, <1>3 DEF RuntimeFits, View

\* What allocate decides from a view: a request on the call's terms, or a thread that the
\* journal holds on them.
LEMMA DecisionFits ==
  ASSUME NEW v \in Directories, NEW dir, Grows(v, dir), Holds(dir), NEW c \in CallIds
  PROVE  LET d == Decision(v, Requests[c])
         IN  /\ d.act = "send" => /\ d.event \in Events /\ d.event.type = "requested" /\ d.thread \in Threads
                                  /\ d.event.thread = d.thread /\ Matches(c, d.event.alloc)
             /\ d.act = "resume" => d.thread \in Threads /\ Known(dir, d.thread) /\ Matches(c, dir[d.thread][1].alloc)
  <1> DEFINE q == Requests[c]
             d == Decision(v, q)
             refuse == [act |-> "refuse", event |-> NoEvent, thread |-> NoThread]
             claimed == Named(v, q.parent, q.name)
             t == CHOOSE u \in claimed : TRUE
             n == NewThread(v, q)
             a == Allocation(v, q, n)
  <1>1. CASE d = refuse
    <2>1. d.act = "refuse"
      BY <1>1
    <2> HIDE DEF d
    <2> QED  BY <2>1 DEF d
  <1>2. CASE claimed # {} /\ Agrees(q, v[t][1].alloc)
             /\ (d = [act |-> "send", event |-> Request(v[t][1].alloc), thread |-> t]
                 \/ d = [act |-> "resume", event |-> NoEvent, thread |-> t])
    <2>1. t \in claimed
      BY <1>2
    <2> HIDE DEF t
    <2>2. t \in Threads /\ Known(v, t) /\ v[t][1].alloc.parent = q.parent /\ v[t][1].alloc.name = q.name
      BY <2>1 DEF Named
    <2>3. Known(dir, t) /\ dir[t][1].alloc = v[t][1].alloc /\ v[t][1].alloc.thread = t
      BY <2>2 DEF Grows, Holds
    <2>4. Matches(c, v[t][1].alloc)
      BY <1>2, <2>2 DEF Matches
    <2>5. Request(v[t][1].alloc) \in Events
      <3>1. v[t][1].alloc \in Allocs
        BY <2>2, EntryIs
      <3> QED  BY <2>2, <2>3, <3>1 DEF Request, Events
    <2>6. CASE d = [act |-> "send", event |-> Request(v[t][1].alloc), thread |-> t]
      <3>1. d.act = "send" /\ d.thread = t /\ d.event = Request(v[t][1].alloc)
        BY <2>6
      <3>2. d.event.type = "requested" /\ d.event.thread = t /\ d.event.alloc = v[t][1].alloc
        BY <3>1, <2>3 DEF Request
      <3> HIDE DEF d
      <3> QED  BY <2>2, <2>4, <2>5, <3>1, <3>2 DEF d
    <2>7. CASE d = [act |-> "resume", event |-> NoEvent, thread |-> t]
      <3>1. d.act = "resume" /\ d.thread = t
        BY <2>7
      <3> HIDE DEF d
      <3> QED  BY <2>2, <2>3, <2>4, <3>1 DEF d
    <2> QED  BY <1>2, <2>6, <2>7
  <1>3. CASE (q.parent = Root \/ Is(v, q.parent, "registered"))
             /\ d = [act |-> "send", event |-> Request(a), thread |-> n]
    <2>1. n \in Threads
      BY DEF NewThread, Threads
    <2>2. /\ a \in Allocs /\ a.thread = n /\ a.parent = q.parent /\ a.name = q.name /\ a.seed = q.seed
      <3>1. (IF q.parent = Root THEN 0 ELSE v[q.parent][1].alloc.depth + 1) \in Nat
        <4>1. CASE q.parent = Root
          BY <4>1
        <4>2. CASE q.parent # Root
          <5>1. Known(v, q.parent)
            BY <1>3, <4>2 DEF Is
          <5>2. v[q.parent][1].alloc.depth \in Nat
            BY <5>1, EntryIs
          <5> QED  BY <4>2, <5>2
        <4> QED  BY <4>1, <4>2
      <3> HIDE DEF n
      <3> QED  BY <2>1, <3>1 DEF Allocation, Allocs
    <2> HIDE DEF a, n
    <2>3. Matches(c, a)
      BY <2>2 DEF Matches, Agrees
    <2>4. d.act = "send" /\ d.event = Request(a) /\ d.thread = n
      BY <1>3
    <2>5. Request(a) \in Events /\ Request(a).type = "requested" /\ Request(a).thread = n /\ Request(a).alloc = a
      BY <2>1, <2>2 DEF Request, Events
    <2> HIDE DEF d
    <2> QED  BY <2>1, <2>3, <2>4, <2>5 DEF d
  <1>4. \/ d = refuse
        \/ claimed # {} /\ Agrees(q, v[t][1].alloc)
             /\ (d = [act |-> "send", event |-> Request(v[t][1].alloc), thread |-> t]
                 \/ d = [act |-> "resume", event |-> NoEvent, thread |-> t])
        \/ (q.parent = Root \/ Is(v, q.parent, "registered"))
             /\ d = [act |-> "send", event |-> Request(a), thread |-> n]
    <2> HIDE DEF n, a
    <2> QED  BY DEF Decision, n, a
  <1> QED  BY <1>1, <1>2, <1>3, <1>4

\* The locked part of allocate.
LEMMA DecideKeeps ==
  ASSUME DirectoryInv, NEW c \in CallIds, Decide(c) PROVE DirectoryInv'
  <1> DEFINE r == callers[c].rt
             d == Decision(View(r), Requests[c])
  <1>1. /\ callers[c].pc = "locked" /\ Usable(r)
        /\ UNCHANGED <<dirLog, stores, runtimes, cached, provisions>>
        /\ \/ d.act = "send" /\ callers' = [callers EXCEPT ![c].pc = "sending", ![c].event = d.event, ![c].thread = d.thread]
           \/ d.act = "resume" /\ callers' = [callers EXCEPT ![c].pc = "await", ![c].thread = d.thread]
           \/ callers' = Failed({c})
    BY DEF Decide
  <1>2. r \in DOMAIN runtimes /\ callers \in [CallIds -> Callers] /\ r \in 0 .. Len(runtimes)
    <2>1. r \in 0 .. Len(runtimes) /\ runtimes \in Seq(Runtimes) /\ callers \in [CallIds -> Callers]
      BY DEF DirectoryInv, DirectoryTypes
    <2> QED  BY <1>1, <2>1 DEF Usable
  <1>3. View(r) \in Directories /\ Grows(View(r), Directory(dirLog)) /\ Holds(Directory(dirLog))
    BY <1>2, ViewIs DEF DirectoryInv
  <1>4. /\ d.act = "send" => /\ d.event \in Events /\ d.event.type = "requested" /\ d.thread \in Threads
                             /\ d.event.thread = d.thread /\ Matches(c, d.event.alloc)
        /\ d.act = "resume" => d.thread \in Threads /\ Known(Directory(dirLog), d.thread)
                               /\ Matches(c, Directory(dirLog)[d.thread][1].alloc)
    BY <1>3, DecisionFits
  <1>5. callers[c] \in Callers /\ callers[c].rt = r
    BY <1>2
  <1> HIDE DEF d, r
  <1>6. CASE d.act = "send" /\ callers' = [callers EXCEPT ![c].pc = "sending", ![c].event = d.event, ![c].thread = d.thread]
    <2> DEFINE k == [callers[c] EXCEPT !.pc = "sending", !.event = d.event, !.thread = d.thread]
    <2>1. callers' = [callers EXCEPT ![c] = k]
      BY <1>2, <1>6
    <2>2. k \in Callers /\ k.pc = "sending" /\ k.event = d.event /\ k.thread = d.thread /\ k.rt = r
      BY <1>4, <1>5, <1>6 DEF Callers
    <2> HIDE DEF k
    <2>3. CallerFits(c, k, Directory(dirLog))
      BY <1>4, <1>6, <2>2 DEF CallerFits
    <2> QED  BY <1>1, <1>2, <2>1, <2>2, <2>3, CallerMoves
  <1>7. CASE d.act = "resume" /\ callers' = [callers EXCEPT ![c].pc = "await", ![c].thread = d.thread]
    <2> DEFINE k == [callers[c] EXCEPT !.pc = "await", !.thread = d.thread]
    <2>1. callers' = [callers EXCEPT ![c] = k]
      BY <1>2, <1>7
    <2>2. k \in Callers /\ k.pc = "await" /\ k.thread = d.thread /\ k.rt = r
      BY <1>4, <1>5, <1>7 DEF Callers
    <2> HIDE DEF k
    <2>3. CallerFits(c, k, Directory(dirLog))
      BY <1>4, <1>7, <2>2 DEF CallerFits
    <2> QED  BY <1>1, <1>2, <2>1, <2>2, <2>3, CallerMoves
  <1>8. CASE callers' = Failed({c})
    BY <1>1, <1>8, CallerFails
  <1> QED  BY <1>1, <1>6, <1>7, <1>8

\* The waiting part of allocate.
LEMMA AwaitKeeps ==
  ASSUME DirectoryInv, NEW c \in CallIds, Await(c) PROVE DirectoryInv'
  <1> DEFINE r == callers[c].rt
             t == callers[c].thread
  <1>1. /\ callers[c].pc = "await"
        /\ UNCHANGED <<dirLog, stores, runtimes, cached, provisions>>
        /\ \/ Usable(r) /\ Is(View(r), t, "registered") /\ callers' = [callers EXCEPT ![c].pc = "done"]
           \/ callers' = Failed({c})
    BY DEF Await
  <1>2. r \in 0 .. Len(runtimes) /\ runtimes \in Seq(Runtimes) /\ callers \in [CallIds -> Callers]
    BY DEF DirectoryInv, DirectoryTypes
  <1>3. CASE Usable(r) /\ Is(View(r), t, "registered") /\ callers' = [callers EXCEPT ![c].pc = "done"]
    <2>1. r \in DOMAIN runtimes
      BY <1>2, <1>3 DEF Usable
    <2>2. Is(Directory(dirLog), t, "registered")
      <3>1. Grows(View(r), Directory(dirLog))
        BY <2>1, ViewIs
      <3> QED  BY <1>3, <3>1 DEF Grows, Is, Known
    <2> DEFINE k == [callers[c] EXCEPT !.pc = "done"]
    <2>3. callers' = [callers EXCEPT ![c] = k]
      BY <1>2, <1>3
    <2>4. k \in Callers /\ k.pc = "done" /\ k.thread = t /\ k.rt = r
      <3>1. callers[c] \in Callers
        BY <1>2
      <3> QED  BY <3>1 DEF Callers
    <2>5. CallerFits(c, callers[c], Directory(dirLog))
      BY DEF DirectoryInv
    <2> HIDE DEF k
    <2>6. CallerFits(c, k, Directory(dirLog))
      BY <1>1, <2>2, <2>4, <2>5 DEF CallerFits
    <2> QED  BY <1>1, <1>2, <2>3, <2>4, <2>6, CallerMoves
  <1>4. CASE callers' = Failed({c})
    BY <1>1, <1>4, CallerFails
  <1> QED  BY <1>1, <1>3, <1>4

\* A step after which every part fits, on the same journal.
LEMMA AllFit ==
  ASSUME DirectoryInv, dirLog' = dirLog,
         runtimes' \in Seq(Runtimes), Len(runtimes') = Len(runtimes), cached' \in 0 .. Len(runtimes),
         stores' \in Stores, callers' \in [CallIds -> Callers],
         \A c \in CallIds : callers'[c].rt = callers[c].rt /\ CallerFits(c, callers'[c], Directory(dirLog)),
         \A t \in Threads : StoreFits(t, Directory(dirLog), stores'),
         \A m \in provisions' : m \in Calls /\ m.by \in 0 .. Len(runtimes) /\ ProvisionFits(m, Directory(dirLog), stores'),
         \A r \in DOMAIN runtimes : RuntimeFits(runtimes'[r], r, dirLog, stores', callers')
  PROVE  DirectoryInv'
  <1>1. DOMAIN runtimes' = DOMAIN runtimes
    BY DEF DirectoryInv, DirectoryTypes
  <1>2. DirectoryTypes'
    BY DEF DirectoryInv, DirectoryTypes
  <1> QED  BY <1>1, <1>2 DEF DirectoryInv

\* A step that moves one runtime, and calls at the stores.
LEMMA OneRuntimeMoves ==
  ASSUME DirectoryInv, UNCHANGED <<dirLog, stores, cached, callers>>, NEW r \in DOMAIN runtimes, NEW y \in Runtimes,
         runtimes' = [runtimes EXCEPT ![r] = y], RuntimeFits(y, r, dirLog, stores, callers),
         \A m \in provisions' : m \in Calls /\ m.by \in 0 .. Len(runtimes) /\ ProvisionFits(m, Directory(dirLog), stores)
  PROVE  DirectoryInv'
  <1>1. /\ runtimes \in Seq(Runtimes) /\ cached \in 0 .. Len(runtimes) /\ stores \in Stores /\ callers \in [CallIds -> Callers]
        /\ \A c \in CallIds : CallerFits(c, callers[c], Directory(dirLog))
        /\ \A t \in Threads : StoreFits(t, Directory(dirLog), stores)
        /\ \A s \in DOMAIN runtimes : RuntimeFits(runtimes[s], s, dirLog, stores, callers)
    BY DEF DirectoryInv, DirectoryTypes
  <1>2. /\ runtimes' \in Seq(Runtimes) /\ Len(runtimes') = Len(runtimes)
        /\ runtimes'[r] = y /\ \A s \in DOMAIN runtimes : s # r => runtimes'[s] = runtimes[s]
    BY <1>1, RuntimeSet
  <1>3. \A s \in DOMAIN runtimes : RuntimeFits(runtimes'[s], s, dirLog, stores, callers)
    BY <1>1, <1>2
  <1> QED  BY <1>1, <1>2, <1>3, AllFit

\* An act that ends, or a call under way, changes one act of one runtime.
ActSet(rts, r, t, v) == rts = [runtimes EXCEPT ![r].acts[t] = v]

LEMMA ActMoves ==
  ASSUME DirectoryInv, NEW r \in DOMAIN runtimes, NEW t \in Threads, NEW v \in {"none", "calling", "ok", "bad"},
         v = "ok" => Created(Directory(dirLog), stores, t),
         NEW rts, ActSet(rts, r, t, v)
  PROVE  \E y \in Runtimes : rts = [runtimes EXCEPT ![r] = y] /\ RuntimeFits(y, r, dirLog, stores, callers)
  <1> DEFINE x == runtimes[r]
             y == [x EXCEPT !.acts = [x.acts EXCEPT ![t] = v]]
  <1>1. x \in Runtimes /\ RuntimeFits(x, r, dirLog, stores, callers)
    BY ViewIs
  <1>2. rts = [runtimes EXCEPT ![r] = y]
    <2>1. runtimes \in Seq(Runtimes)
      BY DEF DirectoryInv, DirectoryTypes
    <2> QED  BY <2>1 DEF ActSet
  <1>3. /\ y \in Runtimes /\ y.pos = x.pos /\ y.admission = x.admission /\ y.for = x.for /\ y.status = x.status
        /\ \A u \in Threads : y.acts[u] = IF u = t THEN v ELSE x.acts[u]
    BY <1>1 DEF Runtimes
  <1> HIDE DEF x, y
  <1>4. RuntimeFits(y, r, dirLog, stores, callers)
    <2>1. x.admission # NoEvent => x.status \in {"live", "closing"}
      BY <1>1 DEF RuntimeFits
    <2> QED  BY <1>1, <1>3, <2>1, RuntimeBecomes
  <1> QED  BY <1>2, <1>3, <1>4

\* openSupervisor reads the whole journal.
LEMMA SupervisorOpenedKeeps ==
  ASSUME DirectoryInv, NEW r \in DOMAIN runtimes, SupervisorOpened(r) PROVE DirectoryInv'
  <1> DEFINE x == runtimes[r]
             y == [x EXCEPT !.status = "live", !.pos = Len(dirLog)]
  <1>1. /\ x.status = "opening" /\ UNCHANGED <<dirLog, stores, cached, callers, provisions>>
        /\ runtimes' = [runtimes EXCEPT ![r].status = "live", ![r].pos = Len(dirLog)]
    BY DEF SupervisorOpened
  <1>2. /\ x \in Runtimes /\ RuntimeFits(x, r, dirLog, stores, callers)
        /\ runtimes \in Seq(Runtimes) /\ dirLog \in Seq(Events) /\ Len(dirLog) \in Nat
    BY ViewIs DEF DirectoryInv, DirectoryTypes
  <1>3. runtimes' = [runtimes EXCEPT ![r] = y]
    BY <1>1, <1>2
  <1>4. y \in Runtimes /\ y.pos = Len(dirLog) /\ y.admission = x.admission /\ y.for = x.for /\ y.acts = x.acts
    BY <1>2 DEF Runtimes
  <1> HIDE DEF x, y
  <1>5. x.admission = NoEvent /\ x.for = NoCall
    BY <1>1, <1>2 DEF RuntimeFits, Serves, NoEvent
  <1>6. RuntimeFits(y, r, dirLog, stores, callers)
    <2>1. SubSeq(dirLog, 1, y.pos) = dirLog
      BY <1>2, <1>4
    <2>2. Directory(dirLog) \in Directories /\ Grows(Directory(dirLog), Directory(dirLog))
      BY DEF DirectoryInv, Grows
    <2>3. \A t \in Threads : y.acts[t] = "ok" => Created(Directory(dirLog), stores, t)
      BY <1>2, <1>4 DEF RuntimeFits
    <2>4. y.pos <= Len(dirLog)
      BY <1>2, <1>4
    <2> QED  BY <1>4, <1>5, <2>1, <2>2, <2>3, <2>4 DEF RuntimeFits
  <1> QED  BY <1>1, <1>3, <1>4, <1>6, OneRuntimeMoves DEF DirectoryInv, DirectoryTypes

\* The provision act calls a store with what the journal records.
LEMMA ProvisionKeeps ==
  ASSUME DirectoryInv, NEW r \in DOMAIN runtimes, NEW t \in Threads, ProvisionThread(r, t) PROVE DirectoryInv'
  <1> DEFINE a == View(r)[t][1].alloc
             m == [alloc |-> a, by |-> r, made |-> FALSE]
  <1>1. /\ UNCHANGED <<dirLog, stores, cached, callers>> /\ t \in PendingThreads(View(r))
        /\ runtimes' = [runtimes EXCEPT ![r].acts[t] = "calling"]
        /\ provisions' = provisions \cup {m}
    BY DEF ProvisionThread
  <1>2. View(r) \in Directories /\ Grows(View(r), Directory(dirLog)) /\ Known(View(r), t)
    BY <1>1, ViewIs DEF PendingThreads, Is
  <1>3. a \in Allocs /\ a.thread = t /\ Known(Directory(dirLog), t) /\ Directory(dirLog)[t][1].alloc = a
    <2>1. a \in Allocs
      BY <1>2, EntryIs
    <2>2. Known(Directory(dirLog), t) /\ Directory(dirLog)[t][1].alloc = a
      BY <1>2 DEF Grows
    <2>3. Holds(Directory(dirLog))
      BY DEF DirectoryInv
    <2> HIDE DEF a
    <2> QED  BY <2>1, <2>2, <2>3 DEF Holds
  <1>4. m \in Calls /\ m.by \in 0 .. Len(runtimes) /\ ProvisionFits(m, Directory(dirLog), stores)
    <2>1. m.alloc = a /\ m.by = r /\ m.made = FALSE
      OBVIOUS
    <2>2. runtimes \in Seq(Runtimes)
      BY DEF DirectoryInv, DirectoryTypes
    <2>3. r \in Nat /\ r \in 0 .. Len(runtimes)
      BY <2>2
    <2>4. m \in Calls
      <3> HIDE DEF a
      <3> QED  BY <1>3, <2>3 DEF Calls
    <2> HIDE DEF m, a
    <2> QED  BY <1>3, <2>1, <2>3, <2>4 DEF ProvisionFits
  <1> HIDE DEF m
  <1>5. \A n \in provisions' : n \in Calls /\ n.by \in 0 .. Len(runtimes) /\ ProvisionFits(n, Directory(dirLog), stores)
    BY <1>1, <1>4 DEF DirectoryInv, DirectoryTypes
  <1>6. \E y \in Runtimes : runtimes' = [runtimes EXCEPT ![r] = y] /\ RuntimeFits(y, r, dirLog, stores, callers)
    BY <1>1, ActMoves DEF ActSet
  <1> QED  BY <1>1, <1>5, <1>6, OneRuntimeMoves

\* A call under way was made by a runtime, unless that is gone.
LEMMA CallIs ==
  ASSUME DirectoryInv, NEW m \in provisions
  PROVE  /\ m \in Calls /\ m.alloc.thread \in Threads /\ m.by \in 0 .. Len(runtimes)
         /\ m.by # 0 => m.by \in DOMAIN runtimes
         /\ ProvisionFits(m, Directory(dirLog), stores)
  <1>1. m \in Calls /\ m.by \in 0 .. Len(runtimes) /\ ProvisionFits(m, Directory(dirLog), stores) /\ runtimes \in Seq(Runtimes)
    BY DEF DirectoryInv, DirectoryTypes
  <1>2. m.alloc.thread \in Threads
    BY <1>1 DEF ProvisionFits, Known
  <1> QED  BY <1>1, <1>2

\* A step that leaves the runtimes to one act, or alone.
LEMMA CallEnds ==
  ASSUME DirectoryInv, NEW m \in provisions, NEW v \in {"ok", "bad"},
         UNCHANGED <<dirLog, stores, cached, callers>>,
         runtimes' = runtimes \/ (m.by # 0 /\ runtimes' = [runtimes EXCEPT ![m.by].acts[m.alloc.thread] = v]),
         v = "ok" => m.made,
         \A n \in provisions' : n \in provisions
            \/ (n \in Calls /\ n.by \in 0 .. Len(runtimes) /\ ProvisionFits(n, Directory(dirLog), stores))
  PROVE  DirectoryInv'
  <1>1. \A n \in provisions' : n \in Calls /\ n.by \in 0 .. Len(runtimes) /\ ProvisionFits(n, Directory(dirLog), stores)
    BY CallIs
  <1>2. CASE runtimes' = runtimes
    BY <1>1, <1>2, AllFit DEF DirectoryInv, DirectoryTypes
  <1>3. CASE m.by # 0 /\ runtimes' = [runtimes EXCEPT ![m.by].acts[m.alloc.thread] = v]
    <2>1. m.by \in DOMAIN runtimes /\ m.alloc.thread \in Threads
      BY <1>3, CallIs
    <2>2. v = "ok" => Created(Directory(dirLog), stores, m.alloc.thread)
      BY CallIs DEF ProvisionFits
    <2>3. \E y \in Runtimes : runtimes' = [runtimes EXCEPT ![m.by] = y] /\ RuntimeFits(y, m.by, dirLog, stores, callers)
      <3>1. ActSet(runtimes', m.by, m.alloc.thread, v)
        BY <1>3 DEF ActSet
      <3>2. v \in {"none", "calling", "ok", "bad"}
        OBVIOUS
      <3> QED  BY <2>1, <2>2, <3>1, <3>2, ActMoves
    <2> QED  BY <1>1, <2>1, <2>3, OneRuntimeMoves
  <1> QED  BY <1>2, <1>3

\* The call's answer.
LEMMA AnswerKeeps ==
  ASSUME DirectoryInv, NEW m \in provisions, Answer(m) PROVE DirectoryInv'
  BY CallEnds DEF Answer

\* The call's loss: who made it is forgotten.
LEMMA LoseKeeps ==
  ASSUME DirectoryInv, NEW m \in provisions, Lose(m) PROVE DirectoryInv'
  <1> DEFINE n == [m EXCEPT !.by = 0]
  <1>1. m \in Calls /\ ProvisionFits(m, Directory(dirLog), stores) /\ m.by \in 0 .. Len(runtimes)
    BY CallIs
  <1>2. n \in Calls /\ n.by = 0 /\ n.alloc = m.alloc /\ n.made = m.made
    BY <1>1 DEF Calls
  <1>3. provisions' = (provisions \ {m}) \cup {n}
    BY DEF Lose
  <1> HIDE DEF n
  <1>4. ProvisionFits(n, Directory(dirLog), stores)
    BY <1>1, <1>2 DEF ProvisionFits
  <1>5. 0 \in 0 .. Len(runtimes)
    BY DEF DirectoryInv, DirectoryTypes
  <1> QED  BY <1>2, <1>3, <1>4, <1>5, CallEnds DEF Lose

\* A step that moves a store, and the calls at it.
LEMMA StoresMove ==
  ASSUME DirectoryInv, UNCHANGED <<dirLog, runtimes, cached, callers>>, stores' \in Stores,
         \A u \in Threads : stores'[u].created = stores[u].created \/ Created(Directory(dirLog), stores', u),
         \A n \in provisions' : n \in provisions
            \/ (n \in Calls /\ n.by \in 0 .. Len(runtimes) /\ ProvisionFits(n, Directory(dirLog), stores'))
  PROVE  DirectoryInv'
  <1>1. \A u \in Threads : Created(Directory(dirLog), stores, u) => Created(Directory(dirLog), stores', u)
    BY DEF Created
  <1>2. \A u \in Threads : StoreFits(u, Directory(dirLog), stores')
    <2> SUFFICES ASSUME NEW u \in Threads PROVE StoreFits(u, Directory(dirLog), stores')
      OBVIOUS
    <2>1. StoreFits(u, Directory(dirLog), stores)
      BY DEF DirectoryInv
    <2> QED  BY <1>1, <2>1 DEF StoreFits
  <1>3. \A n \in provisions' : n \in Calls /\ n.by \in 0 .. Len(runtimes) /\ ProvisionFits(n, Directory(dirLog), stores')
    <2> SUFFICES ASSUME NEW n \in provisions'
                 PROVE  n \in Calls /\ n.by \in 0 .. Len(runtimes) /\ ProvisionFits(n, Directory(dirLog), stores')
      OBVIOUS
    <2>1. CASE n \in provisions
      <3>1. n \in Calls /\ n.alloc.thread \in Threads /\ n.by \in 0 .. Len(runtimes) /\ ProvisionFits(n, Directory(dirLog), stores)
        BY <2>1, CallIs
      <3> QED  BY <1>1, <3>1 DEF ProvisionFits
    <2> QED  BY <2>1
  <1>4. \A r \in DOMAIN runtimes : RuntimeFits(runtimes[r], r, dirLog, stores', callers)
    <2> SUFFICES ASSUME NEW r \in DOMAIN runtimes PROVE RuntimeFits(runtimes[r], r, dirLog, stores', callers)
      OBVIOUS
    <2>1. RuntimeFits(runtimes[r], r, dirLog, stores, callers)
      BY ViewIs
    <2> QED  BY <1>1, <2>1, RuntimeStays
  <1> QED  BY <1>2, <1>3, <1>4, AllFit DEF DirectoryInv, DirectoryTypes

\* The coordinate a thread's object records first.
LEMMA PutKeeps ==
  ASSUME DirectoryInv, NEW m \in provisions, PutCoordinate(m) PROVE DirectoryInv'
  <1> DEFINE t == m.alloc.thread
  <1>1. stores' = [stores EXCEPT ![t].put = TRUE] /\ UNCHANGED <<dirLog, runtimes, cached, callers, provisions>>
    BY DEF PutCoordinate
  <1>2. stores \in Stores /\ t \in Threads
    BY CallIs DEF DirectoryInv, DirectoryTypes
  <1>3. stores' \in Stores /\ \A u \in Threads : stores'[u].created = stores[u].created
    <2>1. stores[t] \in [put : BOOLEAN, created : Optional(Allocs)]
      BY <1>2 DEF Stores
    <2> DEFINE s == [stores[t] EXCEPT !.put = TRUE]
    <2>2. s \in [put : BOOLEAN, created : Optional(Allocs)] /\ s.created = stores[t].created
      BY <2>1
    <2>3. stores' = [stores EXCEPT ![t] = s]
      BY <1>1, <1>2 DEF Stores
    <2> HIDE DEF s, t
    <2> QED  BY <1>2, <2>2, <2>3 DEF Stores
  <1> QED  BY <1>1, <1>3, StoresMove

\* The creation record: the store was empty or holds this very allocation.
LEMMA InitializeKeeps ==
  ASSUME DirectoryInv, NEW m \in provisions, Initialize(m) PROVE DirectoryInv'
  <1> DEFINE t == m.alloc.thread
             n == [m EXCEPT !.made = TRUE]
             dir == Directory(dirLog)
  <1>1. /\ m \in Calls /\ t \in Threads /\ m.by \in 0 .. Len(runtimes) /\ ProvisionFits(m, dir, stores)
        /\ stores \in Stores /\ StoreFits(t, dir, stores)
    BY CallIs DEF DirectoryInv, DirectoryTypes
  <1>2. Known(dir, t) /\ dir[t][1].alloc = m.alloc /\ m.alloc \in Allocs
    BY <1>1 DEF ProvisionFits, Calls
  <1>3. stores[t].created = <<>> \/ stores[t].created = <<m.alloc>>
    BY <1>1, <1>2 DEF StoreFits, Created
  <1>4. /\ UNCHANGED <<dirLog, runtimes, cached, callers>>
        /\ provisions' = (provisions \ {m}) \cup {n}
        /\ stores' = IF stores[t].created = <<>> THEN [stores EXCEPT ![t].created = <<m.alloc>>] ELSE stores
    BY <1>3 DEF Initialize
  <1>5. n \in Calls /\ n.by = m.by /\ n.alloc = m.alloc
    BY <1>1 DEF Calls
  <1>6. /\ stores' \in Stores /\ stores'[t].created = <<m.alloc>>
        /\ \A u \in Threads : u # t => stores'[u].created = stores[u].created
    <2>1. CASE stores[t].created = <<>>
      <3>1. stores[t] \in [put : BOOLEAN, created : Optional(Allocs)]
        BY <1>1 DEF Stores
      <3>2. <<m.alloc>> \in Optional(Allocs)
        BY <1>2 DEF Optional
      <3> DEFINE s == [stores[t] EXCEPT !.created = <<m.alloc>>]
      <3>3. s \in [put : BOOLEAN, created : Optional(Allocs)] /\ s.created = <<m.alloc>>
        BY <3>1, <3>2
      <3>4. stores' = [stores EXCEPT ![t] = s]
        BY <1>1, <1>4, <2>1 DEF Stores
      <3> HIDE DEF s, t
      <3> QED  BY <1>1, <3>3, <3>4 DEF Stores
    <2>2. CASE stores[t].created # <<>>
      BY <1>1, <1>3, <1>4, <2>2
    <2> QED  BY <2>1, <2>2
  <1> HIDE DEF dir, n
  <1>7. Created(dir, stores', t)
    BY <1>2, <1>6 DEF Created
  <1>8. ProvisionFits(n, dir, stores')
    BY <1>2, <1>5, <1>7 DEF ProvisionFits
  <1>9. \A u \in Threads : stores'[u].created = stores[u].created \/ Created(dir, stores', u)
    BY <1>6, <1>7
  <1> QED  BY <1>1, <1>4, <1>5, <1>6, <1>8, <1>9, StoresMove DEF dir

\* The act's end enters the journal through an admission that serves no call.
LEMMA SettleKeeps ==
  ASSUME DirectoryInv, NEW r \in DOMAIN runtimes, NEW t \in Threads, SettleProvision(r, t) PROVE DirectoryInv'
  <1> DEFINE x == runtimes[r]
             e == [type |-> Outcome(r, t), thread |-> t]
             y == [x EXCEPT !.admission = e]
  <1>1. /\ UNCHANGED <<dirLog, stores, cached, callers, provisions>>
        /\ x.status = "live" /\ x.admission = NoEvent /\ Valid(View(r), e)
        /\ runtimes' = [runtimes EXCEPT ![r].admission = e]
    BY DEF SettleProvision, Live
  <1>2. x \in Runtimes /\ RuntimeFits(x, r, dirLog, stores, callers) /\ runtimes \in Seq(Runtimes)
    BY ViewIs DEF DirectoryInv, DirectoryTypes
  <1>3. e \in Events /\ e.type = Outcome(r, t) /\ e.thread = t
    <2>1. Outcome(r, t) \in {"retry", "registered", "failed"}
      BY DEF Outcome
    <2> QED  BY <2>1 DEF Events
  <1>4. runtimes' = [runtimes EXCEPT ![r] = y]
    BY <1>1, <1>2
  <1> HIDE DEF e
  <1>5. y \in Runtimes /\ y.pos = x.pos /\ y.admission = e /\ y.for = x.for /\ y.acts = x.acts /\ y.status = x.status
    BY <1>2, <1>3 DEF Runtimes
  <1>6. x.for = NoCall
    BY <1>1, <1>2 DEF RuntimeFits, Serves, NoEvent
  <1>7. e.type = "registered" => Created(Directory(dirLog), stores, e.thread)
    <2>1. e.type = "registered" => x.acts[t] = "ok"
      BY <1>3 DEF Outcome
    <2> HIDE DEF x
    <2> QED  BY <1>2, <1>3, <2>1 DEF RuntimeFits
  <1>8. View(r) = Directory(SubSeq(dirLog, 1, x.pos))
    BY DEF View
  <1> HIDE DEF x, y
  <1>9. RuntimeFits(y, r, dirLog, stores, callers)
    BY <1>1, <1>2, <1>5, <1>6, <1>7, <1>8 DEF RuntimeFits
  <1> QED  BY <1>1, <1>4, <1>5, <1>9, OneRuntimeMoves DEF DirectoryInv, DirectoryTypes

\* send: the call's request enters an admission, or the call fails.
LEMMA AdmitKeeps ==
  ASSUME DirectoryInv, NEW c \in CallIds, Admit(c) PROVE DirectoryInv'
  <1> DEFINE r == callers[c].rt
             x == runtimes[r]
             e == callers[c].event
             y == [x EXCEPT !.admission = e, !.for = c]
             k == [callers[c] EXCEPT !.event = NoEvent]
  <1>1. /\ callers[c].pc = "sending" /\ e # NoEvent /\ Live(r)
        /\ UNCHANGED <<dirLog, stores, cached, provisions>>
        /\ \/ /\ Valid(View(r), e)
              /\ runtimes' = [runtimes EXCEPT ![r].admission = e, ![r].for = c]
              /\ callers' = [callers EXCEPT ![c].event = NoEvent]
           \/ callers' = Failed({c}) /\ runtimes' = runtimes
    BY DEF Admit
  <1>2. CASE callers' = Failed({c}) /\ runtimes' = runtimes
    BY <1>1, <1>2, CallerFails
  <1>3. CASE /\ Valid(View(r), e)
             /\ runtimes' = [runtimes EXCEPT ![r].admission = e, ![r].for = c]
             /\ callers' = [callers EXCEPT ![c].event = NoEvent]
    <2>1. /\ runtimes \in Seq(Runtimes) /\ callers \in [CallIds -> Callers] /\ r \in 0 .. Len(runtimes)
          /\ cached \in 0 .. Len(runtimes) /\ stores \in Stores
      BY DEF DirectoryInv, DirectoryTypes
    <2>2. r \in DOMAIN runtimes /\ x.status = "live"
      BY <1>1, <2>1 DEF Live
    <2>3. x \in Runtimes /\ RuntimeFits(x, r, dirLog, stores, callers)
      BY <2>2, ViewIs
    <2>4. /\ callers[c] \in Callers /\ e \in Events /\ e.type = "requested" /\ e.thread = callers[c].thread /\ Matches(c, e.alloc)
      <3>1. CallerFits(c, callers[c], Directory(dirLog)) /\ callers[c] \in Callers
        BY <2>1 DEF DirectoryInv
      <3> QED  BY <1>1, <3>1 DEF CallerFits, Callers
    <2>5. runtimes' = [runtimes EXCEPT ![r] = y] /\ callers' = [callers EXCEPT ![c] = k]
      BY <1>3, <2>1, <2>2
    <2>6. y \in Runtimes /\ y.pos = x.pos /\ y.admission = e /\ y.for = c /\ y.acts = x.acts /\ y.status = x.status
      BY <2>3, <2>4 DEF Runtimes
    <2>7. k \in Callers /\ k.event = NoEvent /\ k.pc = "sending" /\ k.thread = callers[c].thread /\ k.rt = r
      BY <1>1, <2>4 DEF Callers
    <2>8. View(r) = Directory(SubSeq(dirLog, 1, x.pos))
      BY DEF View
    <2> HIDE DEF y, k
    <2>9. callers' \in [CallIds -> Callers] /\ callers'[c] = k /\ \A d \in CallIds \ {c} : callers'[d] = callers[d]
      BY <2>1, <2>5, <2>7
    <2>10. RuntimeFits(y, r, dirLog, stores, callers')
      <3>1. Serves(y, r, c, callers'[c])
        BY <2>4, <2>6, <2>7, <2>9 DEF Serves
      <3> HIDE DEF x, r, e
      <3> QED  BY <1>3, <2>2, <2>3, <2>4, <2>6, <2>8, <3>1 DEF RuntimeFits
    <2>11. /\ runtimes' \in Seq(Runtimes) /\ Len(runtimes') = Len(runtimes)
           /\ runtimes'[r] = y /\ \A s \in DOMAIN runtimes : s # r => runtimes'[s] = runtimes[s]
      BY <2>1, <2>2, <2>5, <2>6, RuntimeSet
    <2>12. ASSUME NEW s \in DOMAIN runtimes, s # r PROVE RuntimeFits(runtimes'[s], s, dirLog, stores, callers')
      <3>1. RuntimeFits(runtimes[s], s, dirLog, stores, callers)
        BY ViewIs
      <3>2. runtimes[s].for # NoCall => callers'[runtimes[s].for] = callers[runtimes[s].for]
        BY <1>1, <2>9, ServedWaits
      <3>3. runtimes'[s] = runtimes[s]
        BY <2>11, <2>12
      <3> QED  BY <3>1, <3>2, <3>3, RuntimeStays
    <2>13. \A d \in CallIds : callers'[d].rt = callers[d].rt /\ CallerFits(d, callers'[d], Directory(dirLog))
      <3>1. CallerFits(c, k, Directory(dirLog))
        BY <2>7 DEF CallerFits
      <3> QED  BY <2>7, <2>9, <3>1 DEF DirectoryInv
    <2>14. \A s \in DOMAIN runtimes : RuntimeFits(runtimes'[s], s, dirLog, stores, callers')
      BY <2>10, <2>11, <2>12
    <2>15. /\ \A t \in Threads : StoreFits(t, Directory(dirLog), stores)
           /\ \A m \in provisions : m \in Calls /\ m.by \in 0 .. Len(runtimes) /\ ProvisionFits(m, Directory(dirLog), stores)
      BY DEF DirectoryInv, DirectoryTypes
    <2> QED  BY <1>1, <2>1, <2>9, <2>11, <2>13, <2>14, <2>15, AllFit
  <1> QED  BY <1>1, <1>2, <1>3

\* Calls that fail are as typed and as owed as before.
LEMMA CallsFail ==
  ASSUME DirectoryInv, NEW lost, callers' = Failed(lost)
  PROVE  /\ callers' \in [CallIds -> Callers]
         /\ \A c \in CallIds : callers'[c].rt = callers[c].rt /\ CallerFits(c, callers'[c], Directory(dirLog))
         /\ \A c \in CallIds \ lost : callers'[c] = callers[c]
  <1>1. callers \in [CallIds -> Callers] /\ \A c \in CallIds : CallerFits(c, callers[c], Directory(dirLog))
    BY DEF DirectoryInv, DirectoryTypes
  <1>2. /\ callers' \in [CallIds -> Callers]
        /\ \A c \in CallIds : callers'[c].rt = callers[c].rt
        /\ \A c \in CallIds \ lost : callers'[c] = callers[c]
        /\ \A c \in CallIds : \A dir : CallerFits(c, callers[c], dir) => CallerFits(c, callers'[c], dir)
    BY <1>1, FailedFits
  <1> QED  BY <1>1, <1>2

\* A runtime that goes, with calls of its own, leaves the calls of the others, and the one
\* it still serves, alone.
LEMMA RuntimeGoes ==
  ASSUME DirectoryInv, dirLog' = dirLog, stores' = stores, NEW r \in DOMAIN runtimes, NEW y \in Runtimes,
         runtimes' = [runtimes EXCEPT ![r] = y],
         y.pos = runtimes[r].pos,
         y.admission = NoEvent \/ (y.admission = runtimes[r].admission /\ y.status \in {"live", "closing"}),
         callers' \in [CallIds -> Callers],
         \A c \in CallIds : callers'[c].rt = callers[c].rt /\ CallerFits(c, callers'[c], Directory(dirLog)),
         \A c \in CallIds : callers[c].rt # r => callers'[c] = callers[c],
         y.for = NoCall \/ (y.for = runtimes[r].for /\ y.admission = runtimes[r].admission
                            /\ callers'[runtimes[r].for] = callers[runtimes[r].for]),
         \A t \in Threads : y.acts[t] = "ok" => runtimes[r].acts[t] = "ok",
         cached' \in 0 .. Len(runtimes),
         \A m \in provisions' : m \in Calls /\ m.by \in 0 .. Len(runtimes) /\ ProvisionFits(m, Directory(dirLog), stores)
  PROVE  DirectoryInv'
  <1>1. /\ runtimes \in Seq(Runtimes) /\ stores \in Stores
        /\ \A t \in Threads : StoreFits(t, Directory(dirLog), stores)
    BY DEF DirectoryInv, DirectoryTypes
  <1>3. /\ runtimes' \in Seq(Runtimes) /\ Len(runtimes') = Len(runtimes)
        /\ runtimes'[r] = y /\ \A s \in DOMAIN runtimes : s # r => runtimes'[s] = runtimes[s]
    BY <1>1, RuntimeSet
  <1>4. RuntimeFits(y, r, dirLog, stores, callers')
    <2>1. RuntimeFits(runtimes[r], r, dirLog, stores, callers)
      BY ViewIs
    <2> QED  BY <2>1, RuntimeBecomes
  <1>5. ASSUME NEW s \in DOMAIN runtimes, s # r PROVE RuntimeFits(runtimes'[s], s, dirLog, stores, callers')
    <2>1. RuntimeFits(runtimes[s], s, dirLog, stores, callers)
      BY ViewIs
    <2>2. runtimes[s].for # NoCall => callers'[runtimes[s].for] = callers[runtimes[s].for]
      BY <1>5, ServedWaits
    <2>3. runtimes'[s] = runtimes[s]
      BY <1>3, <1>5
    <2> QED  BY <2>1, <2>2, <2>3, RuntimeStays
  <1>6. \A s \in DOMAIN runtimes : RuntimeFits(runtimes'[s], s, dirLog, stores, callers')
    BY <1>3, <1>4, <1>5
  <1> QED  BY <1>1, <1>3, <1>6, AllFit

\* Calls whose runtime is forgotten are the same calls.
LEMMA Forgotten ==
  ASSUME DirectoryInv, NEW ps, \A n \in ps : \E m \in provisions : \E b \in {0, m.by} : n = [m EXCEPT !.by = b]
  PROVE  \A m \in ps : m \in Calls /\ m.by \in 0 .. Len(runtimes) /\ ProvisionFits(m, Directory(dirLog), stores)
  <1> SUFFICES ASSUME NEW n \in ps
               PROVE  n \in Calls /\ n.by \in 0 .. Len(runtimes) /\ ProvisionFits(n, Directory(dirLog), stores)
    OBVIOUS
  <1>0. PICK m \in provisions : \E b \in {0, m.by} : n = [m EXCEPT !.by = b]
    OBVIOUS
  <1>9. PICK b \in {0, m.by} : n = [m EXCEPT !.by = b]
    BY <1>0
  <1>1. m \in Calls /\ m.by \in 0 .. Len(runtimes) /\ ProvisionFits(m, Directory(dirLog), stores) /\ Len(runtimes) \in Nat
    BY CallIs DEF DirectoryInv, DirectoryTypes
  <1>2. b \in 0 .. Len(runtimes) /\ b \in Nat
    BY <1>1
  <1>3. n \in Calls /\ n.by = b /\ n.alloc = m.alloc /\ n.made = m.made
    BY <1>1, <1>2, <1>9 DEF Calls
  <1>4. ProvisionFits(n, Directory(dirLog), stores)
    BY <1>1, <1>3 DEF ProvisionFits
  <1> QED  BY <1>2, <1>3, <1>4

\* A runtime that does not open.
LEMMA OpenFailsKeeps ==
  ASSUME DirectoryInv, NEW r \in DOMAIN runtimes, OpenFails(r) PROVE DirectoryInv'
  <1> DEFINE x == runtimes[r]
             y == [x EXCEPT !.status = "closed"]
  <1>1. /\ x.status = "opening" /\ UNCHANGED <<dirLog, stores, provisions>> /\ callers' = Failed(Served(r))
        /\ runtimes' = [runtimes EXCEPT ![r].status = "closed"]
        /\ cached' = 0 \/ cached' = cached
    BY DEF OpenFails
  <1>2. x \in Runtimes /\ RuntimeFits(x, r, dirLog, stores, callers) /\ runtimes \in Seq(Runtimes) /\ cached \in 0 .. Len(runtimes)
    BY ViewIs DEF DirectoryInv, DirectoryTypes
  <1>3. runtimes' = [runtimes EXCEPT ![r] = y]
    BY <1>1, <1>2
  <1>4. y \in Runtimes /\ y.pos = x.pos /\ y.admission = x.admission /\ y.for = x.for /\ y.acts = x.acts
    BY <1>2 DEF Runtimes
  <1> HIDE DEF x, y
  <1>5. y.admission = NoEvent /\ y.for = NoCall
    BY <1>1, <1>2, <1>4 DEF RuntimeFits, Serves, NoEvent
  <1>6. \A c \in CallIds : c \in Served(r) => callers[c].rt = r
    BY DEF Served
  <1>7. cached' \in 0 .. Len(runtimes)
    BY <1>1, <1>2
  <1>8. \A m \in provisions : m \in Calls /\ m.by \in 0 .. Len(runtimes) /\ ProvisionFits(m, Directory(dirLog), stores)
    BY CallIs
  <1>9. /\ callers' \in [CallIds -> Callers]
        /\ \A c \in CallIds : callers'[c].rt = callers[c].rt /\ CallerFits(c, callers'[c], Directory(dirLog))
        /\ \A c \in CallIds : callers[c].rt # r => callers'[c] = callers[c]
    BY <1>1, <1>6, CallsFail
  <1>10. y.pos = runtimes[r].pos /\ \A t \in Threads : y.acts[t] = "ok" => runtimes[r].acts[t] = "ok"
    BY <1>4 DEF x
  <1> QED  BY <1>1, <1>3, <1>4, <1>5, <1>7, <1>8, <1>9, <1>10, RuntimeGoes

\* invalidate: a call whose request is being appended waits for its end.
LEMMA InvalidateSupervisorKeeps ==
  ASSUME DirectoryInv, InvalidateSupervisor PROVE DirectoryInv'
  <1> DEFINE r == cached
             x == runtimes[r]
             y == [x EXCEPT !.status = IF x.admission = NoEvent THEN "closed" ELSE "closing", !.acts = [t \in Threads |-> "none"]]
             lost == {c \in Served(r) : x.for # c}
  <1>1. /\ r # 0 /\ cached' = 0 /\ UNCHANGED <<dirLog, stores>> /\ callers' = Failed(lost) /\ runtimes' = Closing(r)
        /\ provisions' = {[m EXCEPT !.by = IF m.by = r THEN 0 ELSE m.by] : m \in provisions}
    BY DEF InvalidateSupervisor
  <1>2. runtimes \in Seq(Runtimes) /\ r \in DOMAIN runtimes /\ cached' \in 0 .. Len(runtimes)
    BY <1>1 DEF DirectoryInv, DirectoryTypes
  <1>3. x \in Runtimes
    BY <1>2, ViewIs
  <1>4. runtimes' = [runtimes EXCEPT ![r] = y]
    BY <1>1, <1>2 DEF Closing
  <1>5. /\ y \in Runtimes /\ y.pos = x.pos /\ y.admission = x.admission /\ y.for = x.for
        /\ y.admission # NoEvent => y.status = "closing"
        /\ \A t \in Threads : y.acts[t] = "none"
    BY <1>3 DEF Runtimes
  <1>6. \A c \in CallIds : c \in lost => callers[c].rt = r
    BY DEF Served
  <1>7. /\ callers' \in [CallIds -> Callers]
        /\ \A c \in CallIds : callers'[c].rt = callers[c].rt /\ CallerFits(c, callers'[c], Directory(dirLog))
        /\ \A c \in CallIds : callers[c].rt # r => callers'[c] = callers[c]
        /\ x.for \in CallIds => callers'[x.for] = callers[x.for]
    <2>1. x.for \notin lost
      OBVIOUS
    <2> HIDE DEF lost
    <2> QED  BY <1>1, <1>6, <2>1, CallsFail
  <1>8. \A m \in provisions' : m \in Calls /\ m.by \in 0 .. Len(runtimes) /\ ProvisionFits(m, Directory(dirLog), stores)
    <2>1. \A n \in provisions' : \E m \in provisions : \E b \in {0, m.by} : n = [m EXCEPT !.by = b]
      BY <1>1
    <2> QED  BY <2>1, Forgotten
  <1>9. /\ y.admission = NoEvent \/ (y.admission = x.admission /\ y.status \in {"live", "closing"})
        /\ y.for = NoCall \/ (y.for = x.for /\ y.admission = x.admission /\ callers'[x.for] = callers[x.for])
        /\ \A t \in Threads : y.acts[t] = "ok" => x.acts[t] = "ok"
        /\ dirLog' = dirLog /\ stores' = stores
    <2>1. x.for = NoCall \/ x.for \in CallIds
      BY <1>3 DEF Runtimes
    <2> QED  BY <1>1, <1>5, <1>7, <2>1
  <1> HIDE DEF y, lost
  <1> QED  BY <1>2, <1>4, <1>5, <1>7, <1>8, <1>9, RuntimeGoes

\* A restart: nothing is admitted and nobody is served.
LEMMA RestartSupervisorKeeps ==
  ASSUME DirectoryInv, RestartSupervisor PROVE DirectoryInv'
  <1> DEFINE lost == {c \in CallIds : callers[c].pc \notin {"idle", "done"}}
  <1>1. cached' = 0 /\ dirLog' = dirLog /\ stores' = stores /\ callers' = Failed(lost)
    BY DEF RestartSupervisor
  <1>9. /\ provisions' = {[m EXCEPT !.by = 0] : m \in provisions}
        /\ runtimes' = [r \in DOMAIN runtimes |-> [runtimes[r] EXCEPT !.status = "closed", !.admission = NoEvent, !.for = NoCall,
                                                !.acts = [t \in Threads |-> "none"]]]
    BY DEF RestartSupervisor
  <1>2. /\ runtimes \in Seq(Runtimes) /\ stores \in Stores /\ callers \in [CallIds -> Callers]
        /\ \A c \in CallIds : CallerFits(c, callers[c], Directory(dirLog))
        /\ \A t \in Threads : StoreFits(t, Directory(dirLog), stores)
    BY DEF DirectoryInv, DirectoryTypes
  <1>3. /\ callers' \in [CallIds -> Callers]
        /\ \A c \in CallIds : callers'[c].rt = callers[c].rt
        /\ \A c \in CallIds : \A dir : CallerFits(c, callers[c], dir) => CallerFits(c, callers'[c], dir)
    BY <1>1, <1>2, FailedFits
  <1>4. ASSUME NEW r \in DOMAIN runtimes
        PROVE  /\ runtimes'[r] \in Runtimes /\ runtimes'[r].pos = runtimes[r].pos
               /\ runtimes'[r].admission = NoEvent /\ runtimes'[r].for = NoCall
               /\ \A t \in Threads : runtimes'[r].acts[t] = "none"
    <2>1. runtimes[r] \in Runtimes
      BY ViewIs
    <2> DEFINE y == [runtimes[r] EXCEPT !.status = "closed", !.admission = NoEvent, !.for = NoCall,
                                                !.acts = [t \in Threads |-> "none"]]
    <2>2. runtimes'[r] = y
      BY <1>9
    <2>3. y \in Runtimes /\ y.pos = runtimes[r].pos /\ y.admission = NoEvent /\ y.for = NoCall
          /\ \A t \in Threads : y.acts[t] = "none"
      BY <2>1 DEF Runtimes
    <2> HIDE DEF y
    <2> QED  BY <2>2, <2>3
  <1>5. runtimes' \in Seq(Runtimes) /\ Len(runtimes') = Len(runtimes)
    <2>1. DOMAIN runtimes = 1 .. Len(runtimes) /\ Len(runtimes) \in Nat
      BY <1>2
    <2>2. runtimes' = [r \in 1 .. Len(runtimes) |-> runtimes'[r]] /\ DOMAIN runtimes' = 1 .. Len(runtimes)
      BY <1>9, <2>1
    <2>3. \A r \in 1 .. Len(runtimes) : runtimes'[r] \in Runtimes
      BY <1>4, <2>1
    <2> DEFINE rts == runtimes'
    <2> HIDE DEF rts
    <2>4. rts \in [1 .. Len(runtimes) -> Runtimes]
      BY <2>2, <2>3 DEF rts
    <2>5. rts \in Seq(Runtimes) /\ Len(rts) = Len(runtimes)
      BY <2>1, <2>4
    <2> QED  BY <2>5 DEF rts
  <1>6. ASSUME NEW r \in DOMAIN runtimes PROVE RuntimeFits(runtimes'[r], r, dirLog, stores, callers')
    <2>1. RuntimeFits(runtimes[r], r, dirLog, stores, callers)
      BY ViewIs
    <2>2. \A t \in Threads : runtimes'[r].acts[t] = "ok" => runtimes[r].acts[t] = "ok"
      BY <1>4
    <2> QED  BY <1>4, <2>1, <2>2, RuntimeBecomes
  <1>7. \A m \in provisions' : m \in Calls /\ m.by \in 0 .. Len(runtimes) /\ ProvisionFits(m, Directory(dirLog), stores)
    <2>1. \A n \in provisions' : \E m \in provisions : \E b \in {0, m.by} : n = [m EXCEPT !.by = b]
      BY <1>9
    <2> QED  BY <2>1, Forgotten
  <1>8. cached' \in 0 .. Len(runtimes)
    <2>1. Len(runtimes) \in Nat /\ cached' = 0
      BY <1>1, <1>2
    <2> QED  BY <2>1
  <1> QED  BY <1>1, <1>2, <1>3, <1>5, <1>6, <1>7, <1>8, AllFit

\* The append at the runtime's position: the directory grows by the event, the call it
\* serves waits for the thread, and the other runtimes are where they were.
LEMMA CommitAppends ==
  ASSUME DirectoryInv, NEW r \in DOMAIN runtimes, Commit(r), Extends(r) PROVE DirectoryInv'
  <1> DEFINE x == runtimes[r]
             e == x.admission
             c == x.for
             ended == IF x.status = "closing" THEN "closed" ELSE "live"
             pc == IF ended = "live" THEN "await" ELSE "failed"
             y == [x EXCEPT !.pos = Len(dirLog) + 1, !.admission = NoEvent, !.for = NoCall, !.status = ended,
                            !.acts = [x.acts EXCEPT ![e.thread] = "none"]]
             k == [callers[c] EXCEPT !.pc = pc]
             dir == Directory(dirLog)
             later == Directory(dirLog')
  <1>1. /\ e # NoEvent /\ x.pos = Len(dirLog)
        /\ dirLog' = Append(dirLog, e)
        /\ UNCHANGED <<stores, cached, provisions>>
    BY DEF Commit, Extends
  <1>2. callers' = IF c = NoCall THEN callers ELSE [callers EXCEPT ![c].pc = pc]
    BY DEF Commit
  <1>3. runtimes' = [runtimes EXCEPT ![r].pos = Len(dirLog) + 1, ![r].admission = NoEvent, ![r].for = NoCall,
                                     ![r].status = ended, ![r].acts[e.thread] = "none"]
    BY DEF Commit
  <1>4. /\ x \in Runtimes /\ RuntimeFits(x, r, dirLog, stores, callers)
        /\ runtimes \in Seq(Runtimes) /\ dirLog \in Seq(Events) /\ Len(dirLog) \in Nat
        /\ callers \in [CallIds -> Callers]
        /\ dir \in Directories /\ Holds(dir) /\ OneName(dir)
    BY ViewIs DEF DirectoryInv, DirectoryTypes
  <1>5. e \in Events /\ e.thread \in Threads /\ x.acts \in [Threads -> {"none", "calling", "ok", "bad"}]
    BY <1>1, <1>4 DEF Runtimes, Events
  <1>6. Valid(dir, e) /\ (e.type = "registered" => Created(dir, stores, e.thread))
    <2>1. SubSeq(dirLog, 1, x.pos) = dirLog
      BY <1>1, <1>4
    <2> HIDE DEF x
    <2> QED  BY <1>1, <1>4, <2>1 DEF RuntimeFits
  <1>7. later = Reduce(dir, e)
    BY <1>1, <1>4, <1>5, LongerDirectory
  <1>8. later \in Directories /\ Holds(later) /\ OneName(later) /\ Grows(dir, later)
    BY <1>4, <1>5, <1>6, <1>7, ReduceKeeps
  <1>9. /\ \A u \in Threads \ {e.thread} : later[u] = dir[u]
        /\ e.type = "requested" => later[e.thread][1].alloc = e.alloc
        /\ later[e.thread] # <<>>
        /\ e.type # "registered" => later[e.thread][1].status # "registered"
    <2>1. e.type \in {"requested", "retry", "registered", "failed"}
      BY <1>5 DEF Events
    <2> HIDE DEF e
    <2> QED  BY <1>4, <1>5, <1>6, <1>7, <2>1, ReduceIs
  <1>10. runtimes' = [runtimes EXCEPT ![r] = y]
    <2> DEFINE p == Len(dirLog) + 1
               t == e.thread
    <2>1. runtimes' = [runtimes EXCEPT ![r].pos = p, ![r].admission = NoEvent, ![r].for = NoCall,
                                       ![r].status = ended, ![r].acts[t] = "none"]
      BY <1>3
    <2>2. y = [x EXCEPT !.pos = p, !.admission = NoEvent, !.for = NoCall, !.status = ended, !.acts = [x.acts EXCEPT ![t] = "none"]]
      OBVIOUS
    <2> HIDE DEF p, t, ended, y
    <2> DEFINE w == [x EXCEPT !.pos = p, !.admission = NoEvent, !.for = NoCall, !.status = ended]
               rts == [runtimes EXCEPT ![r].pos = p, ![r].admission = NoEvent, ![r].for = NoCall, ![r].status = ended]
    <2>3. rts = [runtimes EXCEPT ![r] = w] /\ w.acts = x.acts
      BY <1>4 DEF Runtimes
    <2>4. runtimes' = [rts EXCEPT ![r].acts[t] = "none"]
      BY <2>1
    <2>5. y = [w EXCEPT !.acts = [w.acts EXCEPT ![t] = "none"]]
      BY <1>4, <2>2, <2>3 DEF Runtimes
    <2> HIDE DEF w, rts
    <2> QED  BY <1>4, <2>3, <2>4, <2>5
  <1>11. /\ y \in Runtimes /\ y.pos = Len(dirLog) + 1 /\ y.admission = NoEvent /\ y.for = NoCall
         /\ \A t \in Threads : y.acts[t] = "ok" => x.acts[t] = "ok"
    <2>1. [x.acts EXCEPT ![e.thread] = "none"] \in [Threads -> {"none", "calling", "ok", "bad"}]
      BY <1>5
    <2>2. \A t \in Threads : [x.acts EXCEPT ![e.thread] = "none"][t] = "ok" => x.acts[t] = "ok"
      BY <1>5
    <2> DEFINE w == [x.acts EXCEPT ![e.thread] = "none"]
               p == Len(dirLog) + 1
    <2>3. p \in Nat /\ ended \in {"live", "closed"}
      BY <1>4
    <2>4. y = [x EXCEPT !.pos = p, !.admission = NoEvent, !.for = NoCall, !.status = ended, !.acts = w]
      OBVIOUS
    <2> HIDE DEF w, p, ended, y
    <2>5. y \in Runtimes /\ y.pos = p /\ y.admission = NoEvent /\ y.for = NoCall /\ y.acts = w
      BY <1>4, <2>1, <2>3, <2>4 DEF Runtimes, w
    <2> QED  BY <2>2, <2>5 DEF w, p
  <1>12. c # NoCall => /\ c \in CallIds /\ callers[c].rt = r
                       /\ e.type = "requested" /\ Matches(c, e.alloc) /\ callers[c].thread = e.thread
    BY ServedWaits DEF Serves
  <1> HIDE DEF x, y, later, dir
  <1>13. /\ callers' \in [CallIds -> Callers]
         /\ \A d \in CallIds : callers'[d].rt = callers[d].rt /\ CallerFits(d, callers'[d], later)
         /\ \A d \in CallIds : callers[d].rt # r => callers'[d] = callers[d]
    <2>1. \A d \in CallIds : CallerFits(d, callers[d], later)
      BY <1>8, GrowsOn DEF DirectoryInv, dir
    <2>2. CASE c = NoCall
      BY <1>2, <1>4, <2>1, <2>2
    <2>3. CASE c # NoCall
      <3>1. callers[c] \in Callers
        BY <1>4, <1>12, <2>3
      <3>2. k \in Callers /\ k.pc = pc /\ k.thread = callers[c].thread /\ k.rt = callers[c].rt
        BY <3>1 DEF Callers
      <3>3. callers' = [callers EXCEPT ![c] = k]
        BY <1>2, <2>3
      <3> HIDE DEF k
      <3>4. CallerFits(c, k, later)
        <4>1. Known(later, e.thread)
          BY <1>5, <1>9 DEF Known
        <4> QED  BY <1>9, <1>12, <2>3, <3>2, <4>1 DEF CallerFits
      <3> QED  BY <1>4, <1>12, <2>1, <2>3, <3>2, <3>3, <3>4
    <2> QED  BY <2>2, <2>3
  <1>14. RuntimeFits(y, r, dirLog', stores, callers')
    <2>1. Len(dirLog') = Len(dirLog) + 1 /\ SubSeq(dirLog', 1, y.pos) = dirLog'
      <3>1. dirLog' \in Seq(Events) /\ Len(dirLog') = Len(dirLog) + 1
        BY <1>1, <1>4, <1>5
      <3> QED  BY <1>11, <3>1
    <2>2. Grows(later, later)
      BY DEF Grows
    <2>3. \A t \in Threads : y.acts[t] = "ok" => Created(later, stores, t)
      <3>1. \A t \in Threads : x.acts[t] = "ok" => Created(dir, stores, t)
        BY <1>4 DEF RuntimeFits, dir
      <3> QED  BY <1>8, <1>11, <3>1, GrowsOn
    <2>4. y.pos <= Len(dirLog')
      BY <1>4, <1>11, <2>1
    <2> QED  BY <1>8, <1>11, <2>1, <2>2, <2>3, <2>4 DEF RuntimeFits, later
  <1>15. /\ runtimes' \in Seq(Runtimes) /\ Len(runtimes') = Len(runtimes) /\ DOMAIN runtimes' = DOMAIN runtimes
         /\ runtimes'[r] = y /\ \A s \in DOMAIN runtimes : s # r => runtimes'[s] = runtimes[s]
    BY <1>4, <1>10, <1>11, RuntimeSet
  <1>16. ASSUME NEW s \in DOMAIN runtimes, s # r PROVE RuntimeFits(runtimes'[s], s, dirLog', stores, callers')
    <2>1. RuntimeFits(runtimes[s], s, dirLog, stores, callers) /\ runtimes[s].pos \in Nat
      BY ViewIs
    <2>2. RuntimeFits(runtimes[s], s, Append(dirLog, e), stores, callers)
      <3>1. Grows(Directory(dirLog), Directory(Append(dirLog, e)))
        BY <1>1, <1>8 DEF later, dir
      <3> QED  BY <1>4, <1>5, <2>1, <3>1, RuntimeGrows
    <2>3. runtimes[s].for # NoCall => callers'[runtimes[s].for] = callers[runtimes[s].for]
      BY <1>13, <1>16, ServedWaits
    <2>4. runtimes'[s] = runtimes[s]
      BY <1>15, <1>16
    <2> QED  BY <1>1, <2>2, <2>3, <2>4, RuntimeStays
  <1>17. \A t \in Threads : StoreFits(t, later, stores)
    <2> SUFFICES ASSUME NEW t \in Threads PROVE StoreFits(t, later, stores)
      OBVIOUS
    <2>1. StoreFits(t, dir, stores)
      BY DEF DirectoryInv, dir
    <2>2. Created(dir, stores, t) => Created(later, stores, t)
      BY <1>8, GrowsOn
    <2>3. Is(later, t, "registered") => Is(dir, t, "registered") \/ Created(dir, stores, t)
      BY <1>6, <1>9 DEF Is, Known
    <2> QED  BY <2>1, <2>2, <2>3 DEF StoreFits
  <1>18. \A m \in provisions : m \in Calls /\ m.by \in 0 .. Len(runtimes) /\ ProvisionFits(m, later, stores)
    BY <1>8, CallIs, GrowsOn DEF dir
  <1>19. DirectoryTypes'
    <2>1. dirLog' \in Seq(Events)
      BY <1>1, <1>4, <1>5
    <2>2. stores \in Stores /\ cached \in 0 .. Len(runtimes) /\ \A d \in CallIds : callers[d].rt \in 0 .. Len(runtimes)
      BY DEF DirectoryInv, DirectoryTypes
    <2> QED  BY <1>1, <1>13, <1>15, <1>18, <2>1, <2>2 DEF DirectoryTypes
  <1> QED  BY <1>1, <1>8, <1>13, <1>14, <1>15, <1>16, <1>17, <1>18, <1>19 DEF DirectoryInv, later

\* The append that comes too late: the runtime has failed, and its calls with it.
LEMMA CommitFails ==
  ASSUME DirectoryInv, NEW r \in DOMAIN runtimes, Commit(r), ~Extends(r) PROVE DirectoryInv'
  <1> DEFINE x == runtimes[r]
             gone == IF x.status = "closing" THEN "closed" ELSE "failed"
             y == [x EXCEPT !.admission = NoEvent, !.for = NoCall, !.acts = [t \in Threads |-> "none"], !.status = gone]
  <1>1. dirLog' = dirLog /\ stores' = stores /\ cached' = cached /\ provisions' = provisions /\ callers' = Failed(Served(r))
    BY DEF Commit
  <1>2. runtimes' = [runtimes EXCEPT ![r].admission = NoEvent, ![r].for = NoCall, ![r].acts = [t \in Threads |-> "none"],
                                     ![r].status = gone]
    BY DEF Commit
  <1>3. x \in Runtimes /\ runtimes \in Seq(Runtimes) /\ cached \in 0 .. Len(runtimes)
    BY ViewIs DEF DirectoryInv, DirectoryTypes
  <1>4. runtimes' = [runtimes EXCEPT ![r] = y]
    BY <1>2, <1>3
  <1>5. y \in Runtimes /\ y.pos = x.pos /\ y.admission = NoEvent /\ y.for = NoCall /\ \A t \in Threads : y.acts[t] = "none"
    BY <1>3 DEF Runtimes
  <1> HIDE DEF y
  <1>6. \A c \in CallIds : c \in Served(r) => callers[c].rt = r
    BY DEF Served
  <1>7. /\ callers' \in [CallIds -> Callers]
        /\ \A c \in CallIds : callers'[c].rt = callers[c].rt /\ CallerFits(c, callers'[c], Directory(dirLog))
        /\ \A c \in CallIds : callers[c].rt # r => callers'[c] = callers[c]
    BY <1>1, <1>6, CallsFail
  <1>8. \A m \in provisions : m \in Calls /\ m.by \in 0 .. Len(runtimes) /\ ProvisionFits(m, Directory(dirLog), stores)
    BY CallIs
  <1>9. \A t \in Threads : y.acts[t] = "ok" => runtimes[r].acts[t] = "ok"
    BY <1>5
  <1> QED  BY <1>1, <1>3, <1>4, <1>5, <1>7, <1>8, <1>9, RuntimeGoes

\* Every step keeps the invariant.
LEMMA DirectoryStep ==
  ASSUME DirectoryInv, [DirectoryNext]_directoryVars PROVE DirectoryInv'
  <1>1. CASE InvalidateSupervisor
    BY <1>1, InvalidateSupervisorKeeps
  <1>2. CASE RestartSupervisor
    BY <1>2, RestartSupervisorKeeps
  <1>3. CASE \E c \in CallIds : Enter(c) \/ Decide(c) \/ Admit(c) \/ Await(c)
    BY <1>3, EnterKeeps, DecideKeeps, AdmitKeeps, AwaitKeeps
  <1>4. CASE \E r \in DOMAIN runtimes : SupervisorOpened(r) \/ OpenFails(r) \/ Commit(r)
    BY <1>4, SupervisorOpenedKeeps, OpenFailsKeeps, CommitAppends, CommitFails
  <1>5. CASE \E r \in DOMAIN runtimes, t \in Threads : ProvisionThread(r, t) \/ SettleProvision(r, t)
    BY <1>5, ProvisionKeeps, SettleKeeps
  <1>6. CASE \E m \in provisions : PutCoordinate(m) \/ Initialize(m) \/ Answer(m) \/ Lose(m)
    BY <1>6, PutKeeps, InitializeKeeps, AnswerKeeps, LoseKeeps
  <1>7. CASE UNCHANGED directoryVars
    BY <1>7 DEF directoryVars, DirectoryInv, DirectoryTypes
  <1> QED  BY <1>1, <1>2, <1>3, <1>4, <1>5, <1>6, <1>7 DEF DirectoryNext

\* What the invariant says of the directory.
LEMMA DirectorySound == DirectoryInv => DirectoryAgrees
  <1> SUFFICES ASSUME DirectoryInv PROVE DirectoryAgrees
    OBVIOUS
  <1> DEFINE dir == Directory(dirLog)
  <1>1. Recorded = dir
    BY DEF Recorded
  <1>2. /\ dir \in Directories /\ Holds(dir) /\ OneName(dir)
        /\ \A t \in Threads : StoreFits(t, dir, stores)
        /\ \A c \in CallIds : CallerFits(c, callers[c], dir)
    BY DEF DirectoryInv
  <1> HIDE DEF dir
  <1>3. RegisteredExists
    BY <1>1, <1>2 DEF RegisteredExists, StoreFits, Created
  <1>4. StoresOwned
    BY <1>1, <1>2 DEF StoresOwned, StoreFits, Created
  <1>5. Rooted
    BY <1>1, <1>2 DEF Rooted, Holds
  <1>6. ASSUME NEW c \in CallIds PROVE Cardinality(Named(dir, Requests[c].parent, Requests[c].name)) <= 1
    <2> DEFINE N == Named(dir, Requests[c].parent, Requests[c].name)
    <2>1. \A t, u \in N : t = u
      BY <1>2 DEF Named, OneName
    <2> HIDE DEF N
    <2>2. CASE N = {}
      <3>1. Cardinality({}) = 0
        BY FS_EmptySet
      <3> QED  BY <2>2, <3>1 DEF N
    <2>3. CASE N # {}
      <3>1. PICK t \in N : N = {t}
        BY <2>1, <2>3
      <3>2. Cardinality({t}) = 1
        BY FS_Singleton
      <3> QED  BY <3>1, <3>2 DEF N
    <2> QED  BY <2>2, <2>3
  <1>7. NamesUnique
    BY <1>1, <1>6 DEF NamesUnique
  <1>8. AnswersHold
    <2> SUFFICES ASSUME NEW c \in CallIds, callers[c].pc = "done"
                 PROVE  LET t == callers[c].thread
                        IN  /\ Is(Recorded, t, "registered")
                            /\ t \in Named(Recorded, Requests[c].parent, Requests[c].name)
                            /\ Agrees(Requests[c], Recorded[t][1].alloc) \/ Requests[c].generated
      BY DEF AnswersHold
    <2>1. /\ Known(dir, callers[c].thread) /\ Matches(c, dir[callers[c].thread][1].alloc)
          /\ Is(dir, callers[c].thread, "registered")
      BY <1>2 DEF CallerFits
    <2> QED  BY <1>1, <2>1 DEF Matches, Named, Known
  <1> QED  BY <1>3, <1>4, <1>5, <1>7, <1>8 DEF DirectoryAgrees

\* The directory and the thread stores agree, for any requests, any number of runtimes of
\* the supervisor on one journal and any lost calls, restarts and invalidations: what is
\* registered exists on the terms it was requested on, parents come first, a name stands
\* for one thread, and an answered call holds (supervisor.ts allocate, invalidate;
\* graph.ts validate; journal/thread.ts initializeThread).
THEOREM DirectoryIsSound == DirectorySpec => []DirectoryAgrees
  <1>1. DirectoryInit => DirectoryInv
    BY DirectoryInvInit
  <1>2. DirectoryInv /\ [DirectoryNext]_directoryVars => DirectoryInv'
    BY DirectoryStep
  <1>3. DirectoryInv => DirectoryAgrees
    BY DirectorySound
  <1> QED  BY <1>1, <1>2, <1>3, PTL DEF DirectorySpec

-----------------------------------------------------------------------------
(* SqlJournal *)

Event == [type : {"request", "settle", "note"}, ref : Nat, id : MessageIds \cup {0}]
Author == Versions \cup {CHOOSE v \in Versions : TRUE}
SnapshotRow == [name : {"regular", "member"}, version : Versions \cup {NoVersion}, pos : Nat, by : Author, pinned : BOOLEAN]
Connected == [status : {"closed", "setup", "idle", "prepare", "read", "done", "append"}, version : Versions \cup {NoVersion},
              pos : Nat, indexed : BOOLEAN, then : {"none", "read", "append"}, upto : Nat, lower : Nat, got : SUBSET Nat]

JournalTyped ==
    /\ events \in Seq(Event)
    /\ invocations.pos \in 0 .. Length
    /\ family \in [version : Versions \cup {NoVersion}, pos : 0 .. Length]
    /\ atoms \subseteq SnapshotRow
    /\ migrated \in BOOLEAN
    /\ conns \in [Connections -> Connected]

\* The records of a prefix that a version files under "operation".
Operations(v, n, log) == {q \in 1 .. n : "operation" \in KeyOf(v, log[q])}

\* A connection past its setup finds the tables migrated and the invocation index complete.
\* What it has read is what its own version files, up to the position it has come to.
ConnectionFits(c) ==
    LET r == conns[c]
    IN  /\ r.status # "closed" => r.version = Runs[c]
        /\ r.status \notin {"closed", "setup"} => migrated /\ invocations.pos = Length
        /\ r.status = "prepare" => r.then # "none"
        /\ r.upto <= Length /\ r.lower <= Length
        /\ r.status \in {"prepare", "read", "done"} => r.lower <= r.upto
        /\ r.got = Operations(r.version, r.lower, events)
        /\ r.status = "done" => r.got = Operations(r.version, r.upto, events)

\* A settlement is of a request before it; what an older schema refers to can be told from its rows.
HistoryFits == \A p \in 1 .. Length, n \in Nat : events[p] = Settlement(n) => n <= Length
Unmigrated == ~migrated => manifest # NoManifest /\ \A r \in manifest.refs : r.version = NoVersion /\ r.pos = manifest.pos

JournalInv ==
    /\ JournalTyped
    /\ \A c \in Connections : ConnectionFits(c)
    /\ IndexesExact /\ Restorable
    /\ HistoryFits /\ Unmigrated

-----------------------------------------------------------------------------

\* Logs that hold the same records at some positions.
Agree(ps, a, b) == \A q \in ps : a[q] = b[q]

\* Rows derived from the same records are the same.
LEMMA RowsAgree ==
  ASSUME NEW ps, NEW a, NEW b, Agree(ps, a, b)
  PROVE  RefRows(ps, a) = RefRows(ps, b) /\ \A v : KeyRows(v, ps, a) = KeyRows(v, ps, b)
<1>. USE DEF Agree
<1>1. RefRows(ps, a) = RefRows(ps, b)
  BY DEF RefRows
<1>2. ASSUME NEW v PROVE KeyRows(v, ps, a) = KeyRows(v, ps, b)
  <2>1. \A r \in [key : {"note", "operation"}, seq : ps] : r.seq \in ps
    OBVIOUS
  <2>. QED BY <2>1 DEF KeyRows
<1>. QED BY <1>1, <1>2

\* The rows of two ranges are the rows of both together.
LEMMA RowsJoin ==
  ASSUME NEW ps, NEW qs, NEW a
  PROVE  RefRows(ps \cup qs, a) = RefRows(ps, a) \cup RefRows(qs, a)
BY DEF RefRows

LEMMA KeysJoin ==
  ASSUME NEW ps, NEW qs, NEW a, NEW v
  PROVE  KeyRows(v, ps \cup qs, a) = KeyRows(v, ps, a) \cup KeyRows(v, qs, a)
BY DEF KeyRows

\* A prefix and what follows it.
LEMMA Ranges ==
  ASSUME NEW p \in Nat, NEW n \in Nat, p <= n
  PROVE  (1 .. p) \cup ((p + 1) .. n) = 1 .. n
OBVIOUS

\* The key rows that a read looks for are the positions of its operations.
LEMMA KeyRowsOf ==
  ASSUME NEW v, NEW n \in Nat, NEW log
  PROVE  {k.seq : k \in {x \in KeyRows(v, 1 .. n, log) : x.key = "operation"}} = Operations(v, n, log)
<1>1. ASSUME NEW q \in Operations(v, n, log)
      PROVE  [key |-> "operation", seq |-> q] \in {x \in KeyRows(v, 1 .. n, log) : x.key = "operation"}
  BY DEF Operations, KeyRows
<1>2. \A k \in {x \in KeyRows(v, 1 .. n, log) : x.key = "operation"} : k.seq \in Operations(v, n, log)
  BY DEF Operations, KeyRows
<1>3. \A q : [key |-> "operation", seq |-> q].seq = q
  OBVIOUS
<1>. QED BY <1>1, <1>2, <1>3

\* A read that has come to a position looks at what its connection filed behind it.
LEMMA OperationsIn ==
  ASSUME NEW n \in Nat, NEW lower \in Nat, NEW upto \in Nat, upto <= n, NEW v, NEW log
  PROVE  {k.seq : k \in {x \in KeyRows(v, 1 .. n, log) : x.key = "operation" /\ x.seq > lower /\ x.seq <= upto}}
           = {q \in Operations(v, upto, log) : q > lower}
<1>. DEFINE L == {x \in KeyRows(v, 1 .. n, log) : x.key = "operation" /\ x.seq > lower /\ x.seq <= upto}
<1>1. ASSUME NEW q \in Operations(v, upto, log), q > lower PROVE [key |-> "operation", seq |-> q] \in L
  BY <1>1 DEF Operations, KeyRows
<1>2. \A k \in L : k.seq \in Operations(v, upto, log) /\ k.seq > lower
  BY DEF Operations, KeyRows
<1>3. \A q : [key |-> "operation", seq |-> q].seq = q
  OBVIOUS
<1>. QED BY <1>1, <1>2, <1>3

\* The operations of a longer log begin with those of the shorter.
LEMMA OperationsAgree ==
  ASSUME NEW v, NEW n, NEW a, NEW b, Agree(1 .. n, a, b)
  PROVE  Operations(v, n, a) = Operations(v, n, b)
BY DEF Operations, Agree

\* A batch goes as far as it is asked to at most.
LEMMA BatchIn ==
  ASSUME JournalAssumption, NEW p \in Nat, NEW n \in Nat, p <= n
  PROVE  Batch(p, n) \in p .. n
BY DEF Batch, JournalAssumption

-----------------------------------------------------------------------------
(* Pages of a read *)

\* A bounded one that is not empty has a greatest.
LEMMA GreatestOf ==
  ASSUME NEW n \in Nat, NEW S \in SUBSET (0 .. n), S # {}
  PROVE  \E m \in S : \A q \in S : q <= m
<1>. DEFINE T == {n - q : q \in S}
<1>0. \A q \in S : q \in Nat /\ q <= n
  OBVIOUS
<1>1. T \in SUBSET Nat /\ T # {}
  <2>1. \A q \in S : n - q \in Nat
    BY <1>0
  <2>2. \A u \in T : u \in Nat
    BY <2>1
  <2>3. PICK q \in S : TRUE
    OBVIOUS
  <2>4. n - q \in T
    OBVIOUS
  <2>. QED BY <2>2, <2>4
<1>2. PICK t \in T : \A u \in T : t <= u
  BY <1>1, LeastNatural
<1>3. PICK m \in S : t = n - m
  OBVIOUS
<1>4. \A q \in S : q <= m
  <2>1. TAKE q \in S
  <2>2. n - q \in T
    OBVIOUS
  <2>3. n - m <= n - q
    BY <1>2, <1>3, <2>2
  <2>. QED BY <2>3, <1>3
<1>. QED BY <1>3, <1>4

\* The rows of a read before a position.
Before(rest, q) == {p \in rest : p < q}

\* As many of the first rows as a batch takes; and what makes that a step of a read.
IsPage(page, rest) == page \subseteq rest /\ \A q \in rest : q \in page <=> Cardinality(Before(rest, q)) < BatchSize
Beginning(page, rest) ==
    /\ page = {} => rest = {}
    /\ page # {} => /\ Max(page) \in page
                    /\ \A q \in page : q <= Max(page)
                    /\ \A q \in rest : q <= Max(page) => q \in page

\* The page of a read: the first rows after its position, and nothing between them is left out.
LEMMA PageOf ==
  ASSUME JournalAssumption, NEW n \in Nat, NEW rest \in SUBSET (1 .. n), NEW page, IsPage(page, rest)
  PROVE  Beginning(page, rest)
<1>0. BatchSize \in Nat \ {0}
  BY DEF JournalAssumption
<1>p. page \subseteq rest /\ \A q \in rest : q \in page <=> Cardinality(Before(rest, q)) < BatchSize
  BY DEF IsPage
<1>a. \A q \in rest : q \in Nat /\ q <= n
  OBVIOUS
<1>b. rest \subseteq Nat /\ page \subseteq Nat /\ page \in SUBSET (0 .. n)
  BY <1>a, <1>p
<1>1. \A q : IsFiniteSet(Before(rest, q))
  <2>1. IsFiniteSet(1 .. n)
    BY FS_Interval
  <2>2. \A q : Before(rest, q) \in SUBSET (1 .. n)
    BY DEF Before
  <2>. QED BY <2>1, <2>2, FS_Subset
<1>2. ASSUME rest # {} PROVE page # {}
  <2>1. PICK m \in rest : \A q \in rest : m <= q
    BY <1>2, <1>b, LeastNatural
  <2>2. Before(rest, m) = {}
    <3>1. \A p \in rest : ~(p < m)
      BY <2>1, <1>a
    <3>. QED BY <3>1 DEF Before
  <2>3. Cardinality(Before(rest, m)) < BatchSize
    BY <2>2, <1>0, FS_EmptySet
  <2>. QED BY <2>3, <1>p
<1>3. ASSUME page # {}
      PROVE  Max(page) \in page /\ \A q \in page : q <= Max(page)
  <2>2. \E m \in page : \A q \in page : m >= q
    BY <1>b, <1>3, GreatestOf
  <2>. QED BY <2>2, <1>b DEF Max
<1>4. ASSUME page # {}, NEW q \in rest, q <= Max(page) PROVE q \in page
  <2>1. Max(page) \in page /\ Max(page) \in rest
    BY <1>3, <1>4, <1>p
  <2>2. Before(rest, q) \subseteq Before(rest, Max(page))
    <3>1. q \in Nat /\ Max(page) \in Nat
      BY <2>1, <1>a
    <3>2. \A p \in rest : p < q => p < Max(page)
      BY <3>1, <1>4, <1>a
    <3>. QED BY <3>2 DEF Before
  <2>3. Cardinality(Before(rest, q)) <= Cardinality(Before(rest, Max(page)))
    BY <2>2, <1>1, FS_Subset
  <2>4. Cardinality(Before(rest, q)) \in Nat /\ Cardinality(Before(rest, Max(page))) \in Nat
    BY <1>1, FS_CardinalityType
  <2>5. Cardinality(Before(rest, Max(page))) < BatchSize
    BY <2>1, <1>p
  <2>. QED BY <2>3, <2>4, <2>5, <1>0, <1>4, <1>p
<1>. QED BY <1>2, <1>3, <1>4 DEF Beginning

-----------------------------------------------------------------------------
(* Steps of a connection that leave the tables alone *)

LEMMA JournalTypes ==
  ASSUME JournalInv
  PROVE  /\ Length \in Nat /\ events \in Seq(Event) /\ invocations.pos \in 0 .. Length
         /\ family.pos \in 0 .. Length
         /\ \A c \in Connections : conns[c] \in Connected
         /\ \A c \in Connections : conns[c].upto \in Nat /\ conns[c].lower \in Nat /\ conns[c].pos \in Nat
  <1>1. events \in Seq(Event)
    BY DEF JournalInv, JournalTyped
  <1>2. Len(events) \in Nat
    BY <1>1, LenProperties
  <1>3. \A c \in Connections : conns[c] \in Connected
    BY DEF JournalInv, JournalTyped
  <1>4. family.pos \in 0 .. Length
    BY DEF JournalInv, JournalTyped
  <1>. QED BY <1>1, <1>2, <1>3, <1>4 DEF JournalInv, JournalTyped, Length, Connected

LEMMA ConnectionStep ==
  ASSUME JournalInv, NEW c \in Connections, UNCHANGED tables,
         conns' \in [Connections -> Connected],
         \A d \in Connections \ {c} : conns'[d] = conns[d],
         ConnectionFits(c)'
  PROVE  JournalInv'
  <1>. USE DEF tables
  <1>1. JournalTyped'
    BY DEF JournalInv, JournalTyped, Length
  <1>2. ASSUME NEW d \in Connections PROVE ConnectionFits(d)'
    <2>1. CASE d = c
      BY <2>1
    <2>2. CASE d # c
      BY <2>2 DEF JournalInv, ConnectionFits, Operations, Length
    <2>. QED BY <2>1, <2>2
  <1>3. IndexesExact'
    <2>1. \A d \in Connections : conns'[d].status \notin {"closed", "setup"} => invocations.pos = Length
      BY <1>2 DEF ConnectionFits, Length
    <2>2. IndexesExact
      BY DEF JournalInv
    <2>. QED BY <2>1, <2>2 DEF IndexesExact, Length
  <1>4. Restorable' /\ HistoryFits' /\ Unmigrated'
    BY DEF JournalInv, Restorable, HistoryFits, Unmigrated, Length
  <1>. QED BY <1>1, <1>2, <1>3, <1>4 DEF JournalInv

\* A closed connection has read nothing.
LEMMA IdleFits ==
  ASSUME JournalInv
  PROVE  Idle \in Connected /\ \A v : Operations(v, 0, events) = {}
  BY DEF Idle, Connected, Operations

LEMMA OpenStep ==
  ASSUME JournalInv, NEW c \in Connections, OpenJournal(c)
  PROVE  JournalInv'
  <1>1. conns'[c] = [Idle EXCEPT !.status = "setup", !.version = Runs[c]]
    BY DEF OpenJournal, JournalInv, JournalTyped
  <1>2. Runs[c] \in Versions
    BY DEF Versions
  <1>r. conns'[c] = [status |-> "setup", version |-> Runs[c], pos |-> 0, indexed |-> FALSE,
                     then |-> "none", upto |-> 0, lower |-> 0, got |-> {}]
    BY <1>1 DEF Idle
  <1>3. conns'[c] \in Connected
    <2>1. {} \in SUBSET Nat /\ FALSE \in BOOLEAN
      OBVIOUS
    <2>. QED BY <1>r, <1>2, <2>1 DEF Connected
  <1>4. conns' \in [Connections -> Connected]
    BY <1>1, <1>3 DEF OpenJournal, JournalInv, JournalTyped
  <1>5. \A d \in Connections \ {c} : conns'[d] = conns[d]
    BY DEF OpenJournal, JournalInv, JournalTyped
  <1>6. ConnectionFits(c)'
    <2>1. conns'[c].status = "setup" /\ conns'[c].upto = 0 /\ conns'[c].lower = 0
          /\ conns'[c].got = {} /\ conns'[c].version = Runs[c]
      BY <1>r
    <2>2. Operations(Runs[c], 0, events) = {}
      BY IdleFits
    <2>3. Length \in Nat
      BY JournalTypes
    <2>. QED BY <2>1, <2>2, <2>3 DEF ConnectionFits, Operations, Length, OpenJournal, tables
  <1>. QED BY <1>4, <1>5, <1>6, ConnectionStep DEF OpenJournal

LEMMA CloseStep ==
  ASSUME JournalInv, NEW c \in Connections, CloseJournal(c), UNCHANGED tables
  PROVE  JournalInv'
  <1>1. conns'[c] = Idle
    BY DEF CloseJournal, JournalInv, JournalTyped
  <1>4. conns' \in [Connections -> Connected]
    BY <1>1, IdleFits DEF CloseJournal, JournalInv, JournalTyped
  <1>5. \A d \in Connections \ {c} : conns'[d] = conns[d]
    BY DEF CloseJournal, JournalInv, JournalTyped
  <1>6. ConnectionFits(c)'
    BY <1>1, IdleFits, JournalTypes DEF ConnectionFits, Idle, Operations, Length, tables
  <1>. QED BY <1>4, <1>5, <1>6, ConnectionStep

LEMMA ReadFamilyStep ==
  ASSUME JournalInv, NEW c \in Connections, ReadFamily(c)
  PROVE  JournalInv'
  <1>0. conns[c] \in Connected /\ Length \in Nat
    BY JournalTypes
  <1>1. conns'[c] = [conns[c] EXCEPT !.status = "prepare", !.indexed = TRUE, !.then = "read", !.upto = Length,
                                     !.lower = 0, !.got = {}]
    BY <1>0 DEF ReadFamily, Preparing, JournalInv, JournalTyped
  <1>2. {} \in SUBSET Nat /\ TRUE \in BOOLEAN
    OBVIOUS
  <1>3. conns'[c] \in Connected
    <2>1. conns'[c] = [status |-> conns'[c].status, version |-> conns[c].version, pos |-> conns[c].pos,
                       indexed |-> conns'[c].indexed, then |-> conns'[c].then, upto |-> conns'[c].upto, lower |-> 0, got |-> {}]
      BY <1>1, <1>0 DEF Connected
    <2>2. conns'[c].status \in {"prepare", "idle"} /\ conns'[c].then \in {"none", "read"} /\ conns'[c].upto \in Nat
          /\ conns'[c].indexed \in BOOLEAN
      BY <1>1, <1>0, <1>2 DEF Connected
    <2>. QED BY <2>1, <2>2, <1>0, <1>2 DEF Connected
  <1>4. conns' \in [Connections -> Connected]
    BY <1>3 DEF ReadFamily, Preparing, JournalInv, JournalTyped
  <1>5. \A d \in Connections \ {c} : conns'[d] = conns[d]
    BY DEF ReadFamily, Preparing, JournalInv, JournalTyped
  <1>6. ConnectionFits(c)'
    <2>1. conns'[c].status = "prepare" /\ conns'[c].then = "read" /\ conns'[c].upto = Length /\ conns'[c].lower = 0
          /\ conns'[c].got = {} /\ conns'[c].version = conns[c].version
      BY <1>1, <1>0 DEF Connected
    <2>2. ConnectionFits(c) /\ conns[c].status = "idle"
      BY DEF JournalInv, ReadFamily
    <2>3. Operations(conns[c].version, 0, events) = {}
      BY IdleFits
    <2>. QED BY <2>1, <2>2, <2>3, <1>0 DEF ConnectionFits, Length, tables, ReadFamily, Operations
  <1>. QED BY <1>4, <1>5, <1>6, ConnectionStep DEF ReadFamily

LEMMA AppendCallStep ==
  ASSUME JournalInv, NEW c \in Connections, AppendCall(c)
  PROVE  JournalInv'
  <1>0. conns[c] \in Connected /\ Length \in Nat /\ conns[c].indexed \in BOOLEAN
    BY JournalTypes DEF Connected
  <1>1. conns'[c] = [conns[c] EXCEPT !.status = IF conns[c].indexed THEN "prepare" ELSE "append",
                                     !.then = "append", !.upto = Length]
    BY <1>0 DEF AppendCall, JournalInv, JournalTyped
  <1>3. conns'[c] \in Connected
    BY <1>1, <1>0 DEF Connected
  <1>4. conns' \in [Connections -> Connected]
    BY <1>3 DEF AppendCall, JournalInv, JournalTyped
  <1>5. \A d \in Connections \ {c} : conns'[d] = conns[d]
    BY DEF AppendCall, JournalInv, JournalTyped
  <1>6. ConnectionFits(c)'
    <2>1. conns'[c].status \in {"prepare", "append"} /\ conns'[c].then = "append" /\ conns'[c].upto = Length
          /\ conns'[c].lower = conns[c].lower /\ conns'[c].got = conns[c].got /\ conns'[c].version = conns[c].version
      BY <1>1, <1>0 DEF Connected
    <2>2. ConnectionFits(c) /\ conns[c].status = "idle"
      BY DEF JournalInv, AppendCall
    <2>3. conns[c].upto \in Nat /\ conns[c].lower \in Nat
      BY JournalTypes
    <2>4. events' = events /\ invocations' = invocations /\ migrated' = migrated
      BY DEF AppendCall, tables
    <2>6. conns[c].got = Operations(conns[c].version, conns[c].lower, events) /\ conns[c].lower <= Length
          /\ conns[c].version = Runs[c] /\ migrated /\ invocations.pos = Length
      BY <2>2 DEF ConnectionFits
    <2>7. Operations(conns'[c].version, conns'[c].lower, events') = Operations(conns[c].version, conns[c].lower, events)
      BY <2>1, <2>4
    <2>8. Length' = Length
      BY <2>4 DEF Length
    <2>. QED BY <2>1, <2>6, <2>7, <2>8, <2>3, <2>4, <1>0 DEF ConnectionFits
  <1>. QED BY <1>4, <1>5, <1>6, ConnectionStep DEF AppendCall

\* A connection returns to rest, keeping nothing of what it did.
LEMMA RestStep ==
  ASSUME JournalInv, NEW c \in Connections, conns[c].status \notin {"closed", "setup"}, Rest(c), UNCHANGED tables
  PROVE  JournalInv'
  <1>0. conns[c] \in Connected /\ Length \in Nat
    BY JournalTypes
  <1>1. conns'[c] = [conns[c] EXCEPT !.status = "idle", !.then = "none", !.upto = 0, !.lower = 0, !.got = {}]
    BY <1>0 DEF Rest, JournalInv, JournalTyped
  <1>2. {} \in SUBSET Nat /\ TRUE \in BOOLEAN
    OBVIOUS
  <1>3. conns'[c] \in Connected
    <2>1. conns'[c] = [status |-> conns'[c].status, version |-> conns[c].version, pos |-> conns[c].pos,
                       indexed |-> conns'[c].indexed, then |-> conns'[c].then, upto |-> conns'[c].upto, lower |-> 0, got |-> {}]
      BY <1>1, <1>0 DEF Connected
    <2>2. conns'[c].status \in {"prepare", "idle"} /\ conns'[c].then \in {"none", "read"} /\ conns'[c].upto \in Nat
          /\ conns'[c].indexed \in BOOLEAN
      BY <1>1, <1>0, <1>2 DEF Connected
    <2>. QED BY <2>1, <2>2, <1>0, <1>2 DEF Connected
  <1>4. conns' \in [Connections -> Connected]
    BY <1>3 DEF Rest, JournalInv, JournalTyped
  <1>5. \A d \in Connections \ {c} : conns'[d] = conns[d]
    BY DEF Rest, JournalInv, JournalTyped
  <1>6. ConnectionFits(c)'
    <2>1. conns'[c].status = "idle" /\ conns'[c].upto = 0 /\ conns'[c].lower = 0
          /\ conns'[c].got = {} /\ conns'[c].version = conns[c].version
      BY <1>1, <1>0 DEF Connected
    <2>2. ConnectionFits(c)
      BY DEF JournalInv
    <2>3. Operations(conns[c].version, 0, events) = {}
      BY IdleFits
    <2>. QED BY <2>1, <2>2, <2>3, <1>0 DEF ConnectionFits, Length, tables, Operations
  <1>. QED BY <1>4, <1>5, <1>6, ConnectionStep

-----------------------------------------------------------------------------
(* A page read, and the migration *)

\* What a read has ahead of it.
Ahead(v, lower, upto, log) == {q \in Operations(v, upto, log) : q > lower}

\* What a page adds to the operations read so far.
LEMMA PageReads ==
  ASSUME JournalAssumption, NEW v, NEW log, NEW lower \in Nat, NEW upto \in Nat, lower <= upto,
         NEW page, IsPage(page, Ahead(v, lower, upto, log))
  PROVE  /\ page = {} => Operations(v, lower, log) = Operations(v, upto, log)
         /\ page # {} => /\ Max(page) \in lower .. upto
                         /\ Operations(v, lower, log) \cup page = Operations(v, Max(page), log)
<1>. DEFINE rest == Ahead(v, lower, upto, log)
<1>1. \A q : q \in rest <=> q \in 1 .. upto /\ "operation" \in KeyOf(v, log[q]) /\ q > lower
  BY DEF Operations, Ahead
<1>r. IsPage(page, rest)
  OBVIOUS
<1>. HIDE DEF rest
<1>2. rest \in SUBSET (1 .. upto)
  BY <1>1
<1>a. \A q \in 1 .. upto : q \in Nat
  OBVIOUS
<1>3. \A q : q \in page => q \in rest
  BY <1>r DEF IsPage
<1>4. /\ page = {} => rest = {}
      /\ page # {} => /\ Max(page) \in page
                      /\ \A q \in page : q <= Max(page)
                      /\ \A q \in rest : q <= Max(page) => q \in page
  <2>1. Beginning(page, rest)
    BY <1>2, <1>r, PageOf
  <2>. QED BY <2>1 DEF Beginning
<1>5. CASE page = {}
  <2>1. rest = {}
    BY <1>4, <1>5, Zenon
  <2>2. \A q \in 1 .. upto : "operation" \in KeyOf(v, log[q]) => q <= lower
    BY <2>1, <1>1, <1>a
  <2>. QED BY <1>5, <2>2 DEF Operations
<1>6. CASE page # {}
  <2>. DEFINE m == Max(page)
  <2>1. m \in rest
    BY <1>4, <1>6, <1>3
  <2>2. m \in 1 .. upto /\ m > lower
    BY <2>1, <1>1
  <2>3. \A q : q \in page <=> q \in rest /\ q <= m
    BY <1>4, <1>6, <1>3
  <2>. HIDE DEF m
  <2>4. \A q : q \in Operations(v, m, log) <=> q \in 1 .. m /\ "operation" \in KeyOf(v, log[q])
    BY DEF Operations
  <2>5. \A q : q \in Operations(v, lower, log) <=> q \in 1 .. lower /\ "operation" \in KeyOf(v, log[q])
    BY DEF Operations
  <2>6. \A q : q \in 1 .. m <=> q \in 1 .. lower \/ (q \in 1 .. upto /\ q > lower /\ q <= m)
    BY <2>2
  <2>7. Operations(v, lower, log) \cup page = Operations(v, m, log)
    BY <2>3, <2>4, <2>5, <2>6, <1>1
  <2>. QED BY <2>7, <2>2, <1>6 DEF m
<1>. QED BY <1>5, <1>6

LEMMA ReadPageStep ==
  ASSUME JournalAssumption, JournalInv, NEW c \in Connections, ReadPage(c)
  PROVE  JournalInv'
  <1>. DEFINE r == conns[c]
              rest == {k.seq : k \in {x \in keys : x.key = "operation" /\ x.seq > r.lower /\ x.seq <= r.upto}}
              page == {q \in rest : Cardinality({p \in rest : p < q}) < BatchSize}
  <1>0. r \in Connected /\ Length \in Nat /\ r.lower \in Nat /\ r.upto \in Nat /\ family.pos \in 0 .. Length
    BY JournalTypes
  <1>1. ConnectionFits(c) /\ r.status = "read" /\ UNCHANGED <<tables, opens>>
    BY DEF JournalInv, ReadPage
  <1>2. CASE ~Current(c) \/ family.pos < r.upto
    <2>1. Rest(c)
      BY <1>2 DEF ReadPage
    <2>. QED BY <2>1, <1>1, RestStep
  <1>3. CASE Current(c) /\ ~(family.pos < r.upto)
    <2>1. r.version = Runs[c] /\ r.lower <= r.upto /\ r.upto <= Length /\ r.lower <= Length
          /\ r.got = Operations(r.version, r.lower, events) /\ migrated /\ invocations.pos = Length
      BY <1>1 DEF ConnectionFits
    <2>2. family.version = r.version /\ r.version # NoVersion
      BY <1>3, <2>1 DEF Current, JournalAssumption, Versions
    <2>3. keys = KeyRows(r.version, 1 .. family.pos, events)
      BY <2>2 DEF JournalInv, IndexesExact
    <2>4. rest = Ahead(r.version, r.lower, r.upto, events)
      <3>1. family.pos \in Nat /\ r.upto <= family.pos
        BY <1>0, <1>3
      <3>2. {k.seq : k \in {x \in KeyRows(r.version, 1 .. family.pos, events) : x.key = "operation" /\ x.seq > r.lower /\ x.seq <= r.upto}}
              = {q \in Operations(r.version, r.upto, events) : q > r.lower}
        <4>. HIDE DEF r
        <4>1. r.upto \in Nat
          BY <1>0 DEF Connected, r
        <4>. QED BY <3>1, <4>1, <1>0, OperationsIn
      <3>. HIDE DEF r
      <3>. QED BY <2>3, <3>2 DEF Ahead
    <2>5. /\ page = {} => Operations(r.version, r.lower, events) = Operations(r.version, r.upto, events)
          /\ page # {} => /\ Max(page) \in r.lower .. r.upto
                          /\ Operations(r.version, r.lower, events) \cup page = Operations(r.version, Max(page), events)
      <3>. HIDE DEF rest, r
      <3>1. IsPage(page, rest)
        BY Zenon DEF Before, IsPage
      <3>. HIDE DEF page
      <3>. QED BY <3>1, <2>4, <2>1, <1>0, PageReads
    <2>6. IF page = {} THEN Become(c, "done")
          ELSE conns' = [conns EXCEPT ![c].got = @ \cup page, ![c].lower = Max(page)]
      BY <1>3 DEF ReadPage
    <2>7. \A d \in Connections \ {c} : conns'[d] = conns[d]
      <3>. HIDE DEF page
      <3>. QED BY <2>6 DEF Become, JournalInv, JournalTyped
    <2>8. events' = events /\ invocations' = invocations /\ migrated' = migrated
      BY <1>1 DEF tables
    <2>9. Length' = Length
      BY <2>8 DEF Length
    <2>. HIDE DEF page
    <2>10. CASE page = {}
      <3>1. conns'[c] = [conns[c] EXCEPT !.status = "done"]
        BY <2>6, <2>10 DEF Become, JournalInv, JournalTyped
      <3>2. conns'[c] \in Connected
        BY <3>1, <1>0 DEF Connected
      <3>3. conns' \in [Connections -> Connected]
        BY <3>2, <2>6, <2>10 DEF Become, JournalInv, JournalTyped
      <3>4. conns'[c].status = "done" /\ conns'[c].upto = r.upto /\ conns'[c].lower = r.lower
            /\ conns'[c].got = r.got /\ conns'[c].version = r.version
        BY <3>1, <1>0 DEF Connected
      <3>5. ConnectionFits(c)'
        BY <3>4, <2>1, <2>5, <2>10, <2>8, <2>9 DEF ConnectionFits
      <3>. QED BY <3>3, <3>5, <2>7, <1>1, ConnectionStep
    <2>11. CASE page # {}
      <3>a. Max(page) \in r.lower .. r.upto
            /\ r.got \cup page = Operations(r.version, Max(page), events)
        BY <2>5, <2>11, <2>1
      <3>0. Max(page) \in Nat /\ Max(page) <= Length /\ Max(page) <= r.upto
            /\ r.got \cup page = Operations(r.version, Max(page), events)
        BY <3>a, <2>1, <1>0
      <3>1. conns'[c] = [conns[c] EXCEPT !.got = r.got \cup page, !.lower = Max(page)]
        BY <2>6, <2>11 DEF JournalInv, JournalTyped
      <3>2. conns'[c] \in Connected
        <4>1. r.got \cup page \in SUBSET Nat
          BY <3>0 DEF Operations
        <4>. HIDE DEF r
        <4>2. conns'[c] = [status |-> r.status, version |-> r.version, pos |-> r.pos,
                           indexed |-> r.indexed, then |-> r.then, upto |-> r.upto, lower |-> Max(page), got |-> r.got \cup page]
          BY <3>1, <1>0 DEF Connected, r
        <4>. QED BY <4>1, <4>2, <3>0, <1>0 DEF Connected
      <3>3. conns' \in [Connections -> Connected]
        BY <3>2, <2>6, <2>11 DEF JournalInv, JournalTyped
      <3>4. conns'[c].status = "read" /\ conns'[c].upto = r.upto /\ conns'[c].lower = Max(page)
            /\ conns'[c].got = r.got \cup page /\ conns'[c].version = r.version
        BY <3>1, <1>0, <1>1 DEF Connected
      <3>5. ConnectionFits(c)'
        BY <3>4, <3>0, <2>1, <2>8, <2>9, <1>0 DEF ConnectionFits
      <3>. QED BY <3>3, <3>5, <2>7, <1>1, ConnectionStep
    <2>. QED BY <2>10, <2>11
  <1>. QED BY <1>2, <1>3

LEMMA ReadEndsStep ==
  ASSUME JournalInv, NEW c \in Connections, ReadEnds(c)
  PROVE  JournalInv'
  BY RestStep DEF ReadEnds

\* The migration pins what the manifest refers to, and changes nothing else of a row.
LEMMA MigrateStep ==
  ASSUME JournalInv, NEW c \in Connections, Migrate(c)
  PROVE  JournalInv'
  <1>. DEFINE pin(a) == a.pinned \/ (a.version = NoVersion /\ manifest # NoManifest /\ a.pos = manifest.pos)
              row(a) == [a EXCEPT !.pinned = pin(a)]
  <1>0. atoms' = {row(a) : a \in atoms}
    BY Zenon DEF Migrate
  <1>1. atoms \subseteq SnapshotRow
    BY DEF JournalInv, JournalTyped
  <1>2. \A a \in atoms : row(a) \in SnapshotRow /\ Strip(row(a)) = Strip(a) /\ row(a).pinned = pin(a)
    <2>1. TAKE a \in atoms
    <2>2. a \in SnapshotRow /\ pin(a) \in BOOLEAN
      BY <1>1 DEF SnapshotRow
    <2>. HIDE DEF pin
    <2>3. row(a) = [name |-> a.name, version |-> a.version, pos |-> a.pos, by |-> a.by, pinned |-> pin(a)]
      BY <2>2 DEF SnapshotRow
    <2>. QED BY <2>2, <2>3 DEF SnapshotRow, Strip
  <1>. HIDE DEF row
  <1>3. ~migrated /\ migrated' = TRUE
        /\ UNCHANGED <<events, invocations, family, keys, messages, inputs, manifest, conns, opens, writes>>
    BY DEF Migrate
  <1>4. JournalTyped'
    <2>1. atoms' \subseteq SnapshotRow
      BY <1>0, <1>2
    <2>. QED BY <2>1, <1>3 DEF JournalInv, JournalTyped, Length
  <1>5. \A d \in Connections : ConnectionFits(d)'
    BY <1>3 DEF JournalInv, ConnectionFits, Operations, Length
  <1>6. IndexesExact' /\ HistoryFits' /\ Unmigrated'
    BY <1>3 DEF JournalInv, IndexesExact, HistoryFits, Unmigrated, Length
  <1>7. Restorable'
    <2>1. {Strip(a) : a \in atoms'} = {Strip(a) : a \in atoms}
      BY <1>0, <1>2
    <2>2. ASSUME NEW b \in atoms', Strip(b) \in manifest.refs PROVE b.pinned
      <3>1. PICK a \in atoms : b = row(a)
        BY <1>0
      <3>2. Strip(a) \in manifest.refs /\ Strip(a).version = NoVersion /\ Strip(a).pos = manifest.pos
            /\ manifest # NoManifest
        BY <3>1, <1>2, <2>2, <1>3 DEF JournalInv, Unmigrated
      <3>3. a.version = NoVersion /\ a.pos = manifest.pos
        BY <3>2 DEF Strip
      <3>4. pin(a)
        BY <3>2, <3>3
      <3>. QED BY <3>1, <3>4, <1>2
    <2>3. manifest.refs \subseteq {Strip(a) : a \in atoms}
      BY DEF JournalInv, Restorable
    <2>. QED BY <2>1, <2>2, <2>3, <1>3 DEF Restorable
  <1>. QED BY <1>4, <1>5, <1>6, <1>7 DEF JournalInv

-----------------------------------------------------------------------------
(* Batches of the backfills *)

\* The positions of a batch, and what they make complete.
LEMMA BatchCovers ==
  ASSUME Length \in Nat, NEW p \in Nat, NEW n \in p .. Length
  PROVE  (1 .. p) \cup PositionsAfter(p, n) = 1 .. n
<1>1. \A q : q \in PositionsAfter(p, n) <=> q \in (p + 1) .. n
  BY DEF PositionsAfter
<1>2. PositionsAfter(p, n) = (p + 1) .. n
  BY <1>1
<1>3. n \in Nat /\ p <= n
  OBVIOUS
<1>. QED BY <1>2, <1>3, Ranges

LEMMA IndexInvocationsStep ==
  ASSUME JournalAssumption, JournalInv, NEW c \in Connections, IndexInvocations(c)
  PROVE  JournalInv'
  <1>. DEFINE to == Batch(invocations.pos, Length)
  <1>0. conns[c] \in Connected /\ Length \in Nat /\ invocations.pos \in 0 .. Length
    BY JournalTypes
  <1>1. to \in invocations.pos .. Length
    BY <1>0, BatchIn
  <1>. HIDE DEF to
  <1>2. /\ conns[c].status = "setup" /\ migrated
        /\ invocations' = [pos |-> to, rows |-> invocations.rows \cup RefRows(PositionsAfter(invocations.pos, to), events)]
        /\ IF to = Length THEN conns' = [conns EXCEPT ![c].status = "idle", ![c].pos = Length] ELSE UNCHANGED conns
        /\ UNCHANGED <<events, family, keys, messages, inputs, atoms, manifest, migrated, opens, writes>>
    BY DEF IndexInvocations, to
  <1>3. Length' = Length /\ invocations'.pos = to
    BY <1>2 DEF Length
  <1>4. invocations'.rows = RefRows(1 .. to, events)
    <2>1. invocations.rows = RefRows(1 .. invocations.pos, events)
      BY DEF JournalInv, IndexesExact
    <2>2. (1 .. invocations.pos) \cup PositionsAfter(invocations.pos, to) = 1 .. to
      BY <1>0, <1>1, BatchCovers
    <2>3. RefRows(1 .. to, events) = RefRows(1 .. invocations.pos, events) \cup RefRows(PositionsAfter(invocations.pos, to), events)
      <3>1. PICK low : low = 1 .. invocations.pos
        OBVIOUS
      <3>2. RefRows(low \cup PositionsAfter(invocations.pos, to), events)
              = RefRows(low, events) \cup RefRows(PositionsAfter(invocations.pos, to), events)
        BY RowsJoin
      <3>3. low \cup PositionsAfter(invocations.pos, to) = 1 .. to
        BY <2>2, <3>1
      <3>. QED BY <3>1, <3>2, <3>3
    <2>4. invocations'.rows = invocations.rows \cup RefRows(PositionsAfter(invocations.pos, to), events)
      BY <1>2
    <2>. QED BY <2>1, <2>3, <2>4
  <1>5. \A d \in Connections \ {c} : conns'[d] = conns[d]
    BY <1>2 DEF JournalInv, JournalTyped
  <1>6. \/ conns'[c] = conns[c]
        \/ to = Length /\ conns'[c] = [conns[c] EXCEPT !.status = "idle", !.pos = Length]
    BY <1>2 DEF JournalInv, JournalTyped
  <1>7. conns'[c] \in Connected
    BY <1>6, <1>0 DEF Connected
  <1>8. conns' \in [Connections -> Connected]
    BY <1>7, <1>2 DEF JournalInv, JournalTyped
  <1>9. JournalTyped'
    <2>1. invocations'.pos \in 0 .. Length'
      BY <1>0, <1>1, <1>3
    <2>. QED BY <1>2, <1>3, <1>8, <2>1 DEF JournalInv, JournalTyped
  <1>10. \A d \in Connections : ConnectionFits(d)'
    <2>1. ASSUME NEW d \in Connections PROVE ConnectionFits(d)'
      <3>0. ConnectionFits(d)
        BY DEF JournalInv
      <3>1. conns[d].status \notin {"closed", "setup"} => to = Length
        BY <3>0, <1>0, <1>1 DEF ConnectionFits
      <3>2. CASE conns'[d] = conns[d]
        BY <3>0, <3>1, <3>2, <1>2, <1>3 DEF ConnectionFits
      <3>3. CASE d = c /\ to = Length /\ conns'[c] = [conns[c] EXCEPT !.status = "idle", !.pos = Length]
        <4>1. conns'[c].status = "idle" /\ conns'[c].upto = conns[c].upto /\ conns'[c].lower = conns[c].lower
              /\ conns'[c].got = conns[c].got /\ conns'[c].version = conns[c].version
          BY <3>3, <1>0 DEF Connected
        <4>. QED BY <4>1, <3>0, <3>3, <1>2, <1>3 DEF ConnectionFits
      <3>. QED BY <3>2, <3>3, <1>5, <1>6
    <2>. QED BY <2>1
  <1>11. IndexesExact'
    <2>1. \A d \in Connections : conns'[d].status \notin {"closed", "setup"} => invocations'.pos = Length'
      BY <1>10 DEF ConnectionFits
    <2>2. IndexesExact
      BY DEF JournalInv
    <2>3. (invocations.rows)' = RefRows(1 .. invocations.pos, events)'
      BY <1>4, <1>3, <1>2
    <2>4. UNCHANGED <<events, family, keys, messages, inputs>>
      BY <1>2
    <2>. QED BY <2>1, <2>2, <2>3, <2>4, <1>3 DEF IndexesExact
  <1>12. Restorable' /\ HistoryFits' /\ Unmigrated'
    BY <1>2, <1>3 DEF JournalInv, Restorable, HistoryFits, Unmigrated
  <1>. QED BY <1>9, <1>10, <1>11, <1>12 DEF JournalInv

\* The batch, when the index has some way to go.
LEMMA FamilyBatch ==
  ASSUME JournalAssumption, JournalInv, NEW c \in Connections, conns[c].status = "prepare",
         NEW from \in Nat, from = IF Current(c) THEN family.pos ELSE 0, from <= conns[c].upto,
         keys' = Kept(c) \cup KeyRows(conns[c].version, PositionsAfter(from, Batch(from, conns[c].upto)), events),
         family' = [version |-> conns[c].version, pos |-> Batch(from, conns[c].upto)],
         IF Batch(from, conns[c].upto) = conns[c].upto THEN Proceed(c) ELSE UNCHANGED conns,
         UNCHANGED <<events, invocations, messages, inputs, atoms, manifest, migrated>>
  PROVE  JournalInv'
  <1>. DEFINE to == Batch(from, conns[c].upto)
              v == conns[c].version
  <1>0. conns[c] \in Connected /\ Length \in Nat /\ conns[c].upto \in Nat /\ family.pos \in 0 .. Length
    BY JournalTypes
  <1>1. to \in from .. conns[c].upto
    BY <1>0, BatchIn
  <1>2. ConnectionFits(c)
    BY DEF JournalInv
  <1>3. v = Runs[c] /\ conns[c].upto <= Length /\ conns[c].lower <= conns[c].upto
        /\ conns[c].got = Operations(v, conns[c].lower, events)
        /\ conns[c].then # "none" /\ migrated /\ invocations.pos = Length /\ conns[c].lower <= Length
    BY <1>2 DEF ConnectionFits
  <1>4. v \in Versions /\ v # NoVersion
    BY <1>3 DEF JournalAssumption, Versions
  <1>. HIDE DEF to
  <1>5. to \in from .. Length /\ to \in 0 .. Length
    BY <1>0, <1>1, <1>3
  <1>6. Length' = Length
    BY DEF Length
  <1>7. Kept(c) = KeyRows(v, 1 .. from, events)
    <2>1. CASE Current(c)
      <3>1. keys = KeyRows(v, 1 .. family.pos, events)
        BY <1>4, <2>1 DEF JournalInv, IndexesExact, Current
      <3>. QED BY <3>1, <2>1 DEF Kept
    <2>2. CASE ~Current(c)
      <3>1. from = 0 /\ Kept(c) = {}
        BY <2>2 DEF Kept
      <3>2. KeyRows(v, 1 .. 0, events) = {}
        BY DEF KeyRows
      <3>. QED BY <3>1, <3>2
    <2>. QED BY <2>1, <2>2
  <1>8. keys' = KeyRows(v, 1 .. to, events)
    <2>1. (1 .. from) \cup PositionsAfter(from, to) = 1 .. to
      BY <1>0, <1>5, BatchCovers
    <2>2. keys' = Kept(c) \cup KeyRows(v, PositionsAfter(from, to), events)
      BY DEF to
    <2>3. KeyRows(v, 1 .. to, events) = KeyRows(v, 1 .. from, events) \cup KeyRows(v, PositionsAfter(from, to), events)
      <3>1. PICK low : low = 1 .. from
        OBVIOUS
      <3>2. KeyRows(v, low \cup PositionsAfter(from, to), events)
              = KeyRows(v, low, events) \cup KeyRows(v, PositionsAfter(from, to), events)
        BY KeysJoin
      <3>3. low \cup PositionsAfter(from, to) = 1 .. to
        BY <2>1, <3>1
      <3>. QED BY <3>1, <3>2, <3>3
    <2>. QED BY <1>7, <2>2, <2>3
  <1>9. family' = [version |-> v, pos |-> to]
    BY DEF to
  <1>10. conns'[c] = conns[c] \/ conns'[c] = [conns[c] EXCEPT !.status = conns[c].then]
    BY DEF Proceed, Become, JournalInv, JournalTyped
  <1>11. \A d \in Connections \ {c} : conns'[d] = conns[d]
    BY DEF Proceed, Become, JournalInv, JournalTyped
  <1>12. conns'[c] \in Connected
    <2>1. conns[c].then \in {"read", "append"}
      BY <1>0, <1>3 DEF Connected
    <2>. QED BY <1>10, <1>0, <2>1 DEF Connected
  <1>13. conns' \in [Connections -> Connected]
    BY <1>12 DEF Proceed, Become, JournalInv, JournalTyped
  <1>14. JournalTyped'
    <2>1. family' \in [version : Versions \cup {NoVersion}, pos : 0 .. Length]
      BY <1>9, <1>4, <1>5
    <2>. QED BY <2>1, <1>13, <1>6 DEF JournalInv, JournalTyped
  <1>15. \A d \in Connections : ConnectionFits(d)'
    <2>1. ASSUME NEW d \in Connections, conns'[d] = conns[d] PROVE ConnectionFits(d)'
      BY <2>1, <1>6 DEF JournalInv, ConnectionFits
    <2>2. CASE conns'[c] = [conns[c] EXCEPT !.status = conns[c].then]
      <3>1. conns'[c].status \in {"read", "append"} /\ conns'[c].upto = conns[c].upto /\ conns'[c].lower = conns[c].lower
            /\ conns'[c].got = conns[c].got /\ conns'[c].version = conns[c].version
        BY <2>2, <1>0, <1>3 DEF Connected
      <3>2. ConnectionFits(c)'
        BY <3>1, <1>3, <1>6 DEF ConnectionFits
      <3>. QED BY <3>2, <2>1, <1>11
    <2>. QED BY <2>1, <2>2, <1>10, <1>11
  <1>16. IndexesExact'
    <2>1. \A d \in Connections : conns'[d].status \notin {"closed", "setup"} => invocations'.pos = Length'
      BY <1>15 DEF ConnectionFits
    <2>2. family'.version = v /\ family'.pos = to
      BY <1>9
    <2>3. keys' = KeyRows(family.version, 1 .. family.pos, events)'
      BY <1>8, <2>2
    <2>4. IndexesExact
      BY DEF JournalInv
    <2>5. (family.version)' # NoVersion
      BY <2>2, <1>4
    <2>6. UNCHANGED <<events, invocations, messages, inputs>>
      OBVIOUS
    <2>. QED BY <2>1, <2>3, <2>4, <2>5, <2>6, <1>6 DEF IndexesExact
  <1>17. Restorable' /\ HistoryFits' /\ Unmigrated'
    BY <1>6 DEF JournalInv, Restorable, HistoryFits, Unmigrated
  <1>. QED BY <1>14, <1>15, <1>16, <1>17 DEF JournalInv

LEMMA PrepareBatchStep ==
  ASSUME JournalAssumption, JournalInv, NEW c \in Connections, PrepareBatch(c)
  PROVE  JournalInv'
  <1>. DEFINE from == IF Current(c) THEN family.pos ELSE 0
              upto == conns[c].upto
  <1>0. conns[c] \in Connected /\ Length \in Nat /\ upto \in Nat /\ family.pos \in 0 .. Length /\ from \in Nat
    BY JournalTypes
  <1>1. conns[c].status = "prepare" /\ UNCHANGED <<events, invocations, messages, inputs, atoms, manifest, migrated, opens, writes>>
    BY DEF PrepareBatch
  <1>2. CASE from > upto /\ Rest(c) /\ UNCHANGED <<family, keys>>
    <2>1. UNCHANGED tables
      BY <1>1, <1>2 DEF tables
    <2>. QED BY <2>1, <1>1, <1>2, RestStep
  <1>3. CASE Proceed(c) /\ UNCHANGED <<family, keys>>
    <2>1. ConnectionFits(c)
      BY DEF JournalInv
    <2>2. conns'[c] = [conns[c] EXCEPT !.status = conns[c].then]
      BY <1>3 DEF Proceed, Become, JournalInv, JournalTyped
    <2>3. conns[c].then \in {"read", "append"}
      BY <1>0, <1>1, <2>1 DEF Connected, ConnectionFits
    <2>4. conns'[c] \in Connected
      BY <2>2, <2>3, <1>0 DEF Connected
    <2>5. conns' \in [Connections -> Connected]
      BY <2>4, <1>3 DEF Proceed, Become, JournalInv, JournalTyped
    <2>6. \A d \in Connections \ {c} : conns'[d] = conns[d]
      BY <1>3 DEF Proceed, Become, JournalInv, JournalTyped
    <2>7. conns'[c].status \in {"read", "append"} /\ conns'[c].upto = conns[c].upto /\ conns'[c].lower = conns[c].lower
          /\ conns'[c].got = conns[c].got /\ conns'[c].version = conns[c].version
      BY <2>2, <1>0, <2>3 DEF Connected
    <2>8. UNCHANGED tables
      BY <1>1, <1>3 DEF tables
    <2>9. ConnectionFits(c)'
      BY <2>7, <2>1, <1>1 DEF ConnectionFits, Length
    <2>. QED BY <2>5, <2>6, <2>8, <2>9, ConnectionStep
  <1>4. CASE /\ from <= upto
             /\ keys' = Kept(c) \cup KeyRows(conns[c].version, PositionsAfter(from, Batch(from, upto)), events)
             /\ family' = [version |-> conns[c].version, pos |-> Batch(from, upto)]
             /\ IF Batch(from, upto) = upto THEN Proceed(c) ELSE UNCHANGED conns
    <2>. HIDE DEF from
    <2>1. from = IF Current(c) THEN family.pos ELSE 0
      BY DEF from
    <2>. QED BY <2>1, <1>0, <1>1, <1>4, FamilyBatch
  <1>. QED BY <1>2, <1>3, <1>4 DEF PrepareBatch

-----------------------------------------------------------------------------
(* Appending *)

\* What a transaction may write: at most one event, of three kinds, and snapshots that nothing pins yet.
Written(c, w) ==
    /\ \/ w.events = <<>>
       \/ \E e \in Event : /\ w.events = <<e>>
                           /\ \/ e = Requested(Length + 1)
                              \/ \E q \in inputs : e = Settlement(q)
                              \/ \E m \in MessageIds : e = Note(m)
    /\ w.atoms \subseteq SnapshotRow
    /\ ~Repeated(w)
    /\ Length = conns[c].pos /\ ~Uncovered(c)
    /\ w.kind = "atoms" => ~Clash(atoms, w.atoms)

LEMMA SnapshotTyped ==
  ASSUME NEW c, conns[c].version \in Versions, NEW n \in Nat, NEW as \in Snapshots(c, n)
  PROVE  as \subseteq SnapshotRow
  <1>1. ASSUME NEW name \in {"regular", "member"}, NEW v \in Versions \cup {NoVersion}, NEW p \in Nat
        PROVE  Snapshot(c, name, v, p) \subseteq SnapshotRow
    <2>1. conns[c].version \in Author /\ FALSE \in BOOLEAN
      BY DEF Author
    <2>. QED BY <2>1, <1>1 DEF Snapshot, SnapshotRow
  <1>2. n \in Nat /\ (IF n = 0 THEN 0 ELSE n - 1) \in Nat
    OBVIOUS
  <1>3. \/ \E p \in Nat : as = Snapshot(c, "regular", NoVersion, p)
        \/ as = Snapshot(c, "member", conns[c].version, n)
    BY <1>2 DEF Snapshots
  <1>. QED BY <1>1, <1>3

LEMMA WhatIsWritten ==
  ASSUME JournalInv, NEW c \in Connections, conns[c].status = "append", NEW w \in Writes(c), ~Refused(c, w)
  PROVE  Written(c, w)
  <1>1. conns[c].pos \in Nat /\ Length \in Nat /\ conns[c].version \in Versions
    BY JournalTypes DEF JournalInv, ConnectionFits, Versions
  <1>2. Length = conns[c].pos /\ ~Repeated(w) /\ ~Uncovered(c) /\ (w.kind = "atoms" => ~Clash(atoms, w.atoms))
    BY DEF Refused
  <1>3. \A q \in inputs : q \in 1 .. Length
    BY DEF JournalInv, IndexesExact
  <1>4. /\ Requested(Length + 1) \in Event
        /\ \A q \in inputs : Settlement(q) \in Event
        /\ \A m \in MessageIds : Note(m) \in Event
    BY <1>1, <1>3 DEF Requested, Settlement, Note, Event
  <1>5. \A n \in Nat : \A as \in Snapshots(c, n) : as \subseteq SnapshotRow
    BY <1>1, SnapshotTyped
  <1>6. ASSUME NEW e \in Records(Length + 1), w = EventsOnly(<<e>>) PROVE Written(c, w)
    <2>1. e \in Event /\ (e = Requested(Length + 1) \/ (\E q \in inputs : e = Settlement(q)) \/ \E m \in MessageIds : e = Note(m))
      BY <1>4 DEF Records
    <2>2. w.events = <<e>> /\ w.atoms = {}
      BY <1>6 DEF EventsOnly
    <2>. QED BY <2>1, <2>2, <1>2, Zenon DEF Written
  <1>7. CASE w \in [events : {<<Requested(Length + 1)>>}, kind : {"atoms", "actor"}, atoms : Snapshots(c, Length + 1)]
    <2>1. w.events = <<Requested(Length + 1)>> /\ w.atoms \in Snapshots(c, Length + 1)
      BY <1>7
    <2>2. w.atoms \subseteq SnapshotRow
      <3>1. Length + 1 \in Nat
        BY <1>1
      <3>. QED BY <2>1, <3>1, <1>5, Zenon
    <2>. QED BY <2>1, <2>2, <1>2, <1>4, Zenon DEF Written
  <1>8. CASE w \in [events : {<<>>}, kind : {"actor"}, atoms : Snapshots(c, conns[c].pos)]
    <2>1. w.events = <<>> /\ w.atoms \in Snapshots(c, conns[c].pos)
      BY <1>8
    <2>2. w.atoms \subseteq SnapshotRow
      BY <2>1, <1>1, <1>5, Zenon
    <2>. QED BY <2>1, <2>2, <1>2, Zenon DEF Written
  <1>9. w \in {EventsOnly(<<e>>) : e \in Records(Length + 1)}
        \/ w \in [events : {<<Requested(Length + 1)>>}, kind : {"atoms", "actor"}, atoms : Snapshots(c, Length + 1)]
        \/ w \in [events : {<<>>}, kind : {"actor"}, atoms : Snapshots(c, conns[c].pos)]
    BY <1>2, Zenon DEF Writes
  <1>10. w \in {EventsOnly(<<e>>) : e \in Records(Length + 1)} => \E e \in Records(Length + 1) : w = EventsOnly(<<e>>)
    BY Zenon
  <1>. QED BY <1>6, <1>7, <1>8, <1>9, <1>10, Zenon

\* The log a transaction leaves.
LEMMA LogGrows ==
  ASSUME JournalInv, NEW c \in Connections, NEW w, Written(c, w), events' = events \o w.events
  PROVE  /\ events' \in Seq(Event)
         /\ \A n \in 0 .. Length : Agree(1 .. n, events, events')
         /\ \A q \in 1 .. Length : events'[q] = events[q]
         /\ \/ w.events = <<>> /\ Length' = Length /\ events' = events
            \/ /\ Length' = Length + 1
               /\ w.events = <<events'[Length + 1]>>
               /\ events'[Length + 1] \in Event
               /\ \/ events'[Length + 1] = Requested(Length + 1)
                  \/ \E q \in inputs : events'[Length + 1] = Settlement(q)
                  \/ \E m \in MessageIds : events'[Length + 1] = Note(m)
  <1>1. events \in Seq(Event) /\ Length \in Nat
    BY JournalTypes
  <1>2. CASE w.events = <<>>
    <2>1. events' = events
      BY <1>1, <1>2, ConcatEmptySeq
    <2>. QED BY <2>1, <1>1, <1>2 DEF Length, Agree
  <1>3. ASSUME NEW e \in Event, w.events = <<e>>,
               \/ e = Requested(Length + 1)
               \/ \E q \in inputs : e = Settlement(q)
               \/ \E m \in MessageIds : e = Note(m)
        PROVE  /\ events' \in Seq(Event) /\ Length' = Length + 1 /\ events'[Length + 1] = e
               /\ \A q \in 1 .. Length : events'[q] = events[q]
    <2>2. events' = Append(events, e)
      BY <1>1, <1>3, AppendIsConcat
    <2>3. Len(events') = Len(events) + 1 /\ events' \in Seq(Event) /\ events'[Len(events) + 1] = e
          /\ \A q \in 1 .. Len(events) : events'[q] = events[q]
      BY <1>1, <2>2, AppendProperties
    <2>. QED BY <2>3 DEF Length
  <1>4. (\A q \in 1 .. Length : events'[q] = events[q]) => \A n \in 0 .. Length : Agree(1 .. n, events, events')
    <2>1. ASSUME \A q \in 1 .. Length : events'[q] = events[q], NEW n \in 0 .. Length PROVE Agree(1 .. n, events, events')
      <3>1. \A q \in 1 .. n : q \in 1 .. Length
        BY <1>1
      <3>. QED BY <2>1, <3>1 DEF Agree
    <2>. QED BY <2>1
  <1>. QED BY <1>2, <1>3, <1>4 DEF Written

\* The requests a log leaves open.
Unsettled(log) == {q \in 1 .. Len(log) : log[q].type = "request" /\ ~\E p \in 1 .. Len(log) : log[p] = Settlement(q)}

\* A request waits from the transaction that writes it to the one that settles it.
LEMMA InputsKept ==
  ASSUME JournalInv, NEW c \in Connections, NEW w, Written(c, w), events' = events \o w.events,
         inputs' = (inputs \cup {q \in (Length + 1) .. Length' : events'[q].type = "request"})
                     \ {events'[q].ref : q \in {p \in (Length + 1) .. Length' : events'[p].type = "settle"}}
  PROVE  inputs' = Unsettled(events') /\ HistoryFits'
  <1>1. Length \in Nat /\ events \in Seq(Event)
    BY JournalTypes
  <1>2. \A q : q \in inputs <=> q \in 1 .. Length /\ events[q].type = "request" /\ ~\E p \in 1 .. Length : events[p] = Settlement(q)
    BY DEF JournalInv, IndexesExact
  <1>3. \A p \in 1 .. Length, n \in Nat : events[p] = Settlement(n) => n <= Length
    BY DEF JournalInv, HistoryFits
  <1>4. /\ \A q \in 1 .. Length : events'[q] = events[q]
        /\ \/ w.events = <<>> /\ Length' = Length /\ events' = events
           \/ /\ Length' = Length + 1
              /\ \/ events'[Length + 1] = Requested(Length + 1)
                 \/ \E q \in inputs : events'[Length + 1] = Settlement(q)
                 \/ \E m \in MessageIds : events'[Length + 1] = Note(m)
    BY LogGrows
  <1>5. CASE w.events = <<>> /\ Length' = Length /\ events' = events
    <2>1. (Length + 1) .. Length' = {}
      BY <1>1, <1>5
    <2>2. inputs' = inputs
      BY <2>1
    <2>3. inputs' = Unsettled(events')
      BY <2>2, <1>2, <1>5 DEF Unsettled, Length
    <2>. QED BY <2>3, <1>5, <1>3 DEF HistoryFits
  <1>6. CASE Length' = Length + 1
    <2>. DEFINE e == events'[Length + 1]
                m == Length + 1
    <2>1. (Length + 1) .. Length' = {m}
      BY <1>1, <1>6
    <2>2. m \in Nat /\ \A q : q \in 1 .. m <=> q \in 1 .. Length \/ q = m
      BY <1>1
    <2>3. Len(events') = m
      BY <1>6 DEF Length
    <2>0. \/ e = Requested(m)
          \/ \E q \in inputs : e = Settlement(q)
          \/ \E i \in MessageIds : e = Note(i)
      <3>1. Length' # Length
        BY <1>6, <1>1
      <3>. QED BY <3>1, <1>4, Zenon
    <2>e. events'[m] = e
      OBVIOUS
    <2>l. Length \in Nat /\ m = Length + 1
      BY <1>1
    <2>. HIDE DEF m
    <2>4. \A q : q \in inputs' <=> (q \in inputs \/ (q = m /\ e.type = "request")) /\ ~(e.type = "settle" /\ q = e.ref)
      BY <2>1 DEF m
    <2>5. \A q : q \in Unsettled(events') <=>
                   /\ q \in 1 .. m /\ events'[q].type = "request"
                   /\ ~\E p \in 1 .. m : events'[p] = Settlement(q)
      BY <2>3 DEF Unsettled
    <2>. HIDE DEF e
    <2>6. ASSUME NEW n \in Nat, n > Length, NEW p \in 1 .. Length, events'[p] = Settlement(n) PROVE FALSE
      <3>1. events[p] = Settlement(n)
        BY <2>6, <1>4
      <3>2. n <= Length
        BY <3>1, <1>3
      <3>. QED BY <3>2, <2>6, <2>l
    <2>7. m > Length /\ ~(m \in 1 .. Length)
      BY <1>1 DEF m
    <2>8. \A q : (\E p \in 1 .. m : events'[p] = Settlement(q)) <=>
                   (\E p \in 1 .. Length : events[p] = Settlement(q)) \/ e = Settlement(q)
      BY <2>2, <1>4, <2>e
    <2>9. e.type # "request" \/ e = Requested(m)
      BY <2>0 DEF Settlement, Note
    <2>10. \A q : e = Settlement(q) <=> e.type = "settle" /\ e.ref = q
      <3>1. \A q, r : Settlement(q) = Settlement(r) <=> q = r
        BY DEF Settlement
      <3>2. \A q, r : Requested(q) # Settlement(r) /\ Note(q) # Settlement(r)
        BY DEF Settlement, Requested, Note
      <3>3. \A q : Settlement(q).type = "settle" /\ Settlement(q).ref = q /\ Requested(q).type # "settle" /\ Note(q).type # "settle"
        BY DEF Settlement, Requested, Note
      <3>. QED BY <2>0, <3>1, <3>2, <3>3
    <2>11. ~\E p \in 1 .. Length : events[p] = Settlement(m)
      BY <2>6, <2>7, <2>2, <1>4
    <2>12. e # Settlement(m)
      <3>1. \A q \in inputs : q # m
        BY <1>2, <2>7
      <3>a. \A q, r : Settlement(q) = Settlement(r) <=> q = r
        BY DEF Settlement
      <3>b. \A q, r : Requested(q) # Settlement(r) /\ Note(q) # Settlement(r)
        BY DEF Settlement, Requested, Note
      <3>2. \A q : e = Settlement(q) => q \in inputs
        BY <2>0, <3>a, <3>b
      <3>. QED BY <3>1, <3>2
    <2>13. \A q : q \in inputs' <=> q \in Unsettled(events')
      <3>1. TAKE q
      <3>2. CASE q \in 1 .. Length
        <4>1. events'[q] = events[q] /\ q # m /\ q \in 1 .. m
          BY <3>2, <1>4, <2>7, <2>2
        <4>2. q \in inputs' <=> q \in inputs /\ ~(e.type = "settle" /\ q = e.ref)
          BY <4>1, <2>4
        <4>3. q \in Unsettled(events') <=> events[q].type = "request" /\ ~(\E p \in 1 .. Length : events[p] = Settlement(q)) /\ e # Settlement(q)
          BY <4>1, <2>5, <2>8
        <4>4. q \in inputs <=> events[q].type = "request" /\ ~\E p \in 1 .. Length : events[p] = Settlement(q)
          BY <1>2, <3>2
        <4>5. e = Settlement(q) <=> e.type = "settle" /\ q = e.ref
          BY <2>10
        <4>. QED BY <4>2, <4>3, <4>4, <4>5
      <3>3. CASE q = m
        <4>1. q \notin inputs /\ q \in 1 .. m
          BY <3>3, <2>7, <1>2, <2>2
        <4>2. q \in inputs' <=> e.type = "request" /\ ~(e.type = "settle" /\ q = e.ref)
          BY <4>1, <3>3, <2>4
        <4>3. q \in Unsettled(events') <=> e.type = "request"
          BY <4>1, <3>3, <2>5, <2>8, <2>11, <2>12, <2>e
        <4>. QED BY <4>2, <4>3
      <3>4. CASE q \notin 1 .. m
        BY <3>4, <2>2, <2>4, <2>5, <1>2
      <3>. QED BY <3>2, <3>3, <3>4, <2>2
    <2>14. inputs' = Unsettled(events')
      BY <2>13 DEF Unsettled
    <2>15. HistoryFits'
      <3>1. ASSUME NEW p \in 1 .. m, NEW n \in Nat, events'[p] = Settlement(n) PROVE n <= m
        <4>1. CASE p \in 1 .. Length
          <5>1. events[p] = Settlement(n)
            BY <4>1, <3>1, <1>4
          <5>2. n <= Length
            BY <4>1, <5>1, <1>3
          <5>. QED BY <5>2, <2>l
        <4>2. CASE p = m
          <5>1. e = Settlement(n)
            BY <4>2, <3>1, <2>e
          <5>2. n \in inputs
            BY <5>1, <2>0 DEF Settlement, Note, Requested
          <5>3. n \in 1 .. Length
            BY <5>2, <1>2
          <5>. QED BY <5>3, <2>l
        <4>. QED BY <4>1, <4>2, <2>2
      <3>2. Length' = m
        BY <1>6 DEF m
      <3>. QED BY <3>1, <3>2 DEF HistoryFits
    <2>. QED BY <2>14, <2>15
  <1>. QED BY <1>4, <1>5, <1>6

\* A message is written once.
LEMMA MessagesKept ==
  ASSUME JournalInv, NEW c \in Connections, NEW w, Written(c, w), events' = events \o w.events,
         messages' = messages \cup {[id |-> events'[q].id, seq |-> q] : q \in {p \in (Length + 1) .. Length' : events'[p].type = "note"}}
  PROVE  \A m1, m2 \in messages' : m1.id = m2.id => m1 = m2
  <1>1. Length \in Nat
    BY JournalTypes
  <1>2. \A m1, m2 \in messages : m1.id = m2.id => m1 = m2
    BY DEF JournalInv, IndexesExact
  <1>3. \/ w.events = <<>> /\ Length' = Length /\ events' = events
        \/ Length' = Length + 1 /\ w.events = <<events'[Length + 1]>>
    BY LogGrows
  <1>4. CASE Length' = Length
    <2>1. (Length + 1) .. Length' = {}
      BY <1>1, <1>4
    <2>2. messages' = messages
      BY <2>1
    <2>. QED BY <2>2, <1>2
  <1>5. CASE Length' = Length + 1 /\ w.events = <<events'[Length + 1]>>
    <2>. DEFINE e == events'[Length + 1]
                row == [id |-> e.id, seq |-> Length + 1]
    <2>1. (Length + 1) .. Length' = {Length + 1}
      BY <1>1, <1>5
    <2>2. \A x \in messages' : x \in messages \/ x = row
      BY <2>1
    <2>3. \A x \in messages : x.id # e.id
      <3>1. 1 \in DOMAIN w.events /\ w.events[1] = e
        <4>1. w.events = <<e>>
          BY <1>5
        <4>. HIDE DEF e
        <4>. QED BY <4>1
      <3>2. ~Repeated(w)
        BY DEF Written
      <3>3. e.id \notin {x.id : x \in messages}
        BY <3>1, <3>2 DEF Repeated
      <3>. QED BY <3>3
    <2>4. row.id = e.id
      OBVIOUS
    <2>. HIDE DEF row, e
    <2>. QED BY <2>2, <2>3, <2>4, <1>2
  <1>. QED BY <1>3, <1>4, <1>5

-----------------------------------------------------------------------------
(* Checkpoints *)

\* A row with another pin is at the same place, in the same state.
LEMMA Pinning ==
  ASSUME NEW a \in SnapshotRow, NEW p \in BOOLEAN
  PROVE  /\ [a EXCEPT !.pinned = p] \in SnapshotRow
         /\ Strip([a EXCEPT !.pinned = p]) = Strip(a)
         /\ [a EXCEPT !.pinned = p].pinned = p
         /\ \A b : At([a EXCEPT !.pinned = p], b) <=> At(a, b)
         /\ \A b : At(b, [a EXCEPT !.pinned = p]) <=> At(b, a)
  <1>1. [a EXCEPT !.pinned = p] = [name |-> a.name, version |-> a.version, pos |-> a.pos, by |-> a.by, pinned |-> p]
    BY DEF SnapshotRow
  <1>. QED BY <1>1 DEF SnapshotRow, Strip, At, Same

\* Rows that have the same state at the same place, and those that are there.
LEMMA StripOf ==
  ASSUME NEW a, NEW b
  PROVE  Strip(a) = Strip(b) <=> At(a, b) /\ a.by = b.by
BY DEF Strip, At, Same

\* References to rows, and rows that keep what is referred to.
Refs(rows) == {Strip(a) : a \in rows}
RefsKept(refs, rows) == refs \subseteq {Strip(a) : a \in rows} /\ \A a \in rows : Strip(a) \in refs => a.pinned

\* What the rows of a transaction become.
UpsertedRow(b, rows, pin) == [b EXCEPT !.pinned = pin \/ \E a \in rows : At(a, b) /\ a.pinned]

LEMMA UpsertedTyped ==
  ASSUME NEW rows, rows \subseteq SnapshotRow, NEW b \in SnapshotRow, NEW pin \in BOOLEAN
  PROVE  /\ UpsertedRow(b, rows, pin) \in SnapshotRow
         /\ Strip(UpsertedRow(b, rows, pin)) = Strip(b)
         /\ UpsertedRow(b, rows, pin).pinned <=> pin \/ \E a \in rows : At(a, b) /\ a.pinned
  <1>. DEFINE p == pin \/ \E a \in rows : At(a, b) /\ a.pinned
  <1>1. p \in BOOLEAN
    OBVIOUS
  <1>2. UpsertedRow(b, rows, pin) = [b EXCEPT !.pinned = p]
    BY DEF UpsertedRow
  <1>. HIDE DEF p
  <1>3. UpsertedRow(b, rows, pin) \in SnapshotRow /\ Strip(UpsertedRow(b, rows, pin)) = Strip(b)
        /\ UpsertedRow(b, rows, pin).pinned = p
    BY <1>1, <1>2, Pinning
  <1>. QED BY <1>3 DEF p

LEMMA UpsertedRows ==
  ASSUME NEW rows, NEW new, NEW pin
  PROVE  Upsert(rows, new, pin) = {a \in rows : ~\E b \in new : At(a, b)} \cup {UpsertedRow(b, rows, pin) : b \in new}
BY Zenon DEF Upsert, UpsertedRow

LEMMA UnpinnedRows ==
  ASSUME NEW rows, rows \subseteq SnapshotRow
  PROVE  /\ Unpinned(rows) \subseteq SnapshotRow
         /\ \A a \in Unpinned(rows) : ~a.pinned
  <1>1. FALSE \in BOOLEAN
    OBVIOUS
  <1>2. \A a \in rows : [a EXCEPT !.pinned = FALSE] \in SnapshotRow /\ [a EXCEPT !.pinned = FALSE].pinned = FALSE
    BY <1>1, Pinning
  <1>3. \A x : x \in Unpinned(rows) <=> \E a \in rows : x = [a EXCEPT !.pinned = FALSE]
    BY DEF Unpinned
  <1>4. ASSUME NEW x \in Unpinned(rows) PROVE x \in SnapshotRow /\ ~x.pinned
    <2>1. PICK a \in rows : x = [a EXCEPT !.pinned = FALSE]
      BY <1>3
    <2>2. x \in SnapshotRow /\ x.pinned = FALSE
      BY <2>1, <1>2, Zenon
    <2>. QED BY <2>2
  <1>. QED BY <1>4

\* An actor checkpoint: its rows are all there and pinned, and nothing else is.
LEMMA ActorCheckpoint ==
  ASSUME NEW rows, rows \subseteq SnapshotRow, NEW new, new \subseteq SnapshotRow,
         NEW result, result = Collect(Upsert(Unpinned(rows), new, TRUE))
  PROVE  /\ result \subseteq SnapshotRow
         /\ RefsKept(Refs(new), result)
  <1>. DEFINE old == Unpinned(rows)
              put == Upsert(old, new, TRUE)
  <1>1. old \subseteq SnapshotRow /\ TRUE \in BOOLEAN
    BY UnpinnedRows
  <1>2. put = {a \in old : ~\E b \in new : At(a, b)} \cup {UpsertedRow(b, old, TRUE) : b \in new}
    BY UpsertedRows
  <1>. HIDE DEF old
  <1>3. \A b \in new : UpsertedRow(b, old, TRUE) \in SnapshotRow /\ Strip(UpsertedRow(b, old, TRUE)) = Strip(b)
                       /\ UpsertedRow(b, old, TRUE).pinned
    BY <1>1, UpsertedTyped
  <1>4. \A x : x \in put <=> (x \in old /\ ~\E b \in new : At(x, b)) \/ \E b \in new : x = UpsertedRow(b, old, TRUE)
    BY <1>2
  <1>. HIDE DEF put
  <1>5. result \subseteq put /\ \A x \in put : x.pinned => x \in result
    BY DEF Collect, put, old
  <1>6. result \subseteq SnapshotRow
    BY <1>1, <1>3, <1>4, <1>5
  <1>7. \A b \in new : \E a \in result : Strip(a) = Strip(b)
    BY <1>3, <1>4, <1>5
  <1>8. ASSUME NEW a \in result, NEW b \in new, Strip(a) = Strip(b) PROVE a.pinned
    <2>1. At(a, b)
      BY <1>8, StripOf
    <2>. QED BY <2>1, <1>3, <1>4, <1>5
  <1>. QED BY <1>6, <1>7, <1>8 DEF RefsKept, Refs

\* Snapshots written beside a checkpoint leave what it refers to in place.
LEMMA AtomCheckpoint ==
  ASSUME NEW rows, rows \subseteq SnapshotRow, NEW new, new \subseteq SnapshotRow, ~Clash(rows, new),
         NEW refs, RefsKept(refs, rows),
         NEW result, result = Collect(Upsert(rows, new, FALSE))
  PROVE  /\ result \subseteq SnapshotRow
         /\ RefsKept(refs, result)
  <1>. DEFINE put == Upsert(rows, new, FALSE)
  <1>1. FALSE \in BOOLEAN
    OBVIOUS
  <1>2. put = {a \in rows : ~\E b \in new : At(a, b)} \cup {UpsertedRow(b, rows, FALSE) : b \in new}
    BY UpsertedRows
  <1>3. \A b \in new : UpsertedRow(b, rows, FALSE) \in SnapshotRow /\ Strip(UpsertedRow(b, rows, FALSE)) = Strip(b)
                       /\ (UpsertedRow(b, rows, FALSE).pinned <=> \E a \in rows : At(a, b) /\ a.pinned)
    BY <1>1, UpsertedTyped
  <1>4. \A x : x \in put <=> (x \in rows /\ ~\E b \in new : At(x, b)) \/ \E b \in new : x = UpsertedRow(b, rows, FALSE)
    BY <1>2
  <1>. HIDE DEF put
  <1>5. result \subseteq put /\ \A x \in put : x.pinned => x \in result
    BY DEF Collect, put
  <1>6. result \subseteq SnapshotRow
    BY <1>3, <1>4, <1>5
  <1>7. ASSUME NEW r \in refs PROVE \E a \in result : Strip(a) = r
    <2>1. PICK a \in rows : Strip(a) = r /\ a.pinned
      BY DEF RefsKept
    <2>2. CASE ~\E b \in new : At(a, b)
      BY <2>1, <2>2, <1>4, <1>5
    <2>3. ASSUME NEW b \in new, At(a, b) PROVE \E x \in result : Strip(x) = r
      <3>1. a.by = b.by
        BY <2>1, <2>3 DEF Clash
      <3>2. Strip(a) = Strip(b)
        BY <3>1, <2>3, StripOf
      <3>3. UpsertedRow(b, rows, FALSE).pinned /\ Strip(UpsertedRow(b, rows, FALSE)) = r
        BY <2>1, <2>3, <3>2, <1>3
      <3>. QED BY <3>3, <1>4, <1>5
    <2>. QED BY <2>2, <2>3
  <1>8. ASSUME NEW x \in result, Strip(x) \in refs PROVE x.pinned
    <2>1. CASE x \in rows
      BY <2>1, <1>8 DEF RefsKept
    <2>2. ASSUME NEW b \in new, x = UpsertedRow(b, rows, FALSE) PROVE x.pinned
      <3>1. Strip(b) \in refs
        BY <2>2, <1>3, <1>8
      <3>2. PICK a \in rows : Strip(a) = Strip(b)
        BY <3>1 DEF RefsKept
      <3>3. a.pinned /\ At(a, b)
        BY <3>1, <3>2, StripOf DEF RefsKept
      <3>. QED BY <2>2, <3>3, <1>3
    <2>. QED BY <2>1, <2>2, <1>4, <1>5
  <1>. QED BY <1>6, <1>7, <1>8 DEF RefsKept

-----------------------------------------------------------------------------
(* A transaction *)

\* Rows of the records before a transaction, and of all records after it.
LEMMA RowsGrow ==
  ASSUME NEW a, NEW b, NEW n \in Nat, NEW m \in Nat, n <= m, Agree(1 .. n, a, b)
  PROVE  /\ RefRows(1 .. m, b) = RefRows(1 .. n, a) \cup RefRows((n + 1) .. m, b)
         /\ \A v : KeyRows(v, 1 .. m, b) = KeyRows(v, 1 .. n, a) \cup KeyRows(v, (n + 1) .. m, b)
  <1>1. PICK low, high : low = 1 .. n /\ high = (n + 1) .. m
    OBVIOUS
  <1>2. low \cup high = 1 .. m
    BY <1>1, Ranges
  <1>3. RefRows(low, a) = RefRows(low, b) /\ \A v : KeyRows(v, low, a) = KeyRows(v, low, b)
    BY <1>1, RowsAgree
  <1>4. RefRows(low \cup high, b) = RefRows(low, b) \cup RefRows(high, b)
    BY RowsJoin
  <1>5. \A v : KeyRows(v, low \cup high, b) = KeyRows(v, low, b) \cup KeyRows(v, high, b)
    BY KeysJoin
  <1>. QED BY <1>1, <1>2, <1>3, <1>4, <1>5

\* The index of the family, of a connection that keeps it up and of one that does not.
LEMMA FamilyKept ==
  ASSUME JournalAssumption, JournalInv, NEW c \in Connections, conns[c].status = "append", NEW w, Written(c, w),
         events' = events \o w.events,
         keys' = IF conns[c].indexed THEN keys \cup KeyRows(conns[c].version, (Length + 1) .. Length', events') ELSE keys,
         family' = Covers(c, Length')
  PROVE  /\ family' \in [version : Versions \cup {NoVersion}, pos : 0 .. Length']
         /\ keys' = IF family'.version = NoVersion THEN {} ELSE KeyRows(family'.version, 1 .. family'.pos, events')
  <1>1. Length \in Nat /\ conns[c].version \in Versions
    BY JournalTypes DEF JournalInv, ConnectionFits, Versions
  <1>2. family \in [version : Versions \cup {NoVersion}, pos : 0 .. Length]
    BY DEF JournalInv, JournalTyped
  <1>3. keys = IF family.version = NoVersion THEN {} ELSE KeyRows(family.version, 1 .. family.pos, events)
    BY DEF JournalInv, IndexesExact
  <1>4. \A n \in 0 .. Length : Agree(1 .. n, events, events')
    BY LogGrows
  <1>5. Length' \in Nat /\ Length <= Length'
    BY <1>1, LogGrows
  <1>6. CASE conns[c].indexed
    <2>1. family.version = conns[c].version /\ family.pos = Length
      BY <1>6 DEF Written, Uncovered, Current
    <2>2. family.version # NoVersion
      BY <2>1, <1>1 DEF JournalAssumption
    <2>3. family' = [version |-> family.version, pos |-> Length']
      BY <1>2, <1>6 DEF Covers
    <2>4. KeyRows(family.version, 1 .. Length', events') = keys \cup KeyRows(family.version, (Length + 1) .. Length', events')
      <3>1. keys = KeyRows(family.version, 1 .. Length, events)
        BY <1>3, <2>1, <2>2
      <3>2. Agree(1 .. Length, events, events')
        BY <1>1, <1>4
      <3>. QED BY <3>1, <3>2, <1>1, <1>5, RowsGrow
    <2>. QED BY <2>1, <2>2, <2>3, <2>4, <1>2, <1>5, <1>6
  <1>7. CASE ~conns[c].indexed
    <2>1. family' = family /\ keys' = keys
      BY <1>7 DEF Covers
    <2>2. family.pos \in 0 .. Length' /\ family.pos \in 0 .. Length
      BY <1>1, <1>2, <1>5
    <2>3. Agree(1 .. family.pos, events, events')
      BY <1>4, <2>2
    <2>4. PICK low : low = 1 .. family.pos
      OBVIOUS
    <2>5. KeyRows(family.version, low, events) = KeyRows(family.version, low, events')
      BY <2>3, <2>4, RowsAgree
    <2>6. family' \in [version : Versions \cup {NoVersion}, pos : 0 .. Length']
      BY <2>1, <2>2, <1>2
    <2>. QED BY <2>1, <2>4, <2>5, <2>6, <1>3
  <1>. QED BY <1>6, <1>7

\* The checkpoints after a transaction.
LEMMA CheckpointsKept ==
  ASSUME JournalInv, NEW c \in Connections, conns[c].status = "append", NEW w, Written(c, w),
         IF w.kind = "actor"
         THEN /\ atoms' = Collect(Upsert(Unpinned(atoms), w.atoms, TRUE))
              /\ manifest' = [pos |-> Length', refs |-> {Strip(a) : a \in w.atoms}]
         ELSE /\ atoms' = IF w.atoms = {} THEN atoms ELSE Collect(Upsert(atoms, w.atoms, FALSE))
              /\ UNCHANGED manifest,
         w.kind \in {"atoms", "actor"}, migrated' = migrated
  PROVE  atoms' \subseteq SnapshotRow /\ Restorable' /\ Unmigrated'
  <1>1. atoms \subseteq SnapshotRow /\ Restorable /\ migrated
    BY DEF JournalInv, JournalTyped, ConnectionFits
  <1>2. w.atoms \subseteq SnapshotRow /\ (w.kind = "atoms" => ~Clash(atoms, w.atoms))
    BY DEF Written
  <1>3. Unmigrated'
    BY <1>1 DEF Unmigrated
  <1>4. CASE w.kind = "actor"
    <2>1. manifest'.refs = Refs(w.atoms)
      BY <1>4 DEF Refs
    <2>2. atoms' = Collect(Upsert(Unpinned(atoms), w.atoms, TRUE))
      BY <1>4
    <2>3. atoms' \subseteq SnapshotRow /\ RefsKept(Refs(w.atoms), atoms')
      BY <1>1, <1>2, <2>2, ActorCheckpoint
    <2>. QED BY <2>1, <2>3, <1>3 DEF Restorable, RefsKept
  <1>5. CASE w.kind = "atoms" /\ w.atoms = {}
    BY <1>5, <1>1, <1>3 DEF Restorable
  <1>6. CASE w.kind = "atoms" /\ w.atoms # {}
    <2>1. manifest' = manifest /\ atoms' = Collect(Upsert(atoms, w.atoms, FALSE))
      BY <1>6
    <2>2. RefsKept(manifest.refs, atoms)
      BY <1>1 DEF Restorable, RefsKept
    <2>3. atoms' \subseteq SnapshotRow /\ RefsKept(manifest.refs, atoms')
      BY <1>1, <1>2, <1>6, <2>1, <2>2, AtomCheckpoint
    <2>. QED BY <2>1, <2>3, <1>3 DEF Restorable, RefsKept
  <1>. QED BY <1>4, <1>5, <1>6

\* What a connection keeps when its transaction is over.
Ends(r, n, s) == s = [r EXCEPT !.status = "idle", !.then = "none", !.upto = 0, !.pos = n]
Ended(r, s) == s \in Connected /\ s.version = r.version /\ s.lower = r.lower /\ s.got = r.got /\ s.upto = 0 /\ s.status = "idle"

LEMMA Committed ==
  ASSUME NEW r \in Connected, NEW n \in Nat, NEW s, Ends(r, n, s)
  PROVE  Ended(r, s)
BY DEF Connected, Ends, Ended

\* The connection that committed, and what the others were doing.
LEMMA ConnectionsKept ==
  ASSUME JournalInv, NEW c \in Connections, conns[c].status = "append", NEW w, Written(c, w),
         events' = events \o w.events, invocations'.pos = Length', migrated' = migrated,
         conns' = [conns EXCEPT ![c].status = "idle", ![c].then = "none", ![c].upto = 0, ![c].pos = Length']
  PROVE  conns' \in [Connections -> Connected] /\ \A d \in Connections : ConnectionFits(d)'
  <1>1. conns[c] \in Connected /\ Length \in Nat
    BY JournalTypes
  <1>2. \A n \in 0 .. Length : Agree(1 .. n, events, events')
    BY LogGrows
  <1>3. Length' \in Nat /\ Length <= Length'
    BY <1>1, LogGrows
  <1>4. conns'[c] = [conns[c] EXCEPT !.status = "idle", !.then = "none", !.upto = 0, !.pos = Length']
    BY DEF JournalInv, JournalTyped
  <1>5. /\ conns'[c] \in Connected
        /\ conns'[c].version = conns[c].version /\ conns'[c].lower = conns[c].lower /\ conns'[c].got = conns[c].got
        /\ conns'[c].upto = 0 /\ conns'[c].status = "idle"
    <2>1. Ends(conns[c], Length', conns'[c])
      BY <1>4 DEF Ends
    <2>2. Ended(conns[c], conns'[c])
      BY <1>1, <1>3, <2>1, Committed
    <2>. QED BY <2>2 DEF Ended
  <1>6. conns' \in [Connections -> Connected]
    BY <1>5 DEF JournalInv, JournalTyped
  <1>7. ASSUME NEW d \in Connections,
               NEW r, r = conns'[d],
               r.version = conns[d].version, r.lower = conns[d].lower, r.got = conns[d].got, r.upto \in {0, conns[d].upto},
               \/ r.status = conns[d].status /\ r.then = conns[d].then /\ r.upto = conns[d].upto
               \/ r.status = "idle" /\ conns[d].status = "append"
        PROVE  ConnectionFits(d)'
    <2>1. ConnectionFits(d) /\ conns[d].upto \in Nat /\ conns[d].lower \in Nat
      BY JournalTypes DEF JournalInv
    <2>2. conns[d].upto <= Length /\ conns[d].lower <= Length
      BY <2>1 DEF ConnectionFits
    <2>a. Agree(1 .. conns[d].lower, events, events') /\ Agree(1 .. conns[d].upto, events, events')
      BY <2>1, <2>2, <1>1, <1>2
    <2>3. Operations(r.version, conns[d].lower, events) = Operations(r.version, conns[d].lower, events')
      BY <2>a, OperationsAgree
    <2>4. Operations(r.version, conns[d].upto, events) = Operations(r.version, conns[d].upto, events')
      BY <2>a, OperationsAgree
    <2>5. r.upto <= Length' /\ r.lower <= Length'
      BY <2>1, <2>2, <1>1, <1>3, <1>7
    <2>6. r.status # "closed" => r.version = Runs[d]
      BY <2>1, <1>7 DEF ConnectionFits
    <2>7. r.status \notin {"closed", "setup"} => migrated' /\ invocations'.pos = Length'
      BY <2>1, <1>7 DEF ConnectionFits
    <2>8. (r.status = "prepare" => r.then # "none")
          /\ (r.status \in {"prepare", "read", "done"} => r.lower <= r.upto)
      BY <2>1, <1>7 DEF ConnectionFits
    <2>9. r.got = Operations(r.version, r.lower, events')
      BY <2>1, <2>3, <1>7 DEF ConnectionFits
    <2>10. r.status = "done" => r.got = Operations(r.version, r.upto, events')
      BY <2>1, <2>4, <1>7 DEF ConnectionFits
    <2>. QED BY <2>5, <2>6, <2>7, <2>8, <2>9, <2>10, <1>7 DEF ConnectionFits
  <1>8. ASSUME NEW d \in Connections PROVE ConnectionFits(d)'
    <2>1. CASE d = c
      <3>2. conns[c].status = "append"
        OBVIOUS
      <3>. QED BY <3>2, <2>1, <1>5, <1>7
    <2>2. CASE d # c
      <3>1. conns'[d] = conns[d]
        BY <2>2 DEF JournalInv, JournalTyped
      <3>. QED BY <3>1, <1>7
    <2>. QED BY <2>1, <2>2
  <1>. QED BY <1>6, <1>8

LEMMA CommitStep ==
  ASSUME JournalAssumption, JournalInv, NEW c \in Connections, NEW w \in Writes(c), CommitWrite(c, w)
  PROVE  JournalInv'
  <1>0. /\ conns[c].status = "append" /\ ~Refused(c, w)
        /\ events' = events \o w.events
        /\ Length' = Len(events \o w.events)
    BY DEF CommitWrite, Length
  <1>. DEFINE new == (Length + 1) .. Length'
  <1>1. /\ messages' = messages \cup {[id |-> events'[q].id, seq |-> q] : q \in {p \in new : events'[p].type = "note"}}
        /\ invocations' = [pos |-> Length', rows |-> invocations.rows \cup RefRows(new, events')]
        /\ keys' = IF conns[c].indexed THEN keys \cup KeyRows(conns[c].version, new, events') ELSE keys
        /\ family' = Covers(c, Length')
        /\ inputs' = (inputs \cup {q \in new : events'[q].type = "request"}) \ {events'[q].ref : q \in {p \in new : events'[p].type = "settle"}}
        /\ conns' = [conns EXCEPT ![c].status = "idle", ![c].then = "none", ![c].upto = 0, ![c].pos = Length']
        /\ migrated' = migrated
    BY <1>0, Zenon DEF CommitWrite
  <1>2. IF w.kind = "actor"
        THEN /\ atoms' = Collect(Upsert(Unpinned(atoms), w.atoms, TRUE))
             /\ manifest' = [pos |-> Length', refs |-> {Strip(a) : a \in w.atoms}]
        ELSE /\ atoms' = IF w.atoms = {} THEN atoms ELSE Collect(Upsert(atoms, w.atoms, FALSE))
             /\ UNCHANGED manifest
    BY <1>0, Zenon DEF CommitWrite
  <1>3. w.kind \in {"atoms", "actor"}
    BY DEF Writes, EventsOnly
  <1>4. Written(c, w)
    BY <1>0, WhatIsWritten
  <1>5. Length \in Nat /\ invocations.pos = Length
    BY <1>0, JournalTypes DEF JournalInv, ConnectionFits
  <1>a. /\ events' \in Seq(Event) /\ \A n \in 0 .. Length : Agree(1 .. n, events, events')
        /\ Length' = Length \/ Length' = Length + 1
    BY <1>0, <1>4, LogGrows
  <1>6. Length' \in Nat /\ Length <= Length' /\ events' \in Seq(Event) /\ Agree(1 .. Length, events, events')
    BY <1>a, <1>5
  <1>7. invocations'.pos = Length' /\ invocations'.rows = RefRows(1 .. Length', events')
    <2>1. invocations.rows = RefRows(1 .. Length, events)
      BY <1>5 DEF JournalInv, IndexesExact
    <2>2. RefRows(1 .. Length', events') = RefRows(1 .. Length, events) \cup RefRows(new, events')
      BY <1>5, <1>6, RowsGrow
    <2>. HIDE DEF new
    <2>. QED BY <2>1, <2>2, <1>1
  <1>8. /\ family' \in [version : Versions \cup {NoVersion}, pos : 0 .. Length']
        /\ keys' = IF family'.version = NoVersion THEN {} ELSE KeyRows(family'.version, 1 .. family'.pos, events')
    BY <1>0, <1>1, <1>4, FamilyKept
  <1>9. inputs' = Unsettled(events') /\ HistoryFits'
    BY <1>0, <1>1, <1>4, InputsKept
  <1>10. \A m1, m2 \in messages' : m1.id = m2.id => m1 = m2
    BY <1>0, <1>1, <1>4, MessagesKept
  <1>11. atoms' \subseteq SnapshotRow /\ Restorable' /\ Unmigrated'
    BY <1>0, <1>1, <1>2, <1>3, <1>4, CheckpointsKept
  <1>12. conns' \in [Connections -> Connected] /\ \A d \in Connections : ConnectionFits(d)'
    BY <1>0, <1>1, <1>4, <1>7, ConnectionsKept
  <1>13. JournalTyped'
    <2>1. invocations'.pos \in 0 .. Length' /\ migrated' \in BOOLEAN
      BY <1>1, <1>6, <1>7 DEF JournalInv, JournalTyped
    <2>. QED BY <2>1, <1>6, <1>8, <1>11, <1>12 DEF JournalTyped
  <1>14. IndexesExact'
    <2>1. inputs' = {q \in 1 .. Length : events[q].type = "request" /\ ~\E p \in 1 .. Length : events[p] = Settlement(q)}'
      BY <1>9 DEF Unsettled, Length
    <2>2. \A d \in Connections : conns'[d].status \notin {"closed", "setup"} => invocations'.pos = Length'
      BY <1>7
    <2>3. invocations'.rows = RefRows(1 .. invocations'.pos, events')
      BY <1>7
    <2>. QED BY <2>1, <2>2, <2>3, <1>8, <1>10 DEF IndexesExact
  <1>. QED BY <1>9, <1>11, <1>12, <1>13, <1>14 DEF JournalInv

-----------------------------------------------------------------------------

LEMMA JournalInitially ==
  ASSUME JournalInit
  PROVE  JournalInv
  <1>1. \A c \in Connections : conns[c] = Idle
    BY DEF JournalInit
  <1>2. Idle \in Connected
    <2>1. {} \in SUBSET Nat /\ FALSE \in BOOLEAN
      OBVIOUS
    <2>. QED BY <2>1 DEF Idle, Connected
  <1>3. \/ events = <<>> /\ manifest = NoManifest /\ atoms = {} /\ migrated = TRUE
        \/ /\ events = <<Requested(1)>> /\ migrated = FALSE
           /\ atoms = {[name |-> "regular", version |-> NoVersion, pos |-> 1, by |-> CHOOSE v \in Versions : TRUE, pinned |-> FALSE]}
           /\ manifest = [pos |-> 1, refs |-> {Strip(a) : a \in atoms}]
    BY DEF JournalInit, Legacy
  <1>4. events \in Seq(Event) /\ Length \in {0, 1} /\ \A q \in 1 .. Length : events[q] = Requested(1)
    <2>1. Requested(1) \in Event
      BY DEF Requested, Event
    <2>2. CASE events = <<>>
      BY <2>2 DEF Length
    <2>3. CASE events = <<Requested(1)>>
      <3>1. PICK e \in Event : e = Requested(1)
        BY <2>1
      <3>2. <<e>> \in Seq(Event) /\ Len(<<e>>) = 1 /\ \A q \in 1 .. 1 : <<e>>[q] = e
        OBVIOUS
      <3>. QED BY <3>1, <3>2, <2>3 DEF Length
    <2>. QED BY <1>3, <2>2, <2>3
  <1>5. atoms \subseteq SnapshotRow /\ migrated \in BOOLEAN
    <2>1. (CHOOSE v \in Versions : TRUE) \in Author /\ FALSE \in BOOLEAN
      BY DEF Author
    <2>2. \A v \in Author : [name |-> "regular", version |-> NoVersion, pos |-> 1, by |-> v, pinned |-> FALSE] \in SnapshotRow
      BY <2>1 DEF SnapshotRow
    <2>3. \A a \in atoms : a \in SnapshotRow
      BY <1>3, <2>1, <2>2
    <2>. QED BY <1>3, <2>1, <2>3
  <1>6. JournalTyped
    <2>1. invocations.pos = 0 /\ family = [version |-> NoVersion, pos |-> 0] /\ conns \in [Connections -> Connected]
      BY <1>2 DEF JournalInit
    <2>2. 0 \in 0 .. Length
      BY <1>4
    <2>. QED BY <2>1, <2>2, <1>4, <1>5 DEF JournalTyped
  <1>7. ASSUME NEW c \in Connections PROVE ConnectionFits(c)
    <2>1. conns[c] = Idle
      BY <1>1
    <2>2. Operations(NoVersion, 0, events) = {}
      BY DEF Operations
    <2>. QED BY <2>1, <2>2, <1>4 DEF ConnectionFits, Idle
  <1>8. IndexesExact
    <2>1. messages = {}
      BY <1>4 DEF JournalInit, Requested
    <2>2. invocations.rows = RefRows(1 .. invocations.pos, events)
      BY DEF JournalInit, RefRows
    <2>3. \A q : \A p \in 1 .. Length : events[p] # Settlement(q)
      BY <1>4 DEF Requested, Settlement
    <2>4. inputs = {q \in 1 .. Length : events[q].type = "request" /\ ~\E p \in 1 .. Length : events[p] = Settlement(q)}
      BY <2>3 DEF JournalInit
    <2>5. keys = {} /\ family.version = NoVersion
      BY DEF JournalInit
    <2>6. \A c \in Connections : conns[c].status = "closed"
      BY <1>1 DEF Idle
    <2>. QED BY <2>1, <2>2, <2>4, <2>5, <2>6 DEF IndexesExact
  <1>9. Restorable /\ Unmigrated
    <2>1. CASE migrated = TRUE /\ manifest = NoManifest
      BY <2>1, <1>3 DEF Restorable, Unmigrated, NoManifest
    <2>2. CASE /\ migrated = FALSE
               /\ atoms = {[name |-> "regular", version |-> NoVersion, pos |-> 1, by |-> CHOOSE v \in Versions : TRUE, pinned |-> FALSE]}
               /\ manifest = [pos |-> 1, refs |-> {Strip(a) : a \in atoms}]
      <3>1. manifest.pos = 1 /\ manifest.refs = {Strip(a) : a \in atoms} /\ manifest # NoManifest
        BY <2>2 DEF NoManifest
      <3>2. \A a \in atoms : Strip(a).version = NoVersion /\ Strip(a).pos = 1
        BY <2>2 DEF Strip
      <3>. QED BY <3>1, <3>2, <2>2 DEF Restorable, Unmigrated
    <2>. QED BY <1>3, <2>1, <2>2
  <1>10. HistoryFits
    BY <1>4 DEF HistoryFits, Requested, Settlement
  <1>. QED BY <1>6, <1>7, <1>8, <1>9, <1>10 DEF JournalInv

LEMMA JournalStep ==
  ASSUME JournalAssumption, JournalInv, JournalNext
  PROVE  JournalInv'
  <1>1. PICK c \in Connections : OpenJournal(c) \/ ReadFamily(c) \/ AppendCall(c) \/ Crash(c) \/ Work(c)
    BY DEF JournalNext
  <1>2. CASE OpenJournal(c)
    BY <1>2, OpenStep
  <1>3. CASE ReadFamily(c)
    BY <1>3, ReadFamilyStep
  <1>4. CASE AppendCall(c)
    BY <1>4, AppendCallStep
  <1>5. CASE Crash(c)
    BY <1>5, CloseStep DEF Crash
  <1>6. CASE Migrate(c)
    BY <1>6, MigrateStep
  <1>7. CASE IndexInvocations(c)
    BY <1>7, IndexInvocationsStep
  <1>8. CASE PrepareBatch(c)
    BY <1>8, PrepareBatchStep
  <1>9. CASE ReadPage(c)
    BY <1>9, ReadPageStep
  <1>10. CASE ReadEnds(c)
    BY <1>10, ReadEndsStep
  <1>11. ASSUME NEW w \in Writes(c), Rejected(c, w) PROVE JournalInv'
    BY <1>11, CloseStep DEF Rejected
  <1>12. ASSUME NEW w \in Writes(c), CommitWrite(c, w) PROVE JournalInv'
    BY <1>12, CommitStep
  <1>. QED BY <1>1, <1>2, <1>3, <1>4, <1>5, <1>6, <1>7, <1>8, <1>9, <1>10, <1>11, <1>12 DEF Work

LEMMA JournalStutters ==
  ASSUME JournalInv, UNCHANGED journalVars
  PROVE  JournalInv'
  BY DEF journalVars, JournalInv, JournalTyped, ConnectionFits, Operations, IndexesExact, Restorable, HistoryFits, Unmigrated, Length

LEMMA TablesFollow ==
  ASSUME JournalInv
  PROVE  TablesExact
  <1>1. ReadsExact
    <2>1. ASSUME NEW c \in Connections, conns[c].status = "done"
          PROVE  conns[c].got = {k.seq : k \in {x \in KeyRows(conns[c].version, 1 .. conns[c].upto, events) : x.key = "operation"}}
      <3>1. conns[c].got = Operations(conns[c].version, conns[c].upto, events)
        BY <2>1 DEF JournalInv, ConnectionFits
      <3>2. conns[c].upto \in Nat
        BY JournalTypes
      <3>. QED BY <3>1, <3>2, KeyRowsOf
    <2>. QED BY <2>1 DEF ReadsExact
  <1>. QED BY <1>1 DEF JournalInv, TablesExact

\* Whatever versions of an actor write to one database, and wherever a process dies: the tables
\* derived from the events say what the events say, a family read that ends has seen all of its
\* key, and the checkpoint can be read back (sql-journal.ts, sql-family-index.ts, checkpoint/).
THEOREM TablesAreExact == JournalSpec => []TablesExact
  <1>1. JournalInit => JournalInv
    BY JournalInitially
  <1>2. JournalInv /\ [JournalNext]_journalVars => JournalInv'
    BY JournalAssumption, JournalStep, JournalStutters
  <1>3. JournalInv => TablesExact
    BY TablesFollow
  <1>. QED BY <1>1, <1>2, <1>3, PTL DEF JournalSpec
=============================================================================
