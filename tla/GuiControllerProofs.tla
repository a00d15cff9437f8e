-------------------------- MODULE GuiControllerProofs --------------------------
(***************************************************************************)
(* Proofs about the two parts of GuiController that are modelled: the      *)
(* overlay (OverlayRuntime), for any number of starts and requests, and    *)
(* the microphone switch (MicSwitch), for any number of                    *)
(* replacements and microphones.                                           *)
(*                                                                         *)
(* The overlay.  None of its properties is inductive.  The invariant says  *)
(* who can be where at one time: the lock's queue holds each waiting       *)
(* request once and its head alone works (LockFits); at most one start or  *)
(* watcher is at work, the one in the slot, and none once a teardown under *)
(* the lock is past it (SlotsFit); so whose manager and bridge the slots   *)
(* hold is known at each stage (ManagersFit), and what a cancelled task    *)
(* loses does not run (ProcessesFit, BridgesFit).  StateFits ties the      *)
(* state that is shown to the stage of the start or watcher, unless a      *)
(* shutdown is at work; OffFits says why an overlay that was switched off  *)
(* is off, or will be.                                                     *)
(*                                                                         *)
(* The microphone switch.  NoOrphanMic is not inductive either: a stop     *)
(* forgets the task it joined and the source it closed after an await,     *)
(* whatever these fields hold by then.  That they still hold what was      *)
(* stopped is what Alone, JoinsTheLast and ClosesTheLast add.              *)
(***************************************************************************)
EXTENDS OverlayRuntime, MicSwitch, SequenceTheorems, TLAPS

Peer == <<None, "peer">>
Other == <<None, "other">>

Opening == {"created", "opening"}
Launching == {"spawning", "startup", "ready"}
Tearing == {"tear", "watcher", "presenter", "monitor", "process", "bridge", "after"}
Holding == {"grace", "refresh"} \cup Tearing
InLock == {"locking"} \cup Holding
Goals == {"none", "on", "off", "begin", "shutdown", "restart"}
Slots == Starts \cup {None}
FlowStates == [at : Stages, goal : Goals, m : Slots, b : Slots]

\* The types, but for who waits for the lock.
Types ==
    /\ state \in {"off", "starting", "connected", "failed", "stopping"}
    /\ want \in BOOLEAN /\ hidden \in BOOLEAN /\ missed \in BOOLEAN
    /\ target \in Targets \cup {"none"}
    /\ startTask \in Slots /\ watchTask \in Slots /\ mgr \in Slots /\ brg \in Slots
    /\ lock \in Seq(Requests)
    /\ flow \in [Flows -> FlowStates]
    /\ gen \in 0..MaxStart
    /\ bridge \in [Starts -> {"none", "up", "closed"}]
    /\ proc \in [Starts -> {"none", "running", "signalled", "dead"}]
    /\ held \in [Starts -> BOOLEAN]
    /\ mstate \in [Starts -> {"off", "starting", "connected", "failed", "stopping"}]
    /\ mon \in [Starts -> {"none", "watching", "failing", "done"}]
    /\ asked \in 0..MaxAsked
    /\ cut \subseteq Starts

\* What a flow may be doing, and for which goal; only a teardown holds a manager or a
\* bridge; and a start that has not been made does nothing.
StagesFit ==
    /\ \A r \in Requests :
          /\ flow[r].at \in {"idle", "saving", "revealing", "hiding"} \cup InLock
          /\ flow[r].at = "saving" => r = Toggle /\ flow[r].goal \in {"on", "off"}
          /\ flow[r].at = "revealing" => r = Toggle /\ flow[r].goal = "on"
          /\ flow[r].at = "hiding" => r = Toggle /\ flow[r].goal = "off"
          /\ flow[r].at \in InLock =>
                /\ flow[r].goal \in {"begin", "shutdown", "restart"}
                /\ r = Peer => flow[r].goal = "begin"
                /\ r = Other => flow[r].goal = "shutdown"
          /\ flow[r].at \in {"grace", "refresh"} => flow[r].goal # "begin"
    /\ \A g \in Starts :
          /\ flow[Start(g)].at \in {"idle", "done", "refresh"}
                                   \cup Opening \cup Launching \cup Tearing
          /\ flow[Watcher(g)].at \in {"idle", "done", "watching"} \cup Tearing
          /\ g > gen => flow[Start(g)].at = "idle" /\ flow[Watcher(g)].at = "idle"
    /\ \A f \in Flows :
          /\ flow[f].m # None => flow[f].at \in {"monitor", "process"}
          /\ flow[f].b # None => flow[f].at = "bridge"

\* Who waits for the lock is in its queue, once; who works under it is the head.
LockFits ==
    /\ \A r \in Requests :
          /\ flow[r].at \in InLock => \E i \in 1..Len(lock) : lock[i] = r
          /\ flow[r].at \in Holding => lock # <<>> /\ lock[1] = r
    /\ \A i \in 1..Len(lock) : flow[lock[i]].at \in InLock
    /\ \A i, j \in 1..Len(lock) : lock[i] = lock[j] => i = j

\* At most one start or watcher is at work, the one in the slot; none after a teardown
\* under the lock has cancelled it.
SlotsFit ==
    /\ \A g \in Starts : Alive(Start(g)) <=> startTask = g
    /\ \A g \in Starts : Alive(Watcher(g)) <=> watchTask = g
    /\ startTask = None \/ watchTask = None
    /\ \A r \in Requests :
          /\ flow[r].at \in Holding \ {"grace", "tear"} => startTask = None
          /\ flow[r].at \in Holding \ {"grace", "tear", "watcher"} => watchTask = None

\* The manager and the bridge in the slots are those of that start or watcher, or a
\* teardown under the lock is about to take them.
ManagersFit ==
    /\ \A g \in Starts :
          /\ flow[Start(g)].at \in Opening => mgr = None /\ brg = None
          /\ flow[Start(g)].at \in Launching \cup {"refresh"} => mgr = g /\ brg = g
          /\ flow[Start(g)].at \in Tearing => mgr \in {None, g} /\ brg \in {None, g}
          /\ flow[Watcher(g)].at = "watching" => mgr = g /\ brg = g
          /\ flow[Watcher(g)].at \in Tearing => mgr \in {None, g} /\ brg \in {None, g}
    /\ \A f \in Flows :
          /\ flow[f].at \in {"monitor", "process", "bridge", "after"} => mgr = None
          /\ flow[f].at \in {"bridge", "after"} => brg = None
    /\ mgr # None =>
          \/ startTask # None \/ watchTask # None
          \/ \E r \in Requests : flow[r].at \in {"watcher", "presenter"}
    /\ brg # None =>
          \/ startTask # None \/ watchTask # None
          \/ \E r \in Requests : flow[r].at \in {"watcher", "presenter", "monitor", "process"}
    /\ \A r \in Requests : flow[r].at = "refresh" => mgr = None /\ brg = None

\* A process that runs is held, and will be stopped by a flow nobody cancels; the
\* manager, its monitor and the start agree on what has happened.
ProcessesFit ==
    \A g \in Starts :
       /\ proc[g] = "running" => held[g] /\ (mgr = g \/ \E r \in Requests : flow[r].m = g)
       /\ mstate[g] = "failed" => proc[g] # "running"
       /\ g > gen => proc[g] = "none" /\ mon[g] = "none"
       /\ flow[Start(g)].at \in Opening \cup {"spawning"} => proc[g] = "none"
       /\ flow[Start(g)].at \in Opening \cup {"spawning", "startup"} => mon[g] = "none"
       /\ flow[Start(g)].at \in {"spawning", "startup"} => mstate[g] = "starting"
       /\ flow[Start(g)].at \in {"ready", "refresh"} \/ flow[Watcher(g)].at = "watching" =>
             /\ mstate[g] \in {"connected", "failed"}
             /\ mon[g] = "done" => mstate[g] = "failed"
       /\ flow[Start(g)].at \in Tearing \/ flow[Watcher(g)].at \in Tearing =>
             proc[g] # "running"

BridgesFit ==
    \A g \in Starts :
       bridge[g] = "up" /\ g \notin cut => brg = g \/ \E f \in Flows : flow[f].b = g

\* A shutdown is at work under the lock.
Shuts(r) == flow[r].goal \in {"shutdown", "restart"} /\ flow[r].at \in Holding
Shutting == \E r \in Requests : Shuts(r)

\* The state tells what the start or the watcher is doing, unless a shutdown is at work.
StateFits ==
    /\ state = "starting" =>
          \E g \in Starts : flow[Start(g)].at \in Opening \cup Launching
    /\ \A g \in Starts :
          /\ flow[Start(g)].at \in Opening \cup Launching =>
                state = "starting" \/ (state = "stopping" /\ Shutting)
          /\ flow[Start(g)].at = "refresh" \/ flow[Watcher(g)].at = "watching" =>
                state = "connected" \/ (state = "stopping" /\ Shutting)
    /\ state = "connected" =>
          \/ Shutting
          \/ \E g \in Starts : flow[Start(g)].at = "refresh" \/ flow[Watcher(g)].at = "watching"
    /\ \A r \in Requests :
          /\ flow[r].goal = "begin" /\ flow[r].at \in Holding =>
                state \notin {"starting", "connected"}
          /\ Shuts(r) => state # "starting"
          /\ flow[r].at = "refresh" => state = "off"

\* A shutdown is in the queue, and no start of the peer toggle behind it.
OffComing ==
    \E i \in 1..Len(lock) :
       /\ flow[lock[i]].goal = "shutdown"
       /\ \A j \in 1..Len(lock) : j > i => lock[j] # Peer

\* What the user switched off is hidden, or off with no start to come, or will be.
OffFits ==
    /\ flow[Toggle].goal \in {"begin", "restart"} \/ flow[Toggle].at = "revealing" => want
    /\ ~want /\ ~missed =>
          \/ hidden
          \/ flow[Toggle].at = "hiding"
          \/ OffComing
          \/ state \in {"off", "failed"} /\ flow[Peer].at = "idle"

IInv == Types /\ StagesFit /\ LockFits /\ SlotsFit /\ ManagersFit /\ ProcessesFit /\ BridgesFit
        /\ StateFits /\ OffFits

-----------------------------------------------------------------------------
(* Names and moves.                                                         *)

LEMMA Names ==
    /\ None \notin Starts
    /\ Toggle \in Requests /\ Peer \in Requests /\ Other \in Requests
    /\ Toggle # Peer /\ Toggle # Other /\ Peer # Other
    /\ \A r \in Requests : r \in Flows /\ r \in {Toggle, Peer, Other}
    /\ \A g \in Starts : /\ Start(g) \in Flows /\ Start(g) \notin Requests
                         /\ Watcher(g) \in Flows /\ Watcher(g) \notin Requests
    /\ \A g, h : /\ Start(g) # Watcher(h)
                 /\ Start(g) = Start(h) => g = h
                 /\ Watcher(g) = Watcher(h) => g = h
    /\ \A g : Start(g)[1] = g /\ Watcher(g)[1] = g
    /\ \A f \in Flows : f \in Requests \/ \E g \in Starts : f = Start(g) \/ f = Watcher(g)
<1>1. \A g \in Starts : g # None
  BY DEF Starts, None
<1>2. Requests = {Toggle, Peer, Other} /\ Toggle # Peer /\ Toggle # Other /\ Peer # Other
  BY DEF Requests, Toggle, Peer, Other
<1>3. \A r \in Requests : r \in Flows
  BY DEF Flows
<1>4. \A g \in Starts : Start(g) \in Flows /\ Watcher(g) \in Flows
  BY DEF Flows, Start, Watcher
<1>5. \A g \in Starts : Start(g) \notin Requests /\ Watcher(g) \notin Requests
  BY <1>1 DEF Requests, Start, Watcher
<1>6. \A g, h : /\ Start(g) # Watcher(h)
                /\ Start(g) = Start(h) => g = h
                /\ Watcher(g) = Watcher(h) => g = h
  BY DEF Start, Watcher
<1>7. \A g : Start(g)[1] = g /\ Watcher(g)[1] = g
  BY DEF Start, Watcher
<1>8. ASSUME NEW f \in Flows, f \notin Requests
      PROVE  \E g \in Starts : f = Start(g) \/ f = Watcher(g)
  <2>1. f \in Starts \X {"start", "watch"}
    BY <1>8 DEF Flows
  <2> QED  BY <2>1 DEF Start, Watcher
<1> QED  BY <1>1, <1>2, <1>3, <1>4, <1>5, <1>6, <1>7, <1>8

\* Flow f goes to stage a with goal x, holding manager m and bridge b.
Goes(f, a, x, m, b) ==
    /\ flow' \in [Flows -> FlowStates]
    /\ flow'[f].at = a /\ flow'[f].goal = x /\ flow'[f].m = m /\ flow'[f].b = b
    /\ \A e \in Flows : e # f => flow'[e] = flow[e]

LEMMA Going ==
    ASSUME flow \in [Flows -> FlowStates], NEW f \in Flows, NEW s \in FlowStates,
           flow' = [flow EXCEPT ![f] = s]
    PROVE  Goes(f, s.at, s.goal, s.m, s.b)
BY DEF Goes

LEMMA GoesTo ==
    ASSUME flow \in [Flows -> FlowStates], NEW f \in Flows, NEW a \in Stages, GoTo(f, a)
    PROVE  Goes(f, a, flow[f].goal, flow[f].m, flow[f].b)
<1> DEFINE s == [flow[f] EXCEPT !.at = a]
<1>1. s \in FlowStates /\ s.at = a /\ s.goal = flow[f].goal /\ s.m = flow[f].m /\ s.b = flow[f].b
  BY DEF FlowStates
<1>2. flow' = [flow EXCEPT ![f] = s]
  BY DEF GoTo
<1> HIDE DEF s
<1> QED  BY <1>1, <1>2, Going

LEMMA GoesIdle ==
    ASSUME flow \in [Flows -> FlowStates], NEW f \in Flows, Dismiss(f)
    PROVE  Goes(f, "idle", "none", None, None)
<1>1. Idle \in FlowStates /\ Idle.at = "idle" /\ Idle.goal = "none" /\ Idle.m = None /\ Idle.b = None
  BY DEF Idle, FlowStates, Stages, Goals, Slots
<1> QED  BY <1>1, Going DEF Dismiss

LEMMA GoesFor ==
    ASSUME flow \in [Flows -> FlowStates], NEW f \in Flows, NEW a \in Stages, NEW x \in Goals,
           flow' = [flow EXCEPT ![f].at = a, ![f].goal = x]
    PROVE  Goes(f, a, x, flow[f].m, flow[f].b)
<1> DEFINE s == [flow[f] EXCEPT !.at = a, !.goal = x]
<1>1. s \in FlowStates /\ s.at = a /\ s.goal = x /\ s.m = flow[f].m /\ s.b = flow[f].b
  BY DEF FlowStates
<1>2. flow' = [flow EXCEPT ![f] = s]
  OBVIOUS
<1> HIDE DEF s
<1> QED  BY <1>1, <1>2, Going

\* A request that asks.
LEMMA Asks ==
    ASSUME Types, NEW r \in Requests, NEW a \in Stages, NEW x \in Goals, Ask(r, a, x)
    PROVE  ~Alive(r) /\ Goes(r, a, x, None, None) /\ asked' \in 0..MaxAsked
<1> DEFINE s == [Idle EXCEPT !.at = a, !.goal = x]
<1>1. s \in FlowStates /\ s.at = a /\ s.goal = x /\ s.m = None /\ s.b = None
  BY DEF Idle, FlowStates, Slots, Stages, Goals
<1>2. flow' = [flow EXCEPT ![r] = s] /\ flow \in [Flows -> FlowStates]
  BY DEF Ask, Types
<1> HIDE DEF s
<1>3. r \in Flows
  BY Names
<1>4. Goes(r, s.at, s.goal, s.m, s.b)
  BY <1>1, <1>2, <1>3, Going
<1> QED  BY <1>1, <1>4, OverlayAssumption DEF Ask, Types

-----------------------------------------------------------------------------
(* The queue of the lock.                                                   *)

LEMMA Joins ==
    ASSUME Types, LockFits, NEW r \in Requests, flow[r].at \notin InLock,
           NEW x, NEW m, NEW b, Goes(r, "locking", x, m, b), lock' = Append(lock, r)
    PROVE  /\ LockFits'
           /\ Len(lock') = Len(lock) + 1 /\ lock'[Len(lock) + 1] = r
           /\ \A i \in 1..Len(lock) : lock'[i] = lock[i] /\ lock[i] # r
<1>1. lock \in Seq(Requests) /\ Len(lock) \in Nat
  BY DEF Types
<1>2. /\ Len(lock') = Len(lock) + 1 /\ lock'[Len(lock) + 1] = r
      /\ \A i \in 1..Len(lock) : lock'[i] = lock[i] /\ lock[i] # r /\ lock[i] \in Requests
  BY <1>1 DEF LockFits
<1>3. "locking" \in InLock /\ "locking" \notin Holding /\ Holding \subseteq InLock
  BY DEF InLock, Holding, Tearing
<1>4. \A q \in Requests : q # r => flow'[q] = flow[q]
  BY Names DEF Goes
<1>5. flow'[r].at = "locking"
  BY DEF Goes
<1>6. ASSUME NEW q \in Requests, flow'[q].at \in InLock
      PROVE  \E i \in 1..Len(lock') : lock'[i] = q
  <2>1. CASE q = r
    BY <1>1, <1>2, <2>1
  <2>2. CASE q # r
    <3>1. PICK i \in 1..Len(lock) : lock[i] = q
      BY <1>4, <1>6, <2>2 DEF LockFits
    <3> QED  BY <1>1, <1>2, <3>1
  <2> QED  BY <2>1, <2>2
<1>7. ASSUME NEW q \in Requests, flow'[q].at \in Holding
      PROVE  lock' # <<>> /\ lock'[1] = q
  <2>1. q # r /\ flow[q].at \in Holding
    BY <1>3, <1>4, <1>5, <1>7
  <2>2. lock # <<>> /\ lock[1] = q
    BY <2>1 DEF LockFits
  <2> QED  BY <1>1, <1>2, <2>2
<1>8. ASSUME NEW i \in 1..Len(lock') PROVE flow'[lock'[i]].at \in InLock
  <2>1. i \in 1..Len(lock) \/ i = Len(lock) + 1
    BY <1>1, <1>2
  <2> QED  BY <1>2, <1>3, <1>4, <1>5, <2>1 DEF LockFits
<1>9. ASSUME NEW i \in 1..Len(lock'), NEW j \in 1..Len(lock'), lock'[i] = lock'[j] PROVE i = j
  <2>1. /\ i \in 1..Len(lock) \/ i = Len(lock) + 1
        /\ j \in 1..Len(lock) \/ j = Len(lock) + 1
    BY <1>1, <1>2
  <2> QED  BY <1>2, <1>9, <2>1 DEF LockFits
<1> QED  BY <1>2, <1>6, <1>7, <1>8, <1>9 DEF LockFits

LEMMA Leaves ==
    ASSUME Types, LockFits, NEW r \in Requests, flow[r].at \in InLock, lock[1] = r,
           NEW a, NEW x, NEW m, NEW b, a \notin InLock,
           Goes(r, a, x, m, b), lock' = Tail(lock)
    PROVE  /\ LockFits'
           /\ Len(lock) \in Nat \ {0} /\ Len(lock') = Len(lock) - 1
           /\ \A i \in 1..Len(lock') : lock'[i] = lock[i + 1] /\ lock'[i] # r
<1>1. lock \in Seq(Requests) /\ Len(lock) \in Nat \ {0} /\ lock # <<>>
  BY DEF Types, LockFits
<1>2. /\ Len(lock') = Len(lock) - 1
      /\ \A i \in 1..Len(lock') : lock'[i] = lock[i + 1] /\ lock'[i] \in Requests
  BY <1>1, HeadTailProperties
<1>3. \A i \in 1..Len(lock') : i + 1 \in 1..Len(lock) /\ i + 1 # 1
  BY <1>1, <1>2
<1>4. \A i \in 1..Len(lock') : lock'[i] # r
  <2> SUFFICES ASSUME NEW i \in 1..Len(lock'), lock[i + 1] = lock[1] PROVE FALSE
    BY <1>2
  <2> QED  BY <1>1, <1>3 DEF LockFits
<1>5. \A q \in Requests : q # r => flow'[q] = flow[q]
  BY Names DEF Goes
<1>6. ASSUME NEW q \in Requests, flow'[q].at \in InLock
      PROVE  q # r /\ \E i \in 1..Len(lock') : lock'[i] = q
  <2>1. q # r
    BY <1>6 DEF Goes
  <2>2. PICK i \in 1..Len(lock) : lock[i] = q
    BY <1>5, <1>6, <2>1 DEF LockFits
  <2>3. i - 1 \in 1..Len(lock') /\ i = (i - 1) + 1
    BY <1>1, <1>2, <2>1, <2>2
  <2> QED  BY <1>2, <2>1, <2>2, <2>3
<1>7. ASSUME NEW q \in Requests, flow'[q].at \in Holding PROVE FALSE
  <2>1. q # r /\ flow[q].at \in Holding
    BY <1>5, <1>6, <1>7 DEF InLock
  <2> QED  BY <2>1 DEF LockFits
<1>8. ASSUME NEW i \in 1..Len(lock') PROVE flow'[lock'[i]].at \in InLock
  BY <1>2, <1>3, <1>4, <1>5 DEF LockFits
<1>9. ASSUME NEW i \in 1..Len(lock'), NEW j \in 1..Len(lock'), lock'[i] = lock'[j] PROVE i = j
  <2>1. i + 1 = j + 1
    BY <1>2, <1>3, <1>9 DEF LockFits
  <2> QED  BY <1>1, <1>2, <2>1
<1> QED  BY <1>1, <1>2, <1>4, <1>6, <1>7, <1>8, <1>9 DEF LockFits

LEMMA LastOrBefore == \A n \in Nat \ {0} : \A i \in 1..n : i \in 1..(n - 1) \/ i = n
OBVIOUS

\* A restart goes to the end of the queue.
LEMMA JoinsAgain ==
    ASSUME Types, LockFits, NEW r \in Requests, flow[r].at \in InLock, lock[1] = r,
           NEW x, NEW m, NEW b,
           Goes(r, "locking", x, m, b), lock' = Append(Tail(lock), r)
    PROVE  /\ LockFits'
           /\ Len(lock) \in Nat \ {0} /\ Len(lock') = Len(lock) /\ lock'[Len(lock)] = r
           /\ \A i \in 1..(Len(lock) - 1) : lock'[i] = lock[i + 1] /\ lock'[i] # r
<1>1. lock \in Seq(Requests) /\ Len(lock) \in Nat \ {0} /\ lock # <<>>
  BY DEF Types, LockFits
<1>2. /\ Tail(lock) \in Seq(Requests)
      /\ Len(Tail(lock)) = Len(lock) - 1
      /\ \A i \in 1..(Len(lock) - 1) : Tail(lock)[i] = lock[i + 1]
  BY <1>1, HeadTailProperties
<1>3. /\ Len(lock') = Len(lock) /\ lock'[Len(lock)] = r
      /\ \A i \in 1..(Len(lock) - 1) : lock'[i] = lock[i + 1] /\ lock'[i] \in Requests
  <2>1. Len(lock') = Len(Tail(lock)) + 1 /\ lock'[Len(Tail(lock)) + 1] = r
        /\ \A i \in 1..Len(Tail(lock)) : lock'[i] = Tail(lock)[i] /\ lock'[i] \in Requests
    BY <1>2
  <2> QED  BY <1>1, <1>2, <2>1
<1>4. \A i \in 1..(Len(lock) - 1) : i + 1 \in 1..Len(lock) /\ i + 1 # 1
  BY <1>1
<1>5. \A i \in 1..(Len(lock) - 1) : lock'[i] # r
  <2> SUFFICES ASSUME NEW i \in 1..(Len(lock) - 1), lock[i + 1] = lock[1] PROVE FALSE
    BY <1>3
  <2> QED  BY <1>1, <1>4 DEF LockFits
<1>6. \A q \in Requests : q # r => flow'[q] = flow[q]
  BY Names DEF Goes
<1>7. flow'[r].at = "locking" /\ "locking" \in InLock /\ "locking" \notin Holding
      /\ Holding \subseteq InLock
  BY DEF Goes, InLock, Holding, Tearing
<1>8. ASSUME NEW q \in Requests, flow'[q].at \in InLock
      PROVE  \E i \in 1..Len(lock') : lock'[i] = q
  <2>1. CASE q = r
    <3>1. Len(lock) \in 1..Len(lock') /\ lock'[Len(lock)] = q
      BY <1>1, <1>3, <2>1
    <3> QED  BY <3>1
  <2>2. CASE q # r
    <3>1. PICK i \in 1..Len(lock) : lock[i] = q
      BY <1>6, <1>8, <2>2 DEF LockFits
    <3>2. i - 1 \in 1..(Len(lock) - 1) /\ i = (i - 1) + 1 /\ i - 1 \in 1..Len(lock)
      BY <1>1, <2>2, <3>1
    <3> QED  BY <1>3, <3>1, <3>2
  <2> QED  BY <2>1, <2>2
<1>9. ASSUME NEW q \in Requests, flow'[q].at \in Holding PROVE FALSE
  <2>1. q # r /\ flow[q].at \in Holding
    BY <1>6, <1>7, <1>9
  <2> QED  BY <2>1 DEF LockFits
<1>10. ASSUME NEW i \in 1..Len(lock') PROVE flow'[lock'[i]].at \in InLock
  <2>1. i \in 1..(Len(lock) - 1) \/ i = Len(lock)
    BY <1>1, <1>3, LastOrBefore
  <2> QED  BY <1>3, <1>4, <1>5, <1>6, <1>7, <2>1 DEF LockFits
<1>11. ASSUME NEW i \in 1..Len(lock'), NEW j \in 1..Len(lock'), lock'[i] = lock'[j] PROVE i = j
  <2>1. /\ i \in 1..(Len(lock) - 1) \/ i = Len(lock)
        /\ j \in 1..(Len(lock) - 1) \/ j = Len(lock)
    BY <1>1, <1>3, LastOrBefore
  <2>2. CASE i \in 1..(Len(lock) - 1) /\ j \in 1..(Len(lock) - 1)
    <3>1. i + 1 = j + 1
      BY <1>3, <1>4, <1>11, <2>2 DEF LockFits
    <3> QED  BY <1>1, <2>2, <3>1
  <2> QED  BY <1>3, <1>5, <1>11, <2>1, <2>2
<1> QED  BY <1>1, <1>3, <1>5, <1>8, <1>9, <1>10, <1>11 DEF LockFits

\* A move that neither enters nor leaves the queue.
LEMMA Stays ==
    ASSUME Types, LockFits, NEW f \in Flows, NEW a, NEW x, NEW m, NEW b,
           Goes(f, a, x, m, b), UNCHANGED lock,
           f \in Requests => /\ a \in InLock <=> flow[f].at \in InLock
                             /\ a \in Holding => lock[1] = f
    PROVE  LockFits'
<1>1. lock \in Seq(Requests) /\ \A i \in 1..Len(lock) : lock[i] \in Requests
  BY DEF Types
<1>2. \A q \in Requests : flow'[q].at \in InLock <=> flow[q].at \in InLock
  BY Names DEF Goes
<1>3. \A q \in Requests : flow'[q].at \in Holding => lock # <<>> /\ lock[1] = q
  <2> SUFFICES ASSUME NEW q \in Requests, flow'[q].at \in Holding
               PROVE  lock # <<>> /\ lock[1] = q
    OBVIOUS
  <2>1. CASE q = f
    <3>1. a \in Holding /\ flow[q].at \in InLock
      BY <1>2, <2>1 DEF Goes, InLock
    <3> QED  BY <1>1, <2>1, <3>1 DEF LockFits
  <2>2. CASE q # f
    BY <2>2, Names DEF Goes, LockFits
  <2> QED  BY <2>1, <2>2
<1> QED  BY <1>1, <1>2, <1>3 DEF LockFits

-----------------------------------------------------------------------------
(* Requests before they work under the lock.                                *)

\* The stages of the sets.
LEMMA Sets ==
    /\ Holding \subseteq InLock /\ "locking" \in InLock /\ "locking" \notin Holding
    /\ Tearing \subseteq Holding
    /\ \A a \in {"idle", "done", "saving", "revealing", "hiding"} :
          a \notin InLock /\ a \notin Holding
    /\ \A a \in InLock : a \notin {"idle", "done", "saving", "revealing", "hiding", "watching"}
    /\ \A a \in Tearing : a \notin Opening \cup Launching \cup {"refresh", "grace", "watching"}
BY DEF InLock, Holding, Tearing, Opening, Launching

\* A request that does not work under the lock holds nothing and disturbs nobody.
LEMMA OutsideKeeps ==
    ASSUME IInv, NEW r \in Requests, flow[r].at \notin Holding,
           NEW a, NEW x, a \notin Holding, Goes(r, a, x, None, None),
           UNCHANGED <<state, slots, gen, bridge, proc, manager, cut>>
    PROVE  SlotsFit' /\ ManagersFit' /\ ProcessesFit' /\ BridgesFit' /\ StateFits'
<1>1. /\ startTask' = startTask /\ watchTask' = watchTask /\ mgr' = mgr /\ brg' = brg
      /\ held' = held /\ mstate' = mstate /\ mon' = mon
      /\ state' = state /\ gen' = gen /\ bridge' = bridge /\ proc' = proc /\ cut' = cut
  BY DEF slots, manager
<1>2. \A f \in Flows : f # r => flow'[f] = flow[f]
  BY DEF Goes
<1>3. \A g \in Starts : flow'[Start(g)] = flow[Start(g)] /\ flow'[Watcher(g)] = flow[Watcher(g)]
  BY <1>2, Names
<1>4. /\ flow'[r].at \notin Holding /\ flow'[r].m = None /\ flow'[r].b = None
      /\ flow[r].m = None /\ flow[r].b = None /\ r \in Flows
  BY Names DEF Goes, IInv, StagesFit, Holding, Tearing
<1>5. SlotsFit'
  BY <1>1, <1>2, <1>3, <1>4, Names DEF IInv, SlotsFit, Alive
<1>6. ManagersFit'
  BY <1>1, <1>2, <1>3, <1>4, Names DEF IInv, ManagersFit, Holding, Tearing
<1>7. ProcessesFit'
  BY <1>1, <1>2, <1>3, <1>4, Names DEF IInv, ProcessesFit
<1>8. BridgesFit'
  BY <1>1, <1>2, <1>4 DEF IInv, BridgesFit
<1>9. StateFits'
  <2>1. \A q \in Requests : Shuts(q)' <=> Shuts(q)
    BY <1>2, <1>4, Names DEF Shuts
  <2>2. Shutting' <=> Shutting
    BY <2>1 DEF Shutting
  <2> QED  BY <1>1, <1>2, <1>3, <1>4, <2>1, <2>2, Names, Sets DEF IInv, StateFits, Holding
<1> QED  BY <1>5, <1>6, <1>7, <1>8, <1>9

\* Stages change for one request only.
LEMMA StagesOf ==
    ASSUME IInv, NEW r \in Requests, NEW a, NEW x, NEW m, NEW b, Goes(r, a, x, m, b), gen' = gen,
           /\ a \in {"idle", "saving", "revealing", "hiding"} \cup InLock
           /\ a = "saving" => r = Toggle /\ x \in {"on", "off"}
           /\ a = "revealing" => r = Toggle /\ x = "on"
           /\ a = "hiding" => r = Toggle /\ x = "off"
           /\ a \in InLock =>
                /\ x \in {"begin", "shutdown", "restart"}
                /\ r = Peer => x = "begin"
                /\ r = Other => x = "shutdown"
           /\ a \in {"grace", "refresh"} => x # "begin",
           m # None => a \in {"monitor", "process"},
           b # None => a = "bridge"
    PROVE  StagesFit'
<1>1. \A f \in Flows : f # r => flow'[f] = flow[f]
  BY DEF Goes
<1>2. \A g \in Starts : flow'[Start(g)] = flow[Start(g)] /\ flow'[Watcher(g)] = flow[Watcher(g)]
  BY <1>1, Names
<1>3. flow'[r].at = a /\ flow'[r].goal = x /\ flow'[r].m = m /\ flow'[r].b = b
  BY DEF Goes
<1>4. \A q \in Requests : q # r => flow'[q] = flow[q]
  BY <1>1, Names
<1> QED  BY <1>1, <1>2, <1>3, <1>4 DEF IInv, StagesFit

\* Somebody asks: before, the request was not at work.
LEMMA Rests ==
    ASSUME IInv, NEW r \in Requests, ~Alive(r)
    PROVE  flow[r].at = "idle" /\ flow[r].at \notin InLock /\ flow[r].at \notin Holding
BY Sets DEF IInv, StagesFit, Alive

LEMMA ToggleAskedKeeps == ASSUME IInv, ToggleAsked PROVE IInv'
<1>1. PICK goal \in {"on", "off"} : Ask(Toggle, "saving", goal)
  BY DEF ToggleAsked
<1>2. /\ UNCHANGED <<state, want, hidden, target, startTask, watchTask, mgr, brg, lock>>
      /\ UNCHANGED <<gen, bridge, proc, held, mstate, mon, cut, missed>>
      /\ UNCHANGED <<slots, manager>>
  BY DEF ToggleAsked, slots, manager
<1>3. ~Alive(Toggle) /\ Goes(Toggle, "saving", goal, None, None) /\ asked' \in 0..MaxAsked
  BY <1>1, Asks, Names DEF IInv, Stages, Goals
<1>4. flow[Toggle].at = "idle" /\ flow[Toggle].at \notin InLock /\ flow[Toggle].at \notin Holding
      /\ "saving" \notin InLock /\ "saving" \notin Holding
  BY <1>3, Rests, Names, Sets
<1>5. Types'
  BY <1>2, <1>3 DEF IInv, Types, Goes
<1>6. StagesFit'
  BY <1>2, <1>3, <1>4, StagesOf, Names
<1>7. LockFits'
  BY <1>2, <1>3, <1>4, Stays, Names DEF IInv
<1>8. SlotsFit' /\ ManagersFit' /\ ProcessesFit' /\ BridgesFit' /\ StateFits'
  BY <1>2, <1>3, <1>4, OutsideKeeps, Names
<1>9. OffFits'
  <2>1. flow'[Toggle].at = "saving" /\ flow'[Toggle].goal = goal /\ flow'[Peer] = flow[Peer]
    BY <1>3, Names DEF Goes
  <2>2. OffComing => OffComing'
    <3>1. \A i \in 1..Len(lock) : lock[i] # Toggle /\ lock[i] \in Flows
      BY <1>4, Names DEF IInv, LockFits, Types
    <3> QED  BY <1>2, <1>3, <3>1 DEF OffComing, Goes
  <2> QED  BY <1>2, <1>4, <2>1, <2>2 DEF IInv, OffFits
<1> QED  BY <1>5, <1>6, <1>7, <1>8, <1>9 DEF IInv

LEMMA PeerAskedKeeps == ASSUME IInv, PeerAsked PROVE IInv'
<1>1. /\ Ask(Peer, "locking", "begin") /\ want /\ lock' = Append(lock, Peer)
      /\ UNCHANGED <<state, want, hidden, target, startTask, watchTask, mgr, brg>>
      /\ UNCHANGED <<gen, bridge, proc, held, mstate, mon, cut, missed>>
      /\ UNCHANGED <<slots, manager>>
  BY DEF PeerAsked, Peer, slots, manager
<1>2. ~Alive(Peer) /\ Goes(Peer, "locking", "begin", None, None) /\ asked' \in 0..MaxAsked
  BY <1>1, Asks, Names DEF IInv, Stages, Goals
<1>3. flow[Peer].at = "idle" /\ flow[Peer].at \notin InLock /\ flow[Peer].at \notin Holding
      /\ "locking" \in InLock /\ "locking" \notin Holding
  BY <1>2, Rests, Names, Sets
<1>4. Types'
  BY <1>1, <1>2, Names DEF IInv, Types, Goes
<1>5. StagesFit'
  BY <1>1, <1>2, <1>3, StagesOf, Names
<1>6. LockFits'
  BY <1>1, <1>2, <1>3, Joins, Names DEF IInv
<1>7. SlotsFit' /\ ManagersFit' /\ ProcessesFit' /\ BridgesFit' /\ StateFits'
  BY <1>1, <1>2, <1>3, OutsideKeeps, Names
<1>8. OffFits'
  BY <1>1 DEF OffFits
<1> QED  BY <1>4, <1>5, <1>6, <1>7, <1>8 DEF IInv

\* A shutdown that joins the queue is behind every start.
LEMMA ShutdownJoins ==
    ASSUME Types, LockFits, NEW r \in Requests, r # Peer, flow[r].at \notin InLock,
           NEW m, NEW b, Goes(r, "locking", "shutdown", m, b), lock' = Append(lock, r)
    PROVE  OffComing'
<1>1. Len(lock) \in Nat /\ Len(lock') = Len(lock) + 1 /\ lock'[Len(lock) + 1] = r
  BY Joins DEF Types
<1>2. flow'[r].goal = "shutdown"
  BY DEF Goes
<1>3. Len(lock) + 1 \in 1..Len(lock') /\ \A j \in 1..Len(lock') : ~(j > Len(lock) + 1)
  BY <1>1
<1> QED  BY <1>1, <1>2, <1>3 DEF OffComing

LEMMA OtherAskedKeeps == ASSUME IInv, OtherAsked PROVE IInv'
<1>1. /\ Ask(Other, "locking", "shutdown") /\ lock' = Append(lock, Other) /\ hidden' = FALSE
      /\ UNCHANGED <<state, want, target, startTask, watchTask, mgr, brg>>
      /\ UNCHANGED <<gen, bridge, proc, held, mstate, mon, cut, missed>>
      /\ UNCHANGED <<slots, manager>>
  BY DEF OtherAsked, Other, slots, manager
<1>2. ~Alive(Other) /\ Goes(Other, "locking", "shutdown", None, None) /\ asked' \in 0..MaxAsked
  BY <1>1, Asks, Names DEF IInv, Stages, Goals
<1>3. flow[Other].at = "idle" /\ flow[Other].at \notin InLock /\ flow[Other].at \notin Holding
      /\ "locking" \in InLock /\ "locking" \notin Holding
  BY <1>2, Rests, Names, Sets
<1>4. Types'
  <2>1. hidden' \in BOOLEAN
    BY <1>1
  <2> QED  BY <1>1, <1>2, <2>1, Names DEF IInv, Types, Goes
<1>5. StagesFit'
  BY <1>1, <1>2, <1>3, StagesOf, Names
<1>6. LockFits'
  BY <1>1, <1>2, <1>3, Joins, Names DEF IInv
<1>7. SlotsFit' /\ ManagersFit' /\ ProcessesFit' /\ BridgesFit' /\ StateFits'
  BY <1>1, <1>2, <1>3, OutsideKeeps, Names
<1>8. OffFits'
  <2>1. OffComing'
    BY <1>1, <1>2, <1>3, ShutdownJoins, Names DEF IInv
  <2>2. flow'[Toggle] = flow[Toggle]
    BY <1>2, Names DEF Goes
  <2> QED  BY <1>1, <2>1, <2>2 DEF IInv, OffFits
<1> QED  BY <1>4, <1>5, <1>6, <1>7, <1>8 DEF IInv

\* The toggle takes a decision: it is done, tells the renderer something, or joins the queue.
LEMMA ToggleDecides ==
    ASSUME IInv, flow[Toggle].at \in {"saving", "revealing", "hiding"}, NEW a, NEW x,
           Goes(Toggle, a, x, None, None),
           \/ a = "idle" /\ UNCHANGED lock
           \/ a = "revealing" /\ x = "on" /\ UNCHANGED lock
           \/ a = "hiding" /\ x = "off" /\ UNCHANGED lock
           \/ a = "locking" /\ x \in {"begin", "shutdown", "restart"} /\ lock' = Append(lock, Toggle),
           want' \in BOOLEAN, hidden' \in BOOLEAN, missed' \in BOOLEAN,
           UNCHANGED <<state, target, slots, gen, bridge, proc, manager, asked, cut>>
    PROVE  /\ Types' /\ StagesFit' /\ LockFits' /\ SlotsFit' /\ ManagersFit' /\ ProcessesFit'
           /\ BridgesFit' /\ StateFits'
<1>1. /\ flow[Toggle].at \notin InLock /\ flow[Toggle].at \notin Holding
      /\ a \notin Holding /\ (a # "locking" => a \notin InLock)
      /\ a \in {"idle", "saving", "revealing", "hiding"} \cup InLock
  BY Sets
<1>2. /\ UNCHANGED <<state, target, startTask, watchTask, mgr, brg, gen, bridge, proc, asked, cut>>
      /\ UNCHANGED <<held, mstate, mon>>
      /\ UNCHANGED <<slots, manager>>
  BY DEF slots, manager
<1>3. lock' \in Seq(Requests)
  <2>1. lock \in Seq(Requests) /\ Toggle \in Requests
    BY Names DEF IInv, Types
  <2>2. lock' = lock \/ lock' = Append(lock, Toggle)
    OBVIOUS
  <2> QED  BY <2>1, <2>2
<1>4. Types'
  BY <1>2, <1>3 DEF IInv, Types, Goes
<1>5. StagesFit'
  BY <1>1, <1>2, StagesOf, Names
<1>6. LockFits'
  <2>1. CASE a = "locking"
    BY <1>1, <2>1, Joins, Names DEF IInv
  <2>2. CASE a # "locking"
    BY <1>1, <2>2, Stays, Names DEF IInv
  <2> QED  BY <2>1, <2>2
<1>7. SlotsFit' /\ ManagersFit' /\ ProcessesFit' /\ BridgesFit' /\ StateFits'
  BY <1>1, <1>2, OutsideKeeps, Names
<1> QED  BY <1>4, <1>5, <1>6, <1>7

LEMMA ToggleHolds ==
    ASSUME IInv, flow[Toggle].at \in {"saving", "revealing", "hiding"}
    PROVE  /\ flow \in [Flows -> FlowStates] /\ Toggle \in Flows
           /\ flow[Toggle].m = None /\ flow[Toggle].b = None
BY Names DEF IInv, Types, StagesFit

LEMMA ToggleOnKeeps == ASSUME IInv, ToggleOn PROVE IInv'
<1>1. /\ flow[Toggle].at = "saving" /\ flow[Toggle].goal = "on" /\ want' = TRUE /\ missed' = FALSE
      /\ UNCHANGED <<state, target, slots, gen, bridge, proc, manager, asked, cut>>
  BY DEF ToggleOn
<1>2. flow \in [Flows -> FlowStates] /\ Toggle \in Flows
      /\ flow[Toggle].m = None /\ flow[Toggle].b = None
  BY <1>1, ToggleHolds
<1>3. hidden' \in BOOLEAN /\ want' \in BOOLEAN /\ missed' \in BOOLEAN
  BY <1>1 DEF ToggleOn, IInv, Types
<1>4. PICK a, x : /\ Goes(Toggle, a, x, None, None)
                  /\ \/ a = "idle" /\ UNCHANGED lock
                     \/ a = "revealing" /\ x = "on" /\ UNCHANGED lock
                     \/ a = "locking" /\ x \in {"begin", "restart"} /\ lock' = Append(lock, Toggle)
  <2>1. CASE Dismiss(Toggle) /\ UNCHANGED lock
    BY <1>2, <2>1, GoesIdle
  <2>2. CASE GoTo(Toggle, "revealing") /\ UNCHANGED lock
    <3>1. Goes(Toggle, "revealing", "on", None, None)
      BY <1>1, <1>2, <2>2, GoesTo DEF Stages
    <3> QED  BY <2>2, <3>1
  <2>3. ASSUME NEW x \in {"begin", "restart"}, Enqueue(Toggle, x)
        PROVE  Goes(Toggle, "locking", x, None, None) /\ lock' = Append(lock, Toggle)
    BY <1>2, <2>3, GoesFor DEF Enqueue, Stages, Goals
  <2>4. CASE Enqueue(Toggle, "restart")
    BY <2>3, <2>4
  <2>5. CASE Enqueue(Toggle, "begin")
    BY <2>3, <2>5
  <2> QED  BY <2>1, <2>2, <2>4, <2>5 DEF ToggleOn
<1>5. /\ Types' /\ StagesFit' /\ LockFits' /\ SlotsFit' /\ ManagersFit' /\ ProcessesFit'
      /\ BridgesFit' /\ StateFits'
  BY <1>1, <1>3, <1>4, ToggleDecides
<1>6. OffFits'
  BY <1>1 DEF OffFits
<1> QED  BY <1>5, <1>6 DEF IInv

LEMMA ToggleOffKeeps == ASSUME IInv, ToggleOff PROVE IInv'
<1>1. /\ flow[Toggle].at = "saving" /\ flow[Toggle].goal = "off" /\ want' = FALSE
      /\ missed' = (state = "off" /\ ~hidden /\ StartQueued)
      /\ UNCHANGED <<state, target, slots, gen, bridge, proc, manager, asked, cut>>
  BY DEF ToggleOff
<1>2. flow \in [Flows -> FlowStates] /\ Toggle \in Flows
      /\ flow[Toggle].m = None /\ flow[Toggle].b = None
  BY <1>1, ToggleHolds
<1>3. hidden' \in BOOLEAN /\ want' \in BOOLEAN /\ missed' \in BOOLEAN
  BY <1>1 DEF ToggleOff, IInv, Types
<1>4. \/ /\ Goes(Toggle, "idle", "none", None, None) /\ UNCHANGED lock
         /\ state = "off" /\ ~hidden /\ hidden' = hidden
      \/ /\ Goes(Toggle, "hiding", "off", None, None) /\ UNCHANGED lock
      \/ /\ Goes(Toggle, "locking", "shutdown", None, None) /\ lock' = Append(lock, Toggle)
  <2>1. CASE Dismiss(Toggle) /\ UNCHANGED <<hidden, lock>> /\ state = "off" /\ ~hidden
    BY <1>2, <2>1, GoesIdle
  <2>2. CASE GoTo(Toggle, "hiding") /\ UNCHANGED lock
    <3>1. Goes(Toggle, "hiding", "off", None, None)
      BY <1>1, <1>2, <2>2, GoesTo DEF Stages
    <3> QED  BY <2>2, <3>1
  <2>3. CASE Enqueue(Toggle, "shutdown")
    BY <1>2, <2>3, GoesFor DEF Enqueue, Stages, Goals
  <2> QED  BY <2>1, <2>2, <2>3 DEF ToggleOff
<1>5. /\ Types' /\ StagesFit' /\ LockFits' /\ SlotsFit' /\ ManagersFit' /\ ProcessesFit'
      /\ BridgesFit' /\ StateFits'
  BY <1>1, <1>3, <1>4, ToggleDecides
<1>6. OffFits'
  <2>1. CASE /\ Goes(Toggle, "idle", "none", None, None)
             /\ state = "off" /\ ~hidden /\ hidden' = hidden
    <3>1. flow'[Toggle].at = "idle" /\ flow'[Toggle].goal = "none" /\ flow'[Peer] = flow[Peer]
      BY <2>1, Names DEF Goes
    <3>2. ~missed' => flow[Peer].at = "idle"
      <4>1. flow[Peer].at # "idle" => flow[Peer].at \in InLock
        BY Names DEF IInv, StagesFit
      <4>2. flow[Peer].at # "idle" => Alive(Peer) /\ flow[Peer].goal = "begin"
        BY <4>1, Names, Sets DEF IInv, StagesFit, Alive
      <4> QED  BY <1>1, <2>1, <4>2, Names DEF StartQueued
    <3>3. state' = "off"
      BY <1>1, <2>1
    <3> QED  BY <3>1, <3>2, <3>3 DEF OffFits
  <2>2. CASE Goes(Toggle, "hiding", "off", None, None)
    BY <2>2 DEF OffFits, Goes
  <2>3. CASE Goes(Toggle, "locking", "shutdown", None, None) /\ lock' = Append(lock, Toggle)
    <3>1. OffComing'
      BY <1>1, <2>3, ShutdownJoins, Names, Sets DEF IInv
    <3> QED  BY <2>3, <3>1 DEF OffFits, Goes
  <2> QED  BY <1>4, <2>1, <2>2, <2>3
<1> QED  BY <1>5, <1>6 DEF IInv

LEMMA HidKeeps == ASSUME IInv, Hid PROVE IInv'
<1>1. /\ flow[Toggle].at = "hiding" /\ hidden' = TRUE /\ UNCHANGED <<want, missed, lock>>
      /\ UNCHANGED <<state, target, slots, gen, bridge, proc, manager, asked, cut>>
  BY DEF Hid
<1>2. Goes(Toggle, "idle", "none", None, None)
  BY <1>1, ToggleHolds, GoesIdle DEF Hid
<1>3. hidden' \in BOOLEAN /\ want' \in BOOLEAN /\ missed' \in BOOLEAN
  BY <1>1 DEF IInv, Types
<1>4. /\ Types' /\ StagesFit' /\ LockFits' /\ SlotsFit' /\ ManagersFit' /\ ProcessesFit'
      /\ BridgesFit' /\ StateFits'
  BY <1>1, <1>2, <1>3, ToggleDecides
<1>5. OffFits'
  BY <1>1, <1>2 DEF OffFits, Goes
<1> QED  BY <1>4, <1>5 DEF IInv

LEMMA RevealedKeeps == ASSUME IInv, Revealed PROVE IInv'
<1>1. /\ flow[Toggle].at = "revealing" /\ hidden' = FALSE /\ UNCHANGED <<want, missed>>
      /\ UNCHANGED <<state, target, slots, gen, bridge, proc, manager, asked, cut>>
  BY DEF Revealed
<1>2. flow \in [Flows -> FlowStates] /\ Toggle \in Flows
      /\ flow[Toggle].m = None /\ flow[Toggle].b = None
  BY <1>1, ToggleHolds
<1>3. hidden' \in BOOLEAN /\ want' \in BOOLEAN /\ missed' \in BOOLEAN
  BY <1>1 DEF IInv, Types
<1>4. PICK a, x : /\ Goes(Toggle, a, x, None, None)
                  /\ \/ a = "idle" /\ UNCHANGED lock
                     \/ a = "locking" /\ x \in {"begin", "restart"} /\ lock' = Append(lock, Toggle)
  <2>1. CASE Dismiss(Toggle) /\ UNCHANGED lock
    BY <1>2, <2>1, GoesIdle
  <2>2. ASSUME NEW x \in {"begin", "restart"}, Enqueue(Toggle, x)
        PROVE  Goes(Toggle, "locking", x, None, None) /\ lock' = Append(lock, Toggle)
    BY <1>2, <2>2, GoesFor DEF Enqueue, Stages, Goals
  <2>3. CASE Enqueue(Toggle, IF hidden THEN "restart" ELSE "begin")
    BY <2>2, <2>3
  <2> QED  BY <2>1, <2>3 DEF Revealed
<1>5. /\ Types' /\ StagesFit' /\ LockFits' /\ SlotsFit' /\ ManagersFit' /\ ProcessesFit'
      /\ BridgesFit' /\ StateFits'
  BY <1>1, <1>3, <1>4, ToggleDecides
<1>6. OffFits'
  BY <1>1 DEF IInv, OffFits
<1> QED  BY <1>5, <1>6 DEF IInv

-----------------------------------------------------------------------------
(* Requests under the lock.                                                 *)

LEMMA OnlyHead ==
    ASSUME LockFits, NEW r, lock[1] = r
    PROVE  \A q \in Requests : flow[q].at \in Holding => q = r
BY DEF LockFits

LEMMA NoTask ==
    ASSUME IInv
    PROVE  /\ startTask = None => \A g \in Starts : flow[Start(g)].at \in {"idle", "done"}
           /\ watchTask = None => \A g \in Starts : flow[Watcher(g)].at \in {"idle", "done"}
BY Names DEF IInv, SlotsFit, Alive

\* The head that leaves takes with it no shutdown but its own.
LEMMA HeadLeaves ==
    ASSUME IInv, NEW r \in Requests, flow[r].at \in InLock, lock[1] = r,
           NEW a, NEW x, NEW m, NEW b, a \notin InLock,
           Goes(r, a, x, m, b), lock' = Tail(lock), OffComing
    PROVE  \/ OffComing'
           \/ flow[r].goal = "shutdown" /\ flow[Peer].at = "idle"
<1>1. /\ Len(lock) \in Nat \ {0} /\ Len(lock') = Len(lock) - 1
      /\ \A i \in 1..Len(lock') : lock'[i] = lock[i + 1] /\ lock'[i] # r
  BY Leaves DEF IInv
<1>2. PICK k \in 1..Len(lock) : /\ flow[lock[k]].goal = "shutdown"
                                /\ \A j \in 1..Len(lock) : j > k => lock[j] # Peer
  BY DEF OffComing
<1>3. CASE k = 1
  <2>1. flow[r].goal = "shutdown" /\ r # Peer
    BY <1>2, <1>3, Names DEF IInv, StagesFit
  <2>2. \A j \in 1..Len(lock) : lock[j] # Peer
    <3> SUFFICES ASSUME NEW j \in 1..Len(lock), lock[j] = Peer PROVE FALSE
      OBVIOUS
    <3>1. j = 1 \/ j > 1
      BY <1>1
    <3> QED  BY <1>2, <1>3, <2>1, <3>1
  <2>3. flow[Peer].at \notin InLock
    BY <2>2, Names DEF IInv, LockFits
  <2>4. flow[Peer].at = "idle"
    BY <2>3, Names DEF IInv, StagesFit
  <2> QED  BY <2>1, <2>4
<1>4. CASE k # 1
  <2>1. k - 1 \in 1..Len(lock') /\ (k - 1) + 1 = k
    BY <1>1, <1>2, <1>4
  <2>2. lock'[k - 1] = lock[k] /\ lock[k] # r /\ lock[k] \in Flows
    <3>1. lock'[k - 1] = lock[(k - 1) + 1] /\ lock'[k - 1] # r
      BY <1>1, <2>1
    <3>2. lock[k] \in Requests
      BY <1>2 DEF IInv, Types
    <3> QED  BY <2>1, <3>1, <3>2, Names
  <2>3. flow'[lock'[k - 1]].goal = "shutdown"
    BY <1>2, <2>2 DEF Goes
  <2>4. ASSUME NEW j \in 1..Len(lock'), j > k - 1 PROVE lock'[j] # Peer
    <3>1. j + 1 \in 1..Len(lock) /\ j + 1 > k
      BY <1>1, <1>2, <2>4
    <3> QED  BY <1>1, <1>2, <3>1
  <2> QED  BY <2>1, <2>3, <2>4 DEF OffComing
<1> QED  BY <1>3, <1>4

\* A move that keeps the goal keeps what is to come.
LEMMA ComingKept ==
    ASSUME Types, NEW f \in Flows, NEW a, NEW m, NEW b,
           Goes(f, a, flow[f].goal, m, b), UNCHANGED lock
    PROVE  /\ OffComing' <=> OffComing
           /\ \A e \in Flows : flow'[e].goal = flow[e].goal
<1>1. \A e \in Flows : flow'[e].goal = flow[e].goal
  BY DEF Goes
<1>2. \A i \in 1..Len(lock) : lock[i] \in Flows
  BY Names DEF Types
<1> QED  BY <1>1, <1>2 DEF OffComing

LEMMA ShutsKept ==
    ASSUME NEW f \in Flows, NEW a, NEW m, NEW b, Goes(f, a, flow[f].goal, m, b),
           f \in Requests => (a \in Holding <=> flow[f].at \in Holding)
    PROVE  (\A q \in Requests : Shuts(q)' <=> Shuts(q)) /\ (Shutting' <=> Shutting)
<1>1. \A q \in Requests : Shuts(q)' <=> Shuts(q)
  BY Names DEF Goes, Shuts
<1> QED  BY <1>1 DEF Shutting

LEMMA BeginLockedKeeps == ASSUME IInv, NEW r \in Requests, BeginLocked(r) PROVE IInv'
<1>1. /\ flow[r].at = "locking" /\ flow[r].goal = "begin" /\ lock[1] = r
      /\ UNCHANGED <<state, want, hidden, target, startTask, watchTask, mgr, brg>>
      /\ UNCHANGED <<gen, bridge, proc, held, mstate, mon, asked, cut, missed>>
      /\ UNCHANGED <<slots, manager>>
  BY DEF BeginLocked, HasLock, slots, manager
<1>2. /\ flow \in [Flows -> FlowStates] /\ r \in Flows
      /\ flow[r].m = None /\ flow[r].b = None
      /\ flow[r].at \in InLock /\ flow[r].at \notin Holding
  BY <1>1, Names, Sets DEF IInv, Types, StagesFit
<1>3. CASE Dismiss(r) /\ lock' = Tail(lock)
  <2>1. Goes(r, "idle", "none", None, None) /\ "idle" \notin InLock /\ "idle" \notin Holding
    BY <1>2, <1>3, GoesIdle, Sets
  <2>2. lock' \in Seq(Requests)
    BY <1>2, <1>3 DEF IInv, Types, LockFits
  <2>3. Types'
    BY <1>1, <2>1, <2>2 DEF IInv, Types, Goes
  <2>4. StagesFit'
    BY <1>1, <2>1, StagesOf
  <2>5. LockFits'
    BY <1>1, <1>2, <1>3, <2>1, Leaves DEF IInv
  <2>6. SlotsFit' /\ ManagersFit' /\ ProcessesFit' /\ BridgesFit' /\ StateFits'
    BY <1>1, <1>2, <2>1, OutsideKeeps
  <2>7. OffFits'
    <3>1. OffComing => OffComing'
      BY <1>1, <1>2, <1>3, <2>1, HeadLeaves
    <3>2. \A e \in Requests : e # r => flow'[e] = flow[e]
      BY <2>1, Names DEF Goes
    <3>3. flow'[r].at = "idle" /\ flow'[r].goal = "none"
      BY <2>1 DEF Goes
    <3> QED  BY <1>1, <3>1, <3>2, <3>3, Names DEF IInv, OffFits
  <2> QED  BY <2>3, <2>4, <2>5, <2>6, <2>7 DEF IInv
<1>4. CASE GoTo(r, "tear") /\ UNCHANGED lock /\ state \notin {"starting", "connected"}
  <2>1. Goes(r, "tear", flow[r].goal, None, None)
    BY <1>2, <1>4, GoesTo DEF Stages
  <2>2. "tear" \in InLock /\ "tear" \in Holding
    BY DEF InLock, Holding, Tearing
  <2>3. Types'
    BY <1>1, <1>4, <2>1 DEF IInv, Types, Goes
  <2>4. StagesFit'
    <3>1. r = Peer => flow[r].goal = "begin"
      BY <1>1
    <3>2. r # Other
      BY <1>1, <1>2, Names DEF IInv, StagesFit
    <3> QED  BY <1>1, <2>1, <2>2, <3>1, <3>2, StagesOf
  <2>5. LockFits'
    BY <1>1, <1>2, <1>4, <2>1, <2>2, Stays DEF IInv
  <2>6. /\ \A e \in Flows : e # r => flow'[e] = flow[e]
        /\ \A e \in Requests : e # r => flow'[e] = flow[e]
        /\ flow'[r].at = "tear" /\ flow'[r].m = None /\ flow'[r].b = None /\ flow'[r].goal = "begin"
    BY <1>1, <2>1, Names DEF Goes
  <2>7. \A g \in Starts : flow'[Start(g)] = flow[Start(g)] /\ flow'[Watcher(g)] = flow[Watcher(g)]
    BY <2>6, Names
  <2>8. SlotsFit'
    BY <1>1, <2>6, <2>7 DEF IInv, SlotsFit, Alive
  <2>9. ManagersFit'
    BY <1>1, <2>6, <2>7 DEF IInv, ManagersFit
  <2>10. ProcessesFit' /\ BridgesFit'
    BY <1>1, <1>2, <2>6, <2>7 DEF IInv, ProcessesFit, BridgesFit
  <2>11. StateFits'
    <3>1. \A q \in Requests : Shuts(q)' <=> Shuts(q)
      BY <1>1, <2>6 DEF Shuts
    <3>2. Shutting' <=> Shutting
      BY <3>1 DEF Shutting
    <3> QED  BY <1>1, <1>4, <2>6, <2>7, <3>1, <3>2 DEF IInv, StateFits
  <2>12. OffFits'
    <3>1. OffComing' <=> OffComing
      BY <1>2, <1>4, <2>1, ComingKept DEF IInv
    <3> QED  BY <1>1, <2>6, <3>1, Names DEF IInv, OffFits
  <2> QED  BY <2>3, <2>4, <2>5, <2>8, <2>9, <2>10, <2>11, <2>12 DEF IInv
<1> QED  BY <1>3, <1>4 DEF BeginLocked

\* A shutdown that is over, or had nothing to do.
LEMMA ShutdownOverKeeps ==
    ASSUME IInv, NEW r \in Requests, flow[r].at \in {"locking", "refresh"},
           flow[r].goal \in {"shutdown", "restart"}, lock[1] = r, state = "off", ShutdownOver(r),
           UNCHANGED <<state, want, hidden, target, slots, gen, bridge, proc, manager, asked,
                       cut, missed>>
    PROVE  IInv'
<1>1. /\ UNCHANGED <<state, want, hidden, target, startTask, watchTask, mgr, brg>>
      /\ UNCHANGED <<gen, bridge, proc, held, mstate, mon, asked, cut, missed>>
      /\ UNCHANGED <<slots, manager>>
  BY DEF slots, manager
<1>2. /\ flow \in [Flows -> FlowStates] /\ r \in Flows
      /\ flow[r].m = None /\ flow[r].b = None
      /\ flow[r].at \in InLock /\ "refresh" \in InLock /\ "locking" \in InLock
  BY Names, Sets DEF IInv, Types, StagesFit, InLock, Holding
<1>3. /\ r # Peer
      /\ flow[r].goal = "restart" => r = Toggle /\ want
  BY <1>2, Names DEF IInv, StagesFit, OffFits
<1>4. PICK a, x : /\ Goes(r, a, x, None, None)
                  /\ \/ /\ a = "idle" /\ x = "none" /\ lock' = Tail(lock)
                        /\ flow[r].goal = "shutdown"
                     \/ /\ a = "locking" /\ x = "begin" /\ lock' = Append(Tail(lock), r)
                        /\ flow[r].goal = "restart"
  <2>1. CASE flow[r].goal = "restart"
    <3>1. flow' = [flow EXCEPT ![r].at = "locking", ![r].goal = "begin"]
      BY <2>1 DEF ShutdownOver
    <3>2. "locking" \in Stages /\ "begin" \in Goals
      BY DEF Stages, Goals
    <3>3. Goes(r, "locking", "begin", flow[r].m, flow[r].b)
      BY <1>2, <3>1, <3>2, GoesFor
    <3>4. Goes(r, "locking", "begin", None, None)
      BY <1>2, <3>3
    <3> QED  BY <2>1, <3>4 DEF ShutdownOver
  <2>2. CASE flow[r].goal = "shutdown"
    <3>1. Goes(r, "idle", "none", None, None)
      BY <1>2, <2>2, GoesIdle DEF ShutdownOver
    <3> QED  BY <2>2, <3>1 DEF ShutdownOver
  <2> QED  BY <2>1, <2>2
<1>5. /\ a \in {"idle", "saving", "revealing", "hiding"} \cup InLock /\ a \notin Holding
      /\ a = "idle" => a \notin InLock
  BY <1>4, Sets
<1>6. lock \in Seq(Requests) /\ lock # <<>>
  BY <1>2 DEF IInv, Types, LockFits
<1>7. lock' \in Seq(Requests)
  BY <1>4, <1>6
<1>8. Types'
  BY <1>1, <1>4, <1>7 DEF IInv, Types, Goes
<1>9. StagesFit'
  <2>1. a \notin {"saving", "revealing", "hiding", "grace", "refresh"}
    BY <1>4
  <2>2. a \in InLock => x \in {"begin", "shutdown", "restart"} /\ r # Peer /\ r = Toggle
    BY <1>3, <1>4, <1>5
  <2> QED  BY <1>1, <1>4, <1>5, <2>1, <2>2, Names, StagesOf
<1>10. LockFits'
  <2>1. CASE a = "idle"
    BY <1>2, <1>4, <1>5, <2>1, Leaves DEF IInv
  <2>2. CASE a = "locking"
    BY <1>2, <1>4, <2>2, JoinsAgain DEF IInv
  <2> QED  BY <1>4, <2>1, <2>2
<1>11. /\ \A f \in Flows : f # r => flow'[f] = flow[f]
       /\ \A q \in Requests : q # r => flow'[q] = flow[q]
       /\ flow'[r].at = a /\ flow'[r].goal = x /\ flow'[r].m = None /\ flow'[r].b = None
       /\ \A g \in Starts : flow'[Start(g)] = flow[Start(g)] /\ flow'[Watcher(g)] = flow[Watcher(g)]
  BY <1>4, Names DEF Goes
<1>12. SlotsFit'
  BY <1>1, <1>5, <1>11 DEF IInv, SlotsFit, Alive
<1>13. ManagersFit'
  <2>1. a \notin {"watcher", "presenter", "monitor", "process", "bridge", "after", "refresh"}
    BY <1>4
  <2>2. flow[r].at \notin {"watcher", "presenter", "monitor", "process"}
    OBVIOUS
  <2> QED  BY <1>1, <1>11, <2>1, <2>2, Names DEF IInv, ManagersFit
<1>14. ProcessesFit' /\ BridgesFit'
  BY <1>1, <1>2, <1>11 DEF IInv, ProcessesFit, BridgesFit
<1>15. StateFits'
  <2>1. \A q \in Requests : Shuts(q)' => q # r
    BY <1>5, <1>11 DEF Shuts
  <2>2. \A g \in Starts : /\ flow[Start(g)].at \notin {"refresh"} \cup Opening \cup Launching
                          /\ flow[Watcher(g)].at # "watching"
    BY DEF IInv, StateFits
  <2> QED  BY <1>1, <1>5, <1>11, <2>1, <2>2 DEF StateFits
<1>16. OffFits'
  <2>1. CASE a = "locking"
    <3>1. want'
      BY <1>1, <1>3, <1>4, <2>1
    <3> QED  BY <3>1 DEF OffFits
  <2>2. CASE a = "idle"
    <3>1. OffComing => OffComing' \/ flow[Peer].at = "idle"
      BY <1>2, <1>4, <1>5, <2>2, HeadLeaves
    <3>2. flow'[Peer] = flow[Peer] /\ state' = "off"
      BY <1>1, <1>3, <1>11, Names
    <3>3. flow[Toggle].at = "hiding" => flow'[Toggle] = flow[Toggle]
      BY <1>11, Names
    <3>4. flow'[Toggle].goal \in {"begin", "restart"} \/ flow'[Toggle].at = "revealing" => want'
      BY <1>1, <1>4, <1>11, <2>2, Names DEF IInv, OffFits
    <3> QED  BY <1>1, <3>1, <3>2, <3>3, <3>4 DEF IInv, OffFits
  <2> QED  BY <1>4, <2>1, <2>2
<1> QED  BY <1>8, <1>9, <1>10, <1>12, <1>13, <1>14, <1>15, <1>16 DEF IInv

LEMMA ShutdownEndsKeeps == ASSUME IInv, NEW r \in Requests, ShutdownEnds(r) PROVE IInv'
<1>1. flow[r].at = "refresh" /\ flow[r].at \in Holding /\ flow[r].at \in InLock
  BY DEF ShutdownEnds, Holding, InLock
<1>2. lock[1] = r /\ state = "off" /\ flow[r].goal \in {"shutdown", "restart"}
  BY <1>1 DEF IInv, LockFits, StateFits, StagesFit
<1> QED  BY <1>1, <1>2, ShutdownOverKeeps DEF ShutdownEnds

\* A request under the lock goes on.
LEMMA HoldsOn ==
    ASSUME IInv, NEW r \in Requests, flow[r].at \in InLock, lock[1] = r, NEW a \in Holding,
           NEW m, NEW b, Goes(r, a, flow[r].goal, m, b), UNCHANGED <<lock, gen>>,
           a \in {"grace", "refresh"} => flow[r].goal # "begin",
           m # None => a \in {"monitor", "process"}, b # None => a = "bridge"
    PROVE  StagesFit' /\ LockFits' /\ (OffComing' <=> OffComing)
<1>1. /\ a \in InLock /\ a \notin {"saving", "revealing", "hiding"} /\ r \in Flows
      /\ a \in {"idle", "saving", "revealing", "hiding"} \cup InLock
  BY Names, Sets
<1>2. /\ flow[r].goal \in {"begin", "shutdown", "restart"}
      /\ r = Peer => flow[r].goal = "begin"
      /\ r = Other => flow[r].goal = "shutdown"
  BY DEF IInv, StagesFit
<1>3. StagesFit'
  BY <1>1, <1>2, StagesOf
<1>4. LockFits'
  BY <1>1, Stays DEF IInv
<1> QED  BY <1>1, <1>3, <1>4, ComingKept DEF IInv

LEMMA ShutdownLockedKeeps == ASSUME IInv, NEW r \in Requests, ShutdownLocked(r) PROVE IInv'
<1>1. /\ flow[r].at = "locking" /\ flow[r].goal \in {"shutdown", "restart"} /\ lock[1] = r
      /\ UNCHANGED <<want, hidden, target, startTask, watchTask, mgr, brg>>
      /\ UNCHANGED <<gen, bridge, proc, held, mstate, mon, asked, cut, missed>>
      /\ UNCHANGED <<slots, manager>>
  BY DEF ShutdownLocked, HasLock, slots, manager
<1>2. CASE state = "off" /\ ShutdownOver(r) /\ UNCHANGED state
  BY <1>1, <1>2, ShutdownOverKeeps
<1>3. CASE state' = "stopping" /\ GoTo(r, "grace") /\ UNCHANGED lock
  <2>1. /\ flow \in [Flows -> FlowStates] /\ r \in Flows
        /\ flow[r].m = None /\ flow[r].b = None
        /\ flow[r].at \in InLock /\ "grace" \in Holding /\ r # Peer
    BY <1>1, Names, Sets DEF IInv, Types, StagesFit, Holding
  <2>2. Goes(r, "grace", flow[r].goal, None, None)
    BY <1>3, <2>1, GoesTo DEF Stages
  <2>3. StagesFit' /\ LockFits' /\ (OffComing' <=> OffComing)
    BY <1>1, <1>3, <2>1, <2>2, HoldsOn
  <2>4. Types'
    BY <1>1, <1>3, <2>2 DEF IInv, Types, Goes
  <2>5. /\ \A f \in Flows : f # r => flow'[f] = flow[f]
        /\ \A q \in Requests : q # r => flow'[q] = flow[q]
        /\ flow'[r].at = "grace" /\ flow'[r].goal = flow[r].goal
        /\ flow'[r].m = None /\ flow'[r].b = None
        /\ \A g \in Starts : flow'[Start(g)] = flow[Start(g)] /\ flow'[Watcher(g)] = flow[Watcher(g)]
    BY <2>2, Names DEF Goes
  <2>6. SlotsFit'
    BY <1>1, <2>5 DEF IInv, SlotsFit, Alive
  <2>7. ManagersFit'
    BY <1>1, <2>5, Names DEF IInv, ManagersFit
  <2>8. ProcessesFit' /\ BridgesFit'
    BY <1>1, <2>1, <2>5 DEF IInv, ProcessesFit, BridgesFit
  <2>9. StateFits'
    <3>1. Shuts(r)' /\ Shutting'
      BY <1>1, <2>1, <2>5 DEF Shuts, Shutting
    <3>2. \A q \in Requests : flow'[q].at \in Holding => q = r
      BY <1>1, <2>5, OnlyHead DEF IInv
    <3>3. \A q \in Requests : flow'[q].at # "refresh"
      BY <2>5, <3>2 DEF Holding
    <3>4. \A q \in Requests : flow'[q].at \in Holding => flow'[q].goal # "begin"
      BY <1>1, <2>5, <3>2
    <3> QED  BY <1>3, <3>1, <3>3, <3>4 DEF StateFits
  <2>10. OffFits'
    <3>1. flow'[Toggle].goal \in {"begin", "restart"} \/ flow'[Toggle].at = "revealing" => want'
      BY <1>1, <2>5, Names DEF IInv, OffFits
    <3>2. flow[Toggle].at = "hiding" => flow'[Toggle].at = "hiding"
      BY <1>1, <2>5, Names
    <3>3. ~want /\ flow[Peer].at = "idle" => OffComing
      <4> SUFFICES ASSUME ~want, flow[Peer].at = "idle" PROVE OffComing
        OBVIOUS
      <4>1. flow[r].goal = "shutdown"
        BY <1>1, <2>1, Names DEF IInv, StagesFit, OffFits
      <4>2. 1 \in 1..Len(lock)
        BY <2>1 DEF IInv, LockFits, Types
      <4>3. \A j \in 1..Len(lock) : lock[j] # Peer
        BY Sets DEF IInv, LockFits
      <4> QED  BY <1>1, <4>1, <4>2, <4>3 DEF OffComing
    <3> QED  BY <1>1, <2>3, <3>1, <3>2, <3>3 DEF IInv, OffFits
  <2> QED  BY <2>3, <2>4, <2>6, <2>7, <2>8, <2>9, <2>10 DEF IInv
<1> QED  BY <1>2, <1>3 DEF ShutdownLocked

LEMMA GraceOverKeeps == ASSUME IInv, NEW r \in Requests, GraceOver(r) PROVE IInv'
<1>1. /\ flow[r].at = "grace" /\ flow[r].at \in Holding /\ "tear" \in Holding
      /\ flow[r].at \in InLock /\ lock[1] = r
      /\ UNCHANGED <<state, want, hidden, target, startTask, watchTask, mgr, brg, lock>>
      /\ UNCHANGED <<gen, bridge, proc, held, mstate, mon, asked, cut, missed>>
      /\ UNCHANGED <<slots, manager>>
  BY DEF GraceOver, slots, manager, IInv, LockFits, Holding, Tearing, InLock
<1>2. /\ flow \in [Flows -> FlowStates] /\ r \in Flows
      /\ flow[r].m = None /\ flow[r].b = None /\ flow[r].goal # "begin"
  BY <1>1, Names DEF IInv, Types, StagesFit
<1>3. Goes(r, "tear", flow[r].goal, None, None)
  BY <1>2, GoesTo DEF Stages, GraceOver
<1>4. StagesFit' /\ LockFits' /\ (OffComing' <=> OffComing)
  BY <1>1, <1>3, HoldsOn
<1>5. /\ \A q \in Requests : Shuts(q)' <=> Shuts(q)
      /\ Shutting' <=> Shutting
  BY <1>1, <1>2, <1>3, ShutsKept
<1>6. Types'
  BY <1>1, <1>3 DEF IInv, Types, Goes
<1>7. /\ \A f \in Flows : f # r => flow'[f] = flow[f]
      /\ \A q \in Requests : q # r => flow'[q] = flow[q]
      /\ flow'[r].at = "tear" /\ flow'[r].goal = flow[r].goal
      /\ flow'[r].m = None /\ flow'[r].b = None
      /\ \A g \in Starts : flow'[Start(g)] = flow[Start(g)] /\ flow'[Watcher(g)] = flow[Watcher(g)]
  BY <1>3, Names DEF Goes
<1>8. SlotsFit'
  BY <1>1, <1>7 DEF IInv, SlotsFit, Alive
<1>9. ManagersFit'
  BY <1>1, <1>7 DEF IInv, ManagersFit
<1>10. ProcessesFit' /\ BridgesFit'
  BY <1>1, <1>2, <1>7 DEF IInv, ProcessesFit, BridgesFit
<1>11. StateFits'
  BY <1>1, <1>2, <1>5, <1>7 DEF IInv, StateFits
<1>12. OffFits'
  BY <1>1, <1>4, <1>7, Names DEF IInv, OffFits
<1> QED  BY <1>4, <1>6, <1>8, <1>9, <1>10, <1>11, <1>12 DEF IInv

LEMMA ShutdownTornKeeps == ASSUME IInv, NEW r \in Requests, ShutdownTorn(r) PROVE IInv'
<1>1. /\ flow[r].at = "after" /\ flow[r].at \in Holding /\ "refresh" \in Holding
      /\ flow[r].at \in InLock /\ lock[1] = r /\ flow[r].goal # "begin" /\ state' = "off"
      /\ UNCHANGED <<want, hidden, target, startTask, watchTask, mgr, brg, lock>>
      /\ UNCHANGED <<gen, bridge, proc, held, mstate, mon, asked, cut, missed>>
      /\ UNCHANGED <<slots, manager>>
  BY DEF ShutdownTorn, slots, manager, IInv, LockFits, Holding, Tearing, InLock
<1>2. /\ flow \in [Flows -> FlowStates] /\ r \in Flows /\ flow[r].m = None /\ flow[r].b = None
  BY <1>1, Names DEF IInv, Types, StagesFit
<1>3. startTask = None /\ watchTask = None /\ mgr = None /\ brg = None
  <2>1. flow[r].at \in Holding \ {"grace", "tear", "watcher"}
    BY <1>1
  <2> QED  BY <1>1, <1>2, <2>1 DEF IInv, SlotsFit, ManagersFit
<1>4. Goes(r, "refresh", flow[r].goal, None, None)
  BY <1>2, GoesTo DEF Stages, ShutdownTorn
<1>5. StagesFit' /\ LockFits' /\ (OffComing' <=> OffComing)
  BY <1>1, <1>4, HoldsOn
<1>6. /\ \A q \in Requests : Shuts(q)' <=> Shuts(q)
      /\ Shutting' <=> Shutting
  BY <1>1, <1>2, <1>4, ShutsKept
<1>7. Types'
  BY <1>1, <1>4 DEF IInv, Types, Goes
<1>8. /\ \A f \in Flows : f # r => flow'[f] = flow[f]
      /\ \A q \in Requests : q # r => flow'[q] = flow[q]
      /\ flow'[r].at = "refresh" /\ flow'[r].goal = flow[r].goal
      /\ flow'[r].m = None /\ flow'[r].b = None
      /\ \A g \in Starts : flow'[Start(g)] = flow[Start(g)] /\ flow'[Watcher(g)] = flow[Watcher(g)]
  BY <1>4, Names DEF Goes
<1>9. SlotsFit'
  BY <1>1, <1>3, <1>8 DEF IInv, SlotsFit, Alive
<1>10. ManagersFit'
  BY <1>1, <1>3, <1>8 DEF IInv, ManagersFit
<1>11. ProcessesFit' /\ BridgesFit'
  BY <1>1, <1>2, <1>8 DEF IInv, ProcessesFit, BridgesFit
<1>12. StateFits'
  <2>1. \A g \in Starts : /\ flow[Start(g)].at \in {"idle", "done"}
                          /\ flow[Watcher(g)].at \in {"idle", "done"}
    BY <1>3, NoTask
  <2>2. \A g \in Starts : /\ flow[Start(g)].at \notin {"refresh"} \cup Opening \cup Launching
                          /\ flow[Watcher(g)].at # "watching"
    BY <2>1 DEF Opening, Launching
  <2> QED  BY <1>1, <1>8, <2>2 DEF StateFits
<1>13. OffFits'
  BY <1>1, <1>5, <1>8, Names DEF IInv, OffFits
<1> QED  BY <1>5, <1>7, <1>9, <1>10, <1>11, <1>12, <1>13 DEF IInv

LEMMA BeginStartsKeeps == ASSUME IInv, NEW r \in Requests, BeginStarts(r) PROVE IInv'
<1> DEFINE n == gen + 1
<1>1. /\ flow[r].at = "after" /\ flow[r].at \in Holding /\ flow[r].at \in InLock
      /\ flow[r].goal = "begin" /\ lock[1] = r /\ gen' = gen + 1 /\ gen < MaxStart
      /\ state' = "starting" /\ target' \in Targets /\ startTask' = gen + 1 /\ lock' = Tail(lock)
      /\ UNCHANGED <<want, hidden, watchTask, mgr, brg>>
      /\ UNCHANGED <<bridge, proc, held, mstate, mon, asked, cut, missed>>
  BY DEF BeginStarts, slots, manager, IInv, LockFits, Holding, Tearing, InLock
<1>2. gen \in Nat /\ MaxStart \in Nat /\ n \in Starts /\ n > gen
  BY <1>1, OverlayAssumption DEF IInv, Types, Starts
<1>3. /\ flow \in [Flows -> FlowStates] /\ r \in Flows /\ flow[r].m = None /\ flow[r].b = None
      /\ flow[Start(n)].at = "idle" /\ Start(n) \in Flows /\ Start(n) # r
      /\ flow[Start(n)].m = None /\ flow[Start(n)].b = None
      /\ flow[Watcher(n)].at = "idle"
  BY <1>1, <1>2, Names DEF IInv, Types, StagesFit
<1>4. startTask = None /\ watchTask = None /\ mgr = None /\ brg = None
  <2>1. flow[r].at \in Holding \ {"grace", "tear", "watcher"}
    BY <1>1
  <2> QED  BY <1>1, <1>3, <2>1 DEF IInv, SlotsFit, ManagersFit
<1>5. \A g \in Starts : /\ flow[Start(g)].at \in {"idle", "done"}
                        /\ flow[Watcher(g)].at \in {"idle", "done"}
  BY <1>4, NoTask
<1> DEFINE s == [flow[Start(n)] EXCEPT !.at = "created"]
           fl == [flow EXCEPT ![r] = Idle]
<1>6. /\ s \in FlowStates /\ s.at = "created" /\ s.m = None /\ s.b = None
      /\ s.goal = flow[Start(n)].goal
  <2>1. "created" \in Stages
    BY DEF Stages
  <2> QED  BY <1>3, <2>1 DEF FlowStates
<1>7. Idle \in FlowStates
  BY DEF Idle, FlowStates, Stages, Goals, Slots
<1>8. flow' = [flow EXCEPT ![r] = Idle, ![Start(n)] = s]
  BY <1>3 DEF BeginStarts
<1> HIDE DEF s
<1>9. /\ flow' \in [Flows -> FlowStates]
      /\ flow'[r] = Idle /\ flow'[Start(n)] = s
      /\ \A f \in Flows : f # r /\ f # Start(n) => flow'[f] = flow[f]
  BY <1>3, <1>6, <1>7, <1>8
<1>10. /\ flow'[r].at = "idle" /\ flow'[r].goal = "none" /\ flow'[r].m = None /\ flow'[r].b = None
       /\ flow'[Start(n)].at = "created" /\ flow'[Start(n)].m = None /\ flow'[Start(n)].b = None
  BY <1>6, <1>9 DEF Idle
<1>11. /\ \A q \in Requests : q # r => flow'[q] = flow[q]
       /\ \A g \in Starts : flow'[Watcher(g)] = flow[Watcher(g)]
       /\ \A g \in Starts : g # n => flow'[Start(g)] = flow[Start(g)]
  BY <1>2, <1>9, Names
<1>12. \A q \in Requests : flow'[q].at \notin Holding
  <2>1. \A q \in Requests : flow[q].at \in Holding => q = r
    BY <1>1, OnlyHead DEF IInv
  <2> QED  BY <1>10, <1>11, <2>1, Sets
<1>13. lock \in Seq(Requests) /\ lock # <<>>
  BY <1>1 DEF IInv, Types, LockFits
<1>14. Types'
  <2>1. lock' \in Seq(Requests)
    BY <1>1, <1>13
  <2>2. gen' \in 0..MaxStart /\ startTask' \in Slots /\ target' \in Targets \cup {"none"}
    BY <1>1, <1>2 DEF Slots
  <2> QED  BY <1>1, <1>9, <2>1, <2>2 DEF IInv, Types
<1>15. StagesFit'
  <2>1. \A g \in Starts : g > gen' => g > gen /\ g # n
    BY <1>1, <1>2 DEF Starts
  <2>2. "created" \in Opening /\ "created" \notin {"monitor", "process", "bridge", "idle"}
    BY DEF Opening
  <2>3. flow'[r].at \notin InLock
    BY <1>10, Sets
  <2>4. \A q \in Requests :
          /\ flow'[q].at \in {"idle", "saving", "revealing", "hiding"} \cup InLock
          /\ flow'[q].at = "saving" => q = Toggle /\ flow'[q].goal \in {"on", "off"}
          /\ flow'[q].at = "revealing" => q = Toggle /\ flow'[q].goal = "on"
          /\ flow'[q].at = "hiding" => q = Toggle /\ flow'[q].goal = "off"
          /\ flow'[q].at \in InLock =>
                /\ flow'[q].goal \in {"begin", "shutdown", "restart"}
                /\ q = Peer => flow'[q].goal = "begin"
                /\ q = Other => flow'[q].goal = "shutdown"
          /\ flow'[q].at \in {"grace", "refresh"} => flow'[q].goal # "begin"
    BY <1>10, <1>11, <2>3 DEF IInv, StagesFit
  <2>5. \A g \in Starts :
          /\ flow'[Start(g)].at \in {"idle", "done", "refresh"}
                                    \cup Opening \cup Launching \cup Tearing
          /\ flow'[Watcher(g)].at \in {"idle", "done", "watching"} \cup Tearing
          /\ g > gen' => flow'[Start(g)].at = "idle" /\ flow'[Watcher(g)].at = "idle"
    BY <1>10, <1>11, <2>1, <2>2 DEF IInv, StagesFit
  <2>6. \A f \in Flows :
          /\ flow'[f].m # None => flow'[f].at \in {"monitor", "process"}
          /\ flow'[f].b # None => flow'[f].at = "bridge"
    BY <1>9, <1>10 DEF IInv, StagesFit
  <2> QED  BY <2>4, <2>5, <2>6 DEF StagesFit
<1>16. LockFits'
  <2>1. fl \in [Flows -> FlowStates] /\ fl[r] = Idle /\ \A q \in Requests : flow'[q] = fl[q]
    BY <1>3, <1>7, <1>9, <1>11, Names
  <2>2. /\ Len(lock) \in Nat \ {0} /\ Len(lock') = Len(lock) - 1
        /\ \A i \in 1..Len(lock') : lock'[i] = lock[i + 1] /\ lock'[i] \in Requests
    BY <1>1, <1>13, HeadTailProperties
  <2>3. \A i \in 1..Len(lock') : i + 1 \in 1..Len(lock) /\ i + 1 # 1
    BY <2>2
  <2>4. \A i \in 1..Len(lock') : lock'[i] # r
    <3> SUFFICES ASSUME NEW i \in 1..Len(lock'), lock[i + 1] = lock[1] PROVE FALSE
      BY <1>1, <2>2
    <3> QED  BY <2>2, <2>3 DEF IInv, LockFits
  <2>5. ASSUME NEW q \in Requests, flow'[q].at \in InLock
      PROVE  \E i \in 1..Len(lock') : lock'[i] = q
    <3>1. q # r
      BY <1>10, <2>5, Sets
    <3>2. PICK i \in 1..Len(lock) : lock[i] = q
      BY <1>11, <2>5, <3>1 DEF IInv, LockFits
    <3>3. i - 1 \in 1..Len(lock') /\ i = (i - 1) + 1
      BY <1>1, <2>2, <3>1, <3>2
    <3> QED  BY <2>2, <3>2, <3>3
  <2>6. ASSUME NEW i \in 1..Len(lock') PROVE flow'[lock'[i]].at \in InLock
    BY <1>11, <2>2, <2>3, <2>4 DEF IInv, LockFits
  <2>7. ASSUME NEW i \in 1..Len(lock'), NEW j \in 1..Len(lock'), lock'[i] = lock'[j] PROVE i = j
    <3>1. i + 1 = j + 1
      BY <2>2, <2>3, <2>7 DEF IInv, LockFits
    <3> QED  BY <2>2, <3>1
  <2> QED  BY <1>12, <2>5, <2>6, <2>7 DEF LockFits
<1>17. SlotsFit'
  <2>1. \A g \in Starts : Alive(Start(g))' <=> g = n
    BY <1>5, <1>10, <1>11 DEF Alive
  <2>2. \A g \in Starts : ~Alive(Watcher(g))'
    BY <1>5, <1>11 DEF Alive
  <2>3. \A g \in Starts : g # None
    BY Names
  <2> QED  BY <1>1, <1>4, <1>12, <2>1, <2>2, <2>3 DEF SlotsFit
<1>18. ManagersFit'
  <2>1. \A g \in Starts : /\ flow'[Start(g)].at \notin {"refresh"} \cup Launching \cup Tearing
                          /\ flow'[Watcher(g)].at \notin {"watching"} \cup Tearing
    BY <1>5, <1>10, <1>11 DEF Launching, Tearing
  <2> QED  BY <1>1, <1>4, <2>1 DEF ManagersFit
<1>19. ProcessesFit'
  <2>1. \A g \in Starts : /\ flow'[Start(g)].at \notin {"spawning", "startup", "ready", "refresh"} \cup Tearing
                          /\ flow'[Start(g)].at \in Opening => g = n
                          /\ flow'[Watcher(g)].at \notin {"watching"} \cup Tearing
    BY <1>5, <1>10, <1>11 DEF Opening, Launching, Tearing
  <2>2. proc[n] = "none" /\ mon[n] = "none"
    BY <1>2 DEF IInv, ProcessesFit
  <2>3. \A g \in Starts : g > gen' => g > gen
    BY <1>1, <1>2 DEF Starts
  <2>4. \A q \in Requests : flow[q].m # None => flow'[q].m = flow[q].m
    BY <1>3, <1>11
  <2>5. \A g \in Starts : proc[g] = "running" => held[g] /\ \E q \in Requests : flow'[q].m = g
    BY <1>4, <2>4, Names DEF IInv, ProcessesFit
  <2>6. \A g \in Starts : /\ mstate[g] = "failed" => proc[g] # "running"
                          /\ g > gen => proc[g] = "none" /\ mon[g] = "none"
    BY DEF IInv, ProcessesFit
  <2> QED  BY <1>1, <2>1, <2>2, <2>3, <2>5, <2>6 DEF ProcessesFit
<1>20. BridgesFit'
  <2>1. \A f \in Flows : flow[f].b # None => flow'[f].b = flow[f].b
    BY <1>3, <1>9
  <2> QED  BY <1>1, <2>1, Names DEF IInv, BridgesFit
<1>21. StateFits'
  <2>1. \A g \in Starts : /\ flow'[Start(g)].at # "refresh"
                          /\ flow'[Watcher(g)].at # "watching"
    BY <1>5, <1>10, <1>11
  <2>2. flow'[Start(n)].at \in Opening \cup Launching
    BY <1>10 DEF Opening
  <2>3. \A q \in Requests : flow'[q].at # "refresh" /\ ~Shuts(q)'
    BY <1>12 DEF Shuts, Holding
  <2> QED  BY <1>1, <1>2, <1>12, <2>1, <2>2, <2>3 DEF StateFits
<1>22. OffFits'
  <2>1. flow'[Toggle].goal \in {"begin", "restart"} \/ flow'[Toggle].at = "revealing" => want'
    BY <1>1, <1>10, <1>11, Names DEF IInv, OffFits
  <2>2. CASE want
    BY <1>1, <2>1, <2>2 DEF OffFits
  <2>3. CASE ~want
    <3>1. r = Peer
      BY <1>1, <2>3, Names DEF IInv, OffFits, StagesFit
    <3>2. OffComing => OffComing'
      <4> SUFFICES ASSUME OffComing PROVE OffComing'
        OBVIOUS
      <4>1. PICK k \in 1..Len(lock) : /\ flow[lock[k]].goal = "shutdown"
                                      /\ \A j \in 1..Len(lock) : j > k => lock[j] # Peer
        BY DEF OffComing
      <4>2. /\ Len(lock) \in Nat \ {0} /\ Len(lock') = Len(lock) - 1
            /\ \A i \in 1..Len(lock') : lock'[i] = lock[i + 1] /\ lock'[i] \in Requests
        BY <1>1, <1>13, HeadTailProperties
      <4>3. k # 1
        BY <1>1, <4>1
      <4>4. k - 1 \in 1..Len(lock') /\ (k - 1) + 1 = k
        BY <4>1, <4>2, <4>3
      <4>5. lock'[k - 1] = lock[k] /\ lock[k] \in Requests /\ lock[k] # r
        <5>1. lock'[k - 1] = lock[(k - 1) + 1] /\ lock'[k - 1] \in Requests
          BY <4>2, <4>4
        <5>2. lock[k] # lock[1]
          BY <4>2, <4>3 DEF IInv, LockFits
        <5> QED  BY <1>1, <4>4, <5>1, <5>2
      <4>6. flow'[lock'[k - 1]].goal = "shutdown"
        BY <1>11, <4>1, <4>5
      <4>7. ASSUME NEW j \in 1..Len(lock'), j > k - 1 PROVE lock'[j] # Peer
        <5>1. j + 1 \in 1..Len(lock) /\ j + 1 > k
          BY <4>1, <4>2, <4>7
        <5> QED  BY <4>1, <4>2, <5>1
      <4> QED  BY <4>4, <4>6, <4>7 DEF OffComing
    <3>3. flow'[Toggle] = flow[Toggle] /\ flow[Peer].at # "idle"
      BY <1>1, <1>11, <3>1, Names
    <3> QED  BY <1>1, <2>1, <3>2, <3>3 DEF IInv, OffFits
  <2> QED  BY <2>2, <2>3
<1> QED  BY <1>14, <1>15, <1>16, <1>17, <1>18, <1>19, <1>20, <1>21, <1>22 DEF IInv

-----------------------------------------------------------------------------
(* The teardown, by whoever runs it.                                        *)

\* Flow f goes on to stage a with its goal, and the flows of D, which are no requests, end.
Does(f, a, m, b, D) ==
    /\ flow' \in [Flows -> FlowStates]
    /\ flow'[f].at = a /\ flow'[f].goal = flow[f].goal /\ flow'[f].m = m /\ flow'[f].b = b
    /\ \A e \in Flows : e # f /\ e \notin D => flow'[e] = flow[e]
    /\ \A e \in D : flow'[e].at = "done" /\ flow'[e].m = None /\ flow'[e].b = None

LEMMA DoesAlone ==
    ASSUME NEW f \in Flows, NEW a, NEW m, NEW b, Goes(f, a, flow[f].goal, m, b)
    PROVE  Does(f, a, m, b, {})
BY DEF Goes, Does

\* What a flow that holds the lock, or a task of its own, keeps by going on.
LEMMA GoesOn ==
    ASSUME IInv, NEW f \in Flows, flow[f].at \in Tearing, NEW a \in Tearing, NEW m, NEW b,
           NEW D, \A e \in D : e \in Flows /\ e \notin Requests /\ Alive(e) /\ e # f,
           Does(f, a, m, b, D), UNCHANGED <<lock, gen>>,
           m # None => a \in {"monitor", "process"}, b # None => a = "bridge"
    PROVE  /\ StagesFit' /\ LockFits' /\ (OffComing' <=> OffComing)
           /\ \A q \in Requests : (Shuts(q)' <=> Shuts(q)) /\ flow'[q].goal = flow[q].goal
           /\ Shutting' <=> Shutting
<1>1. /\ \A e \in Flows : e # f /\ e \notin D => flow'[e] = flow[e]
      /\ \A e \in D : flow'[e].at = "done" /\ flow'[e].m = None /\ flow'[e].b = None
      /\ \A q \in Requests : q # f => flow'[q] = flow[q]
      /\ flow'[f].at = a /\ flow'[f].goal = flow[f].goal /\ flow'[f].m = m /\ flow'[f].b = b
  BY Names DEF Does
<1>2. /\ a \in InLock /\ a \in Holding /\ flow[f].at \in InLock /\ flow[f].at \in Holding
      /\ a \notin {"idle", "done", "saving", "revealing", "hiding", "grace", "refresh"}
      /\ flow[f].at # "idle"
  BY Sets
<1>3. \A q \in Requests : /\ flow'[q].goal = flow[q].goal
                          /\ flow'[q].at \in InLock <=> flow[q].at \in InLock
                          /\ flow'[q].at \in Holding <=> flow[q].at \in Holding
  BY <1>1, <1>2
<1>4. StagesFit'
  <2>1. \A q \in Requests :
          /\ flow'[q].at \in {"idle", "saving", "revealing", "hiding"} \cup InLock
          /\ flow'[q].at = "saving" => q = Toggle /\ flow'[q].goal \in {"on", "off"}
          /\ flow'[q].at = "revealing" => q = Toggle /\ flow'[q].goal = "on"
          /\ flow'[q].at = "hiding" => q = Toggle /\ flow'[q].goal = "off"
          /\ flow'[q].at \in InLock =>
                /\ flow'[q].goal \in {"begin", "shutdown", "restart"}
                /\ q = Peer => flow'[q].goal = "begin"
                /\ q = Other => flow'[q].goal = "shutdown"
          /\ flow'[q].at \in {"grace", "refresh"} => flow'[q].goal # "begin"
    BY <1>1, <1>2, <1>3 DEF IInv, StagesFit
  <2>2. ASSUME NEW g \in Starts
        PROVE  /\ flow'[Start(g)].at \in {"idle", "done", "refresh"}
                                         \cup Opening \cup Launching \cup Tearing
               /\ g > gen => flow'[Start(g)].at = "idle"
    <3>1. Start(g) \in Flows
      BY Names
    <3>2. CASE Start(g) = f
      BY <1>1, <1>2, <3>2 DEF IInv, StagesFit
    <3>3. CASE Start(g) \in D
      BY <1>1, <3>3 DEF IInv, StagesFit, Alive
    <3> QED  BY <1>1, <3>1, <3>2, <3>3 DEF IInv, StagesFit
  <2>3. ASSUME NEW g \in Starts
        PROVE  /\ flow'[Watcher(g)].at \in {"idle", "done", "watching"} \cup Tearing
               /\ g > gen => flow'[Watcher(g)].at = "idle"
    <3>1. Watcher(g) \in Flows
      BY Names
    <3>2. CASE Watcher(g) = f
      BY <1>1, <1>2, <3>2 DEF IInv, StagesFit
    <3>3. CASE Watcher(g) \in D
      BY <1>1, <3>3 DEF IInv, StagesFit, Alive
    <3> QED  BY <1>1, <3>1, <3>2, <3>3 DEF IInv, StagesFit
  <2>4. \A e \in Flows : /\ flow'[e].m # None => flow'[e].at \in {"monitor", "process"}
                         /\ flow'[e].b # None => flow'[e].at = "bridge"
    BY <1>1 DEF IInv, StagesFit
  <2> QED  BY <2>1, <2>2, <2>3, <2>4 DEF StagesFit
<1>5. \A i \in 1..Len(lock) : lock[i] \in Requests
  BY DEF IInv, Types
<1>6. LockFits'
  BY <1>3, <1>5 DEF IInv, LockFits
<1>7. OffComing' <=> OffComing
  BY <1>3, <1>5 DEF OffComing
<1>8. \A q \in Requests : Shuts(q)' <=> Shuts(q)
  BY <1>3 DEF Shuts
<1>9. Shutting' <=> Shutting
  BY <1>8 DEF Shutting
<1> QED  BY <1>3, <1>4, <1>6, <1>7, <1>8, <1>9

\* Who tears down is the request under the lock, the start of its slot or the watcher of its.
LEMMA TearsDown ==
    ASSUME IInv, NEW f \in Flows, flow[f].at \in Tearing
    PROVE  /\ flow \in [Flows -> FlowStates]
           /\ f \in Requests =>
                 /\ lock[1] = f /\ \A q \in Requests : flow[q].at \in Holding => q = f
                 /\ state # "starting"
                 /\ state = "connected" => Shutting
           /\ \A g \in Starts : f = Start(g) => startTask = g /\ watchTask = None
           /\ \A g \in Starts : f = Watcher(g) => watchTask = g /\ startTask = None
           /\ \/ f \in Requests
              \/ \E g \in Starts : f = Start(g) \/ f = Watcher(g)
<1>1. Alive(f) /\ flow[f].at \in Holding /\ flow[f].at \in InLock
  BY Sets DEF Alive
<1>2. ASSUME f \in Requests
      PROVE  /\ lock[1] = f /\ \A q \in Requests : flow[q].at \in Holding => q = f
             /\ state # "starting"
             /\ state = "connected" => Shutting
  <2>1. lock[1] = f
    BY <1>1, <1>2 DEF IInv, LockFits
  <2>2. flow[f].goal = "begin" \/ Shuts(f)
    BY <1>1, <1>2 DEF IInv, StagesFit, Shuts
  <2> QED  BY <1>1, <1>2, <2>1, <2>2, OnlyHead DEF IInv, StateFits, Shutting
<1> QED  BY <1>1, <1>2, Names DEF IInv, SlotsFit, Types

\* The start and the watcher that are at work, if any.
LEMMA OneTask ==
    ASSUME IInv
    PROVE  /\ \A g \in Starts : Alive(Start(g)) => startTask = g
           /\ \A g \in Starts : Alive(Watcher(g)) => watchTask = g
           /\ \A g \in Starts : startTask # g => flow[Start(g)].at \in {"idle", "done"}
           /\ \A g \in Starts : watchTask # g => flow[Watcher(g)].at \in {"idle", "done"}
           /\ startTask = None \/ watchTask = None
BY DEF IInv, SlotsFit, Alive

LEMMA TearStartKeeps == ASSUME IInv, NEW f \in Flows, TearStart(f) PROVE IInv'
<1>1. /\ flow[f].at = "tear" /\ flow[f].at \in Tearing /\ "watcher" \in Tearing
      /\ UNCHANGED <<state, want, hidden, target, watchTask, mgr, brg, lock>>
      /\ UNCHANGED <<gen, proc, held, mstate, mon, asked, missed>>
  BY DEF TearStart, Tearing, manager
<1>2. flow \in [Flows -> FlowStates] /\ flow[f].m = None /\ flow[f].b = None
  BY <1>1 DEF IInv, Types, StagesFit
<1>3. CASE (startTask = None \/ Start(startTask) = f) /\ GoTo(f, "watcher")
           /\ UNCHANGED <<startTask, bridge, cut>>
  <2>1. Goes(f, "watcher", flow[f].goal, None, None)
    BY <1>2, <1>3, GoesTo DEF Stages
  <2>2. Does(f, "watcher", None, None, {})
    BY <2>1, DoesAlone
  <2>3. /\ StagesFit' /\ LockFits' /\ (OffComing' <=> OffComing)
        /\ \A q \in Requests : (Shuts(q)' <=> Shuts(q)) /\ flow'[q].goal = flow[q].goal
        /\ Shutting' <=> Shutting
    BY <1>1, <2>2, GoesOn
  <2>4. /\ \A e \in Flows : e # f => flow'[e] = flow[e]
        /\ flow'[f].at = "watcher" /\ flow'[f].m = None /\ flow'[f].b = None
    BY <2>1 DEF Goes
  <2>5. \A e \in Flows : Alive(e)' <=> Alive(e)
    BY <1>1, <2>4 DEF Alive
  <2>6. Types'
    BY <1>1, <1>3, <2>1 DEF IInv, Types, Goes
  <2>7. SlotsFit'
    <3>1. f \in Requests => startTask = None
      BY <1>2, <1>3, Names DEF IInv, Types, Slots
    <3> QED  BY <1>1, <1>3, <2>4, <2>5, <3>1, Names DEF IInv, SlotsFit
  <2>8. ManagersFit'
    BY <1>1, <1>3, <2>4, Names DEF IInv, ManagersFit, Opening, Launching, Tearing
  <2>9. ProcessesFit' /\ BridgesFit'
    BY <1>1, <1>2, <1>3, <2>4, Names, Sets DEF IInv, ProcessesFit, BridgesFit
  <2>10. StateFits'
    BY <1>1, <2>3, <2>4, Names, Sets DEF IInv, StateFits
  <2>11. OffFits'
    BY <1>1, <2>3, <2>4, Names DEF IInv, OffFits
  <2> QED  BY <2>3, <2>6, <2>7, <2>8, <2>9, <2>10, <2>11 DEF IInv
<1>4. CASE startTask # None /\ Start(startTask) # f
  <2> DEFINE s == Start(startTask)
             h == startTask
  <2>1. /\ startTask' = None
        /\ flow' = [flow EXCEPT ![f].at = "watcher", ![s] = [Idle EXCEPT !.at = "done"]]
        /\ IF flow[s].at = "opening"
             THEN /\ bridge' = [bridge EXCEPT ![s[1]] = "up"]
                  /\ cut' = cut \cup {s[1]}
             ELSE /\ cut' = Dropped(s)
                  /\ UNCHANGED bridge
    BY <1>4 DEF TearStart
  <2>2. h \in Starts /\ s \in Flows /\ s \notin Requests /\ s # f /\ s[1] = h /\ Alive(s)
    BY <1>4, Names DEF IInv, Types, SlotsFit, Slots
  <2>3. watchTask = None /\ f \in Requests
    BY <1>1, <1>4, <2>2, TearsDown, Names DEF IInv, SlotsFit
  <2>4. Does(f, "watcher", None, None, {s})
    <3> DEFINE t == [flow[f] EXCEPT !.at = "watcher"]
               d == [Idle EXCEPT !.at = "done"]
    <3>1. /\ t \in FlowStates /\ t.at = "watcher" /\ t.goal = flow[f].goal
          /\ t.m = None /\ t.b = None
      BY <1>2 DEF FlowStates, Stages
    <3>2. d \in FlowStates /\ d.at = "done" /\ d.m = None /\ d.b = None
      BY DEF Idle, FlowStates, Stages, Goals, Slots
    <3>3. flow' = [flow EXCEPT ![f] = t, ![s] = d]
      BY <2>1
    <3> HIDE DEF t, d, s
    <3>4. /\ flow' \in [Flows -> FlowStates] /\ flow'[f] = t /\ flow'[s] = d
          /\ \A e \in Flows : e # f /\ e # s => flow'[e] = flow[e]
      BY <1>2, <2>2, <3>1, <3>2, <3>3
    <3> QED  BY <3>1, <3>2, <3>4 DEF Does
  <2>5. /\ StagesFit' /\ LockFits' /\ (OffComing' <=> OffComing)
        /\ \A q \in Requests : (Shuts(q)' <=> Shuts(q)) /\ flow'[q].goal = flow[q].goal
        /\ Shutting' <=> Shutting
    <3> HIDE DEF s
    <3> QED  BY <1>1, <2>2, <2>4, GoesOn
  <2>6. /\ flow' \in [Flows -> FlowStates]
        /\ \A e \in Flows : e # f /\ e # s => flow'[e] = flow[e]
        /\ flow'[f].at = "watcher" /\ flow'[f].m = None /\ flow'[f].b = None
        /\ flow'[s].at = "done" /\ flow'[s].m = None /\ flow'[s].b = None
    BY <2>4 DEF Does
  <2>7. /\ \A q \in Requests : q # f => flow'[q] = flow[q]
        /\ \A g \in Starts : flow'[Watcher(g)] = flow[Watcher(g)]
        /\ \A g \in Starts : g # h => flow'[Start(g)] = flow[Start(g)]
    BY <2>2, <2>3, <2>6, Names
  <2>8. \A g \in Starts : /\ flow'[Start(g)].at \in {"idle", "done"}
                          /\ flow'[Watcher(g)].at \in {"idle", "done"}
    <3>1. \A g \in Starts : /\ g # h => flow[Start(g)].at \in {"idle", "done"}
                            /\ flow[Watcher(g)].at \in {"idle", "done"}
      BY <2>3, OneTask, NoTask
    <3> QED  BY <2>6, <2>7, <3>1
  <2>9. \A g \in Starts : /\ flow'[Start(g)].at \notin {"refresh"}
                                                       \cup Opening \cup Launching \cup Tearing
                          /\ flow'[Watcher(g)].at \notin {"watching"} \cup Tearing
    BY <2>8 DEF Opening, Launching, Tearing
  <2>10. Types'
    <3>1. bridge' \in [Starts -> {"none", "up", "closed"}] /\ cut' \subseteq Starts
      <4>1. flow[s].b \in Slots
        BY <1>2, <2>2 DEF FlowStates
      <4> QED  BY <2>1, <2>2, <4>1 DEF IInv, Types, Dropped, Slots
    <3>2. startTask' \in Slots
      BY <2>1 DEF Slots
    <3> QED  BY <1>1, <2>6, <3>1, <3>2 DEF IInv, Types
  <2>11. \A q \in Requests : flow'[q].at \in Holding => q = f
    BY <1>1, <2>3, <2>7, TearsDown
  <2>12. SlotsFit'
    <3>1. \A g \in Starts : ~Alive(Start(g))' /\ ~Alive(Watcher(g))' /\ g # None
      BY <2>8, Names DEF Alive
    <3> QED  BY <1>1, <2>1, <2>3, <3>1 DEF SlotsFit
  <2>13. ManagersFit'
    <3>1. \A e \in Flows : /\ flow'[e].at \in {"monitor", "process", "bridge", "after"} => mgr = None
                           /\ flow'[e].at \in {"bridge", "after"} => brg = None
      BY <2>6 DEF IInv, ManagersFit
    <3>2. \A q \in Requests : flow'[q].at # "refresh"
      BY <2>6, <2>11 DEF Holding
    <3> QED  BY <1>1, <2>3, <2>6, <2>9, <3>1, <3>2 DEF ManagersFit
  <2>14. ProcessesFit'
    <3>1. \A q \in Requests : flow'[q].m = flow[q].m
      BY <1>2, <2>6, <2>7
    <3> QED  BY <1>1, <2>9, <3>1 DEF IInv, ProcessesFit, Launching
  <2>15. BridgesFit'
    <3> SUFFICES ASSUME NEW g \in Starts, bridge'[g] = "up", g \notin cut', brg # g
                 PROVE  \E e \in Flows : flow'[e].b = g
      BY <1>1 DEF BridgesFit
    <3>1. g \notin cut /\ bridge[g] = "up"
      <4>1. CASE flow[s].at = "opening"
        BY <2>1, <2>2, <4>1 DEF IInv, Types
      <4>2. CASE flow[s].at # "opening"
        BY <2>1, <4>2 DEF Dropped
      <4> QED  BY <4>1, <4>2
    <3>2. PICK e \in Flows : flow[e].b = g
      BY <3>1 DEF IInv, BridgesFit
    <3>3. g # None /\ e # f
      BY <1>2, <3>2, Names
    <3>4. e # s
      <4> SUFFICES ASSUME e = s PROVE FALSE
        OBVIOUS
      <4>1. flow[s].at = "bridge"
        BY <3>2, <3>3 DEF IInv, StagesFit
      <4>2. g \in cut'
        BY <2>1, <3>2, <3>3, <4>1 DEF Dropped
      <4> QED  BY <4>2
    <3> QED  BY <2>6, <3>2, <3>3, <3>4
  <2>16. StateFits'
    <3>1. state # "starting" /\ (state = "connected" => Shutting)
      BY <1>1, <2>3, TearsDown
    <3>2. \A q \in Requests : flow'[q].at \in Holding => flow[q].at \in Holding
      BY <1>1, <2>6, <2>7, Sets
    <3>3. \A q \in Requests : flow'[q].at # "refresh"
      BY <2>6, <2>11 DEF Holding
    <3> QED  BY <1>1, <2>5, <2>9, <3>1, <3>2, <3>3 DEF IInv, StateFits
  <2>17. OffFits'
    <3>1. flow[Toggle].at \in {"revealing", "hiding"}
          <=> flow'[Toggle].at \in {"revealing", "hiding"}
      BY <1>1, <2>6, <2>7, Names
    <3>2. f # Toggle => flow'[Toggle] = flow[Toggle]
      BY <2>7, Names
    <3>3. flow[Peer].at = "idle" => flow'[Peer].at = "idle"
      BY <1>1, <2>7, Names
    <3> QED  BY <1>1, <2>5, <2>6, <3>1, <3>2, <3>3, Names DEF IInv, OffFits
  <2> QED  BY <2>5, <2>10, <2>12, <2>13, <2>14, <2>15, <2>16, <2>17 DEF IInv
<1> QED  BY <1>3, <1>4 DEF TearStart

LEMMA TearWatcherKeeps == ASSUME IInv, NEW f \in Flows, TearWatcher(f) PROVE IInv'
<1>1. /\ flow[f].at = "watcher" /\ flow[f].at \in Tearing /\ "presenter" \in Tearing
      /\ UNCHANGED <<state, want, hidden, target, startTask, mgr, brg, lock>>
      /\ UNCHANGED <<gen, bridge, proc, held, mstate, asked, missed>>
  BY DEF TearWatcher, Tearing
<1>2. flow \in [Flows -> FlowStates] /\ flow[f].m = None /\ flow[f].b = None
  BY <1>1 DEF IInv, Types, StagesFit
<1>3. CASE (watchTask = None \/ Watcher(watchTask) = f) /\ GoTo(f, "presenter")
           /\ UNCHANGED <<watchTask, mon, cut>>
  <2>1. Goes(f, "presenter", flow[f].goal, None, None)
    BY <1>2, <1>3, GoesTo DEF Stages
  <2>2. Does(f, "presenter", None, None, {})
    BY <2>1, DoesAlone
  <2>3. /\ StagesFit' /\ LockFits' /\ (OffComing' <=> OffComing)
        /\ \A q \in Requests : (Shuts(q)' <=> Shuts(q)) /\ flow'[q].goal = flow[q].goal
        /\ Shutting' <=> Shutting
    BY <1>1, <2>2, GoesOn
  <2>4. /\ \A e \in Flows : e # f => flow'[e] = flow[e]
        /\ flow'[f].at = "presenter" /\ flow'[f].m = None /\ flow'[f].b = None
    BY <2>1 DEF Goes
  <2>5. \A e \in Flows : Alive(e)' <=> Alive(e)
    BY <1>1, <2>4 DEF Alive
  <2>6. Types'
    BY <1>1, <1>3, <2>1 DEF IInv, Types, Goes
  <2>7. SlotsFit'
    <3>1. f \in Requests => startTask = None /\ watchTask = None
      <4> SUFFICES ASSUME f \in Requests PROVE startTask = None /\ watchTask = None
        OBVIOUS
      <4>1. flow[f].at \in Holding \ {"grace", "tear"}
        BY <1>1, Sets
      <4>2. watchTask \in Slots /\ \A g \in Starts : Watcher(g) # f
        BY Names DEF IInv, Types
      <4> QED  BY <1>3, <4>1, <4>2 DEF IInv, SlotsFit, Slots
    <3> QED  BY <1>1, <1>3, <2>4, <2>5, <3>1, Names DEF IInv, SlotsFit
  <2>8. ManagersFit'
    BY <1>1, <1>3, <2>4, Names DEF IInv, ManagersFit, Opening, Launching, Tearing
  <2>9. ProcessesFit' /\ BridgesFit'
    BY <1>1, <1>2, <1>3, <2>4, Names, Sets DEF IInv, ProcessesFit, BridgesFit
  <2>10. StateFits'
    BY <1>1, <2>3, <2>4, Names, Sets DEF IInv, StateFits
  <2>11. OffFits'
    BY <1>1, <2>3, <2>4, Names DEF IInv, OffFits
  <2> QED  BY <2>3, <2>6, <2>7, <2>8, <2>9, <2>10, <2>11 DEF IInv
<1>4. CASE watchTask # None /\ Watcher(watchTask) # f
  <2> DEFINE s == Watcher(watchTask)
             h == watchTask
  <2>1. /\ watchTask' = None
        /\ flow' = [flow EXCEPT ![f].at = "presenter", ![s] = [Idle EXCEPT !.at = "done"]]
        /\ mon' = IF flow[s].at = "watching" THEN [mon EXCEPT ![h] = "done"] ELSE mon
        /\ cut' = Dropped(s)
    BY <1>4 DEF TearWatcher
  <2>2. h \in Starts /\ s \in Flows /\ s \notin Requests /\ s # f /\ s[1] = h /\ Alive(s)
    BY <1>4, Names DEF IInv, Types, SlotsFit, Slots
  <2>3. startTask = None /\ f \in Requests
    BY <1>1, <1>4, <2>2, TearsDown, Names DEF IInv, SlotsFit
  <2>4. Does(f, "presenter", None, None, {s})
    <3> DEFINE t == [flow[f] EXCEPT !.at = "presenter"]
               d == [Idle EXCEPT !.at = "done"]
    <3>1. /\ t \in FlowStates /\ t.at = "presenter" /\ t.goal = flow[f].goal
          /\ t.m = None /\ t.b = None
      BY <1>2 DEF FlowStates, Stages
    <3>2. d \in FlowStates /\ d.at = "done" /\ d.m = None /\ d.b = None
      BY DEF Idle, FlowStates, Stages, Goals, Slots
    <3>3. flow' = [flow EXCEPT ![f] = t, ![s] = d]
      BY <2>1
    <3> HIDE DEF t, d, s
    <3>4. /\ flow' \in [Flows -> FlowStates] /\ flow'[f] = t /\ flow'[s] = d
          /\ \A e \in Flows : e # f /\ e # s => flow'[e] = flow[e]
      BY <1>2, <2>2, <3>1, <3>2, <3>3
    <3> QED  BY <3>1, <3>2, <3>4 DEF Does
  <2>5. /\ StagesFit' /\ LockFits' /\ (OffComing' <=> OffComing)
        /\ \A q \in Requests : (Shuts(q)' <=> Shuts(q)) /\ flow'[q].goal = flow[q].goal
        /\ Shutting' <=> Shutting
    <3> HIDE DEF s
    <3> QED  BY <1>1, <2>2, <2>4, GoesOn
  <2>6. /\ flow' \in [Flows -> FlowStates]
        /\ \A e \in Flows : e # f /\ e # s => flow'[e] = flow[e]
        /\ flow'[f].at = "presenter" /\ flow'[f].m = None /\ flow'[f].b = None
        /\ flow'[s].at = "done" /\ flow'[s].m = None /\ flow'[s].b = None
    BY <2>4 DEF Does
  <2>7. /\ \A q \in Requests : q # f => flow'[q] = flow[q]
        /\ \A g \in Starts : flow'[Start(g)] = flow[Start(g)]
        /\ \A g \in Starts : g # h => flow'[Watcher(g)] = flow[Watcher(g)]
    BY <2>2, <2>3, <2>6, Names
  <2>8. \A g \in Starts : /\ flow'[Start(g)].at \in {"idle", "done"}
                          /\ flow'[Watcher(g)].at \in {"idle", "done"}
    <3>1. \A g \in Starts : /\ g # h => flow[Watcher(g)].at \in {"idle", "done"}
                            /\ flow[Start(g)].at \in {"idle", "done"}
      BY <2>3, OneTask, NoTask
    <3> QED  BY <2>6, <2>7, <3>1
  <2>9. \A g \in Starts : /\ flow'[Start(g)].at \notin {"refresh"}
                                                       \cup Opening \cup Launching \cup Tearing
                          /\ flow'[Watcher(g)].at \notin {"watching"} \cup Tearing
    BY <2>8 DEF Opening, Launching, Tearing
  <2>10. Types'
    <3>1. mon' \in [Starts -> {"none", "watching", "failing", "done"}] /\ cut' \subseteq Starts
      <4>1. flow[s].b \in Slots
        BY <1>2, <2>2 DEF FlowStates
      <4> QED  BY <2>1, <2>2, <4>1 DEF IInv, Types, Dropped, Slots
    <3>2. watchTask' \in Slots
      BY <2>1 DEF Slots
    <3> QED  BY <1>1, <2>6, <3>1, <3>2 DEF IInv, Types
  <2>11. \A q \in Requests : flow'[q].at \in Holding => q = f
    BY <1>1, <2>3, <2>7, TearsDown
  <2>12. SlotsFit'
    <3>1. \A g \in Starts : ~Alive(Start(g))' /\ ~Alive(Watcher(g))' /\ g # None
      BY <2>8, Names DEF Alive
    <3> QED  BY <1>1, <2>1, <2>3, <3>1 DEF SlotsFit
  <2>13. ManagersFit'
    <3>1. \A e \in Flows : /\ flow'[e].at \in {"monitor", "process", "bridge", "after"} => mgr = None
                           /\ flow'[e].at \in {"bridge", "after"} => brg = None
      BY <2>6 DEF IInv, ManagersFit
    <3>2. \A q \in Requests : flow'[q].at # "refresh"
      BY <2>6, <2>11 DEF Holding
    <3> QED  BY <1>1, <2>3, <2>6, <2>9, <3>1, <3>2 DEF ManagersFit
  <2>14. ProcessesFit'
    <3>1. \A q \in Requests : flow'[q].m = flow[q].m
      BY <1>2, <2>6, <2>7
    <3>2. \A g \in Starts : mon'[g] = mon[g] \/ g = h
      BY <2>1, <2>2 DEF IInv, Types
    <3>3. ~(h > gen)
      BY <2>2 DEF IInv, StagesFit, Alive
    <3> QED  BY <1>1, <2>9, <3>1, <3>2, <3>3 DEF IInv, ProcessesFit, Launching
  <2>15. BridgesFit'
    <3> SUFFICES ASSUME NEW g \in Starts, bridge'[g] = "up", g \notin cut', brg # g
                 PROVE  \E e \in Flows : flow'[e].b = g
      BY <1>1 DEF BridgesFit
    <3>1. g \notin cut /\ bridge[g] = "up"
      BY <1>1, <2>1 DEF Dropped
    <3>2. PICK e \in Flows : flow[e].b = g
      BY <3>1 DEF IInv, BridgesFit
    <3>3. g # None /\ e # f
      BY <1>2, <3>2, Names
    <3>4. e # s
      <4> SUFFICES ASSUME e = s PROVE FALSE
        OBVIOUS
      <4>1. flow[s].at = "bridge"
        BY <3>2, <3>3 DEF IInv, StagesFit
      <4>2. g \in cut'
        BY <2>1, <3>2, <3>3, <4>1 DEF Dropped
      <4> QED  BY <4>2
    <3> QED  BY <2>6, <3>2, <3>3, <3>4
  <2>16. StateFits'
    <3>1. state # "starting" /\ (state = "connected" => Shutting)
      BY <1>1, <2>3, TearsDown
    <3>2. \A q \in Requests : flow'[q].at \in Holding => flow[q].at \in Holding
      BY <1>1, <2>6, <2>7, Sets
    <3>3. \A q \in Requests : flow'[q].at # "refresh"
      BY <2>6, <2>11 DEF Holding
    <3> QED  BY <1>1, <2>5, <2>9, <3>1, <3>2, <3>3 DEF IInv, StateFits
  <2>17. OffFits'
    <3>1. flow[Toggle].at \in {"revealing", "hiding"}
          <=> flow'[Toggle].at \in {"revealing", "hiding"}
      BY <1>1, <2>6, <2>7, Names
    <3>2. f # Toggle => flow'[Toggle] = flow[Toggle]
      BY <2>7, Names
    <3>3. flow[Peer].at = "idle" => flow'[Peer].at = "idle"
      BY <1>1, <2>7, Names
    <3> QED  BY <1>1, <2>5, <2>6, <3>1, <3>2, <3>3, Names DEF IInv, OffFits
  <2> QED  BY <2>5, <2>10, <2>12, <2>13, <2>14, <2>15, <2>16, <2>17 DEF IInv
<1> QED  BY <1>3, <1>4 DEF TearWatcher

Late == {"presenter", "monitor", "process", "bridge", "after"}

\* When a teardown has come that far, nobody starts or watches, and nobody else tears down.
LEMMA TornOff ==
    ASSUME IInv, NEW f \in Flows, flow[f].at \in Late
    PROVE  /\ f \in Requests => startTask = None /\ watchTask = None
           /\ \A g \in Starts : /\ flow[Start(g)].at \notin {"refresh"} \cup Opening \cup Launching
                                /\ flow[Watcher(g)].at # "watching"
                                /\ flow[Start(g)].at \in Tearing => f = Start(g)
                                /\ flow[Watcher(g)].at \in Tearing => f = Watcher(g)
           /\ \A q \in Requests : q # f => flow[q].at \notin Late \cup {"refresh"}
<1>1. flow[f].at \in Tearing /\ Late \subseteq Tearing /\ "refresh" \in Holding
      /\ flow[f].at \in Holding \ {"grace", "tear", "watcher"}
      /\ \A a \in Late \cup {"refresh"} : a \in Holding \ {"grace", "tear", "watcher"}
  BY DEF Late, Tearing, Holding
<1>2. f \in Requests => startTask = None /\ watchTask = None
  BY <1>1 DEF IInv, SlotsFit
<1>3. /\ \A g \in Starts : f = Start(g) => startTask = g /\ watchTask = None
      /\ \A g \in Starts : f = Watcher(g) => watchTask = g /\ startTask = None
      /\ f \in Requests \/ \E g \in Starts : f = Start(g) \/ f = Watcher(g)
  BY <1>1, TearsDown
<1>4. ASSUME NEW g \in Starts
      PROVE  /\ f # Start(g) => flow[Start(g)].at \in {"idle", "done"}
             /\ f # Watcher(g) => flow[Watcher(g)].at \in {"idle", "done"}
  BY <1>2, <1>3, OneTask, Names
<1>5. \A a \in {"idle", "done"} : a \notin {"refresh", "watching"}
                                           \cup Opening \cup Launching \cup Tearing
  BY DEF Opening, Launching, Tearing
<1>6. \A q \in Requests : q # f => flow[q].at \notin Late \cup {"refresh"}
  <2>1. CASE f \in Requests
    BY <1>1, <2>1, TearsDown
  <2>2. CASE f \notin Requests
    BY <1>1, <1>3, <2>2, Names DEF IInv, SlotsFit
  <2> QED  BY <2>1, <2>2
<1> QED  BY <1>1, <1>2, <1>4, <1>5, <1>6, Sets

\* What a step of such a teardown leaves alone.
LEMMA LateKeeps ==
    ASSUME IInv, NEW f \in Flows, flow[f].at \in Late, NEW a \in Late, NEW m, NEW b,
           Goes(f, a, flow[f].goal, m, b),
           m # None => a \in {"monitor", "process"}, b # None => a = "bridge",
           UNCHANGED <<state, want, hidden, startTask, watchTask, lock, gen, missed>>
    PROVE  /\ StagesFit' /\ LockFits' /\ SlotsFit' /\ StateFits' /\ OffFits'
           /\ flow' \in [Flows -> FlowStates]
           /\ flow'[f].at = a /\ flow'[f].m = m /\ flow'[f].b = b
           /\ \A e \in Flows : e # f => flow'[e] = flow[e]
           /\ \A g \in Starts : /\ flow'[Start(g)].at \notin {"refresh"} \cup Opening \cup Launching
                                /\ flow'[Watcher(g)].at # "watching"
                                /\ flow'[Start(g)].at \in Tearing => f = Start(g)
                                /\ flow'[Watcher(g)].at \in Tearing => f = Watcher(g)
           /\ \A q \in Requests : q # f => flow'[q].at \notin Late \cup {"refresh"}
<1>1. /\ flow[f].at \in Tearing /\ a \in Tearing /\ a \notin {"idle", "done", "grace", "refresh"}
      /\ a \notin {"tear", "watcher"} /\ flow[f].at \notin {"tear", "watcher", "idle", "done"}
  BY DEF Late, Tearing
<1>2. /\ StagesFit' /\ LockFits' /\ (OffComing' <=> OffComing)
      /\ \A q \in Requests : (Shuts(q)' <=> Shuts(q)) /\ flow'[q].goal = flow[q].goal
      /\ Shutting' <=> Shutting
  <2>1. Does(f, a, m, b, {})
    BY DoesAlone
  <2> QED  BY <1>1, <2>1, GoesOn
<1>3. /\ \A e \in Flows : e # f => flow'[e] = flow[e]
      /\ flow'[f].at = a /\ flow'[f].goal = flow[f].goal /\ flow'[f].m = m /\ flow'[f].b = b
      /\ flow' \in [Flows -> FlowStates]
  BY DEF Goes
<1>4. \A e \in Flows : Alive(e)' <=> Alive(e)
  BY <1>1, <1>3 DEF Alive
<1>5. SlotsFit'
  BY <1>1, <1>3, <1>4, TornOff, Names DEF IInv, SlotsFit
<1>6. StateFits'
  BY <1>1, <1>2, <1>3, Names, Sets DEF IInv, StateFits
<1>7. OffFits'
  <2>1. a \notin {"revealing", "hiding"} /\ flow[f].at \notin {"revealing", "hiding", "idle"}
    BY DEF Late
  <2> QED  BY <1>1, <1>2, <1>3, <2>1, Names DEF IInv, OffFits
<1>8. \A g \in Starts : /\ flow'[Start(g)].at \notin {"refresh"} \cup Opening \cup Launching
                        /\ flow'[Watcher(g)].at # "watching"
                        /\ flow'[Start(g)].at \in Tearing => f = Start(g)
                        /\ flow'[Watcher(g)].at \in Tearing => f = Watcher(g)
  BY <1>1, <1>3, TornOff, Names, Sets
<1>9. \A q \in Requests : q # f => flow'[q].at \notin Late \cup {"refresh"}
  BY <1>3, TornOff, Names
<1> QED  BY <1>2, <1>3, <1>5, <1>6, <1>7, <1>8, <1>9

\* A manager that a teardown takes is the one of the start or watcher that tears down.
LEMMA OwnManager ==
    ASSUME IInv, NEW f \in Flows, flow[f].at \in Late, NEW g \in Starts, g \in {mgr, flow[f].m},
           proc[g] = "running"
    PROVE  f \in Requests
<1>1. flow[f].at \in Tearing
  BY DEF Late, Tearing
<1>2. CASE mgr = g
  <2>1. ASSUME NEW h \in Starts, f = Start(h) \/ f = Watcher(h) PROVE FALSE
    <3>1. mgr \in {None, h}
      BY <1>1, <2>1 DEF IInv, ManagersFit
    <3>2. g = h
      BY <1>2, <3>1, Names
    <3> QED  BY <1>1, <2>1, <3>2 DEF IInv, ProcessesFit
  <2> QED  BY <2>1, Names
<1>3. CASE mgr # g
  <2>1. PICK q \in Requests : flow[q].m = g
    BY <1>3 DEF IInv, ProcessesFit
  <2>2. flow[q].at \in Late
    BY <2>1, Names DEF IInv, StagesFit, Late
  <2> QED  BY <2>1, <2>2, TornOff
<1> QED  BY <1>2, <1>3

LEMMA TearManagerKeeps == ASSUME IInv, NEW f \in Flows, TearManager(f) PROVE IInv'
<1>1. /\ flow[f].at = "presenter" /\ flow[f].at \in Late /\ "monitor" \in Late /\ mgr' = None
      /\ flow' = [flow EXCEPT ![f].at = "monitor", ![f].m = mgr]
      /\ UNCHANGED <<state, want, hidden, target, startTask, watchTask, brg, lock>>
      /\ UNCHANGED <<gen, bridge, proc, held, asked, cut, missed>>
  BY DEF TearManager, Late
<1>2. /\ mgr = None => mstate' = mstate /\ mon' = mon
      /\ mgr # None =>
            /\ mstate' = [mstate EXCEPT ![mgr] = "stopping"]
            /\ mon' = [mon EXCEPT ![mgr] = IF mon[mgr] = "none" THEN "none" ELSE "done"]
  BY DEF TearManager
<1>3. flow \in [Flows -> FlowStates] /\ flow[f].m = None /\ flow[f].b = None /\ mgr \in Slots
  BY <1>1 DEF IInv, Types, StagesFit
<1>4. Goes(f, "monitor", flow[f].goal, mgr, None)
  <2> DEFINE s == [flow[f] EXCEPT !.at = "monitor", !.m = mgr]
  <2>1. s \in FlowStates /\ s.at = "monitor" /\ s.goal = flow[f].goal /\ s.m = mgr /\ s.b = None
    BY <1>3 DEF FlowStates, Stages
  <2>2. flow' = [flow EXCEPT ![f] = s]
    BY <1>1
  <2> HIDE DEF s
  <2> QED  BY <1>3, <2>1, <2>2, Going
<1>5. /\ StagesFit' /\ LockFits' /\ SlotsFit' /\ StateFits' /\ OffFits'
      /\ flow' \in [Flows -> FlowStates]
      /\ flow'[f].at = "monitor" /\ flow'[f].m = mgr /\ flow'[f].b = None
      /\ \A e \in Flows : e # f => flow'[e] = flow[e]
      /\ \A g \in Starts : /\ flow'[Start(g)].at \notin {"refresh"} \cup Opening \cup Launching
                           /\ flow'[Watcher(g)].at # "watching"
                           /\ flow'[Start(g)].at \in Tearing => f = Start(g)
                           /\ flow'[Watcher(g)].at \in Tearing => f = Watcher(g)
      /\ \A q \in Requests : q # f => flow'[q].at \notin Late \cup {"refresh"}
  BY <1>1, <1>4, LateKeeps
<1>6. Types'
  <2>1. mstate' \in [Starts -> {"off", "starting", "connected", "failed", "stopping"}]
        /\ mon' \in [Starts -> {"none", "watching", "failing", "done"}]
    BY <1>2, <1>3 DEF IInv, Types, Slots
  <2> QED  BY <1>1, <1>5, <2>1 DEF IInv, Types, Slots
<1>7. ManagersFit'
  <2>1. \A e \in Flows : flow'[e].at \in {"bridge", "after"} => brg = None
    BY <1>5 DEF IInv, ManagersFit
  <2>2. \A g \in Starts :
           /\ flow'[Start(g)].at \in Tearing => brg \in {None, g}
           /\ flow'[Watcher(g)].at \in Tearing => brg \in {None, g}
    BY <1>1, <1>5 DEF IInv, ManagersFit, Late, Tearing
  <2>3. brg # None =>
          \/ startTask # None \/ watchTask # None
          \/ \E r \in Requests : flow'[r].at \in {"watcher", "presenter", "monitor", "process"}
    <3> SUFFICES ASSUME brg # None, startTask = None, watchTask = None
                 PROVE  f \in Requests
      BY <1>5
    <3>1. f \in Requests
      BY <1>1, TearsDown, Names DEF Late, Tearing
    <3> QED  BY <3>1
  <2>4. \A q \in Requests : flow'[q].at # "refresh"
    BY <1>5
  <2> QED  BY <1>1, <1>5, <2>1, <2>2, <2>3, <2>4 DEF ManagersFit
<1>8. ProcessesFit'
  <2>1. ASSUME NEW g \in Starts, proc[g] = "running"
        PROVE  held[g] /\ \E q \in Requests : flow'[q].m = g
    <3>1. CASE mgr = g
      BY <1>1, <1>5, <2>1, <3>1, OwnManager DEF IInv, ProcessesFit
    <3>2. CASE mgr # g
      <4>1. PICK q \in Requests : flow[q].m = g
        BY <2>1, <3>2 DEF IInv, ProcessesFit
      <4>2. q # f
        BY <1>3, <4>1, Names
      <4> QED  BY <1>5, <2>1, <4>1, <4>2, Names DEF IInv, ProcessesFit
    <3> QED  BY <3>1, <3>2
  <2>2. ASSUME NEW g \in Starts
        PROVE  /\ mstate'[g] = "failed" => proc[g] # "running"
               /\ g > gen => proc[g] = "none" /\ mon'[g] = "none"
    BY <1>2, <1>3 DEF IInv, Types, ProcessesFit, Slots
  <2>3. \A g \in Starts : flow[Start(g)].at \in Tearing \/ flow[Watcher(g)].at \in Tearing =>
             proc[g] # "running"
    BY DEF IInv, ProcessesFit
  <2>4. \A g \in Starts : flow'[Start(g)].at \in Tearing \/ flow'[Watcher(g)].at \in Tearing =>
             proc[g] # "running"
    BY <1>1, <1>5, <2>3 DEF Late, Tearing
  <2> QED  BY <1>1, <1>5, <2>1, <2>2, <2>4 DEF ProcessesFit, Launching
<1>9. BridgesFit'
  BY <1>1, <1>3, <1>5, Names DEF IInv, BridgesFit
<1> QED  BY <1>5, <1>6, <1>7, <1>8, <1>9 DEF IInv

\* The bridge is taken, once the process has ended.
LEMMA TakeBridgeKeeps ==
    ASSUME IInv, NEW f \in Flows, flow[f].at \in {"monitor", "process"}, TakeBridge(f, flow[f].m),
           flow[f].m = None \/ proc[flow[f].m] # "running",
           UNCHANGED <<state, want, hidden, target, startTask, watchTask, mgr, lock, gen, bridge,
                       proc, held, mon, asked, cut, missed>>
    PROVE  IInv'
<1> DEFINE m == flow[f].m
<1>1. /\ flow[f].at \in Late /\ "bridge" \in Late /\ brg' = None
      /\ flow' = [flow EXCEPT ![f].at = "bridge", ![f].m = None, ![f].b = brg]
      /\ mstate' = IF m = None THEN mstate ELSE [mstate EXCEPT ![m] = "off"]
  BY DEF TakeBridge, Late
<1>2. /\ flow \in [Flows -> FlowStates] /\ flow[f].b = None /\ brg \in Slots /\ m \in Slots
      /\ mgr = None
  BY DEF IInv, Types, StagesFit, ManagersFit, FlowStates
<1>3. Goes(f, "bridge", flow[f].goal, None, brg)
  <2> DEFINE s == [flow[f] EXCEPT !.at = "bridge", !.m = None, !.b = brg]
  <2>1. s \in FlowStates /\ s.at = "bridge" /\ s.goal = flow[f].goal /\ s.m = None /\ s.b = brg
    BY <1>2 DEF FlowStates, Stages, Slots
  <2>2. flow' = [flow EXCEPT ![f] = s]
    BY <1>1
  <2> HIDE DEF s
  <2> QED  BY <1>2, <2>1, <2>2, Going
<1>4. /\ StagesFit' /\ LockFits' /\ SlotsFit' /\ StateFits' /\ OffFits'
      /\ flow' \in [Flows -> FlowStates]
      /\ flow'[f].at = "bridge" /\ flow'[f].m = None /\ flow'[f].b = brg
      /\ \A e \in Flows : e # f => flow'[e] = flow[e]
      /\ \A g \in Starts : /\ flow'[Start(g)].at \notin {"refresh"} \cup Opening \cup Launching
                           /\ flow'[Watcher(g)].at # "watching"
                           /\ flow'[Start(g)].at \in Tearing => f = Start(g)
                           /\ flow'[Watcher(g)].at \in Tearing => f = Watcher(g)
      /\ \A q \in Requests : q # f => flow'[q].at \notin Late \cup {"refresh"}
  BY <1>1, <1>3, LateKeeps
<1>5. Types'
  <2>1. mstate' \in [Starts -> {"off", "starting", "connected", "failed", "stopping"}]
    BY <1>1, <1>2 DEF IInv, Types, Slots
  <2> QED  BY <1>1, <1>4, <2>1 DEF IInv, Types, Slots
<1>6. ManagersFit'
  <2>1. \A q \in Requests : flow'[q].at # "refresh"
    BY <1>4
  <2> QED  BY <1>1, <1>2, <1>4, <2>1 DEF ManagersFit
<1>7. ProcessesFit'
  <2>1. ASSUME NEW g \in Starts, proc[g] = "running"
        PROVE  held[g] /\ \E q \in Requests : flow'[q].m = g
    <3>1. PICK q \in Requests : flow[q].m = g
      BY <1>2, <2>1, Names DEF IInv, ProcessesFit
    <3>2. q # f
      BY <2>1, <3>1, Names
    <3> QED  BY <1>4, <2>1, <3>1, <3>2, Names DEF IInv, ProcessesFit
  <2>2. ASSUME NEW g \in Starts
        PROVE  /\ mstate'[g] = "failed" => proc[g] # "running"
               /\ g > gen => proc[g] = "none" /\ mon[g] = "none"
    BY <1>1, <1>2 DEF IInv, Types, ProcessesFit, Slots
  <2>3. \A g \in Starts : flow[Start(g)].at \in Tearing \/ flow[Watcher(g)].at \in Tearing =>
             proc[g] # "running"
    BY DEF IInv, ProcessesFit
  <2>4. \A g \in Starts : flow'[Start(g)].at \in Tearing \/ flow'[Watcher(g)].at \in Tearing =>
             proc[g] # "running"
    BY <1>1, <1>4, <2>3 DEF Late, Tearing
  <2> QED  BY <1>1, <1>4, <2>1, <2>2, <2>4 DEF ProcessesFit, Launching
<1>8. BridgesFit'
  <2> SUFFICES ASSUME NEW g \in Starts, bridge[g] = "up", g \notin cut
               PROVE  \E e \in Flows : flow'[e].b = g
    BY DEF BridgesFit
  <2>1. CASE brg = g
    BY <1>4, <2>1
  <2>2. CASE brg # g
    <3>1. PICK e \in Flows : flow[e].b = g
      BY <2>2 DEF IInv, BridgesFit
    <3>2. e # f
      BY <1>2, <3>1, Names
    <3> QED  BY <1>4, <3>1, <3>2
  <2> QED  BY <2>1, <2>2
<1> QED  BY <1>4, <1>5, <1>6, <1>7, <1>8 DEF IInv

LEMMA TearProcessKeeps == ASSUME IInv, NEW f \in Flows, TearProcess(f) PROVE IInv'
<1> DEFINE m == flow[f].m
<1>1. /\ flow[f].at = "monitor" /\ flow[f].at \in Late /\ "process" \in Late
      /\ flow \in [Flows -> FlowStates] /\ flow[f].b = None /\ m \in Slots /\ mgr = None
  BY DEF TearProcess, Late, IInv, Types, StagesFit, ManagersFit, FlowStates
<1>2. CASE ~(m # None /\ held[m])
  <2>1. /\ TakeBridge(f, m)
        /\ UNCHANGED <<state, want, hidden, target, startTask, watchTask, mgr, lock, gen, bridge,
                       proc, held, mon, asked, cut, missed>>
    BY <1>2 DEF TearProcess
  <2>2. m = None \/ proc[m] # "running"
    BY <1>1, <1>2 DEF IInv, ProcessesFit, Slots
  <2> QED  BY <1>1, <2>1, <2>2, TakeBridgeKeeps
<1>3. CASE m # None /\ held[m]
  <2>1. /\ held' = [held EXCEPT ![m] = FALSE]
        /\ proc' = [proc EXCEPT ![m] = IF proc[m] = "running" THEN "signalled" ELSE proc[m]]
        /\ GoTo(f, "process")
        /\ UNCHANGED <<state, want, hidden, target, startTask, watchTask, mgr, brg, lock>>
        /\ UNCHANGED <<gen, bridge, mstate, mon, asked, cut, missed>>
    BY <1>3 DEF TearProcess, Signal
  <2>2. Goes(f, "process", flow[f].goal, m, None)
    BY <1>1, <2>1, GoesTo DEF Stages
  <2>3. /\ StagesFit' /\ LockFits' /\ SlotsFit' /\ StateFits' /\ OffFits'
        /\ flow' \in [Flows -> FlowStates]
        /\ flow'[f].at = "process" /\ flow'[f].m = m /\ flow'[f].b = None
        /\ \A e \in Flows : e # f => flow'[e] = flow[e]
        /\ \A g \in Starts : /\ flow'[Start(g)].at \notin {"refresh"} \cup Opening \cup Launching
                             /\ flow'[Watcher(g)].at # "watching"
                             /\ flow'[Start(g)].at \in Tearing => f = Start(g)
                             /\ flow'[Watcher(g)].at \in Tearing => f = Watcher(g)
        /\ \A q \in Requests : q # f => flow'[q].at \notin Late \cup {"refresh"}
    <3>1. m # None => "process" \in {"monitor", "process"}
      OBVIOUS
    <3>2. UNCHANGED <<state, want, hidden, startTask, watchTask, lock, gen, missed>>
      BY <2>1
    <3> HIDE DEF m
    <3> QED  BY <1>1, <2>2, <3>1, <3>2, LateKeeps
  <2>4. m \in Starts /\ \A g \in Starts : /\ proc'[g] = "running" => proc[g] = "running" /\ g # m
                                          /\ proc[g] = "none" <=> proc'[g] = "none"
                                          /\ g # m => held'[g] = held[g]
    BY <1>1, <1>3, <2>1 DEF IInv, Types, Slots
  <2>5. Types'
    BY <2>1, <2>3, <2>4 DEF IInv, Types, Slots
  <2>6. ManagersFit'
    <3>1. \A e \in Flows : flow'[e].at \in {"bridge", "after"} => brg = None
      BY <2>3 DEF IInv, ManagersFit
    <3>2. \A g \in Starts :
             /\ flow'[Start(g)].at \in Tearing => brg \in {None, g}
             /\ flow'[Watcher(g)].at \in Tearing => brg \in {None, g}
      BY <1>1, <2>3 DEF IInv, ManagersFit, Late, Tearing
    <3>3. brg # None =>
            \/ startTask # None \/ watchTask # None
            \/ \E r \in Requests : flow'[r].at \in {"watcher", "presenter", "monitor", "process"}
      <4> SUFFICES ASSUME brg # None, startTask = None, watchTask = None
                   PROVE  f \in Requests
        BY <2>3
      <4>1. f \in Requests
        BY <1>1, TearsDown, Names DEF Late, Tearing
      <4> QED  BY <4>1
    <3>4. \A q \in Requests : flow'[q].at # "refresh"
      BY <2>3
    <3> QED  BY <1>1, <2>1, <2>3, <3>1, <3>2, <3>3, <3>4 DEF ManagersFit
  <2>7. ProcessesFit'
    <3>1. ASSUME NEW g \in Starts, proc'[g] = "running"
          PROVE  held'[g] /\ \E q \in Requests : flow'[q].m = g
      <4>1. PICK q \in Requests : flow[q].m = g
        BY <1>1, <2>4, <3>1, Names DEF IInv, ProcessesFit
      <4>2. q # f
        BY <2>4, <3>1, <4>1
      <4> QED  BY <2>3, <2>4, <3>1, <4>1, <4>2, Names DEF IInv, ProcessesFit
    <3>2. ASSUME NEW g \in Starts
          PROVE  /\ mstate[g] = "failed" => proc'[g] # "running"
                 /\ g > gen => proc'[g] = "none" /\ mon[g] = "none"
      BY <2>4 DEF IInv, ProcessesFit
    <3>3. \A g \in Starts : flow[Start(g)].at \in Tearing \/ flow[Watcher(g)].at \in Tearing =>
               proc[g] # "running"
      BY DEF IInv, ProcessesFit
    <3>4. \A g \in Starts : flow'[Start(g)].at \in Tearing \/ flow'[Watcher(g)].at \in Tearing =>
               proc'[g] # "running"
      BY <1>1, <2>3, <2>4, <3>3 DEF Late, Tearing
    <3> QED  BY <2>1, <2>3, <3>1, <3>2, <3>4 DEF ProcessesFit, Launching
  <2>8. BridgesFit'
    BY <1>1, <2>1, <2>3, Names DEF IInv, BridgesFit
  <2> QED  BY <2>3, <2>5, <2>6, <2>7, <2>8 DEF IInv
<1> QED  BY <1>2, <1>3

LEMMA TearProcessEndsKeeps == ASSUME IInv, NEW f \in Flows, TearProcessEnds(f) PROVE IInv'
<1>1. /\ flow[f].at \in {"monitor", "process"} /\ TakeBridge(f, flow[f].m)
      /\ proc[flow[f].m] # "running"
      /\ UNCHANGED <<state, want, hidden, target, startTask, watchTask, mgr, lock, gen, bridge,
                     proc, held, mon, asked, cut, missed>>
  BY DEF TearProcessEnds
<1> QED  BY <1>1, TakeBridgeKeeps

LEMMA TearBridgeKeeps == ASSUME IInv, NEW f \in Flows, TearBridge(f) PROVE IInv'
<1> DEFINE b == flow[f].b
<1>1. /\ flow[f].at = "bridge" /\ flow[f].at \in Late /\ "after" \in Late
      /\ bridge' = [g \in Starts |-> IF g = b THEN "closed" ELSE bridge[g]] /\ target' = "none"
      /\ flow' = [flow EXCEPT ![f].at = "after", ![f].b = None]
      /\ UNCHANGED <<state, want, hidden, startTask, watchTask, mgr, brg, lock>>
      /\ UNCHANGED <<gen, proc, held, mstate, mon, asked, cut, missed>>
  BY DEF TearBridge, Late, slots, manager
<1>2. /\ flow \in [Flows -> FlowStates] /\ flow[f].m = None /\ mgr = None /\ brg = None
  BY <1>1 DEF IInv, Types, StagesFit, ManagersFit
<1>3. Goes(f, "after", flow[f].goal, None, None)
  <2> DEFINE s == [flow[f] EXCEPT !.at = "after", !.b = None]
  <2>1. s \in FlowStates /\ s.at = "after" /\ s.goal = flow[f].goal /\ s.m = None /\ s.b = None
    BY <1>2 DEF FlowStates, Stages, Slots
  <2>2. flow' = [flow EXCEPT ![f] = s]
    BY <1>1
  <2> HIDE DEF s
  <2> QED  BY <1>2, <2>1, <2>2, Going
<1>4. /\ StagesFit' /\ LockFits' /\ SlotsFit' /\ StateFits' /\ OffFits'
      /\ flow' \in [Flows -> FlowStates]
      /\ flow'[f].at = "after" /\ flow'[f].m = None /\ flow'[f].b = None
      /\ \A e \in Flows : e # f => flow'[e] = flow[e]
      /\ \A g \in Starts : /\ flow'[Start(g)].at \notin {"refresh"} \cup Opening \cup Launching
                           /\ flow'[Watcher(g)].at # "watching"
                           /\ flow'[Start(g)].at \in Tearing => f = Start(g)
                           /\ flow'[Watcher(g)].at \in Tearing => f = Watcher(g)
      /\ \A q \in Requests : q # f => flow'[q].at \notin Late \cup {"refresh"}
  BY <1>1, <1>3, LateKeeps
<1>5. Types'
  BY <1>1, <1>4 DEF IInv, Types
<1>6. ManagersFit'
  <2>1. \A q \in Requests : flow'[q].at # "refresh"
    BY <1>4
  <2> QED  BY <1>1, <1>2, <1>4, <2>1 DEF ManagersFit
<1>7. ProcessesFit'
  <2>1. \A q \in Requests : flow'[q].m = flow[q].m
    BY <1>2, <1>4, Names
  <2>2. \A g \in Starts : flow[Start(g)].at \in Tearing \/ flow[Watcher(g)].at \in Tearing =>
             proc[g] # "running"
    BY DEF IInv, ProcessesFit
  <2>3. \A g \in Starts : flow'[Start(g)].at \in Tearing \/ flow'[Watcher(g)].at \in Tearing =>
             proc[g] # "running"
    BY <1>1, <1>4, <2>2 DEF Late, Tearing
  <2>4. \A g \in Starts :
          /\ proc[g] = "running" => held[g] /\ \E q \in Requests : flow'[q].m = g
          /\ mstate[g] = "failed" => proc[g] # "running"
          /\ g > gen => proc[g] = "none" /\ mon[g] = "none"
    BY <1>2, <2>1, Names DEF IInv, ProcessesFit
  <2> QED  BY <1>1, <1>4, <2>3, <2>4 DEF ProcessesFit, Launching
<1>8. BridgesFit'
  <2> SUFFICES ASSUME NEW g \in Starts, bridge'[g] = "up", g \notin cut
               PROVE  \E e \in Flows : flow'[e].b = g
    BY <1>1 DEF BridgesFit
  <2>1. bridge[g] = "up" /\ g # b /\ g # None
    BY <1>1, Names
  <2>2. PICK e \in Flows : flow[e].b = g
    BY <1>2, <2>1 DEF IInv, BridgesFit
  <2> QED  BY <1>4, <2>1, <2>2
<1> QED  BY <1>4, <1>5, <1>6, <1>7, <1>8 DEF IInv

-----------------------------------------------------------------------------
(* Starts and watchers.                                                     *)

\* A move of flows that are no requests leaves the queue and the requests alone.
LEMMA TasksMove ==
    ASSUME IInv, \A q \in Requests : flow'[q] = flow[q], UNCHANGED lock
    PROVE  /\ LockFits' /\ (OffComing' <=> OffComing)
           /\ \A q \in Requests : Shuts(q)' <=> Shuts(q)
           /\ Shutting' <=> Shutting
<1>1. \A i \in 1..Len(lock) : lock[i] \in Requests
  BY DEF IInv, Types
<1>2. LockFits'
  BY <1>1 DEF IInv, LockFits
<1>3. OffComing' <=> OffComing
  BY <1>1 DEF OffComing
<1>4. \A q \in Requests : Shuts(q)' <=> Shuts(q)
  BY DEF Shuts
<1> QED  BY <1>2, <1>3, <1>4 DEF Shutting

LEMMA OffStill ==
    ASSUME IInv, \A q \in Requests : flow'[q] = flow[q], UNCHANGED <<lock, want, hidden, missed>>,
           state \in {"off", "failed"} => state' \in {"off", "failed"}
    PROVE  OffFits'
BY TasksMove, Names DEF IInv, OffFits

\* A start that is at work is alone.
LEMMA StartAlone ==
    ASSUME IInv, NEW g \in Starts, Alive(Start(g))
    PROVE  /\ startTask = g /\ watchTask = None /\ ~(g > gen) /\ g # None
           /\ \A h \in Starts : h # g => flow[Start(h)].at \in {"idle", "done"}
           /\ \A h \in Starts : flow[Watcher(h)].at \in {"idle", "done"}
           /\ \A q \in Requests : flow[q].at \notin Holding \ {"grace", "tear"}
           /\ Start(g) \in Flows /\ flow \in [Flows -> FlowStates]
<1>1. startTask = g /\ watchTask = None /\ g # None
  BY Names, OneTask
<1>2. ~(g > gen)
  BY DEF IInv, StagesFit, Alive
<1>3. /\ \A h \in Starts : h # g => flow[Start(h)].at \in {"idle", "done"}
      /\ \A h \in Starts : flow[Watcher(h)].at \in {"idle", "done"}
  BY <1>1, OneTask, NoTask
<1>4. \A q \in Requests : flow[q].at \notin Holding \ {"grace", "tear"}
  BY <1>1 DEF IInv, SlotsFit
<1> QED  BY <1>1, <1>2, <1>3, <1>4, Names DEF IInv, Types

\* A watcher that is at work is alone.
LEMMA WatcherAlone ==
    ASSUME IInv, NEW g \in Starts, Alive(Watcher(g))
    PROVE  /\ watchTask = g /\ startTask = None /\ ~(g > gen) /\ g # None
           /\ \A h \in Starts : h # g => flow[Watcher(h)].at \in {"idle", "done"}
           /\ \A h \in Starts : flow[Start(h)].at \in {"idle", "done"}
           /\ \A q \in Requests : flow[q].at \notin Holding \ {"grace", "tear", "watcher"}
           /\ Watcher(g) \in Flows /\ flow \in [Flows -> FlowStates]
<1>1. watchTask = g /\ startTask = None /\ g # None
  BY Names, OneTask
<1>2. ~(g > gen)
  BY DEF IInv, StagesFit, Alive
<1>3. /\ \A h \in Starts : h # g => flow[Watcher(h)].at \in {"idle", "done"}
      /\ \A h \in Starts : flow[Start(h)].at \in {"idle", "done"}
  BY <1>1, OneTask, NoTask
<1>4. \A q \in Requests : flow[q].at \notin Holding \ {"grace", "tear", "watcher"}
  BY <1>1 DEF IInv, SlotsFit
<1> QED  BY <1>1, <1>2, <1>3, <1>4, Names DEF IInv, Types

\* The flow of a start goes on to a stage of its own.
LEMMA StartMoves ==
    ASSUME IInv, NEW g \in Starts, Alive(Start(g)),
           flow[Start(g)].m = None, flow[Start(g)].b = None,
           NEW a \in {"opening", "spawning", "startup", "ready", "refresh", "tear"},
           GoTo(Start(g), a), UNCHANGED <<lock, gen, startTask, watchTask>>
    PROVE  /\ StagesFit' /\ LockFits' /\ SlotsFit' /\ (OffComing' <=> OffComing)
           /\ \A q \in Requests : (Shuts(q)' <=> Shuts(q)) /\ flow'[q] = flow[q]
           /\ Shutting' <=> Shutting
           /\ flow' \in [Flows -> FlowStates]
           /\ flow'[Start(g)].at = a
           /\ \A e \in Flows : flow'[e].m = flow[e].m /\ flow'[e].b = flow[e].b
           /\ \A e \in Flows : e # Start(g) => flow'[e] = flow[e]
           /\ \A h \in Starts : h # g => flow'[Start(h)].at \in {"idle", "done"}
           /\ \A h \in Starts : flow'[Watcher(h)].at \in {"idle", "done"}
<1>1. /\ startTask = g /\ watchTask = None /\ ~(g > gen) /\ g # None
      /\ \A h \in Starts : h # g => flow[Start(h)].at \in {"idle", "done"}
      /\ \A h \in Starts : flow[Watcher(h)].at \in {"idle", "done"}
      /\ Start(g) \in Flows /\ flow \in [Flows -> FlowStates]
  BY StartAlone
<1>2. Goes(Start(g), a, flow[Start(g)].goal, None, None)
  <2>1. a \in Stages
    BY DEF Stages
  <2> QED  BY <1>1, <2>1, GoesTo
<1>3. /\ flow' \in [Flows -> FlowStates]
      /\ flow'[Start(g)].at = a /\ flow'[Start(g)].m = None /\ flow'[Start(g)].b = None
      /\ \A e \in Flows : e # Start(g) => flow'[e] = flow[e]
      /\ \A q \in Requests : flow'[q] = flow[q]
      /\ \A h \in Starts : flow'[Watcher(h)] = flow[Watcher(h)]
      /\ \A h \in Starts : h # g => flow'[Start(h)] = flow[Start(h)]
  BY <1>2, Names DEF Goes
<1>4. /\ a \in {"idle", "done", "refresh"} \cup Opening \cup Launching \cup Tearing
      /\ a \notin {"idle", "done"}
  BY DEF Opening, Launching, Tearing
<1>5. StagesFit'
  BY <1>1, <1>3, <1>4 DEF IInv, StagesFit
<1>6. \A e \in Flows : Alive(e)' <=> Alive(e)
  BY <1>3, <1>4 DEF Alive
<1>7. SlotsFit'
  BY <1>3, <1>6, Names DEF IInv, SlotsFit
<1> QED  BY <1>1, <1>3, <1>5, <1>7, TasksMove

LEMMA TornByTaskKeeps == ASSUME IInv, NEW f \in Flows, TornByTask(f) PROVE IInv'
<1>1. /\ f \notin Requests /\ flow[f].at = "after" /\ flow[f].at \in Late /\ flow[f].at \in Tearing
      /\ flow' = [flow EXCEPT ![f] = [Idle EXCEPT !.at = "done"]]
      /\ startTask' = IF f = Start(startTask) THEN None ELSE startTask
      /\ watchTask' = IF f = Watcher(watchTask) THEN None ELSE watchTask
      /\ UNCHANGED <<state, want, hidden, target, mgr, brg, lock>>
      /\ UNCHANGED <<gen, bridge, proc, held, mstate, mon, asked, cut, missed>>
  BY DEF TornByTask, Late, Tearing, manager
<1>2. /\ flow \in [Flows -> FlowStates] /\ flow[f].m = None /\ flow[f].b = None
      /\ mgr = None /\ brg = None
  BY <1>1 DEF IInv, Types, StagesFit, ManagersFit
<1>3. Goes(f, "done", "none", None, None)
  <2> DEFINE d == [Idle EXCEPT !.at = "done"]
  <2>1. d \in FlowStates /\ d.at = "done" /\ d.goal = "none" /\ d.m = None /\ d.b = None
    BY DEF Idle, FlowStates, Stages, Goals, Slots
  <2>2. flow' = [flow EXCEPT ![f] = d]
    BY <1>1
  <2> HIDE DEF d
  <2> QED  BY <1>2, <2>1, <2>2, Going
<1>4. /\ flow' \in [Flows -> FlowStates]
      /\ flow'[f].at = "done" /\ flow'[f].m = None /\ flow'[f].b = None
      /\ \A e \in Flows : e # f => flow'[e] = flow[e]
      /\ \A q \in Requests : flow'[q] = flow[q]
  BY <1>1, <1>3, Names DEF Goes
<1>5. /\ LockFits' /\ (OffComing' <=> OffComing)
      /\ \A q \in Requests : Shuts(q)' <=> Shuts(q)
      /\ Shutting' <=> Shutting
  BY <1>1, <1>4, TasksMove
<1>6. startTask' = None /\ watchTask' = None
  <2>1. PICK g \in Starts : f = Start(g) \/ f = Watcher(g)
    BY <1>1, Names
  <2>2. CASE f = Start(g)
    BY <1>1, <2>2, TearsDown, Names
  <2>3. CASE f = Watcher(g)
    BY <1>1, <2>3, TearsDown, Names
  <2> QED  BY <2>1, <2>2, <2>3
<1>7. \A g \in Starts : /\ flow'[Start(g)].at \in {"idle", "done"}
                        /\ flow'[Watcher(g)].at \in {"idle", "done"}
  <2>1. \A g \in Starts : /\ flow[Start(g)].at \notin {"refresh"} \cup Opening \cup Launching
                          /\ flow[Watcher(g)].at # "watching"
                          /\ flow[Start(g)].at \in Tearing => f = Start(g)
                          /\ flow[Watcher(g)].at \in Tearing => f = Watcher(g)
    BY <1>1, TornOff
  <2>2. \A g \in Starts :
          /\ flow[Start(g)].at \in {"idle", "done", "refresh"}
                                   \cup Opening \cup Launching \cup Tearing
          /\ flow[Watcher(g)].at \in {"idle", "done", "watching"} \cup Tearing
    BY DEF IInv, StagesFit
  <2> QED  BY <1>4, <2>1, <2>2, Names
<1>8. \A g \in Starts : /\ flow'[Start(g)].at \notin {"refresh"}
                                                     \cup Opening \cup Launching \cup Tearing
                        /\ flow'[Watcher(g)].at \notin {"watching"} \cup Tearing
  BY <1>7 DEF Opening, Launching, Tearing
<1>9. Types'
  BY <1>1, <1>4, <1>6 DEF IInv, Types, Slots
<1>10. StagesFit'
  <2>1. \A g \in Starts : g > gen => f # Start(g) /\ f # Watcher(g)
    BY <1>1 DEF IInv, StagesFit
  <2>2. \A g \in Starts : g > gen' => flow'[Start(g)].at = "idle" /\ flow'[Watcher(g)].at = "idle"
    BY <1>1, <1>4, <2>1, Names DEF IInv, StagesFit
  <2> QED  BY <1>4, <1>7, <2>2 DEF IInv, StagesFit
<1>11. SlotsFit'
  <2>1. \A g \in Starts : ~Alive(Start(g))' /\ ~Alive(Watcher(g))' /\ g # None
    BY <1>7, Names DEF Alive
  <2> QED  BY <1>6, <2>1 DEF SlotsFit
<1>12. ManagersFit'
  BY <1>1, <1>2, <1>8 DEF ManagersFit
<1>13. ProcessesFit'
  <2>1. \A g \in Starts :
          /\ proc[g] = "running" => held[g] /\ \E q \in Requests : flow'[q].m = g
          /\ mstate[g] = "failed" => proc[g] # "running"
          /\ g > gen => proc[g] = "none" /\ mon[g] = "none"
    BY <1>2, <1>4, Names DEF IInv, ProcessesFit
  <2> QED  BY <1>1, <1>8, <2>1 DEF ProcessesFit, Launching
<1>14. BridgesFit'
  BY <1>1, <1>2, <1>4, Names DEF IInv, BridgesFit
<1>15. StateFits'
  <2>1. state # "starting"
    BY <1>1, TornOff DEF IInv, StateFits
  <2>2. state = "connected" => Shutting
    BY <1>1, TornOff DEF IInv, StateFits
  <2> QED  BY <1>1, <1>4, <1>5, <1>8, <2>1, <2>2 DEF IInv, StateFits
<1>16. OffFits'
  BY <1>1, <1>4, OffStill
<1> QED  BY <1>5, <1>9, <1>10, <1>11, <1>12, <1>13, <1>14, <1>15, <1>16 DEF IInv

\* While a start is at work no request is further than the beginning of its teardown.
LEMMA NoneFurther ==
    ASSUME IInv, NEW g \in Starts, Alive(Start(g)), flow[Start(g)].at \notin Tearing
    PROVE  /\ \A e \in Flows : flow[e].at \notin {"monitor", "process", "bridge", "after"}
           /\ \A e \in Flows : flow[e].m = None /\ flow[e].b = None
           /\ \A q \in Requests : flow[q].at # "refresh"
<1>1. \A a \in {"monitor", "process", "bridge", "after"} :
         a \in Holding \ {"grace", "tear"} /\ a \in Tearing /\ a \notin {"idle", "done"}
  BY DEF Holding, Tearing
<1>2. \A e \in Flows : flow[e].at \notin {"monitor", "process", "bridge", "after"}
  BY <1>1, StartAlone, Names
<1>3. \A q \in Requests : flow[q].at # "refresh"
  BY StartAlone DEF Holding
<1> QED  BY <1>2, <1>3 DEF IInv, StagesFit

LEMMA StartRunsKeeps == ASSUME IInv, NEW g \in Starts, StartRuns(g) PROVE IInv'
<1>1. /\ flow[Start(g)].at = "created" /\ flow[Start(g)].at \notin Tearing /\ Alive(Start(g))
      /\ GoTo(Start(g), "opening")
      /\ UNCHANGED <<state, want, hidden, target, startTask, watchTask, mgr, brg, lock>>
      /\ UNCHANGED <<gen, bridge, proc, held, mstate, mon, asked, cut, missed>>
  BY DEF StartRuns, Alive, Tearing, slots, manager
<1>2. /\ \A e \in Flows : flow[e].at \notin {"monitor", "process", "bridge", "after"}
      /\ \A e \in Flows : flow[e].m = None /\ flow[e].b = None
      /\ \A q \in Requests : flow[q].at # "refresh"
      /\ startTask = g /\ g # None /\ Start(g) \in Flows
  BY <1>1, NoneFurther, StartAlone
<1>3. /\ StagesFit' /\ LockFits' /\ SlotsFit' /\ (OffComing' <=> OffComing)
      /\ \A q \in Requests : (Shuts(q)' <=> Shuts(q)) /\ flow'[q] = flow[q]
      /\ Shutting' <=> Shutting
      /\ flow' \in [Flows -> FlowStates]
      /\ flow'[Start(g)].at = "opening"
      /\ \A e \in Flows : flow'[e].m = flow[e].m /\ flow'[e].b = flow[e].b
      /\ \A e \in Flows : e # Start(g) => flow'[e] = flow[e]
      /\ \A h \in Starts : h # g => flow'[Start(h)].at \in {"idle", "done"}
      /\ \A h \in Starts : flow'[Watcher(h)].at \in {"idle", "done"}
  BY <1>1, <1>2, StartMoves
<1>4. \A h \in Starts :
         /\ h # g => flow'[Start(h)].at \notin {"refresh"}
                                               \cup Opening \cup Launching \cup Tearing
         /\ flow'[Watcher(h)].at \notin {"watching"} \cup Tearing
         /\ flow'[Start(g)].at \in Opening /\ flow[Start(g)].at \in Opening
         /\ flow'[Start(g)].at \notin {"refresh"} \cup Launching \cup Tearing
  BY <1>1, <1>3 DEF Opening, Launching, Tearing
<1>5. Types'
  BY <1>1, <1>3 DEF IInv, Types
<1>6. ManagersFit'
  BY <1>1, <1>2, <1>3, <1>4 DEF IInv, ManagersFit
<1>7. ProcessesFit'
  <2>1. \A h \in Starts :
          /\ proc[h] = "running" => held[h] /\ mgr = h
          /\ mstate[h] = "failed" => proc[h] # "running"
          /\ h > gen => proc[h] = "none" /\ mon[h] = "none"
    BY <1>2, Names DEF IInv, ProcessesFit
  <2>2. proc[g] = "none" /\ mon[g] = "none"
    BY <1>4 DEF IInv, ProcessesFit
  <2> QED  BY <1>1, <1>4, <2>1, <2>2 DEF ProcessesFit, Launching
<1>8. BridgesFit'
  BY <1>1, <1>3 DEF IInv, BridgesFit
<1>9. StateFits'
  BY <1>1, <1>3, <1>4, Names DEF IInv, StateFits
<1>10. OffFits'
  BY <1>1, <1>3, OffStill
<1> QED  BY <1>3, <1>5, <1>6, <1>7, <1>8, <1>9, <1>10 DEF IInv

\* A start that fails, for whatever reason.
LEMMA StartFailedKeeps ==
    ASSUME IInv, NEW g \in Starts, flow[Start(g)].at \in {"opening", "spawning", "ready"},
           proc[g] # "running", StartFailed(g),
           mstate' = mstate \/ mstate' = [mstate EXCEPT ![g] = "failed"],
           UNCHANGED <<want, hidden, target, slots, lock, gen, bridge, proc, held, mon, asked,
                       cut, missed>>
    PROVE  IInv'
<1>1. /\ flow[Start(g)].at \notin Tearing /\ Alive(Start(g)) /\ state' = "failed"
      /\ GoTo(Start(g), "tear")
      /\ UNCHANGED <<want, hidden, target, startTask, watchTask, mgr, brg, lock>>
      /\ UNCHANGED <<gen, bridge, proc, held, mon, asked, cut, missed>>
  BY DEF StartFailed, Alive, Tearing, slots
<1>2. /\ \A e \in Flows : flow[e].at \notin {"monitor", "process", "bridge", "after"}
      /\ \A e \in Flows : flow[e].m = None /\ flow[e].b = None
      /\ \A q \in Requests : flow[q].at # "refresh"
      /\ startTask = g /\ g # None /\ Start(g) \in Flows
  BY <1>1, NoneFurther, StartAlone
<1>3. /\ StagesFit' /\ LockFits' /\ SlotsFit' /\ (OffComing' <=> OffComing)
      /\ \A q \in Requests : (Shuts(q)' <=> Shuts(q)) /\ flow'[q] = flow[q]
      /\ Shutting' <=> Shutting
      /\ flow' \in [Flows -> FlowStates]
      /\ flow'[Start(g)].at = "tear"
      /\ \A e \in Flows : flow'[e].m = flow[e].m /\ flow'[e].b = flow[e].b
      /\ \A e \in Flows : e # Start(g) => flow'[e] = flow[e]
      /\ \A h \in Starts : h # g => flow'[Start(h)].at \in {"idle", "done"}
      /\ \A h \in Starts : flow'[Watcher(h)].at \in {"idle", "done"}
  BY <1>1, <1>2, StartMoves
<1>4. \A h \in Starts :
         /\ h # g => flow'[Start(h)].at \notin {"refresh"}
                                               \cup Opening \cup Launching \cup Tearing
         /\ flow'[Watcher(h)].at \notin {"watching"} \cup Tearing
         /\ flow'[Start(g)].at \notin {"refresh"} \cup Opening \cup Launching
  BY <1>3 DEF Opening, Launching, Tearing
<1>5. \A h \in Starts : mstate'[h] = mstate[h] \/ (h = g /\ mstate'[h] = "failed")
  BY DEF IInv, Types
<1>6. Types'
  <2>1. mstate' \in [Starts -> {"off", "starting", "connected", "failed", "stopping"}]
    BY DEF IInv, Types
  <2> QED  BY <1>1, <1>3, <2>1 DEF IInv, Types
<1>7. ManagersFit'
  <2>1. mgr \in {None, g} /\ brg \in {None, g}
    BY DEF IInv, ManagersFit, Opening, Launching
  <2>2. \A e \in Flows : flow'[e].at \notin {"monitor", "process", "bridge", "after"}
    BY <1>2, <1>3
  <2> QED  BY <1>1, <1>2, <1>3, <1>4, <2>1, <2>2 DEF ManagersFit
<1>8. ProcessesFit'
  <2>1. \A h \in Starts :
          /\ proc[h] = "running" => held[h] /\ mgr = h
          /\ mstate'[h] = "failed" => proc[h] # "running"
          /\ h > gen => proc[h] = "none" /\ mon[h] = "none"
    BY <1>2, <1>5, Names DEF IInv, ProcessesFit
  <2> QED  BY <1>1, <1>4, <2>1 DEF ProcessesFit, Launching
<1>9. BridgesFit'
  BY <1>1, <1>3 DEF IInv, BridgesFit
<1>10. StateFits'
  BY <1>1, <1>2, <1>3, <1>4, Names DEF IInv, StateFits
<1>11. OffFits'
  BY <1>1, <1>3, OffStill
<1> QED  BY <1>3, <1>6, <1>7, <1>8, <1>9, <1>10, <1>11 DEF IInv

LEMMA FailuresKeep ==
    ASSUME IInv, NEW g \in Starts, BridgeFails(g) \/ SpawnFails(g) \/ StartRefused(g)
    PROVE  IInv'
<1>1. CASE BridgeFails(g)
  <2>1. proc[g] # "running"
    BY <1>1 DEF BridgeFails, IInv, ProcessesFit, Opening
  <2> QED  BY <1>1, <2>1, StartFailedKeeps DEF BridgeFails, manager
<1>2. CASE SpawnFails(g)
  <2>1. proc[g] # "running"
    BY <1>2 DEF SpawnFails, IInv, ProcessesFit
  <2> QED  BY <1>2, <2>1, StartFailedKeeps DEF SpawnFails
<1>3. CASE StartRefused(g)
  <2>1. proc[g] # "running"
    BY <1>3 DEF StartRefused, IInv, ProcessesFit
  <2> QED  BY <1>3, <2>1, StartFailedKeeps DEF StartRefused, manager
<1> QED  BY <1>1, <1>2, <1>3

LEMMA BridgeUpKeeps == ASSUME IInv, NEW g \in Starts, BridgeUp(g) PROVE IInv'
<1>1. /\ flow[Start(g)].at = "opening" /\ flow[Start(g)].at \notin Tearing /\ Alive(Start(g))
      /\ flow[Start(g)].at \in Opening
      /\ GoTo(Start(g), "spawning") /\ brg' = g /\ mgr' = g
      /\ bridge' = [bridge EXCEPT ![g] = "up"] /\ mstate' = [mstate EXCEPT ![g] = "starting"]
      /\ UNCHANGED <<state, want, hidden, target, startTask, watchTask, lock>>
      /\ UNCHANGED <<gen, proc, held, mon, asked, cut, missed>>
  BY DEF BridgeUp, Alive, Opening, Tearing
<1>2. /\ \A e \in Flows : flow[e].at \notin {"monitor", "process", "bridge", "after"}
      /\ \A e \in Flows : flow[e].m = None /\ flow[e].b = None
      /\ \A q \in Requests : flow[q].at # "refresh"
      /\ startTask = g /\ g # None /\ Start(g) \in Flows
  BY <1>1, NoneFurther, StartAlone
<1>3. /\ StagesFit' /\ LockFits' /\ SlotsFit' /\ (OffComing' <=> OffComing)
      /\ \A q \in Requests : (Shuts(q)' <=> Shuts(q)) /\ flow'[q] = flow[q]
      /\ Shutting' <=> Shutting
      /\ flow' \in [Flows -> FlowStates]
      /\ flow'[Start(g)].at = "spawning"
      /\ \A e \in Flows : flow'[e].m = flow[e].m /\ flow'[e].b = flow[e].b
      /\ \A e \in Flows : e # Start(g) => flow'[e] = flow[e]
      /\ \A h \in Starts : h # g => flow'[Start(h)].at \in {"idle", "done"}
      /\ \A h \in Starts : flow'[Watcher(h)].at \in {"idle", "done"}
  BY <1>1, <1>2, StartMoves
<1>4. \A h \in Starts :
         /\ h # g => flow'[Start(h)].at \notin {"refresh"}
                                               \cup Opening \cup Launching \cup Tearing
         /\ flow'[Watcher(h)].at \notin {"watching"} \cup Tearing
         /\ flow'[Start(g)].at \in Launching
         /\ flow'[Start(g)].at \notin {"refresh"} \cup Opening \cup Tearing
  BY <1>3 DEF Opening, Launching, Tearing
<1>5. mgr = None /\ brg = None
  BY <1>1 DEF IInv, ManagersFit
<1>6. Types'
  <2>1. /\ mstate' \in [Starts -> {"off", "starting", "connected", "failed", "stopping"}]
        /\ bridge' \in [Starts -> {"none", "up", "closed"}] /\ g \in Slots
    BY <1>1 DEF IInv, Types, Slots
  <2> QED  BY <1>1, <1>3, <2>1 DEF IInv, Types
<1>7. ManagersFit'
  <2>1. \A e \in Flows : flow'[e].at \notin {"monitor", "process", "bridge", "after"}
    BY <1>2, <1>3
  <2> QED  BY <1>1, <1>2, <1>3, <1>4, <2>1 DEF ManagersFit
<1>8. ProcessesFit'
  <2>1. \A h \in Starts :
          /\ proc[h] # "running"
          /\ h > gen => proc[h] = "none" /\ mon[h] = "none"
    BY <1>2, <1>5, Names DEF IInv, ProcessesFit
  <2>2. proc[g] = "none" /\ mon[g] = "none" /\ mstate'[g] = "starting"
    BY <1>1 DEF IInv, ProcessesFit, Types
  <2> QED  BY <1>1, <1>3, <1>4, <2>1, <2>2 DEF ProcessesFit, Launching
<1>9. BridgesFit'
  BY <1>1, <1>2, <1>5, Names DEF IInv, BridgesFit, Types
<1>10. StateFits'
  <2>1. \A h \in Starts : flow[Start(h)].at \in Opening \cup Launching
                          <=> flow'[Start(h)].at \in Opening \cup Launching
    BY <1>1, <1>3, <1>4, Names
  <2>2. \A h \in Starts : flow'[Start(h)].at # "refresh" /\ flow'[Watcher(h)].at # "watching"
    BY <1>3, <1>4
  <2>3. state # "connected" \/ Shutting
    BY <1>1 DEF IInv, StateFits
  <2> QED  BY <1>1, <1>3, <2>1, <2>2, <2>3 DEF IInv, StateFits
<1>11. OffFits'
  BY <1>1, <1>3, OffStill
<1> QED  BY <1>3, <1>6, <1>7, <1>8, <1>9, <1>10, <1>11 DEF IInv

\* The manager goes on with a launch: only the processes change.
LEMMA LaunchMoves ==
    ASSUME IInv, NEW g \in Starts, flow[Start(g)].at \in {"spawning", "startup"},
           NEW a \in {"startup", "ready"}, GoTo(Start(g), a),
           UNCHANGED <<state, want, hidden, target, slots, lock, gen, bridge, asked, cut, missed>>
    PROVE  /\ StagesFit' /\ LockFits' /\ SlotsFit' /\ ManagersFit'
           /\ BridgesFit' /\ StateFits' /\ OffFits'
           /\ flow' \in [Flows -> FlowStates] /\ flow'[Start(g)].at = a
           /\ \A h \in Starts :
                 /\ h # g => flow'[Start(h)].at \notin {"refresh"}
                                                       \cup Opening \cup Launching \cup Tearing
                 /\ flow'[Watcher(h)].at \notin {"watching"} \cup Tearing
                 /\ flow'[Start(g)].at \notin {"refresh"} \cup Opening \cup Tearing
           /\ mgr = g /\ mgr' = g /\ ~(g > gen) /\ \A e \in Flows : flow[e].m = None
<1>1. /\ flow[Start(g)].at \notin Tearing /\ Alive(Start(g)) /\ flow[Start(g)].at \in Launching
      /\ UNCHANGED <<state, want, hidden, target, startTask, watchTask, mgr, brg, lock>>
      /\ UNCHANGED <<gen, bridge, asked, cut, missed>>
  BY DEF Alive, Tearing, Launching, slots
<1>2. /\ \A e \in Flows : flow[e].at \notin {"monitor", "process", "bridge", "after"}
      /\ \A e \in Flows : flow[e].m = None /\ flow[e].b = None
      /\ \A q \in Requests : flow[q].at # "refresh"
      /\ startTask = g /\ g # None /\ Start(g) \in Flows /\ ~(g > gen)
  BY <1>1, NoneFurther, StartAlone
<1>3. /\ StagesFit' /\ LockFits' /\ SlotsFit' /\ (OffComing' <=> OffComing)
      /\ \A q \in Requests : (Shuts(q)' <=> Shuts(q)) /\ flow'[q] = flow[q]
      /\ Shutting' <=> Shutting
      /\ flow' \in [Flows -> FlowStates]
      /\ flow'[Start(g)].at = a
      /\ \A e \in Flows : flow'[e].m = flow[e].m /\ flow'[e].b = flow[e].b
      /\ \A e \in Flows : e # Start(g) => flow'[e] = flow[e]
      /\ \A h \in Starts : h # g => flow'[Start(h)].at \in {"idle", "done"}
      /\ \A h \in Starts : flow'[Watcher(h)].at \in {"idle", "done"}
  BY <1>1, <1>2, StartMoves
<1>4. \A h \in Starts :
         /\ h # g => flow'[Start(h)].at \notin {"refresh"}
                                               \cup Opening \cup Launching \cup Tearing
         /\ flow'[Watcher(h)].at \notin {"watching"} \cup Tearing
         /\ flow'[Start(g)].at \in Launching
         /\ flow'[Start(g)].at \notin {"refresh"} \cup Opening \cup Tearing
  BY <1>3 DEF Opening, Launching, Tearing
<1>5. mgr = g /\ brg = g
  BY <1>1 DEF IInv, ManagersFit
<1>6. ManagersFit'
  <2>1. \A e \in Flows : flow'[e].at \notin {"monitor", "process", "bridge", "after"}
    BY <1>2, <1>3
  <2> QED  BY <1>1, <1>2, <1>3, <1>4, <1>5, <2>1 DEF ManagersFit
<1>7. BridgesFit'
  BY <1>1, <1>3 DEF IInv, BridgesFit
<1>8. StateFits'
  <2>1. \A h \in Starts : flow[Start(h)].at \in Opening \cup Launching
                          <=> flow'[Start(h)].at \in Opening \cup Launching
    BY <1>1, <1>3, <1>4, Names
  <2>2. \A h \in Starts : flow'[Start(h)].at # "refresh" /\ flow'[Watcher(h)].at # "watching"
    BY <1>3, <1>4
  <2>3. state # "connected" \/ Shutting
    BY <1>1 DEF IInv, StateFits
  <2> QED  BY <1>1, <1>3, <2>1, <2>2, <2>3 DEF IInv, StateFits
<1>9. OffFits'
  BY <1>1, <1>3, OffStill
<1> QED  BY <1>1, <1>2, <1>3, <1>4, <1>5, <1>6, <1>7, <1>8, <1>9

\* Whatever of its process a manager loses, it loses with a signal.
LEMMA Signals ==
    ASSUME Types, NEW g \in Starts, Signal(g)
    PROVE  /\ proc' \in [Starts -> {"none", "running", "signalled", "dead"}]
           /\ proc'[g] # "running"
           /\ \A h \in Starts : /\ h # g => proc'[h] = proc[h]
                                /\ proc'[h] = "none" <=> proc[h] = "none"
BY DEF Types, Signal

LEMMA SpawnedKeeps == ASSUME IInv, NEW g \in Starts, Spawned(g) PROVE IInv'
<1>1. /\ flow[Start(g)].at = "spawning" /\ GoTo(Start(g), "startup")
      /\ proc' = [proc EXCEPT ![g] = "running"] /\ held' = [held EXCEPT ![g] = TRUE]
      /\ UNCHANGED <<state, want, hidden, target, slots, lock, gen, bridge, asked, cut, missed>>
      /\ UNCHANGED <<state, want, hidden, target, startTask, watchTask, mgr, brg, lock>>
      /\ UNCHANGED <<gen, bridge, mstate, mon, asked, cut, missed>>
  BY DEF Spawned, slots
<1>2. /\ StagesFit' /\ LockFits' /\ SlotsFit' /\ ManagersFit'
      /\ BridgesFit' /\ StateFits' /\ OffFits'
      /\ flow' \in [Flows -> FlowStates] /\ flow'[Start(g)].at = "startup"
      /\ \A h \in Starts :
            /\ h # g => flow'[Start(h)].at \notin {"refresh"}
                                                  \cup Opening \cup Launching \cup Tearing
            /\ flow'[Watcher(h)].at \notin {"watching"} \cup Tearing
            /\ flow'[Start(g)].at \notin {"refresh"} \cup Opening \cup Tearing
      /\ mgr = g /\ mgr' = g /\ ~(g > gen) /\ \A e \in Flows : flow[e].m = None
  BY <1>1, LaunchMoves
<1>3. /\ proc' \in [Starts -> {"none", "running", "signalled", "dead"}]
      /\ held' \in [Starts -> BOOLEAN] /\ held'[g]
      /\ \A h \in Starts : h # g => proc'[h] = proc[h] /\ held'[h] = held[h]
  BY <1>1 DEF IInv, Types
<1>4. Types'
  BY <1>1, <1>2, <1>3 DEF IInv, Types
<1>5. ProcessesFit'
  <2>1. mstate[g] = "starting" /\ mon[g] = "none"
    BY <1>1 DEF IInv, ProcessesFit
  <2>2. \A h \in Starts : h # g => proc[h] # "running" /\ (h > gen => proc[h] = "none" /\ mon[h] = "none")
    BY <1>2, Names DEF IInv, ProcessesFit
  <2> QED  BY <1>1, <1>2, <1>3, <2>1, <2>2 DEF ProcessesFit, Launching
<1> QED  BY <1>2, <1>4, <1>5 DEF IInv

LEMMA ReadyKeeps == ASSUME IInv, NEW g \in Starts, Ready(g) \/ NotReady(g) PROVE IInv'
<1>1. /\ flow[Start(g)].at = "startup" /\ GoTo(Start(g), "ready")
      /\ UNCHANGED <<state, want, hidden, target, slots, lock, gen, bridge, asked, cut, missed>>
      /\ UNCHANGED <<state, want, hidden, target, startTask, watchTask, mgr, brg, lock>>
      /\ UNCHANGED <<gen, bridge, asked, cut, missed>>
  BY DEF Ready, NotReady, slots
<1>2. /\ StagesFit' /\ LockFits' /\ SlotsFit' /\ ManagersFit'
      /\ BridgesFit' /\ StateFits' /\ OffFits'
      /\ flow' \in [Flows -> FlowStates] /\ flow'[Start(g)].at = "ready"
      /\ \A h \in Starts :
            /\ h # g => flow'[Start(h)].at \notin {"refresh"}
                                                  \cup Opening \cup Launching \cup Tearing
            /\ flow'[Watcher(h)].at \notin {"watching"} \cup Tearing
            /\ flow'[Start(g)].at \notin {"refresh"} \cup Opening \cup Tearing
      /\ mgr = g /\ mgr' = g /\ ~(g > gen) /\ \A e \in Flows : flow[e].m = None
  BY <1>1, LaunchMoves
<1>3. mstate[g] = "starting" /\ mon[g] = "none"
  BY <1>1 DEF IInv, ProcessesFit
<1>4. /\ proc' \in [Starts -> {"none", "running", "signalled", "dead"}]
      /\ held' \in [Starts -> BOOLEAN]
      /\ mstate' \in [Starts -> {"off", "starting", "connected", "failed", "stopping"}]
      /\ mon' \in [Starts -> {"none", "watching", "failing", "done"}]
      /\ mstate'[g] \in {"connected", "failed"} /\ mon'[g] # "done"
      /\ mstate'[g] = "failed" => proc'[g] # "running"
      /\ proc'[g] = "running" => proc[g] = "running" /\ held'[g] = held[g]
      /\ \A h \in Starts : h # g => /\ proc'[h] = proc[h] /\ held'[h] = held[h]
                                    /\ mstate'[h] = mstate[h] /\ mon'[h] = mon[h]
  <2>1. CASE Ready(g)
    BY <1>3, <2>1 DEF Ready, IInv, Types
  <2>2. CASE NotReady(g)
    BY <1>3, <2>2, Signals DEF NotReady, Fail, IInv, Types
  <2> QED  BY <2>1, <2>2
<1>5. Types'
  BY <1>1, <1>2, <1>4 DEF IInv, Types
<1>6. ProcessesFit'
  <2>1. \A h \in Starts : /\ proc[h] = "running" => held[h] /\ mgr = h
                          /\ mstate[h] = "failed" => proc[h] # "running"
                          /\ h > gen => proc[h] = "none" /\ mon[h] = "none"
    BY <1>2, Names DEF IInv, ProcessesFit
  <2> QED  BY <1>1, <1>2, <1>4, <2>1 DEF ProcessesFit, Launching
<1> QED  BY <1>2, <1>5, <1>6 DEF IInv

LEMMA StartConnectedKeeps == ASSUME IInv, NEW g \in Starts, StartConnected(g) PROVE IInv'
<1>1. /\ flow[Start(g)].at = "ready" /\ flow[Start(g)].at \notin Tearing /\ Alive(Start(g))
      /\ flow[Start(g)].at \in Launching
      /\ mstate[g] = "connected" /\ state' = "connected" /\ GoTo(Start(g), "refresh")
      /\ UNCHANGED <<want, hidden, target, startTask, watchTask, mgr, brg, lock>>
      /\ UNCHANGED <<gen, bridge, proc, held, mstate, mon, asked, cut, missed>>
  BY DEF StartConnected, Alive, Tearing, Launching, slots, manager
<1>2. /\ \A e \in Flows : flow[e].at \notin {"monitor", "process", "bridge", "after"}
      /\ \A e \in Flows : flow[e].m = None /\ flow[e].b = None
      /\ \A q \in Requests : flow[q].at # "refresh"
      /\ startTask = g /\ g # None /\ Start(g) \in Flows /\ ~(g > gen)
  BY <1>1, NoneFurther, StartAlone
<1>3. /\ StagesFit' /\ LockFits' /\ SlotsFit' /\ (OffComing' <=> OffComing)
      /\ \A q \in Requests : (Shuts(q)' <=> Shuts(q)) /\ flow'[q] = flow[q]
      /\ Shutting' <=> Shutting
      /\ flow' \in [Flows -> FlowStates]
      /\ flow'[Start(g)].at = "refresh"
      /\ \A e \in Flows : flow'[e].m = flow[e].m /\ flow'[e].b = flow[e].b
      /\ \A e \in Flows : e # Start(g) => flow'[e] = flow[e]
      /\ \A h \in Starts : h # g => flow'[Start(h)].at \in {"idle", "done"}
      /\ \A h \in Starts : flow'[Watcher(h)].at \in {"idle", "done"}
  BY <1>1, <1>2, StartMoves
<1>4. \A h \in Starts :
         /\ h # g => flow'[Start(h)].at \notin {"refresh"}
                                               \cup Opening \cup Launching \cup Tearing
         /\ flow'[Watcher(h)].at \notin {"watching"} \cup Tearing
         /\ flow'[Start(g)].at \notin Opening \cup Launching \cup Tearing
  BY <1>3 DEF Opening, Launching, Tearing
<1>5. mgr = g /\ brg = g
  BY <1>1 DEF IInv, ManagersFit
<1>6. Types'
  BY <1>1, <1>3 DEF IInv, Types
<1>7. ManagersFit'
  <2>1. \A e \in Flows : flow'[e].at \notin {"monitor", "process", "bridge", "after"}
    BY <1>2, <1>3
  <2> QED  BY <1>1, <1>2, <1>3, <1>4, <1>5, <2>1 DEF ManagersFit
<1>8. ProcessesFit'
  <2>1. \A h \in Starts : /\ proc[h] = "running" => held[h] /\ mgr = h
                          /\ mstate[h] = "failed" => proc[h] # "running"
                          /\ h > gen => proc[h] = "none" /\ mon[h] = "none"
    BY <1>2, Names DEF IInv, ProcessesFit
  <2>2. mon[g] = "done" => mstate[g] = "failed"
    BY <1>1 DEF IInv, ProcessesFit
  <2> QED  BY <1>1, <1>3, <1>4, <2>1, <2>2 DEF ProcessesFit, Launching
<1>9. BridgesFit'
  BY <1>1, <1>3 DEF IInv, BridgesFit
<1>10. StateFits'
  <2>1. ASSUME NEW q \in Requests, flow[q].goal = "begin", flow[q].at \in Holding PROVE FALSE
    <3>1. state # "starting" /\ lock[1] = q
      BY <2>1 DEF IInv, StateFits, LockFits
    <3>2. Shutting
      BY <1>1, <3>1 DEF IInv, StateFits
    <3>3. PICK p \in Requests : Shuts(p)
      BY <3>2 DEF Shutting
    <3>4. p = q
      BY <3>1, <3>3, OnlyHead DEF IInv, Shuts
    <3> QED  BY <2>1, <3>3, <3>4 DEF Shuts
  <2> QED  BY <1>1, <1>2, <1>3, <1>4, <2>1 DEF StateFits
<1>11. OffFits'
  <2>1. state \notin {"off", "failed"}
    BY <1>1 DEF IInv, StateFits
  <2> QED  BY <1>1, <1>3, <2>1, OffStill
<1> QED  BY <1>3, <1>6, <1>7, <1>8, <1>9, <1>10, <1>11 DEF IInv

LEMMA StartEndsKeeps == ASSUME IInv, NEW g \in Starts, StartEnds(g) PROVE IInv'
<1> DEFINE s == Start(g)
           w == Watcher(g)
<1>1. /\ flow[s].at = "refresh" /\ flow[s].at \notin Tearing /\ Alive(s)
      /\ startTask' = IF startTask = g THEN None ELSE startTask
      /\ watchTask' = g
      /\ flow' = [flow EXCEPT ![s] = [Idle EXCEPT !.at = "done"], ![w].at = "watching"]
      /\ UNCHANGED <<state, want, hidden, target, mgr, brg, lock>>
      /\ UNCHANGED <<gen, bridge, proc, held, mstate, mon, asked, cut, missed>>
  BY DEF StartEnds, Alive, Tearing, manager
<1>2. /\ \A e \in Flows : flow[e].at \notin {"monitor", "process", "bridge", "after"}
      /\ \A e \in Flows : flow[e].m = None /\ flow[e].b = None
      /\ \A q \in Requests : flow[q].at # "refresh"
      /\ startTask = g /\ watchTask = None /\ g # None /\ ~(g > gen)
      /\ \A h \in Starts : h # g => flow[Start(h)].at \in {"idle", "done"}
      /\ \A h \in Starts : flow[Watcher(h)].at \in {"idle", "done"}
      /\ \A q \in Requests : flow[q].at \notin Holding \ {"grace", "tear"}
      /\ s \in Flows /\ w \in Flows /\ s # w /\ flow \in [Flows -> FlowStates]
  BY <1>1, NoneFurther, StartAlone, Names
<1>3. startTask' = None /\ mgr = g /\ brg = g
  BY <1>1, <1>2 DEF IInv, ManagersFit
<1>4. /\ flow' \in [Flows -> FlowStates]
      /\ flow'[s].at = "done" /\ flow'[s].m = None /\ flow'[s].b = None
      /\ flow'[w].at = "watching" /\ flow'[w].m = None /\ flow'[w].b = None
      /\ \A e \in Flows : e # s /\ e # w => flow'[e] = flow[e]
  <2> DEFINE d == [Idle EXCEPT !.at = "done"]
             t == [flow[w] EXCEPT !.at = "watching"]
  <2>1. d \in FlowStates /\ d.at = "done" /\ d.m = None /\ d.b = None
    BY DEF Idle, FlowStates, Stages, Goals, Slots
  <2>2. t \in FlowStates /\ t.at = "watching" /\ t.m = None /\ t.b = None
    <3>1. "watching" \in Stages
      BY DEF Stages
    <3> QED  BY <1>2, <3>1 DEF FlowStates
  <2>3. flow' = [flow EXCEPT ![s] = d, ![w] = t]
    BY <1>1, <1>2
  <2> HIDE DEF d, t, s, w
  <2> QED  BY <1>2, <2>1, <2>2, <2>3
<1>5. /\ \A q \in Requests : flow'[q] = flow[q]
      /\ \A h \in Starts : h # g => /\ flow'[Start(h)] = flow[Start(h)]
                                    /\ flow'[Watcher(h)] = flow[Watcher(h)]
      /\ \A e \in Flows : flow'[e].m = None /\ flow'[e].b = None
  BY <1>2, <1>4, Names
<1>6. \A h \in Starts : /\ flow'[Start(h)].at \in {"idle", "done"}
                        /\ h # g => flow'[Watcher(h)].at \in {"idle", "done"}
  BY <1>2, <1>4, <1>5
<1>7. \A h \in Starts : /\ flow'[Start(h)].at \notin {"refresh"}
                                                     \cup Opening \cup Launching \cup Tearing
                        /\ flow'[Watcher(h)].at \notin Tearing
                        /\ flow'[Watcher(h)].at = "watching" => h = g
  BY <1>4, <1>6 DEF Opening, Launching, Tearing
<1>8. /\ LockFits' /\ (OffComing' <=> OffComing)
      /\ \A q \in Requests : Shuts(q)' <=> Shuts(q)
      /\ Shutting' <=> Shutting
  BY <1>1, <1>5, TasksMove
<1>9. Types'
  BY <1>1, <1>3, <1>4 DEF IInv, Types, Slots
<1>10. StagesFit'
  <2>1. \A h \in Starts :
          /\ flow'[Start(h)].at \in {"idle", "done", "refresh"}
                                    \cup Opening \cup Launching \cup Tearing
          /\ flow'[Watcher(h)].at \in {"idle", "done", "watching"} \cup Tearing
    BY <1>4, <1>6
  <2>2. \A h \in Starts : h > gen' => flow'[Start(h)].at = "idle" /\ flow'[Watcher(h)].at = "idle"
    BY <1>1, <1>2, <1>5 DEF IInv, StagesFit
  <2> QED  BY <1>5, <2>1, <2>2 DEF IInv, StagesFit
<1>11. SlotsFit'
  <2>1. \A h \in Starts : ~Alive(Start(h))' /\ (Alive(Watcher(h))' <=> h = g) /\ h # None
    BY <1>4, <1>6, Names DEF Alive
  <2> QED  BY <1>1, <1>2, <1>3, <1>5, <2>1 DEF SlotsFit
<1>12. ManagersFit'
  <2>1. \A e \in Flows : flow'[e].at \notin {"monitor", "process", "bridge", "after"}
    BY <1>2, <1>4
  <2> QED  BY <1>1, <1>2, <1>3, <1>5, <1>7, <2>1 DEF ManagersFit
<1>13. ProcessesFit'
  <2>1. \A h \in Starts : /\ proc[h] = "running" => held[h] /\ mgr = h
                          /\ mstate[h] = "failed" => proc[h] # "running"
                          /\ h > gen => proc[h] = "none" /\ mon[h] = "none"
    BY <1>2, Names DEF IInv, ProcessesFit
  <2>2. mstate[g] \in {"connected", "failed"} /\ (mon[g] = "done" => mstate[g] = "failed")
    BY <1>1 DEF IInv, ProcessesFit
  <2> QED  BY <1>1, <1>7, <2>1, <2>2 DEF ProcessesFit, Launching
<1>14. BridgesFit'
  BY <1>1, <1>2, Names DEF IInv, BridgesFit
<1>15. StateFits'
  <2>1. state # "starting" /\ (state = "connected" \/ (state = "stopping" /\ Shutting))
    BY <1>1 DEF IInv, StateFits
  <2> QED  BY <1>1, <1>4, <1>5, <1>7, <1>8, <2>1 DEF IInv, StateFits
<1>16. OffFits'
  BY <1>1, <1>5, OffStill
<1> QED  BY <1>8, <1>9, <1>10, <1>11, <1>12, <1>13, <1>14, <1>15, <1>16 DEF IInv

LEMMA WatcherWakesKeeps == ASSUME IInv, NEW g \in Starts, WatcherWakes(g) PROVE IInv'
<1> DEFINE w == Watcher(g)
<1>1. /\ flow[w].at = "watching" /\ Alive(w) /\ mgr = g /\ mstate[g] = "failed"
      /\ state' \in {"failed", "off"} /\ GoTo(w, "tear") /\ "tear" \in Tearing
      /\ UNCHANGED <<want, hidden, target, startTask, watchTask, mgr, brg, lock>>
      /\ UNCHANGED <<gen, bridge, proc, held, mstate, mon, asked, cut, missed>>
  BY DEF WatcherWakes, Alive, Tearing, slots, manager
<1>2. /\ watchTask = g /\ startTask = None /\ g # None /\ ~(g > gen)
      /\ \A h \in Starts : h # g => flow[Watcher(h)].at \in {"idle", "done"}
      /\ \A h \in Starts : flow[Start(h)].at \in {"idle", "done"}
      /\ \A q \in Requests : flow[q].at \notin Holding \ {"grace", "tear", "watcher"}
      /\ w \in Flows /\ flow \in [Flows -> FlowStates] /\ w \notin Requests
      /\ flow[w].m = None /\ flow[w].b = None
  BY <1>1, WatcherAlone, Names DEF IInv, StagesFit
<1>3. Goes(w, "tear", flow[w].goal, None, None)
  BY <1>1, <1>2, GoesTo DEF Stages
<1>4. /\ flow' \in [Flows -> FlowStates]
      /\ flow'[w].at = "tear" /\ flow'[w].m = None /\ flow'[w].b = None
      /\ \A e \in Flows : e # w => flow'[e] = flow[e]
      /\ \A q \in Requests : flow'[q] = flow[q]
      /\ \A h \in Starts : flow'[Start(h)] = flow[Start(h)]
      /\ \A h \in Starts : h # g => flow'[Watcher(h)] = flow[Watcher(h)]
  BY <1>2, <1>3, Names DEF Goes
<1>5. \A h \in Starts : /\ flow'[Start(h)].at \notin {"refresh"}
                                                     \cup Opening \cup Launching \cup Tearing
                        /\ flow'[Watcher(h)].at # "watching"
                        /\ flow'[Watcher(h)].at \in Tearing => h = g
  BY <1>2, <1>4 DEF Opening, Launching, Tearing
<1>6. /\ LockFits' /\ (OffComing' <=> OffComing)
      /\ \A q \in Requests : Shuts(q)' <=> Shuts(q)
      /\ Shutting' <=> Shutting
  BY <1>1, <1>4, TasksMove
<1>7. Types'
  BY <1>1, <1>4 DEF IInv, Types
<1>8. StagesFit'
  BY <1>1, <1>2, <1>4 DEF IInv, StagesFit
<1>9. SlotsFit'
  <2>1. \A e \in Flows : Alive(e)' <=> Alive(e)
    BY <1>1, <1>4 DEF Alive
  <2> QED  BY <1>1, <1>4, <2>1, Names DEF IInv, SlotsFit
<1>10. ManagersFit'
  <2>1. mgr = g /\ brg = g
    BY <1>1 DEF IInv, ManagersFit
  <2>2. \A e \in Flows : /\ flow'[e].at \in {"monitor", "process", "bridge", "after"} => mgr = None
                         /\ flow'[e].at \in {"bridge", "after"} => brg = None
    BY <1>4 DEF IInv, ManagersFit
  <2>3. \A q \in Requests : flow'[q].at # "refresh"
    BY <1>2, <1>4 DEF Holding
  <2> QED  BY <1>1, <1>2, <1>4, <1>5, <2>1, <2>2, <2>3 DEF ManagersFit
<1>11. ProcessesFit'
  <2>1. \A h \in Starts :
          /\ proc[h] = "running" => held[h] /\ (mgr = h \/ \E q \in Requests : flow'[q].m = h)
          /\ mstate[h] = "failed" => proc[h] # "running"
          /\ h > gen => proc[h] = "none" /\ mon[h] = "none"
    BY <1>4 DEF IInv, ProcessesFit
  <2> QED  BY <1>1, <1>5, <2>1 DEF ProcessesFit, Launching
<1>12. BridgesFit'
  BY <1>1, <1>2, <1>4, Names DEF IInv, BridgesFit
<1>13. StateFits'
  <2>1. \A q \in Requests : flow'[q].at # "refresh"
    BY <1>2, <1>4 DEF Holding
  <2> QED  BY <1>1, <1>4, <1>5, <1>6, <2>1 DEF StateFits
<1>14. OffFits'
  BY <1>1, <1>4, OffStill
<1> QED  BY <1>6, <1>7, <1>8, <1>9, <1>10, <1>11, <1>12, <1>13, <1>14 DEF IInv

\* The process and its monitor go on by themselves.
LEMMA ProcessesMove ==
    ASSUME IInv, NEW g \in Starts,
           /\ proc' \in [Starts -> {"none", "running", "signalled", "dead"}]
           /\ held' \in [Starts -> BOOLEAN]
           /\ mstate' \in [Starts -> {"off", "starting", "connected", "failed", "stopping"}]
           /\ mon' \in [Starts -> {"none", "watching", "failing", "done"}],
           /\ \A h \in Starts : /\ proc'[h] = "none" <=> proc[h] = "none"
                                /\ mon'[h] = "none" <=> mon[h] = "none"
                                /\ h # g => /\ proc'[h] = proc[h] /\ held'[h] = held[h]
                                            /\ mstate'[h] = mstate[h] /\ mon'[h] = mon[h]
           /\ proc'[g] # "running"
           /\ \/ mstate'[g] = mstate[g] /\ mon'[g] = mon[g]
              \/ mstate'[g] = "failed" /\ mon[g] # "none",
           UNCHANGED <<state, want, hidden, target, slots, lock, flow, gen, bridge, asked, cut,
                       missed>>
    PROVE  IInv'
<1>1. /\ UNCHANGED <<state, want, hidden, target, startTask, watchTask, mgr, brg, lock>>
      /\ UNCHANGED <<flow, gen, bridge, asked, cut, missed>>
  BY DEF slots
<1>2. Types'
  BY <1>1 DEF IInv, Types
<1>3. StagesFit' /\ LockFits' /\ ManagersFit' /\ BridgesFit'
  BY <1>1 DEF IInv, StagesFit, LockFits, ManagersFit, BridgesFit
<1>4. SlotsFit'
  BY <1>1 DEF IInv, SlotsFit, Alive
<1>5. ProcessesFit'
  BY <1>1 DEF IInv, ProcessesFit
<1>6. StateFits' /\ OffFits'
  BY <1>1 DEF IInv, StateFits, OffFits, Shutting, Shuts, OffComing
<1> QED  BY <1>2, <1>3, <1>4, <1>5, <1>6 DEF IInv

LEMMA ProcessesKeep ==
    ASSUME IInv, NEW g \in Starts, RendererError(g) \/ MonitorEnds(g) \/ ProcessDies(g)
    PROVE  IInv'
<1>1. UNCHANGED <<state, want, hidden, target, slots, lock, flow, gen, bridge, asked, cut, missed>>
  BY DEF RendererError, MonitorEnds, ProcessDies
<1>2. CASE RendererError(g)
  <2>1. /\ mon[g] = "watching" /\ mon' = [mon EXCEPT ![g] = "failing"]
        /\ mstate' = [mstate EXCEPT ![g] = "failed"] /\ held' = [held EXCEPT ![g] = FALSE]
        /\ Signal(g)
    BY <1>2 DEF RendererError, Fail
  <2>2. Types
    BY DEF IInv
  <2>3. /\ proc' \in [Starts -> {"none", "running", "signalled", "dead"}]
        /\ proc'[g] # "running"
        /\ \A h \in Starts : /\ h # g => proc'[h] = proc[h]
                             /\ proc'[h] = "none" <=> proc[h] = "none"
    BY <2>1, <2>2, Signals
  <2>4. /\ held' \in [Starts -> BOOLEAN]
        /\ mstate' \in [Starts -> {"off", "starting", "connected", "failed", "stopping"}]
        /\ mon' \in [Starts -> {"none", "watching", "failing", "done"}]
        /\ mstate'[g] = "failed" /\ mon[g] # "none"
        /\ \A h \in Starts : /\ mon'[h] = "none" <=> mon[h] = "none"
                             /\ h # g => /\ held'[h] = held[h] /\ mstate'[h] = mstate[h]
                                         /\ mon'[h] = mon[h]
    BY <2>1, <2>2 DEF Types
  <2> QED  BY <1>1, <2>3, <2>4, ProcessesMove
<1>3. CASE MonitorEnds(g)
  BY <1>1, <1>3, ProcessesMove DEF MonitorEnds, IInv, Types
<1>4. CASE ProcessDies(g)
  BY <1>1, <1>4, ProcessesMove DEF ProcessDies, manager, IInv, Types
<1> QED  BY <1>2, <1>3, <1>4

-----------------------------------------------------------------------------
(* The invariant and what follows from it.                                  *)

LEMMA Starting == Init => IInv
<1> SUFFICES ASSUME Init PROVE IInv
  OBVIOUS
<1>1. /\ state = "off" /\ want = FALSE /\ hidden = FALSE /\ target = "none" /\ missed = FALSE
      /\ startTask = None /\ watchTask = None /\ mgr = None /\ brg = None /\ lock = <<>>
      /\ flow = [f \in Flows |-> Idle] /\ gen = 0 /\ cut = {} /\ asked = 0
      /\ bridge = [g \in Starts |-> "none"] /\ proc = [g \in Starts |-> "none"]
      /\ held = [g \in Starts |-> FALSE] /\ mstate = [g \in Starts |-> "off"]
      /\ mon = [g \in Starts |-> "none"]
  BY DEF Init
<1>2. /\ Idle \in FlowStates /\ Idle.at = "idle" /\ Idle.goal = "none"
      /\ Idle.m = None /\ Idle.b = None
  BY DEF Idle, FlowStates, Stages, Goals, Slots
<1>3. \A f \in Flows : flow[f] = Idle
  BY <1>1
<1>4. /\ \A q \in Requests : flow[q].at = "idle" /\ flow[q].goal = "none"
      /\ \A g \in Starts : flow[Start(g)].at = "idle" /\ flow[Watcher(g)].at = "idle"
      /\ \A f \in Flows : flow[f].at = "idle" /\ flow[f].m = None /\ flow[f].b = None
  BY <1>2, <1>3, Names
<1>5. "idle" \notin {"refresh", "watching", "grace", "tear"}
                    \cup Opening \cup Launching \cup Tearing
              \cup Holding \cup InLock
  BY DEF Opening, Launching, Tearing, Holding, InLock
<1>6. Types
  <2>1. 0 \in 0..MaxStart /\ 0 \in 0..MaxAsked
    BY OverlayAssumption
  <2>2. flow \in [Flows -> FlowStates] /\ None \in Slots
    BY <1>1, <1>2 DEF Slots
  <2>3. lock \in Seq(Requests)
    BY <1>1
  <2> QED  BY <1>1, <2>1, <2>2, <2>3 DEF Types
<1>7. StagesFit
  BY <1>4, <1>5 DEF StagesFit
<1>8. LockFits
  BY <1>1, <1>4, <1>5 DEF LockFits
<1>9. SlotsFit
  BY <1>1, <1>4, <1>5, Names DEF SlotsFit, Alive
<1>10. ManagersFit
  BY <1>1, <1>4, <1>5 DEF ManagersFit
<1>11. ProcessesFit /\ BridgesFit
  BY <1>1, <1>4, <1>5 DEF ProcessesFit, BridgesFit, Launching
<1>12. StateFits
  BY <1>1, <1>4, <1>5 DEF StateFits, Shuts
<1>13. OffFits
  BY <1>1, <1>4, Names DEF OffFits
<1> QED  BY <1>6, <1>7, <1>8, <1>9, <1>10, <1>11, <1>12, <1>13 DEF IInv

LEMMA StutterKeeps == ASSUME IInv, UNCHANGED vars PROVE IInv'
<1>1. /\ UNCHANGED <<state, want, hidden, target, startTask, watchTask, mgr, brg, lock>>
      /\ UNCHANGED <<flow, gen, bridge, proc, held, mstate, mon, asked, cut, missed>>
  BY DEF vars, slots, manager
<1>2. Types' /\ StagesFit' /\ LockFits' /\ ManagersFit' /\ ProcessesFit' /\ BridgesFit'
  BY <1>1 DEF IInv, Types, StagesFit, LockFits, ManagersFit, ProcessesFit, BridgesFit
<1>3. SlotsFit' /\ StateFits' /\ OffFits'
  BY <1>1 DEF IInv, SlotsFit, Alive, StateFits, OffFits, Shutting, Shuts, OffComing
<1> QED  BY <1>2, <1>3 DEF IInv

LEMMA StepKeeps == IInv /\ [Next]_vars => IInv'
<1> SUFFICES ASSUME IInv, [Next]_vars PROVE IInv'
  OBVIOUS
<1>1. CASE ToggleAsked \/ PeerAsked \/ OtherAsked
  BY <1>1, ToggleAskedKeeps, PeerAskedKeeps, OtherAskedKeeps
<1>2. CASE ToggleOn \/ ToggleOff \/ Hid \/ Revealed
  BY <1>2, ToggleOnKeeps, ToggleOffKeeps, HidKeeps, RevealedKeeps
<1>3. ASSUME NEW r \in Requests, Act(r) PROVE IInv'
  BY <1>3, BeginLockedKeeps, ShutdownLockedKeeps, GraceOverKeeps, BeginStartsKeeps,
     ShutdownTornKeeps, ShutdownEndsKeeps DEF Act
<1>4. ASSUME NEW f \in Flows, Teardown(f) PROVE IInv'
  BY <1>4, TearStartKeeps, TearWatcherKeeps, TearManagerKeeps, TearProcessKeeps,
     TearProcessEndsKeeps, TearBridgeKeeps, TornByTaskKeeps DEF Teardown
<1>5. ASSUME NEW g \in Starts, RunStart(g) PROVE IInv'
  BY <1>5, StartRunsKeeps, BridgeUpKeeps, SpawnedKeeps, ReadyKeeps, StartConnectedKeeps,
     FailuresKeep, StartEndsKeeps DEF RunStart
<1>6. ASSUME NEW g \in Starts,
             \/ BridgeFails(g) \/ SpawnFails(g) \/ RendererError(g) \/ MonitorEnds(g)
             \/ WatcherWakes(g) \/ ProcessDies(g)
      PROVE  IInv'
  BY <1>6, FailuresKeep, ProcessesKeep, WatcherWakesKeeps
<1>7. CASE UNCHANGED vars
  BY <1>7, StutterKeeps
<1> QED  BY <1>1, <1>2, <1>3, <1>4, <1>5, <1>6, <1>7 DEF Next

LEMMA Always == Spec => []IInv
<1>1. Init => IInv
  BY Starting
<1>2. IInv /\ [Next]_vars => IInv'
  BY StepKeeps
<1> QED  BY <1>1, <1>2, PTL DEF Spec

\* Types hold, and whoever holds or awaits _overlay_lock is at work (TypeOK).
THEOREM TypeSafe == Spec => []TypeOK
<1>1. IInv => TypeOK
  <2> SUFFICES ASSUME IInv PROVE TypeOK
    OBVIOUS
  <2>1. \A i \in DOMAIN lock : Alive(lock[i])
    <3> SUFFICES ASSUME NEW i \in DOMAIN lock PROVE Alive(lock[i])
      OBVIOUS
    <3>1. i \in 1..Len(lock)
      BY DEF IInv, Types
    <3>2. flow[lock[i]].at \in InLock
      BY <3>1 DEF IInv, LockFits
    <3> QED  BY <3>2, Sets DEF Alive
  <2>2. {startTask, watchTask, mgr, brg} \subseteq Starts \cup {None}
    BY DEF IInv, Types, Slots
  <2> QED  BY <2>1, <2>2 DEF IInv, Types, TypeOK, FlowStates, Goals, Slots
<1> QED  BY <1>1, Always, PTL

\* Two overlays never run at once, and nothing that runs is without an owner who stops it.
THEOREM OverlaysOwned == Spec => []OneOverlay
<1>1. IInv => OneOverlay
  <2> SUFFICES ASSUME IInv, NEW g \in Starts
               PROVE  /\ proc[g] = "running" => \A h \in Starts : proc[h] = "running" => h = g
                      /\ proc[g] = "running" =>
                            held[g] /\ (mgr = g \/ \E f \in Flows : flow[f].m = g)
                      /\ bridge[g] = "up" /\ g \notin cut =>
                            brg = g \/ \E f \in Flows : flow[f].b = g
    BY DEF OneOverlay
  <2>1. ASSUME NEW h \in Starts, NEW k \in Starts, proc[h] = "running", proc[k] = "running", mgr # h
        PROVE  h = k
    <3>1. PICK q \in Requests : flow[q].m = h
      BY <2>1 DEF IInv, ProcessesFit
    <3>2. flow[q].at \in {"monitor", "process"}
      BY <3>1, Names DEF IInv, StagesFit
    <3>3. mgr = None /\ flow[q].at \in Holding
      BY <3>2, Names DEF IInv, ManagersFit, Holding, Tearing
    <3>4. PICK p \in Requests : flow[p].m = k
      BY <2>1, <3>3, Names DEF IInv, ProcessesFit
    <3>5. flow[p].at \in Holding
      BY <3>4, Names DEF IInv, StagesFit, Holding, Tearing
    <3> QED  BY <3>1, <3>3, <3>4, <3>5 DEF IInv, LockFits
  <2>2. proc[g] = "running" => \A h \in Starts : proc[h] = "running" => h = g
    BY <2>1
  <2>3. proc[g] = "running" => held[g] /\ (mgr = g \/ \E f \in Flows : flow[f].m = g)
    BY Names DEF IInv, ProcessesFit
  <2> QED  BY <2>2, <2>3 DEF IInv, BridgesFit
<1> QED  BY <1>1, Always, PTL

\* While the overlay counts as connected, and no shutdown is at work, its end will be seen.
THEOREM EndsSeen == Spec => []ConnectedIsWatched
<1>1. IInv => ConnectedIsWatched
  <2> SUFFICES ASSUME IInv, state = "connected", ~Stopping
               PROVE  /\ mgr # None /\ brg = mgr
                      /\ flow[Start(mgr)].at = "refresh" \/ flow[Watcher(mgr)].at = "watching"
                      /\ mon[mgr] = "done" => mstate[mgr] = "failed"
    BY DEF ConnectedIsWatched
  <2>1. ~Shutting
    <3> SUFFICES ASSUME NEW r \in Requests, Shuts(r) PROVE FALSE
      BY DEF Shutting
    <3>1. lock[1] = r /\ Alive(r)
      BY Sets DEF Shuts, IInv, LockFits, Alive
    <3> QED  BY <3>1 DEF Stopping, Shuts
  <2>2. PICK g \in Starts : flow[Start(g)].at = "refresh" \/ flow[Watcher(g)].at = "watching"
    BY <2>1 DEF IInv, StateFits
  <2>3. mgr = g /\ brg = g /\ g # None
    BY <2>2, Names DEF IInv, ManagersFit
  <2>4. mon[g] = "done" => mstate[g] = "failed"
    BY <2>2 DEF IInv, ProcessesFit
  <2> QED  BY <2>2, <2>3, <2>4
<1> QED  BY <1>1, Always, PTL

\* At rest, what the user switched off is not shown, and an overlay that is off or failed
\* has left nothing behind.
THEOREM OffKept == Spec => []OffObeyed
<1>1. IInv => OffObeyed
  <2> SUFFICES ASSUME IInv, AllRest
               PROVE  /\ ~want /\ ~missed => state \notin {"starting", "connected"} \/ hidden
                      /\ state \in {"off", "failed"} =>
                            \A g \in Starts : proc[g] # "running" /\ (bridge[g] = "up" => g \in cut)
    BY DEF OffObeyed
  <2>1. \A f \in Flows : flow[f].at \in {"idle", "done", "watching"}
    BY DEF AllRest, Alive
  <2>2. \A q \in Requests : flow[q].at \notin InLock
    BY <2>1, Sets, Names
  <2>3. ~OffComing
    BY <2>2 DEF OffComing, IInv, LockFits, Types
  <2>4. ~want /\ ~missed => state \notin {"starting", "connected"} \/ hidden
    BY <2>1, <2>3, Names DEF IInv, OffFits
  <2>5. \A f \in Flows : flow[f].m = None /\ flow[f].b = None
    BY <2>1 DEF IInv, StagesFit
  <2>6. ASSUME state \in {"off", "failed"} PROVE mgr = None /\ brg = None
    <3>1. \A g \in Starts : flow[Watcher(g)].at # "watching"
      BY <2>6 DEF IInv, StateFits
    <3>2. \A g \in Starts : ~Alive(Start(g)) /\ ~Alive(Watcher(g))
      BY <2>1, <3>1, Names DEF Alive, IInv, StagesFit, Opening, Launching, Tearing
    <3>3. startTask = None /\ watchTask = None
      BY <3>2 DEF IInv, SlotsFit, Types, Slots
    <3> QED  BY <2>1, <3>3, Names DEF IInv, ManagersFit
  <2>7. ASSUME state \in {"off", "failed"}, NEW g \in Starts
        PROVE  proc[g] # "running" /\ (bridge[g] = "up" => g \in cut)
    BY <2>5, <2>6, <2>7, Names DEF IInv, ProcessesFit, BridgesFit
  <2> QED  BY <2>4, <2>7
<1> QED  BY <1>1, Always, PTL

-----------------------------------------------------------------------------
(***************************************************************************)
(* The microphone switch.                                                  *)
(***************************************************************************)

\* While a replacement stops the microphone, the switch task does not run.
Alone == ReplacerStops => pc[Switch] = "idle"

\* Whoever waits for a loop waits for the last one.
JoinsTheLast == \A p \in Procs : pc[p] = "joining" => micTask \in {NoMic, at[p]}

\* While a source is being closed no device is open.
ClosesTheLast == \A p \in Procs : pc[p] = "closing" => open = {}

KnowsAll ==
    \A m \in Mics :
       /\ LoopLives(m) => micTask = m
       /\ m \in open => audioSource = m

Reach == Alone /\ JoinsTheLast /\ ClosesTheLast /\ KnowsAll

MicInv == MicTypeOK /\ (overlapped \/ Reach)

-----------------------------------------------------------------------------
(* Types.                                                                   *)

LEMMA ProcFacts ==
    /\ Switch \in Procs
    /\ Replacers \subseteq Procs
    /\ Switch \notin Replacers
    /\ NoMic \notin Mics
    BY MicAssumption DEF Procs

LEMMA CloseSourceTypes ==
    ASSUME MicTypeOK, NEW p \in Procs, NEW next \in Points, CloseSource(p, next)
    PROVE  /\ pc' \in [Procs -> Points]
           /\ at' \in [Procs -> Mics \cup {NoMic}]
           /\ audioSource' \in Mics \cup {NoMic}
           /\ open' \subseteq Mics
    BY DEF MicTypeOK, CloseSource, Points

LEMMA StopMicTypes ==
    ASSUME MicTypeOK, NEW p \in Procs, NEW next \in Points, StopMic(p, next)
    PROVE  /\ pc' \in [Procs -> Points]
           /\ at' \in [Procs -> Mics \cup {NoMic}]
           /\ audioSource' \in Mics \cup {NoMic}
           /\ open' \subseteq Mics
           /\ loop' \in [Mics -> LoopStates]
<1>1. CASE micTask # NoMic
    BY <1>1 DEF StopMic, CancelLoop, MicTypeOK, Points, LoopStates
<1>2. CASE micTask = NoMic
    BY <1>2, CloseSourceTypes DEF StopMic, MicTypeOK
<1> QED BY <1>1, <1>2

LEMMA InitTypes == MicInit => MicTypeOK
    BY ProcFacts DEF MicInit, MicTypeOK, Points, LoopStates

LEMMA NextTypes == MicTypeOK /\ [MicNext]_micVars => MicTypeOK'
<1> SUFFICES ASSUME MicTypeOK, [MicNext]_micVars PROVE MicTypeOK'
    OBVIOUS
<1>a. AfterStop(Switch) \in Points /\ \A p \in Procs : AfterStop(p) \in Points
    BY DEF AfterStop, Points
<1>b. Ensured \in [Procs -> Points]
    BY ProcFacts DEF Ensured, MicTypeOK, Points
<1>1. ASSUME NEW on \in BOOLEAN, SttToggle(on) PROVE MicTypeOK'
    BY <1>1, <1>b DEF SttToggle, MicTypeOK, ReplacerStops
<1>1a. CASE SttToggleRefused
    BY <1>1a DEF SttToggleRefused, MicTypeOK
<1>2. ASSUME NEW r \in Replacers, Replace(r) PROVE MicTypeOK'
  <2>1. "rebuild" \in Points /\ r \in Procs
    BY ProcFacts DEF Points
  <2>2. CASE micTask # NoMic
    <3>1. StopMic(r, "rebuild")
      BY <1>2, <2>2 DEF Replace
    <3> QED BY <1>2, <2>1, <3>1, StopMicTypes DEF Replace, MicTypeOK
  <2>3. CASE micTask = NoMic
    BY <1>2, <2>1, <2>3 DEF Replace, MicTypeOK
  <2> QED BY <2>2, <2>3
<1>3. ASSUME NEW p \in Procs, Joined(p) PROVE MicTypeOK'
  <2>1. CloseSource(p, AfterStop(p)) /\ AfterStop(p) \in Points
    BY <1>3, <1>a DEF Joined
  <2> QED BY <1>3, <2>1, CloseSourceTypes DEF Joined, MicTypeOK
<1>4. ASSUME NEW p \in Procs, SourceClosed(p) PROVE MicTypeOK'
    BY <1>4, <1>a DEF SourceClosed, MicTypeOK
<1>5. ASSUME NEW r \in Replacers, Rebuilt(r) PROVE MicTypeOK'
    BY <1>5, <1>b, ProcFacts DEF Rebuilt, MicTypeOK, Points, ReplacerStops
<1>6. ASSUME NEW m \in Mics, LoopStep(m) \/ LoopDies(m) PROVE MicTypeOK'
    BY <1>6 DEF LoopStep, LoopBegins, LoopCancelled, LoopRunsDry, LoopDies, MicTypeOK,
                LoopStates
<1>7. CASE Pass
  <2>1. "settle" \in Points /\ "ready" \in Points
    BY DEF Points
  <2>2. CASE desired
    BY <1>7, <2>1, <2>2, ProcFacts DEF Pass, MicTypeOK
  <2>3. CASE ~desired
    <3>1. StopMic(Switch, "settle")
      BY <1>7, <2>3 DEF Pass
    <3> QED BY <1>7, <2>1, <3>1, StopMicTypes, ProcFacts DEF Pass, MicTypeOK
  <2> QED BY <2>2, <2>3
<1>8. CASE StartStops
  <2>1. StopMic(Switch, "start") /\ "start" \in Points
    BY <1>8 DEF StartStops, Points
  <2> QED BY <1>8, <2>1, StopMicTypes, ProcFacts DEF StartStops, MicTypeOK
<1>9. CASE SttReady \/ SttNotReady \/ StartsNothing \/ StartFails \/ Settle
    BY <1>9, ProcFacts DEF SttReady, SttNotReady, StartsNothing, StartFails, Settle, MicTypeOK,
                           Points
<1>10. ASSUME NEW m \in Mics, StartOpens(m) PROVE MicTypeOK'
    BY <1>10, ProcFacts DEF StartOpens, MicTypeOK, Points, LoopStates
<1>11. CASE UNCHANGED micVars
    BY <1>11 DEF micVars, MicTypeOK
<1> QED
    BY <1>1, <1>1a, <1>2, <1>3, <1>4, <1>5, <1>6, <1>7, <1>8, <1>9, <1>10, <1>11, ProcFacts
    DEF MicNext, ReplacerStep, SwitchStep

\* The variables keep their types.
THEOREM MicTypes == MicSpec => []MicTypeOK
    BY InitTypes, NextTypes, PTL DEF MicSpec

-----------------------------------------------------------------------------
(* No microphone is out of reach.                                           *)

\* Closing the source closes the only device that may be open.
LEMMA CloseSourceReaches ==
    ASSUME MicTypeOK, ClosesTheLast, JoinsTheLast, KnowsAll,
           NEW p \in Procs, NEW next \in Points \ {"joining", "closing"},
           CloseSource(p, next), micTask' \in {micTask, NoMic},
           \A m \in Mics : loop'[m] = loop[m] /\ (LoopLives(m) => micTask' = m)
    PROVE  ClosesTheLast' /\ JoinsTheLast' /\ KnowsAll'
<1>1. open' = {}
    BY DEF MicTypeOK, KnowsAll, CloseSource
<1>2. ClosesTheLast'
    BY <1>1 DEF ClosesTheLast
<1>3. KnowsAll'
    BY <1>1 DEF KnowsAll, LoopLives
<1>4. JoinsTheLast'
  <2> SUFFICES ASSUME NEW q \in Procs, pc'[q] = "joining"
               PROVE  micTask' \in {NoMic, at'[q]}
    BY DEF JoinsTheLast
  <2>1. q # p /\ pc[q] = "joining" /\ at'[q] = at[q]
    BY DEF CloseSource, MicTypeOK
  <2> QED BY <2>1 DEF JoinsTheLast
<1> QED BY <1>2, <1>3, <1>4

LEMMA StopMicReaches ==
    ASSUME MicTypeOK, ClosesTheLast, JoinsTheLast, KnowsAll,
           NEW p \in Procs, NEW next \in Points \ {"joining", "closing"},
           StopMic(p, next), UNCHANGED micTask
    PROVE  ClosesTheLast' /\ JoinsTheLast' /\ KnowsAll'
<1>1. CASE micTask = NoMic
  <2>1. CloseSource(p, next) /\ UNCHANGED loop
    BY <1>1 DEF StopMic
  <2>2. \A m \in Mics : loop'[m] = loop[m] /\ (LoopLives(m) => micTask' = m)
    BY <2>1 DEF KnowsAll
  <2> QED BY <2>1, <2>2, CloseSourceReaches
<1>2. CASE micTask # NoMic
  <2>1. /\ loop' \in [Mics -> LoopStates]
        /\ \A m \in Mics : loop'[m] # loop[m] => loop'[m] \notin {"created", "running"}
    BY <1>2 DEF StopMic, CancelLoop, MicTypeOK, LoopStates
  <2>2. KnowsAll'
    BY <1>2, <2>1 DEF StopMic, KnowsAll, LoopLives
  <2>3. ClosesTheLast' /\ JoinsTheLast'
    BY <1>2 DEF StopMic, ClosesTheLast, JoinsTheLast, MicTypeOK
  <2> QED BY <2>2, <2>3
<1> QED BY <1>1, <1>2

\* The switch task does not begin while a replacement stops the microphone, nor does a
\* replacement begin to stop it while the switch task runs, unless overlapped tells.
LEMMA NextAlone ==
    ASSUME MicTypeOK, Alone, MicNext, ~overlapped'
    PROVE  Alone'
<1> USE ProcFacts
<1>a. \A p \in Procs : AfterStop(p) \notin {"joining", "closing"}
    BY DEF AfterStop
<1>1. ASSUME NEW on \in BOOLEAN, SttToggle(on) PROVE Alone'
    BY <1>1 DEF SttToggle, Alone, ReplacerStops, Ensured, MicTypeOK
<1>1a. CASE SttToggleRefused
    BY <1>1a DEF SttToggleRefused, Alone, ReplacerStops
<1>2. ASSUME NEW r \in Replacers, Replace(r) PROVE Alone'
  <2>1. \A q \in Procs : q # r => pc'[q] = pc[q]
    BY <1>2 DEF Replace, StopMic, CloseSource, MicTypeOK
  <2>2. micTask # NoMic => pc[Switch] = "idle"
    BY <1>2 DEF Replace
  <2>3. micTask = NoMic => pc'[r] = "rebuild"
    BY <1>2 DEF Replace, MicTypeOK
  <2> QED BY <2>1, <2>2, <2>3 DEF Alone, ReplacerStops
<1>3. ASSUME NEW p \in Procs, Joined(p) \/ SourceClosed(p) PROVE Alone'
  <2>1. \A q \in Procs : q # p => pc'[q] = pc[q]
    BY <1>3 DEF Joined, SourceClosed, CloseSource, MicTypeOK
  <2>2. pc[p] \in {"joining", "closing"}
    BY <1>3 DEF Joined, SourceClosed
  <2> QED BY <2>1, <2>2 DEF Alone, ReplacerStops
<1>4. ASSUME NEW r \in Replacers, Rebuilt(r) PROVE Alone'
    BY <1>4 DEF Rebuilt, Alone, ReplacerStops, Ensured, MicTypeOK
<1>5. ASSUME NEW m \in Mics, LoopStep(m) \/ LoopDies(m) PROVE Alone'
    BY <1>5 DEF LoopStep, LoopBegins, LoopCancelled, LoopRunsDry, LoopDies, Alone, ReplacerStops
<1>6. ASSUME pc[Switch] # "idle", \A r \in Replacers : pc'[r] = pc[r] PROVE Alone'
    BY <1>6 DEF Alone, ReplacerStops
<1>7. CASE Pass \/ StartStops
    BY <1>6, <1>7 DEF Pass, StartStops, StopMic, CloseSource, MicTypeOK
<1>8. CASE SttReady \/ SttNotReady \/ StartsNothing \/ StartFails \/ Settle
    BY <1>6, <1>8 DEF SttReady, SttNotReady, StartsNothing, StartFails, Settle, MicTypeOK
<1>9. ASSUME NEW m \in Mics, StartOpens(m) PROVE Alone'
    BY <1>6, <1>9 DEF StartOpens, MicTypeOK
<1> QED
    BY <1>1, <1>1a, <1>2, <1>3, <1>4, <1>5, <1>7, <1>8, <1>9
    DEF MicNext, ReplacerStep, SwitchStep

\* The step that only moves tasks: nothing of the microphone changes, and nobody begins to stop.
LEMMA OthersReach ==
    ASSUME MicTypeOK, ClosesTheLast, JoinsTheLast, KnowsAll,
           UNCHANGED <<at, micTask, audioSource, loop, open>>,
           \A q \in Procs : pc'[q] \in {"joining", "closing"} => pc'[q] = pc[q]
    PROVE  ClosesTheLast' /\ JoinsTheLast' /\ KnowsAll'
    BY DEF ClosesTheLast, JoinsTheLast, KnowsAll, LoopLives

LEMMA NextReaches ==
    ASSUME MicTypeOK, Alone, ClosesTheLast, JoinsTheLast, KnowsAll, MicNext, ~overlapped'
    PROVE  ClosesTheLast' /\ JoinsTheLast' /\ KnowsAll'
<1> DEFINE Goal == ClosesTheLast' /\ JoinsTheLast' /\ KnowsAll'
<1> USE ProcFacts
<1>a. \A p \in Procs : AfterStop(p) \in Points \ {"joining", "closing"}
    BY DEF AfterStop, Points
<1>1. ASSUME NEW on \in BOOLEAN, SttToggle(on) PROVE Goal
  <2>1. \A q \in Procs : pc'[q] \in {"joining", "closing"} => pc'[q] = pc[q]
    BY <1>1 DEF SttToggle, Ensured, MicTypeOK
  <2> QED BY <1>1, <2>1, OthersReach DEF SttToggle
<1>1a. CASE SttToggleRefused
    BY <1>1a, OthersReach DEF SttToggleRefused
<1>2. ASSUME NEW r \in Replacers, Replace(r) PROVE Goal
  <2>1. CASE micTask # NoMic
    <3>1. StopMic(r, "rebuild") /\ UNCHANGED micTask
      BY <1>2, <2>1 DEF Replace
    <3> QED BY <3>1, StopMicReaches DEF Points
  <2>2. CASE micTask = NoMic
    <3>1. \A q \in Procs : pc'[q] \in {"joining", "closing"} => pc'[q] = pc[q]
      BY <1>2, <2>2 DEF Replace, MicTypeOK
    <3> QED BY <1>2, <2>2, <3>1, OthersReach DEF Replace
  <2> QED BY <2>1, <2>2
<1>3. ASSUME NEW p \in Procs, Joined(p) PROVE Goal
  <2>1. \A m \in Mics : loop'[m] = loop[m] /\ (LoopLives(m) => micTask' = m)
    BY <1>3 DEF Joined, JoinsTheLast, KnowsAll, LoopLives
  <2>2. CloseSource(p, AfterStop(p)) /\ micTask' \in {micTask, NoMic}
    BY <1>3 DEF Joined
  <2> QED BY <1>a, <2>1, <2>2, CloseSourceReaches
<1>4. ASSUME NEW p \in Procs, SourceClosed(p) PROVE Goal
  <2>1. open = {} /\ open' = {}
    BY <1>4 DEF SourceClosed, ClosesTheLast
  <2>2. ClosesTheLast' /\ KnowsAll'
    BY <1>4, <2>1 DEF SourceClosed, ClosesTheLast, KnowsAll, LoopLives
  <2>3. JoinsTheLast'
    BY <1>4, <1>a DEF SourceClosed, JoinsTheLast, MicTypeOK
  <2> QED BY <2>2, <2>3
<1>5. ASSUME NEW r \in Replacers, Rebuilt(r) PROVE Goal
  <2>1. \A q \in Procs : pc'[q] \in {"joining", "closing"} => pc'[q] = pc[q]
    BY <1>5 DEF Rebuilt, Ensured, MicTypeOK
  <2> QED BY <1>5, <2>1, OthersReach DEF Rebuilt
<1>6. ASSUME NEW m \in Mics, LoopStep(m) \/ LoopDies(m) PROVE Goal
  <2>1. \A n \in Mics : (loop'[n] # loop[n] /\ LoopLives(n)') => LoopLives(n)
    BY <1>6 DEF LoopStep, LoopBegins, LoopCancelled, LoopRunsDry, LoopDies, LoopLives, MicTypeOK
  <2>2. UNCHANGED <<pc, at, micTask, audioSource, open>>
    BY <1>6 DEF LoopStep, LoopBegins, LoopCancelled, LoopRunsDry, LoopDies
  <2>3. KnowsAll'
    BY <2>1, <2>2 DEF KnowsAll, LoopLives
  <2> QED BY <2>2, <2>3 DEF ClosesTheLast, JoinsTheLast
<1>7. CASE Pass
  <2>1. CASE desired
    <3>1. \A q \in Procs : pc'[q] \in {"joining", "closing"} => pc'[q] = pc[q]
      BY <1>7, <2>1 DEF Pass, MicTypeOK
    <3> QED BY <1>7, <2>1, <3>1, OthersReach DEF Pass
  <2>2. CASE ~desired
    BY <1>7, <2>2, StopMicReaches DEF Pass, Points
  <2> QED BY <2>1, <2>2
<1>8. CASE StartStops
    BY <1>8, StopMicReaches DEF StartStops, Points
<1>9. CASE SttReady \/ SttNotReady \/ StartsNothing \/ StartFails \/ Settle
  <2>1. \A q \in Procs : pc'[q] \in {"joining", "closing"} => pc'[q] = pc[q]
    BY <1>9 DEF SttReady, SttNotReady, StartsNothing, StartFails, Settle, MicTypeOK
  <2> QED
    BY <1>9, <2>1, OthersReach DEF SttReady, SttNotReady, StartsNothing, StartFails, Settle
<1>10. ASSUME NEW m \in Mics, StartOpens(m) PROVE Goal
  <2>1. \A q \in Procs : pc'[q] \notin {"joining", "closing"}
    BY <1>10 DEF StartOpens, Alone, ReplacerStops, MicTypeOK, Procs
  <2>2. KnowsAll'
    BY <1>10 DEF StartOpens, KnowsAll, LoopLives, MicTypeOK
  <2> QED BY <2>1, <2>2 DEF ClosesTheLast, JoinsTheLast
<1> QED
    BY <1>1, <1>1a, <1>2, <1>3, <1>4, <1>5, <1>6, <1>7, <1>8, <1>9, <1>10
    DEF MicNext, ReplacerStep, SwitchStep

-----------------------------------------------------------------------------
LEMMA InitReaches == MicInit => Reach
    BY ProcFacts DEF MicInit, Reach, Alone, ReplacerStops, JoinsTheLast, ClosesTheLast, KnowsAll,
                     LoopLives, Procs

\* Once a replacement has stopped the microphone beside the switch, the history says so.
LEMMA OverlapStays == overlapped /\ [MicNext]_micVars => overlapped'
<1> SUFFICES ASSUME overlapped, [MicNext]_micVars PROVE overlapped'
    OBVIOUS
<1> USE DEF SttToggle, SttToggleRefused, Replace, Joined, SourceClosed, Rebuilt, Pass, SttReady, SttNotReady,
            StartsNothing, StartStops, StartFails, StartOpens, Settle, LoopBegins,
            LoopCancelled, LoopRunsDry, LoopDies
<1>1. CASE UNCHANGED micVars
    BY <1>1 DEF micVars
<1>2. CASE SwitchStep
    BY <1>2 DEF SwitchStep
<1>3. ASSUME NEW r \in Replacers, Replace(r) \/ ReplacerStep(r) PROVE overlapped'
    BY <1>3 DEF ReplacerStep
<1>4. CASE \/ (\E on \in BOOLEAN : SttToggle(on)) \/ SttToggleRefused
           \/ (\E m \in Mics : LoopStep(m) \/ LoopDies(m))
    BY <1>4 DEF LoopStep
<1> QED BY <1>1, <1>2, <1>3, <1>4 DEF MicNext

LEMMA NextInv == MicInv /\ [MicNext]_micVars => MicInv'
<1> SUFFICES ASSUME MicInv, [MicNext]_micVars PROVE MicInv'
    OBVIOUS
<1>1. MicTypeOK /\ MicTypeOK'
    BY NextTypes DEF MicInv
<1>2. CASE overlapped'
    BY <1>1, <1>2 DEF MicInv
<1>3. CASE ~overlapped'
  <2>1. Reach
    BY <1>3, OverlapStays DEF MicInv
  <2>2. CASE MicNext
    BY <1>1, <1>3, <2>1, <2>2, NextAlone, NextReaches DEF MicInv, Reach
  <2>3. CASE UNCHANGED micVars
    BY <1>1, <2>1, <2>3 DEF micVars, MicInv, Reach, Alone, ReplacerStops, JoinsTheLast,
                            ClosesTheLast, KnowsAll, LoopLives
  <2> QED BY <2>2, <2>3
<1> QED BY <1>2, <1>3

\* A device that is open, and a loop that reads it, can be stopped by the controller, unless a
\* replacement of the provider stopped the microphone beside the switch task.
THEOREM MicInReach == MicSpec => []NoOrphanMic
<1>1. MicInit => MicInv
    BY InitTypes, InitReaches DEF MicInv
<1>2. MicInv => NoOrphanMic
    BY DEF MicInv, Reach, KnowsAll, NoOrphanMic
<1> QED BY <1>1, <1>2, NextInv, PTL DEF MicSpec
=============================================================================
