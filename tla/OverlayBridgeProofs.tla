-------------------------- MODULE OverlayBridgeProofs --------------------------
(***************************************************************************)
(* Proofs about OverlayBridge, for any number of connections and           *)
(* revisions.  Three arguments, one on top of the other: what the          *)
(* variables hold, who has the token, and who has the snapshot lock.       *)
(***************************************************************************)
EXTENDS OverlayBridge, TLAPS

LEMMA Names ==
    /\ NoConn \notin Conns
    /\ \A c \in Conns : c \notin Revs /\ c \notin Unlocked
    /\ \A r \in Revs : r \in Casts /\ r \notin Unlocked /\ r \in 0..MaxRev
    /\ \A b \in Unlocked : b \in Casts
    /\ Heartbeat \in Unlocked
    BY NamesAssumption, BridgeAssumption DEF Casts, Unlocked, Revs, Heartbeat, Control

-----------------------------------------------------------------------------
(* Types.                                                                   *)

LEMMA ProgressFacts ==
    ASSUME TypeOK
    PROVE  /\ Quiet \in Progress /\ Sending \in Progress /\ Over \in Progress
           /\ [Quiet EXCEPT !.at = "sending"] \in Progress
           /\ [Quiet EXCEPT !.at = "locking"] \in Progress
    BY DEF TypeOK, Progress, Quiet, Sending, Over

LEMMA LeaveTypes ==
    ASSUME TypeOK, NEW f, Leave(f)
    PROVE  lock' \in Seq(Conns \cup Revs)
<1> DEFINE S == Conns \cup Revs
<1> DEFINE g == [k \in 1..(Len(lock) - 1) |->
                   IF \E i \in 1..k : lock[i] = f THEN lock[k + 1] ELSE lock[k]]
<1>1. lock \in Seq(S)
    BY DEF TypeOK
<1>2. CASE Waits(f)
  <2>1. lock' = g /\ Len(lock) - 1 \in Nat
    BY <1>1, <1>2 DEF Leave, Waits
  <2>2. \A k \in 1..(Len(lock) - 1) : lock[k + 1] \in S /\ lock[k] \in S
    BY <1>1, <2>1
  <2>3. g \in [1..(Len(lock) - 1) -> S]
    BY <2>2
  <2> HIDE DEF g
  <2> QED BY <2>1, <2>3
<1>3. CASE ~Waits(f)
    BY <1>1, <1>3 DEF Leave
<1> QED BY <1>2, <1>3

LEMMA HangUpTypes ==
    ASSUME TypeOK, NEW S, HangUp(S)
    PROVE  link' \in [Conns -> {"open", "closing", "closed"}]
    BY DEF TypeOK, HangUp, Open

LEMMA InitTypes == Init => TypeOK
<1> SUFFICES ASSUME Init PROVE TypeOK
    OBVIOUS
<1>1. Quiet \in Progress
    BY DEF Quiet, Progress
<1>2. cast \in [Casts -> Progress]
    BY <1>1 DEF Init
<1>3. lock \in Seq(Conns \cup Revs)
    BY DEF Init
<1>4. snap \in 0..MaxRev /\ got \in [Conns -> 0..MaxRev]
    BY BridgeAssumption DEF Init
<1> QED BY <1>2, <1>3, <1>4 DEF Init, TypeOK

LEMMA HandlerTypes ==
    ASSUME TypeOK, NEW c \in Conns,
           \/ Connects(c) \/ LinkEnds(c) \/ Authenticates(c) \/ Refused(c)
           \/ Speaks(c) \/ Malformed(c) \/ Handle(c)
    PROVE  TypeOK'
<1> USE DEF TypeOK
<1>1. CASE Connects(c) \/ LinkEnds(c) \/ Refused(c) \/ Speaks(c)
    BY <1>1 DEF Connects, LinkEnds, Refused, Speaks, clients
<1>2. ASSUME Enter(c) PROVE /\ consumed' \in BOOLEAN
                            /\ handler' \in [Conns -> {"none", "auth", "locking", "sending",
                                                       "rejecting", "serving", "gone"}]
                            /\ got' \in [Conns -> 0..MaxRev]
    BY <1>2 DEF Enter
<1>3. CASE Authenticates(c)
  <2>1. lock' \in Seq(Conns \cup Revs)
    BY <1>3 DEF Authenticates
  <2>2. CASE lock = <<>>
    BY <1>2, <1>3, <2>1, <2>2 DEF Authenticates
  <2>3. CASE lock # <<>>
    BY <1>3, <2>1, <2>3 DEF Authenticates
  <2> QED BY <2>2, <2>3
<1>4. CASE Locked(c)
    BY <1>2, <1>4 DEF Locked
<1>5. CASE Welcomed(c)
  <2>1. lock' \in Seq(Conns \cup Revs)
    BY <1>5, LeaveTypes DEF Welcomed
  <2> QED BY <1>5, <2>1 DEF Welcomed
<1>6. CASE BrokenOff(c)
  <2>1. lock' \in Seq(Conns \cup Revs)
    BY <1>6, LeaveTypes DEF BrokenOff
  <2> QED BY <1>6, <2>1, HangUpTypes DEF BrokenOff
<1>7. CASE TurnedAway(c)
  <2>1. lock' \in Seq(Conns \cup Revs)
    BY <1>7, LeaveTypes DEF TurnedAway
  <2> QED BY <1>7, <2>1, HangUpTypes DEF TurnedAway
<1>8. CASE Served(c) \/ Malformed(c)
    BY <1>8, HangUpTypes DEF Served, Malformed, EndServing
<1> QED BY <1>1, <1>3, <1>4, <1>5, <1>6, <1>7, <1>8 DEF Handle

\* A broadcast that goes on: only how far it has come changes.
LEMMA CastTypes ==
    ASSUME TypeOK, NEW b \in Casts, NEW x \in Progress,
           cast' = [cast EXCEPT ![b] = x]
    PROVE  cast' \in [Casts -> Progress]
    BY DEF TypeOK

LEMMA ReplaceTypes ==
    ASSUME TypeOK, NEW r \in Revs, Replace(r)
    PROVE  snap' \in 0..MaxRev /\ cast' \in [Casts -> Progress]
<1> USE Names, ProgressFacts, CastTypes
<1>1. CASE r > snap
    BY <1>1 DEF Replace
<1>2. CASE ~(r > snap)
    BY <1>2 DEF Replace, TypeOK
<1> QED BY <1>1, <1>2

LEMMA BroadcastTypes ==
    ASSUME TypeOK,
           \/ \E r \in Revs : Publish(r) \/ PublishLocked(r) \/ PublishCancelled(r)
           \/ \E b \in Unlocked : Broadcast(b)
           \/ \E b \in Casts : SendEnds(b) \/ Work(b)
    PROVE  TypeOK'
<1> USE Names, ProgressFacts
<1>1. ASSUME NEW r \in Revs, Publish(r) PROVE TypeOK'
  <2>1. lock' \in Seq(Conns \cup Revs)
    BY <1>1 DEF Publish, TypeOK
  <2>2. snap' \in 0..MaxRev /\ cast' \in [Casts -> Progress]
    <3>1. CASE lock = <<>>
      BY <1>1, <3>1, ReplaceTypes DEF Publish
    <3>2. CASE lock # <<>>
      BY <1>1, <3>2, CastTypes DEF Publish, TypeOK
    <3> QED BY <3>1, <3>2
  <2> QED BY <1>1, <2>1, <2>2 DEF Publish, TypeOK, clients
<1>2. ASSUME NEW r \in Revs, PublishLocked(r) PROVE TypeOK'
    BY <1>2, ReplaceTypes DEF PublishLocked, TypeOK, clients
<1>3. ASSUME NEW b \in Casts, Finish(b)
      PROVE  lock' \in Seq(Conns \cup Revs) /\ cast' \in [Casts -> Progress]
    BY <1>3, LeaveTypes, CastTypes DEF Finish
<1>4. ASSUME NEW r \in Revs, PublishCancelled(r) PROVE TypeOK'
    BY <1>3, <1>4 DEF PublishCancelled, TypeOK, clients
<1>5. ASSUME NEW b \in Unlocked, Broadcast(b) PROVE TypeOK'
    BY <1>5, CastTypes DEF Broadcast, TypeOK, clients
<1>6. ASSUME NEW b \in Casts, SendEnds(b) PROVE TypeOK'
    BY <1>6 DEF SendEnds, TypeOK, clients, Progress
<1>7. ASSUME NEW b \in Casts, SendFails(b) PROVE TypeOK'
    BY <1>7 DEF SendFails, TypeOK, clients, Progress
<1>8. ASSUME NEW b \in Casts, NEW c \in Conns, HandTo(b, c) PROVE TypeOK'
  <2>1. cast[b] \in Progress
    BY DEF TypeOK
  <2>5. HandedTo(cast[b], c) \in Progress
    BY <2>1 DEF HandedTo, Progress
  <2>6. cast' = [cast EXCEPT ![b] = HandedTo(cast[b], c)]
    BY <1>8 DEF HandTo
  <2>2. cast' \in [Casts -> Progress]
    BY <2>5, <2>6, CastTypes
  <2>3. b \in Revs => b \in 0..MaxRev
    OBVIOUS
  <2>4. got' \in [Conns -> 0..MaxRev]
    BY <1>8, <2>3 DEF HandTo, TypeOK
  <2> QED BY <1>8, <2>2, <2>4 DEF HandTo, TypeOK
<1>9. ASSUME NEW b \in Casts, NEW c \in Conns, DropStale(b, c) PROVE TypeOK'
    BY <1>9, HangUpTypes DEF DropStale, TypeOK, Progress
<1>10. ASSUME NEW b \in Casts, CastEnds(b) PROVE TypeOK'
    BY <1>3, <1>10 DEF CastEnds, TypeOK, clients
<1> QED BY <1>1, <1>2, <1>4, <1>5, <1>6, <1>7, <1>8, <1>9, <1>10 DEF Work

LEMMA StopTypes ==
    ASSUME TypeOK, StartServer \/ StopBegins \/ Stop \/ Heard
    PROVE  TypeOK'
<1>1. CASE StartServer \/ Heard
    BY <1>1 DEF StartServer, Heard, TypeOK, clients
<1>2. CASE StopBegins
  <2>1. cast' \in [Casts -> Progress]
    BY <1>2, Names, ProgressFacts, CastTypes DEF StopBegins
  <2> QED BY <1>2, <2>1 DEF StopBegins, TypeOK, clients
<1>3. CASE StopTakes \/ StopServer
    BY <1>3, HangUpTypes DEF StopTakes, StopServer, TypeOK
<1>4. CASE StopEnds \/ \E c \in Conns : StopClosed(c)
    BY <1>4 DEF StopEnds, StopClosed, TypeOK, clients
<1> QED BY <1>1, <1>2, <1>3, <1>4 DEF Stop

LEMMA NextTypes == TypeOK /\ [Next]_vars => TypeOK'
<1> SUFFICES ASSUME TypeOK, [Next]_vars PROVE TypeOK'
    OBVIOUS
<1>1. CASE UNCHANGED vars
    BY <1>1 DEF vars, clients, TypeOK
<1>2. CASE Next
    BY <1>2, HandlerTypes, BroadcastTypes, StopTypes DEF Next
<1> QED BY <1>1, <1>2

\* The variables keep their types.
THEOREM TypeCorrect == Spec => []TypeOK
    BY InitTypes, NextTypes, PTL DEF Spec

-----------------------------------------------------------------------------
(* The token.  OneClient needs to know that whoever has been let in has     *)
(* taken the token, and that only such a connection is registered: then the *)
(* end of the one that is served frees it.                                  *)

Token ==
    /\ OneClient
    /\ \A c \in Conns : Holder(c) => consumed
    /\ \A c \in auth : handler[c] = "serving"

LEMMA TokenInit == Init => Token
    BY DEF Init, Token, OneClient, Holder

\* A connection enters or leaves; the others stay where they are.
LEMMA TokenHandler ==
    ASSUME TypeOK, Token, NEW c \in Conns,
           \/ Connects(c) \/ LinkEnds(c) \/ Authenticates(c) \/ Refused(c)
           \/ Speaks(c) \/ Malformed(c) \/ Handle(c)
    PROVE  Token'
<1> USE DEF Token, OneClient, Holder
<1>a. handler \in [Conns -> {"none", "auth", "locking", "sending", "rejecting",
                             "serving", "gone"}]
      /\ auth \subseteq Conns /\ consumed \in BOOLEAN
    BY DEF TypeOK
<1>1. CASE Connects(c) \/ Refused(c)
    BY <1>a, <1>1 DEF Connects, Refused
<1>2. CASE LinkEnds(c) \/ Speaks(c)
    BY <1>2 DEF LinkEnds, Speaks, clients
<1>3. ASSUME Enter(c), handler[c] \in {"auth", "locking"}, UNCHANGED <<auth, burnt>>
      PROVE  Token'
  <2>1. CASE consumed
    BY <1>a, <1>3, <2>1 DEF Enter
  <2>2. CASE ~consumed
    BY <1>a, <1>3, <2>2 DEF Enter
  <2> QED BY <2>1, <2>2
<1>4. CASE Authenticates(c)
  <2>1. CASE lock = <<>>
    BY <1>3, <1>4, <2>1 DEF Authenticates
  <2>2. CASE lock # <<>>
    BY <1>a, <1>4, <2>2 DEF Authenticates
  <2> QED BY <2>1, <2>2
<1>5. CASE Locked(c)
    BY <1>3, <1>5 DEF Locked
<1>6. CASE Welcomed(c)
    BY <1>a, <1>6 DEF Welcomed
<1>7. CASE BrokenOff(c)
    BY <1>a, <1>7 DEF BrokenOff
<1>8. CASE TurnedAway(c)
    BY <1>a, <1>8 DEF TurnedAway
<1>9. CASE Served(c) \/ Malformed(c)
  <2>1. EndServing(c)
    BY <1>9 DEF Served, Malformed
  <2>2. auth \subseteq {c} /\ ~consumed' /\ auth' = {}
    BY <1>a, <2>1 DEF EndServing
  <2>3. \A d \in Conns : ~Holder(d)'
    BY <1>a, <2>1 DEF EndServing
  <2> QED BY <2>2, <2>3
<1> QED BY <1>1, <1>2, <1>4, <1>5, <1>6, <1>7, <1>8, <1>9 DEF Handle

LEMMA TokenBroadcast ==
    ASSUME Token,
           \/ \E r \in Revs : Publish(r) \/ PublishLocked(r) \/ PublishCancelled(r)
           \/ \E b \in Unlocked : Broadcast(b)
           \/ \E b \in Casts : SendEnds(b) \/ Work(b)
    PROVE  Token'
<1>1. UNCHANGED <<handler, consumed, burnt>> /\ auth' \subseteq auth
    BY DEF Publish, PublishLocked, PublishCancelled, Broadcast, SendEnds, Work, SendFails,
           CastEnds, HandTo, DropStale, clients
<1> QED BY <1>1 DEF Token, OneClient, Holder

LEMMA TokenStop ==
    ASSUME TypeOK, Token, StartServer \/ StopBegins \/ Stop \/ Heard
    PROVE  Token'
<1> USE DEF Token, OneClient, Holder
<1>1. CASE StartServer \/ Heard \/ StopBegins \/ StopServer
    BY <1>1 DEF StartServer, Heard, StopBegins, StopServer, clients
<1>2. CASE StopTakes
    BY <1>2 DEF StopTakes
<1>3. CASE \E c \in Conns : StopClosed(c)
    BY <1>3 DEF StopClosed, clients
<1>4. CASE StopEnds
  <2>1. \A c \in Conns : ~Holder(c)
    BY <1>4 DEF StopEnds
  <2>2. UNCHANGED <<handler, auth>> /\ ~consumed'
    BY <1>4 DEF StopEnds, clients
  <2> QED BY <2>1, <2>2 DEF TypeOK
<1> QED BY <1>1, <1>2, <1>3, <1>4 DEF Stop

LEMMA TokenNext == TypeOK /\ Token /\ [Next]_vars => Token'
<1> SUFFICES ASSUME TypeOK, Token, [Next]_vars PROVE Token'
    OBVIOUS
<1>1. CASE UNCHANGED vars
    BY <1>1 DEF vars, clients, Token, OneClient, Holder
<1>2. CASE Next
    BY <1>2, TokenHandler, TokenBroadcast, TokenStop DEF Next
<1> QED BY <1>1, <1>2

\* The token lets in one client at a time, and who has it gives it back.
THEOREM OneAtATime == Spec => []OneClient
<1>1. Token => OneClient
    BY DEF Token
<1> QED BY <1>1, TypeCorrect, TokenInit, TokenNext, PTL DEF Spec

-----------------------------------------------------------------------------
(* stop().                                                                  *)

LEMMA StoppedNext == TypeOK /\ Token /\ StoppedClean /\ [Next]_vars => StoppedClean'
<1> SUFFICES ASSUME TypeOK, Token, StoppedClean, [Next]_vars,
                    phase' = "down", stopping' = "no"
             PROVE  StoppedClean'
    BY DEF StoppedClean
<1>1. CASE UNCHANGED vars
    BY <1>1 DEF vars, clients, StoppedClean
<1>2. CASE StopEnds
  <2>1. auth = {}
    BY <1>2 DEF StopEnds, Token, TypeOK
  <2> QED BY <1>2, <2>1 DEF StopEnds, StoppedClean, clients
<1>3. CASE StartServer \/ StopBegins \/ StopTakes \/ StopServer \/ Heard
           \/ \E c \in Conns : StopClosed(c)
    BY <1>3 DEF StartServer, StopBegins, StopTakes, StopServer, StopClosed, Heard,
                StoppedClean, clients
<1>4. ASSUME NEW c \in Conns,
             \/ Connects(c) \/ LinkEnds(c) \/ Authenticates(c) \/ Refused(c)
             \/ Speaks(c) \/ Malformed(c) \/ Handle(c)
      PROVE  StoppedClean'
  <2>1. phase = "down" /\ stopping = "no"
    BY <1>4 DEF Connects, LinkEnds, Authenticates, Refused, Speaks, Malformed, Handle,
                Locked, Welcomed, BrokenOff, TurnedAway, Served, EndServing
  <2>2. handler[c] \in {"none", "gone"}
    BY <2>1 DEF StoppedClean
  <2>3. LinkEnds(c)
    BY <1>4, <2>1, <2>2
    DEF Connects, LinkEnds, Authenticates, Refused, Speaks, Malformed, Handle,
        Locked, Welcomed, BrokenOff, TurnedAway, Served, EndServing
  <2> QED BY <2>1, <2>3 DEF LinkEnds, StoppedClean
<1>5. ASSUME \/ \E r \in Revs : Publish(r) \/ PublishLocked(r) \/ PublishCancelled(r)
             \/ \E b \in Unlocked : Broadcast(b)
             \/ \E b \in Casts : SendEnds(b) \/ Work(b)
      PROVE  StoppedClean'
  <2>1. UNCHANGED <<phase, stopping, handler, consumed, mail>> /\ auth' \subseteq auth
    BY <1>5 DEF Publish, PublishLocked, PublishCancelled, Broadcast, SendEnds, Work,
                SendFails, CastEnds, HandTo, DropStale, clients
  <2> QED BY <2>1 DEF StoppedClean
<1> QED BY <1>1, <1>2, <1>3, <1>4, <1>5 DEF Next, Stop

\* When stop() has returned, nobody is served, nothing waits and the token is free.
THEOREM StopsClean == Spec => []StoppedClean
<1>1. Init => StoppedClean
    BY DEF Init, StoppedClean
<1> QED BY <1>1, TypeCorrect, TokenInit, TokenNext, StoppedNext, PTL DEF Spec

-----------------------------------------------------------------------------
(* The snapshot lock.  A handshake or a revision that sends is at the head  *)
(* of the queue, so that only one of them ever sends.                       *)

NoneTwice == \A i, j \in DOMAIN lock : lock[i] = lock[j] => i = j

ConnsQueue ==
    \A c \in Conns :
       /\ Waits(c) => handler[c] \in {"locking", "sending", "rejecting"}
       /\ handler[c] = "sending" => Holds(c)

RevsQueue ==
    \A r \in Revs :
       /\ Waits(r) => cast[r].at \in {"locking", "sending"}
       /\ cast[r].at = "sending" => Holds(r)

Queue == NoneTwice /\ ConnsQueue /\ RevsQueue

LEMMA LockFacts ==
    ASSUME TypeOK
    PROVE  /\ lock \in Seq(Conns \cup Revs)
           /\ Len(lock) \in Nat
           /\ DOMAIN lock = 1..Len(lock)
           /\ lock # <<>> => Len(lock) > 0 /\ Head(lock) = lock[1]
           /\ lock = <<>> => Len(lock) = 0
    BY DEF TypeOK

\* Whoever leaves is gone, and everybody else keeps his place.
LEMMA LeaveFacts ==
    ASSUME TypeOK, NoneTwice, NEW f, Leave(f)
    PROVE  /\ NoneTwice'
           /\ ~Waits(f)'
           /\ \A x : Waits(x)' => Waits(x)
           /\ \A x : x # f /\ Holds(x) => Holds(x)'
<1>1. CASE ~Waits(f)
    BY <1>1 DEF Leave, Waits, Holds, NoneTwice
<1>2. CASE Waits(f)
  <2>1. PICK p \in 1..Len(lock) : lock[p] = f
    BY <1>2, LockFacts DEF Waits
  <2>2. \A k \in 1..(Len(lock) - 1) : (\E i \in 1..k : lock[i] = f) <=> p <= k
    BY <2>1, LockFacts DEF NoneTwice
  <2>3. lock' = [k \in 1..(Len(lock) - 1) |-> IF p <= k THEN lock[k + 1] ELSE lock[k]]
    BY <1>2, <2>2 DEF Leave
  <2>4. DOMAIN lock' = 1..(Len(lock) - 1)
    BY <2>3
  <2>5. \A k \in DOMAIN lock' : lock'[k] = IF p <= k THEN lock[k + 1] ELSE lock[k]
    BY <2>3
  <2>6. NoneTwice'
    BY <2>1, <2>4, <2>5, LockFacts DEF NoneTwice
  <2>7. ~Waits(f)'
    BY <2>1, <2>4, <2>5, LockFacts DEF NoneTwice, Waits
  <2>8. ASSUME NEW x, Waits(x)' PROVE Waits(x)
    BY <2>4, <2>5, <2>8, LockFacts DEF Waits
  <2>9. ASSUME NEW x, x # f, Holds(x) PROVE Holds(x)'
    <3>1. lock # <<>> /\ lock[1] = x /\ p # 1 /\ Len(lock) > 0
      BY <2>1, <2>9, LockFacts DEF Holds
    <3>2. 1 \in DOMAIN lock' /\ lock'[1] = x
      BY <2>1, <2>4, <2>5, <3>1, LockFacts
    <3>3. lock' \in Seq(Conns \cup Revs)
      BY LeaveTypes
    <3> QED BY <3>2, <3>3 DEF Holds
  <2> QED BY <2>6, <2>7, <2>8, <2>9
<1> QED BY <1>1, <1>2

\* Whoever is new waits at the end.
LEMMA JoinFacts ==
    ASSUME TypeOK, NoneTwice, NEW f \in Conns \cup Revs, ~Waits(f),
           lock' = Append(lock, f)
    PROVE  /\ NoneTwice'
           /\ \A x : Waits(x)' => Waits(x) \/ x = f
           /\ \A x : Holds(x) => Holds(x)'
           /\ lock = <<>> => Holds(f)'
<1>1. DOMAIN lock' = 1..(Len(lock) + 1)
    BY LockFacts
<1>2. \A k \in DOMAIN lock' : lock'[k] = IF k <= Len(lock) THEN lock[k] ELSE f
    BY LockFacts
<1>3. NoneTwice'
    BY <1>1, <1>2, LockFacts DEF NoneTwice, Waits
<1>4. \A x : Waits(x)' => Waits(x) \/ x = f
    BY <1>1, <1>2, LockFacts DEF Waits
<1>5. lock' # <<>> /\ Head(lock') = lock'[1]
    BY LockFacts
<1>6. \A x : Holds(x) => Holds(x)'
    BY <1>1, <1>2, <1>5, LockFacts DEF Holds
<1>7. lock = <<>> => Holds(f)'
    BY <1>1, <1>2, <1>5, LockFacts DEF Holds
<1> QED BY <1>3, <1>4, <1>6, <1>7

\* At most one of them holds the lock.
LEMMA OneHolder ==
    ASSUME NEW x, NEW y, Holds(x), Holds(y)
    PROVE  x = y /\ lock # <<>>
    BY DEF Holds

LEMMA QueueInit == Init => Queue
<1> SUFFICES ASSUME Init PROVE Queue
    OBVIOUS
<1>1. \A x : ~Waits(x)
    BY DEF Init, Waits
<1>2. NoneTwice
    BY DEF Init, NoneTwice
<1>3. ConnsQueue
    BY <1>1 DEF Init, ConnsQueue
<1>4. \A r \in Revs : cast[r] = Quiet
    BY Names DEF Init
<1>5. RevsQueue
    BY <1>1, <1>4 DEF RevsQueue, Quiet
<1> QED BY <1>2, <1>3, <1>5 DEF Queue

\* A step that leaves the lock and the tasks in it alone.
LEMMA QueueApart ==
    ASSUME Queue, lock' = lock,
           \A c \in Conns : handler'[c] # handler[c] =>
               \/ ~Waits(c) /\ handler'[c] # "sending"
               \/ Holds(c) /\ handler'[c] \in {"rejecting", "sending"},
           \A r \in Revs : cast'[r].at # cast[r].at =>
               Holds(r) /\ cast'[r].at = "sending"
    PROVE  Queue'
<1>1. \A x : (Waits(x)' <=> Waits(x)) /\ (Holds(x)' <=> Holds(x))
    BY DEF Waits, Holds
<1>2. NoneTwice'
    BY DEF Queue, NoneTwice
<1>3. ConnsQueue'
    BY <1>1 DEF Queue, ConnsQueue
<1>4. RevsQueue'
    BY <1>1 DEF Queue, RevsQueue
<1> QED BY <1>2, <1>3, <1>4 DEF Queue

\* Connection c leaves the lock, if it was in it.
LEMMA QueueConnLeaves ==
    ASSUME TypeOK, Queue, NEW c \in Conns, Leave(c), UNCHANGED cast,
           \A d \in Conns \ {c} : handler'[d] = handler[d],
           handler'[c] # "sending"
    PROVE  Queue'
<1>1. /\ NoneTwice' /\ ~Waits(c)'
      /\ \A x : Waits(x)' => Waits(x)
      /\ \A x : x # c /\ Holds(x) => Holds(x)'
    BY LeaveFacts DEF Queue
<1>2. ConnsQueue'
    BY <1>1 DEF Queue, ConnsQueue
<1>3. RevsQueue'
    BY <1>1, Names DEF Queue, RevsQueue
<1> QED BY <1>1, <1>2, <1>3 DEF Queue

\* A broadcast ends.
LEMMA QueueFinish ==
    ASSUME TypeOK, Queue, NEW b \in Casts, Finish(b), UNCHANGED handler
    PROVE  Queue'
<1>1. /\ NoneTwice' /\ ~Waits(b)'
      /\ \A x : Waits(x)' => Waits(x)
      /\ \A x : x # b /\ Holds(x) => Holds(x)'
    BY LeaveFacts DEF Queue, Finish
<1>2. b \notin Conns
    BY Names, NamesAssumption
<1>3. ConnsQueue'
    BY <1>1, <1>2 DEF Queue, ConnsQueue
<1>4. \A r \in Revs : r # b => cast'[r] = cast[r]
    BY Names DEF Finish, TypeOK
<1>5. b \in Revs => cast'[b].at = "over"
    BY DEF Finish, TypeOK, Over, Quiet
<1>6. RevsQueue'
    BY <1>1, <1>4, <1>5 DEF Queue, RevsQueue
<1> QED BY <1>1, <1>3, <1>6 DEF Queue

LEMMA QueueHandler ==
    ASSUME TypeOK, Queue, NEW c \in Conns,
           \/ Connects(c) \/ LinkEnds(c) \/ Authenticates(c) \/ Refused(c)
           \/ Speaks(c) \/ Malformed(c) \/ Handle(c)
    PROVE  Queue'
<1>a. /\ Waits(c) => handler[c] \in {"locking", "sending", "rejecting"}
      /\ handler[c] = "sending" => Holds(c)
    BY DEF Queue, ConnsQueue
<1>b. handler \in [Conns -> {"none", "auth", "locking", "sending", "rejecting",
                             "serving", "gone"}]
    BY DEF TypeOK
<1>1. CASE Connects(c) \/ Refused(c)
    BY <1>a, <1>b, <1>1, QueueApart DEF Connects, Refused
<1>2. CASE LinkEnds(c) \/ Speaks(c)
    BY <1>2, QueueApart DEF LinkEnds, Speaks, clients
<1>3. CASE Authenticates(c)
  <2>1. ~Waits(c) /\ handler[c] = "auth"
    BY <1>a, <1>3 DEF Authenticates
  <2>2. /\ NoneTwice'
        /\ \A x : Waits(x)' => Waits(x) \/ x = c
        /\ \A x : Holds(x) => Holds(x)'
        /\ lock = <<>> => Holds(c)'
    BY <1>3, <2>1, JoinFacts DEF Authenticates, Queue
  <2>3. RevsQueue'
    BY <1>3, <2>2, Names DEF Authenticates, Queue, RevsQueue
  <2>4. /\ \A d \in Conns \ {c} : handler'[d] = handler[d]
        /\ handler'[c] \in {"locking", "sending", "rejecting"}
        /\ handler'[c] = "sending" => lock = <<>>
    BY <1>b, <1>3 DEF Authenticates, Enter
  <2>5. ConnsQueue'
    BY <2>2, <2>4 DEF Queue, ConnsQueue
  <2> QED BY <2>2, <2>3, <2>5 DEF Queue
<1>4. CASE Locked(c)
    BY <1>b, <1>4, QueueApart DEF Locked, Enter
<1>5. CASE Welcomed(c)
    BY <1>b, <1>5, QueueConnLeaves DEF Welcomed
<1>6. CASE BrokenOff(c)
    BY <1>b, <1>6, QueueConnLeaves DEF BrokenOff
<1>7. CASE TurnedAway(c)
    BY <1>b, <1>7, QueueConnLeaves DEF TurnedAway
<1>8. CASE Served(c) \/ Malformed(c)
    BY <1>a, <1>b, <1>8, QueueApart DEF Served, Malformed, EndServing
<1> QED BY <1>1, <1>2, <1>3, <1>4, <1>5, <1>6, <1>7, <1>8 DEF Handle

LEMMA QueueBroadcast ==
    ASSUME TypeOK, Queue,
           \/ \E r \in Revs : Publish(r) \/ PublishLocked(r) \/ PublishCancelled(r)
           \/ \E b \in Unlocked : Broadcast(b)
           \/ \E b \in Casts : SendEnds(b) \/ Work(b)
    PROVE  Queue'
<1>a. cast \in [Casts -> Progress]
    BY DEF TypeOK
<1>1. ASSUME NEW r \in Revs, Publish(r) PROVE Queue'
  <2>1. ~Waits(r)
    BY <1>1 DEF Publish, Queue, RevsQueue
  <2>2. /\ NoneTwice'
        /\ \A x : Waits(x)' => Waits(x) \/ x = r
        /\ \A x : Holds(x) => Holds(x)'
        /\ lock = <<>> => Holds(r)'
    BY <1>1, <2>1, JoinFacts DEF Publish, Queue
  <2>3. ConnsQueue'
    BY <1>1, <2>2, Names DEF Publish, clients, Queue, ConnsQueue
  <2>4. /\ \A q \in Revs : q # r => cast'[q] = cast[q]
        /\ cast'[r].at \in {"locking", "sending"}
        /\ cast'[r].at = "sending" => lock = <<>>
    BY <1>a, <1>1, Names DEF Publish, Replace, Sending, Quiet
  <2>5. RevsQueue'
    BY <2>2, <2>4 DEF Queue, RevsQueue
  <2> QED BY <2>2, <2>3, <2>5 DEF Queue
<1>2. ASSUME NEW r \in Revs, PublishLocked(r) PROVE Queue'
  <2>1. /\ \A q \in Revs : q # r => cast'[q] = cast[q]
        /\ cast'[r].at = "sending"
    BY <1>a, <1>2, Names DEF PublishLocked, Replace, Sending, Quiet
  <2> QED BY <1>2, <2>1, QueueApart DEF PublishLocked, clients
<1>3. ASSUME NEW r \in Revs, PublishCancelled(r) PROVE Queue'
    BY <1>3, Names, QueueFinish DEF PublishCancelled, clients
<1>4. ASSUME NEW b \in Unlocked, Broadcast(b) PROVE Queue'
  <2>1. \A r \in Revs : cast'[r] = cast[r]
    BY <1>a, <1>4, Names DEF Broadcast
  <2> QED BY <1>4, <2>1, QueueApart DEF Broadcast, clients
<1>5. ASSUME NEW b \in Casts, SendEnds(b) \/ SendFails(b) PROVE Queue'
  <2>1. \A r \in Revs : cast'[r].at = cast[r].at
    BY <1>a, <1>5, Names DEF SendEnds, SendFails, Progress
  <2> QED BY <1>5, <2>1, QueueApart DEF SendEnds, SendFails, clients
<1>6. ASSUME NEW b \in Casts, NEW c \in Conns, HandTo(b, c) \/ DropStale(b, c) PROVE Queue'
  <2>2. HandedTo(cast[b], c).at = cast[b].at
    BY <1>a DEF HandedTo, Progress
  <2>1. \A r \in Revs : cast'[r].at = cast[r].at
    <3>1. CASE HandTo(b, c)
      BY <1>a, <2>2, <3>1, Names DEF HandTo
    <3>2. CASE DropStale(b, c)
      BY <1>a, <3>2, Names DEF DropStale, Progress
    <3> QED BY <1>6, <3>1, <3>2
  <2> QED BY <1>6, <2>1, QueueApart DEF HandTo, DropStale
<1>7. ASSUME NEW b \in Casts, CastEnds(b) PROVE Queue'
    BY <1>7, QueueFinish DEF CastEnds, clients
<1> QED BY <1>1, <1>2, <1>3, <1>4, <1>5, <1>6, <1>7 DEF Work

LEMMA QueueStop ==
    ASSUME TypeOK, Queue, StartServer \/ StopBegins \/ Stop \/ Heard
    PROVE  Queue'
<1>1. CASE StopBegins
  <2>1. \A r \in Revs : cast'[r] = cast[r]
    BY <1>1, Names DEF StopBegins, TypeOK
  <2> QED BY <1>1, <2>1, QueueApart DEF StopBegins, clients
<1>2. CASE StartServer \/ Stop \/ Heard
  <2>1. UNCHANGED <<handler, lock, cast>>
    BY <1>2 DEF StartServer, Stop, Heard, StopTakes, StopServer, StopEnds, StopClosed,
                clients
  <2> QED BY <2>1, QueueApart
<1> QED BY <1>1, <1>2

LEMMA QueueNext == TypeOK /\ Queue /\ [Next]_vars => Queue'
<1> SUFFICES ASSUME TypeOK, Queue, [Next]_vars PROVE Queue'
    OBVIOUS
<1>1. CASE UNCHANGED vars
    BY <1>1, QueueApart DEF vars, clients
<1>2. CASE Next
    BY <1>2, QueueHandler, QueueBroadcast, QueueStop DEF Next
<1> QED BY <1>1, <1>2

-----------------------------------------------------------------------------
(* The snapshots.  One client is registered at most (Token), so a revision  *)
(* that has been handed to somebody has nobody left; and while a handshake  *)
(* or a revision sends, nobody else changes the snapshot (Queue).           *)

Fresh ==
    /\ \A c \in Conns :
          /\ got[c] <= snap
          /\ handler[c] = "sending" /\ Open(c) => got[c] = snap
    /\ \A r \in Revs :
          /\ cast[r].todo # {} => cast[r].at = "sending" /\ snap = r /\ cast[r].on = NoConn
          /\ \A c, d \in cast[r].todo : c = d
    /\ ServedNewest

Shown == TypeOK /\ Token /\ Queue /\ Fresh

LEMMA FreshInit == Init => Fresh
<1> SUFFICES ASSUME Init PROVE Fresh
    OBVIOUS
<1>1. \A r \in Revs : cast[r].todo = {}
    BY Names DEF Init, Quiet
<1> QED BY <1>1 DEF Init, Fresh, ServedNewest

\* At most one client is registered.
LEMMA OneServed ==
    ASSUME Token, TypeOK
    PROVE  \A c, d \in auth : c = d
    BY DEF Token, OneClient, Holder, TypeOK

\* What holds of the parts of Fresh when the revisions under way are left alone and nobody
\* new is registered, opened or let in.
LEMMA FreshApart ==
    ASSUME Shown, UNCHANGED <<snap, got>>,
           \A c \in Conns : Open(c)' => Open(c),
           \A c \in Conns : handler'[c] = "sending" => handler[c] = "sending",
           auth' \subseteq auth,
           \A r \in Revs : cast'[r] = cast[r]
    PROVE  Fresh'
<1>1. \A c \in Conns : Publishing(c)' <=> Publishing(c)
    BY DEF Publishing
<1>2. ServedNewest'
    BY <1>1 DEF Shown, Fresh, ServedNewest, TypeOK
<1> QED BY <1>2 DEF Shown, Fresh

\* Connection c is let in: what it is handed is the snapshot of now.
LEMMA FreshEnter ==
    ASSUME Shown, NEW c \in Conns, Enter(c), handler[c] \in {"auth", "locking"},
           UNCHANGED <<snap, link, auth, cast>>
    PROVE  Fresh'
<1>1. c \notin auth
    BY DEF Shown, Token
<1>2. /\ \A d \in Conns \ {c} : handler'[d] = handler[d] /\ got'[d] = got[d]
      /\ got'[c] \in {got[c], snap}
      /\ handler'[c] = "sending" /\ Open(c) => got'[c] = snap
    BY DEF Enter, Shown, TypeOK
<1>3. \A d \in Conns : got'[d] <= snap
    BY <1>2 DEF Shown, Fresh, TypeOK
<1>4. ServedNewest'
    BY <1>1, <1>2 DEF Shown, Fresh, ServedNewest, Open, Publishing, TypeOK
<1> QED BY <1>2, <1>3, <1>4 DEF Shown, Fresh, Open

LEMMA FreshHandler ==
    ASSUME Shown, NEW c \in Conns,
           \/ Connects(c) \/ LinkEnds(c) \/ Authenticates(c) \/ Refused(c)
           \/ Speaks(c) \/ Malformed(c) \/ Handle(c)
    PROVE  Fresh'
<1>a. handler \in [Conns -> {"none", "auth", "locking", "sending", "rejecting",
                             "serving", "gone"}]
      /\ link \in [Conns -> {"open", "closing", "closed"}]
    BY DEF Shown, TypeOK
<1>b. \A S : HangUp(S) => \A d \in Conns : Open(d)' => Open(d)
    BY <1>a DEF HangUp, Open
<1>1. CASE Connects(c)
  <2>1. c \notin auth /\ handler'[c] = "auth"
    BY <1>a, <1>1 DEF Connects, Shown, Token
  <2>2. \A d \in Conns \ {c} : handler'[d] = handler[d] /\ (Open(d)' <=> Open(d))
    BY <1>a, <1>1 DEF Connects, Open
  <2>3. ServedNewest'
    BY <1>1, <2>1, <2>2 DEF Connects, Shown, Fresh, ServedNewest, Publishing, TypeOK
  <2> QED BY <1>1, <2>1, <2>2, <2>3 DEF Connects, Shown, Fresh
<1>2. CASE LinkEnds(c) \/ Refused(c) \/ Speaks(c)
  <2>1. UNCHANGED <<snap, got, auth, cast>>
    BY <1>2 DEF LinkEnds, Refused, Speaks, clients
  <2>2. \A d \in Conns : Open(d)' => Open(d)
    BY <1>a, <1>2 DEF LinkEnds, Refused, Speaks, clients, Open
  <2>3. \A d \in Conns : handler'[d] = "sending" => handler[d] = "sending"
    BY <1>a, <1>2 DEF LinkEnds, Refused, Speaks, clients
  <2> QED BY <2>1, <2>2, <2>3, FreshApart
<1>3. CASE Authenticates(c)
  <2>1. CASE lock = <<>>
    BY <1>3, <2>1, FreshEnter DEF Authenticates
  <2>2. CASE lock # <<>>
    <3>1. \A d \in Conns : handler'[d] = "sending" => handler[d] = "sending"
      BY <1>a, <1>3, <2>2 DEF Authenticates
    <3> QED BY <1>3, <2>2, <3>1, FreshApart DEF Authenticates, Open
  <2> QED BY <2>1, <2>2
<1>4. CASE Locked(c)
    BY <1>4, FreshEnter DEF Locked
<1>5. CASE Welcomed(c)
  <2>1. Open(c) => got[c] = snap
    BY <1>5 DEF Welcomed, Shown, Fresh
  <2>2. ServedNewest'
    BY <1>5, <2>1 DEF Welcomed, Shown, Fresh, ServedNewest, Open, Publishing
  <2>3. \A d \in Conns : handler'[d] = "sending" => handler[d] = "sending"
    BY <1>a, <1>5 DEF Welcomed
  <2> QED BY <1>5, <2>2, <2>3 DEF Welcomed, Shown, Fresh, Open
<1>6. CASE BrokenOff(c) \/ TurnedAway(c)
  <2>1. \A d \in Conns : handler'[d] = "sending" => handler[d] = "sending"
    BY <1>a, <1>6 DEF BrokenOff, TurnedAway
  <2> QED BY <1>b, <1>6, <2>1, FreshApart DEF BrokenOff, TurnedAway
<1>7. CASE Served(c) \/ Malformed(c)
  <2>1. EndServing(c)
    BY <1>7 DEF Served, Malformed
  <2>2. \A d \in Conns : handler'[d] = "sending" => handler[d] = "sending"
    BY <1>a, <2>1 DEF EndServing
  <2> QED BY <1>b, <2>1, <2>2, FreshApart DEF EndServing
<1> QED BY <1>1, <1>2, <1>3, <1>4, <1>5, <1>6, <1>7 DEF Handle

\* Revision r has the lock: nobody sends, and everybody registered is going to have it.
LEMMA FreshReplace ==
    ASSUME Shown, NEW r \in Revs, Replace(r), cast[r].at \in {"idle", "locking"},
           lock = <<>> \/ Holds(r), UNCHANGED clients
    PROVE  Fresh'
<1>a. cast \in [Casts -> Progress] /\ r \in Casts /\ snap \in Nat /\ r \in Nat
      /\ got \in [Conns -> Nat]
    BY Names DEF Shown, TypeOK, Revs
<1>1. /\ \A c \in Conns : handler[c] # "sending"
      /\ \A q \in Revs : cast[q].at # "sending"
    BY Names, <1>a DEF Shown, Queue, ConnsQueue, RevsQueue, Holds
<1>2. \A q \in Revs : cast[q].todo = {}
    BY <1>1 DEF Shown, Fresh
<1>3. \A q \in Revs : q # r => cast'[q] = cast[q]
    BY <1>a, Names DEF Replace
<1>4. \A c \in Conns : ~Publishing(c)
    BY <1>2 DEF Publishing
<1>5. CASE r > snap
  <2>1. snap' = r /\ cast'[r] = Sending
    BY <1>a, <1>5 DEF Replace
  <2>2. cast'[r].at = "sending" /\ cast'[r].todo = auth /\ cast'[r].on = NoConn
    BY <2>1 DEF Sending, Quiet
  <2>3. ServedNewest'
    BY <2>2 DEF ServedNewest, Publishing, clients
  <2>4. \A c \in Conns : got'[c] <= snap'
    BY <1>a, <1>5, <2>1 DEF Shown, Fresh, clients
  <2>5. \A c, d \in cast'[r].todo : c = d
    BY <2>2, OneServed DEF Shown
  <2>6. \A q \in Revs :
          /\ cast'[q].todo # {} => cast'[q].at = "sending" /\ snap' = q /\ cast'[q].on = NoConn
          /\ \A c, d \in cast'[q].todo : c = d
    BY <1>2, <1>3, <2>1, <2>2, <2>5
  <2> QED BY <1>1, <2>3, <2>4, <2>6 DEF Fresh, clients
<1>6. CASE ~(r > snap)
  <2>1. snap' = snap /\ cast'[r].todo = {}
    BY <1>a, <1>6 DEF Replace, Quiet
  <2>2. \A q \in Revs : cast'[q].todo = {}
    BY <1>2, <1>3, <2>1
  <2>3. ServedNewest'
    BY <1>4, <2>1, <2>2 DEF ServedNewest, Publishing, Shown, Fresh, Open, clients, TypeOK
  <2> QED BY <1>1, <2>1, <2>2, <2>3 DEF Shown, Fresh, clients
<1> QED BY <1>5, <1>6

\* A revision nobody waits for ends.
LEMMA FreshFinish ==
    ASSUME Shown, NEW b \in Casts, Finish(b), b \in Revs => cast[b].todo = {},
           UNCHANGED <<clients, snap>>
    PROVE  Fresh'
<1>a. cast \in [Casts -> Progress]
    BY DEF Shown, TypeOK
<1>1. \A r \in Revs : r # b => cast'[r] = cast[r]
    BY <1>a, Names DEF Finish
<1>2. b \in Revs => cast'[b].todo = {}
    BY <1>a DEF Finish, Over, Quiet
<1>3. \A c \in Conns : Publishing(c) => Publishing(c)'
    BY <1>1 DEF Publishing
<1>4. ServedNewest'
    BY <1>3 DEF ServedNewest, Shown, Fresh, clients, Open, TypeOK
<1> QED BY <1>1, <1>2, <1>4 DEF Shown, Fresh, clients, Open

\* The handshake that sends has the lock, so that no revision does.
LEMMA FreshHand ==
    ASSUME Shown, NEW b \in Casts, NEW c \in Conns, HandTo(b, c)
    PROVE  Fresh' /\ \A d \in Conns : got'[d] >= got[d]
<1>a. cast \in [Casts -> Progress] /\ snap \in Nat /\ got \in [Conns -> Nat]
    BY DEF Shown, TypeOK
<1>b. /\ HandedTo(cast[b], c).at = "sending"
      /\ HandedTo(cast[b], c).todo = cast[b].todo \ {c}
    BY <1>a DEF HandTo, HandedTo, Progress
<1>1. CASE b \notin Revs
  <2>1. UNCHANGED <<got, snap, link, handler, auth>> /\ \A r \in Revs : cast'[r] = cast[r]
    BY <1>1, <1>a, Names DEF HandTo
  <2> QED BY <1>a, <2>1, FreshApart DEF Open
<1>2. CASE b \in Revs
  <2>1. snap = b /\ cast[b].todo = {c} /\ cast[b].at = "sending"
    BY <1>2 DEF HandTo, Shown, Fresh
  <2>2. /\ UNCHANGED <<snap, link, handler, auth>>
        /\ \A r \in Revs : r # b => cast'[r] = cast[r]
        /\ cast'[b].todo = {}
    BY <1>a, <1>b, <2>1, Names DEF HandTo
  <2>3. /\ \A d \in Conns : d # c => got'[d] = got[d]
        /\ got'[c] = IF Open(c) THEN snap ELSE got[c]
    BY <1>2, <1>a, <2>1 DEF HandTo
  <2>4. \A d \in Conns : handler[d] # "sending"
    <3>1. Holds(b)
      BY <1>2, <2>1 DEF Shown, Queue, RevsQueue
    <3> QED BY <1>2, <3>1, OneHolder, Names DEF Shown, Queue, ConnsQueue
  <2>5. \A d \in Conns : d # c /\ Publishing(d) => Publishing(d)'
    BY <2>1, <2>2 DEF Publishing
  <2>6. ServedNewest'
    BY <2>2, <2>3, <2>5 DEF ServedNewest, Shown, Fresh, Open, TypeOK
  <2>7. \A d \in Conns : got'[d] <= snap' /\ got'[d] >= got[d]
    BY <1>a, <2>2, <2>3 DEF Shown, Fresh
  <2> QED BY <2>2, <2>4, <2>6, <2>7 DEF Shown, Fresh
<1> QED BY <1>1, <1>2

LEMMA FreshBroadcast ==
    ASSUME Shown,
           \/ \E r \in Revs : Publish(r) \/ PublishLocked(r) \/ PublishCancelled(r)
           \/ \E b \in Unlocked : Broadcast(b)
           \/ \E b \in Casts : SendEnds(b) \/ Work(b)
    PROVE  Fresh'
<1>a. cast \in [Casts -> Progress]
    BY DEF Shown, TypeOK
<1>1. ASSUME NEW r \in Revs, Publish(r) PROVE Fresh'
  <2>1. CASE lock = <<>>
    BY <1>1, <2>1, FreshReplace DEF Publish
  <2>2. CASE lock # <<>>
    <3>1. /\ \A q \in Revs : q # r => cast'[q] = cast[q]
          /\ cast'[r].todo = {} /\ cast[r].todo = {}
      BY <1>a, <1>1, <2>2, Names DEF Publish, Quiet, Shown, Fresh
    <3>2. ServedNewest'
      BY <1>1, <2>2, <3>1
      DEF Publish, clients, Shown, Fresh, ServedNewest, Publishing, Open, TypeOK
    <3> QED BY <1>1, <2>2, <3>1, <3>2 DEF Publish, clients, Shown, Fresh, Open
  <2> QED BY <2>1, <2>2
<1>2. ASSUME NEW r \in Revs, PublishLocked(r) PROVE Fresh'
    BY <1>2, FreshReplace DEF PublishLocked
<1>3. ASSUME NEW r \in Revs, PublishCancelled(r) PROVE Fresh'
  <2>1. cast[r].todo = {}
    BY <1>3 DEF PublishCancelled, Shown, Fresh
  <2> QED BY <1>3, <2>1, Names, FreshFinish DEF PublishCancelled
<1>4. ASSUME NEW b \in Unlocked, Broadcast(b) PROVE Fresh'
  <2>1. \A r \in Revs : cast'[r] = cast[r]
    BY <1>a, <1>4, Names DEF Broadcast
  <2> QED BY <1>4, <2>1, FreshApart DEF Broadcast, clients, Open
<1>5. ASSUME NEW b \in Casts, SendEnds(b) \/ SendFails(b) PROVE Fresh'
  <2>1. /\ \A r \in Revs : cast'[r].at = cast[r].at /\ cast'[r].todo = cast[r].todo
        /\ \A r \in Revs : cast'[r].on \in {cast[r].on, NoConn}
    BY <1>a, <1>5, Names DEF SendEnds, SendFails, Progress
  <2>2. UNCHANGED <<clients, snap>>
    BY <1>5 DEF SendEnds, SendFails
  <2>3. ServedNewest'
    BY <2>1, <2>2 DEF clients, Shown, Fresh, ServedNewest, Publishing, Open, TypeOK
  <2> QED BY <2>1, <2>2, <2>3 DEF clients, Shown, Fresh, Open
<1>6. ASSUME NEW b \in Casts, NEW c \in Conns, DropStale(b, c) PROVE Fresh'
  <2>1. \A r \in Revs : /\ cast'[r].at = cast[r].at /\ cast'[r].todo = cast[r].todo
                        /\ cast'[r].on = cast[r].on
    BY <1>a, <1>6, Names DEF DropStale, Progress
  <2>2. UNCHANGED <<handler, got, snap>> /\ auth' \subseteq auth
    BY <1>6 DEF DropStale
  <2>3. \A d \in Conns : Open(d)' => Open(d)
    BY <1>6 DEF DropStale, HangUp, Open
  <2>4. ServedNewest'
    BY <2>1, <2>2, <2>3 DEF Shown, Fresh, ServedNewest, Publishing, TypeOK
  <2> QED BY <2>1, <2>2, <2>3, <2>4 DEF Shown, Fresh
<1>7. ASSUME NEW b \in Casts, CastEnds(b) PROVE Fresh'
    BY <1>7, FreshFinish DEF CastEnds, AllHanded
<1> QED BY <1>1, <1>2, <1>3, <1>4, <1>5, <1>6, <1>7, FreshHand DEF Work

LEMMA FreshStop ==
    ASSUME Shown, StartServer \/ StopBegins \/ Stop \/ Heard
    PROVE  Fresh'
<1>1. \A r \in Revs : cast'[r] = cast[r]
    BY Names DEF StartServer, StopBegins, Stop, Heard, StopTakes, StopServer, StopEnds,
                 StopClosed, Shown, TypeOK
<1>2. UNCHANGED <<handler, got, snap>> /\ auth' \subseteq auth
    BY DEF StartServer, StopBegins, Stop, Heard, StopTakes, StopServer, StopEnds,
           StopClosed, clients
<1>3. \A c \in Conns : Open(c)' => Open(c)
    BY DEF StartServer, StopBegins, Stop, Heard, StopTakes, StopServer, StopEnds,
           StopClosed, clients, HangUp, Open
<1> QED BY <1>1, <1>2, <1>3, FreshApart

LEMMA ShownNext == Shown /\ [Next]_vars => Shown'
<1> SUFFICES ASSUME Shown, [Next]_vars PROVE Shown'
    OBVIOUS
<1>1. TypeOK' /\ Token' /\ Queue'
    BY NextTypes, TokenNext, QueueNext DEF Shown
<1>2. CASE UNCHANGED vars
    BY <1>2, FreshApart, <1>1 DEF vars, clients, Open, Shown
<1>3. CASE Next
    BY <1>1, <1>3, FreshHandler, FreshBroadcast, FreshStop DEF Next, Shown
<1> QED BY <1>2, <1>3

\* The client that is served has the newest snapshot, or it is on its way to it.
THEOREM ServesNewest == Spec => []ServedNewest
<1>1. Init => Shown
    BY InitTypes, TokenInit, QueueInit, FreshInit DEF Shown
<1>2. Shown => ServedNewest
    BY DEF Shown, Fresh
<1> QED BY <1>1, <1>2, ShownNext, PTL DEF Spec

LEMMA NotBackwards ==
    ASSUME Shown, [Next]_vars
    PROVE  \A c \in Conns : got'[c] >= got[c]
<1>a. snap \in Nat /\ got \in [Conns -> Nat] /\ \A c \in Conns : got[c] <= snap
    BY DEF Shown, TypeOK, Fresh
<1>b. UNCHANGED got => \A c \in Conns : got'[c] >= got[c]
    BY <1>a
<1>1. ASSUME NEW c \in Conns, Enter(c) PROVE \A d \in Conns : got'[d] >= got[d]
    BY <1>a, <1>1 DEF Enter
<1>2. ASSUME NEW c \in Conns,
             \/ Connects(c) \/ LinkEnds(c) \/ Authenticates(c) \/ Refused(c)
             \/ Speaks(c) \/ Malformed(c) \/ Handle(c)
      PROVE  Enter(c) \/ UNCHANGED got
    BY <1>2 DEF Connects, LinkEnds, Authenticates, Refused, Speaks, Malformed, Handle,
                Locked, Welcomed, BrokenOff, TurnedAway, Served, EndServing, clients
<1>3. ASSUME \/ \E r \in Revs : Publish(r) \/ PublishLocked(r) \/ PublishCancelled(r)
             \/ \E b \in Unlocked : Broadcast(b)
             \/ \E b \in Casts : SendEnds(b) \/ SendFails(b) \/ CastEnds(b)
             \/ \E b \in Casts, c \in Conns : DropStale(b, c)
      PROVE  UNCHANGED got
    BY <1>3 DEF Publish, PublishLocked, PublishCancelled, Broadcast, SendEnds, SendFails,
                CastEnds, DropStale, clients
<1>4. ASSUME StartServer \/ StopBegins \/ Stop \/ Heard \/ UNCHANGED vars
      PROVE  UNCHANGED got
    BY <1>4 DEF StartServer, StopBegins, Stop, Heard, StopTakes, StopServer, StopEnds,
                StopClosed, clients, vars
<1> QED BY <1>b, <1>1, <1>2, <1>3, <1>4, FreshHand DEF Next, Work

\* No client is ever handed a snapshot older than the one it has.
THEOREM OnlyForwards == Spec => NeverBackwards
<1>1. Init => Shown
    BY InitTypes, TokenInit, QueueInit, FreshInit DEF Shown
<1>2. Shown /\ [Next]_vars => [\A c \in Conns : got'[c] >= got[c]]_vars
    BY NotBackwards
<1> QED BY <1>1, <1>2, ShownNext, PTL DEF Spec, NeverBackwards

=============================================================================
