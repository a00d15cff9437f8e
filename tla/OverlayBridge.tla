---------------------------- MODULE OverlayBridge ----------------------------
(***************************************************************************)
(* The websocket server a subtitle overlay reads its snapshots from:       *)
(* OverlayBridge of core/overlay/bridge.py.                                *)
(*                                                                         *)
(* The coroutines that interleave are one handler per connection, the      *)
(* calls of replace_snapshot (one per revision), the heartbeat, the calls  *)
(* that broadcast a control, and stop().  A step runs from one await that  *)
(* may suspend to the next: recv, the snapshot lock, a send whose buffer   *)
(* is full, a close.  The controls sent after the snapshot of a handshake  *)
(* are part of that send.                                                  *)
(***************************************************************************)
EXTENDS Naturals, Sequences

CONSTANTS
    Conns,      \* connections of a behaviour, each used once
    MaxRev,     \* bound: revisions handed to replace_snapshot
    Happens     \* which events an instance includes

\* "bad_auth"   a client presents another token, or no token at all
\* "malformed"  a client that is served sends what is no message
\* "cancelled"  the task that publishes a revision is cancelled
\* "control"    a control is broadcast: like a beat, but stop() lets it go on
Events == {"bad_auth", "malformed", "cancelled", "control"}

ASSUME BridgeAssumption ==
    /\ MaxRev \in Nat
    /\ Happens \subseteq Events

NoConn == "no connection"
Revs == 1..MaxRev
Heartbeat == 0
Control == MaxRev + 1
Unlocked == {Heartbeat, Control}
Casts == Revs \cup Unlocked

ASSUME NamesAssumption ==
    /\ NoConn \notin Conns
    /\ Conns \cap Casts = {}

VARIABLES
    phase,      \* "up" from start() to server.close(), "down" before and after
    stopping,   \* where stop() is
    toClose,    \* connections stop() found and has not closed
    handler,    \* per connection: where _handle_connection is
    link,       \* per connection: "open", "closing" from our side, "closed"
    auth,       \* _authenticated_connections
    consumed,   \* _token_consumed
    lock,       \* _snapshot_lock: its holder, then those who wait
    snap,       \* revision of _snapshot
    got,        \* per connection: the revision last handed to it
    cast,       \* per broadcast: [at, todo, on, stale]
    mail,       \* messages is not empty
    burnt       \* history: a handshake broke off after it took the token

clients == <<handler, link, auth, got>>
vars == <<phase, stopping, toClose, clients, consumed, lock, snap, cast, mail,
          burnt>>

Progress == [at : {"idle", "locking", "sending", "over"}, todo : SUBSET Conns,
             on : Conns \cup {NoConn}, stale : SUBSET Conns]

Quiet == [at |-> "idle", todo |-> {}, on |-> NoConn, stale |-> {}]

Init ==
    /\ phase = "down"
    /\ stopping = "no"
    /\ toClose = {}
    /\ handler = [c \in Conns |-> "none"]
    /\ link = [c \in Conns |-> "closed"]
    /\ auth = {}
    /\ consumed = FALSE
    /\ lock = <<>>
    /\ snap = 0
    /\ got = [c \in Conns |-> 0]
    /\ cast = [b \in Casts |-> Quiet]
    /\ mail = FALSE
    /\ burnt = FALSE

Open(c) == link[c] = "open"
Holds(f) == lock # <<>> /\ Head(lock) = f

\* f gives back the lock, or waits for it no longer.
Waits(f) == \E i \in DOMAIN lock : lock[i] = f
Leave(f) ==
    lock' = IF Waits(f)
              THEN [k \in 1..(Len(lock) - 1) |->
                      IF \E i \in 1..k : lock[i] = f THEN lock[k + 1] ELSE lock[k]]
              ELSE lock

HangUp(S) == link' = [c \in Conns |->
                IF c \in S /\ Open(c) THEN "closing" ELSE link[c]]

\* start(): listens, and starts the heartbeat.
StartServer ==
    /\ phase = "down"
    /\ stopping = "no"
    /\ phase' = "up"
    /\ UNCHANGED <<stopping, toClose, clients, consumed, lock, snap, cast, mail,
                   burnt>>

-----------------------------------------------------------------------------
(***************************************************************************)
(* _handle_connection.                                                     *)
(***************************************************************************)
\* The server has accepted a connection.
Connects(c) ==
    /\ phase = "up"
    /\ handler[c] = "none"
    /\ handler' = [handler EXCEPT ![c] = "auth"]
    /\ link' = [link EXCEPT ![c] = "open"]
    /\ UNCHANGED <<phase, stopping, toClose, auth, consumed, lock, snap, got, cast,
                   mail, burnt>>

\* A client drops its connection, or answers a close; or the close timed out.
LinkEnds(c) ==
    /\ link[c] # "closed"
    /\ link' = [link EXCEPT ![c] = "closed"]
    /\ UNCHANGED <<phase, stopping, toClose, handler, auth, consumed, lock, snap,
                   got, cast, mail, burnt>>

\* Connection c has the lock.  Its token is looked at again; a send to a
\* connection that is no longer open raises.
\* MUTANT: the token is not looked at again.
Enter_Unchecked(c) ==
    /\ consumed' = TRUE
    /\ handler' = [handler EXCEPT ![c] = "sending"]
    /\ got' = IF Open(c) THEN [got EXCEPT ![c] = snap] ELSE got

Enter(c) ==
    /\ consumed' = TRUE
    /\ handler' = [handler EXCEPT ![c] = IF consumed THEN "rejecting" ELSE "sending"]
    /\ got' = IF ~consumed /\ Open(c) THEN [got EXCEPT ![c] = snap] ELSE got

\* The first message is a good one: the token is free.
Authenticates(c) ==
    /\ handler[c] = "auth"
    /\ ~consumed
    /\ link[c] # "closed"
    /\ lock' = Append(lock, c)
    /\ IF lock = <<>>
         THEN Enter(c)
         ELSE /\ handler' = [handler EXCEPT ![c] = "locking"]
              /\ UNCHANGED <<consumed, got>>
    /\ UNCHANGED <<phase, stopping, toClose, link, auth, snap, cast, mail, burnt>>

\* Another token, or the token is taken.
Refused(c) ==
    /\ handler[c] = "auth"
    /\ link[c] # "closed"
    /\ consumed \/ "bad_auth" \in Happens
    /\ handler' = [handler EXCEPT ![c] = "rejecting"]
    /\ UNCHANGED <<phase, stopping, toClose, link, auth, consumed, lock, snap, got,
                   cast, mail, burnt>>

Locked(c) ==
    /\ handler[c] = "locking"
    /\ Holds(c)
    /\ Enter(c)
    /\ UNCHANGED <<phase, stopping, toClose, link, auth, lock, snap, cast, mail,
                   burnt>>

\* The snapshot and the controls have been sent.
\* MUTANT: the lock is given back before the connection is registered.
Welcomed_Late(c) ==
    /\ handler[c] = "sending"
    /\ link[c] # "closed"
    /\ IF Holds(c)
         THEN Leave(c) /\ UNCHANGED <<handler, auth>>
         ELSE /\ handler' = [handler EXCEPT ![c] = "serving"]
              /\ auth' = auth \cup {c}
              /\ UNCHANGED lock
    /\ UNCHANGED <<phase, stopping, toClose, link, consumed, snap, got, cast, mail,
                   burnt>>

Welcomed(c) ==
    /\ handler[c] = "sending"
    /\ link[c] # "closed"
    /\ handler' = [handler EXCEPT ![c] = "serving"]
    /\ auth' = auth \cup {c}
    /\ Leave(c)
    /\ UNCHANGED <<phase, stopping, toClose, link, consumed, snap, got, cast, mail,
                   burnt>>

\* The connection went while its handshake was sent: the token stays taken.
BrokenOff(c) ==
    /\ handler[c] = "sending"
    /\ ~Open(c)
    /\ handler' = [handler EXCEPT ![c] = "gone"]
    /\ burnt' = TRUE
    /\ Leave(c)
    /\ HangUp({c})
    /\ UNCHANGED <<phase, stopping, toClose, auth, consumed, snap, got, cast, mail>>

\* A rejected client, or one that went before it was let in.
TurnedAway(c) ==
    /\ \/ handler[c] = "rejecting"
       \/ handler[c] = "auth" /\ link[c] = "closed"
    /\ handler' = [handler EXCEPT ![c] = "gone"]
    /\ Leave(c)
    /\ HangUp({c})
    /\ UNCHANGED <<phase, stopping, toClose, auth, consumed, snap, got, cast, mail,
                   burnt>>

\* A message of a client that is served is queued.
Speaks(c) ==
    /\ handler[c] = "serving"
    /\ link[c] # "closed"
    /\ mail' = TRUE
    /\ UNCHANGED <<phase, stopping, toClose, clients, consumed, lock, snap, cast,
                   burnt>>

\* A message is taken by the process manager.
Heard ==
    /\ mail
    /\ mail' \in BOOLEAN
    /\ UNCHANGED <<phase, stopping, toClose, clients, consumed, lock, snap, cast,
                   burnt>>

\* The finally of a connection that was served.
EndServing(c) ==
    /\ handler[c] = "serving"
    /\ handler' = [handler EXCEPT ![c] = "gone"]
    /\ auth' = auth \ {c}
    /\ consumed' = IF auth \subseteq {c} THEN FALSE ELSE consumed
    /\ HangUp({c})
    /\ UNCHANGED <<phase, stopping, toClose, lock, snap, got, cast, mail, burnt>>

Served(c) == link[c] = "closed" /\ EndServing(c)

\* What came is no JSON object: the handler raises.
Malformed(c) ==
    /\ "malformed" \in Happens
    /\ link[c] # "closed"
    /\ EndServing(c)

-----------------------------------------------------------------------------
(***************************************************************************)
(* replace_snapshot, the heartbeat and the other broadcasts.               *)
(***************************************************************************)
Sending == [Quiet EXCEPT !.at = "sending", !.todo = auth]
Over == [Quiet EXCEPT !.at = "over"]

\* A broadcast ends; a revision is published once and gives back the lock.
Finish(b) ==
    /\ cast' = [cast EXCEPT ![b] = IF b \in Revs THEN Over ELSE Quiet]
    /\ Leave(b)

\* Revision r has the lock.
\* MUTANT: an older revision replaces a newer one.
Replace_Always(r) ==
    /\ snap' = r
    /\ cast' = [cast EXCEPT ![r] = Sending]

Replace(r) ==
    IF r > snap
      THEN /\ snap' = r
           /\ cast' = [cast EXCEPT ![r] = Sending]
      ELSE /\ snap' = snap
           /\ cast' = [cast EXCEPT ![r] = [Quiet EXCEPT !.at = "sending"]]

\* The presenter hands over a revision.
Publish(r) ==
    /\ cast[r].at = "idle"
    /\ lock' = Append(lock, r)
    /\ IF lock = <<>>
         THEN Replace(r)
         ELSE /\ cast' = [cast EXCEPT ![r] = [Quiet EXCEPT !.at = "locking"]]
              /\ UNCHANGED snap
    /\ UNCHANGED <<phase, stopping, toClose, clients, consumed, mail, burnt>>

\* A revision that waited for the lock has it.
PublishLocked(r) ==
    /\ cast[r].at = "locking"
    /\ Holds(r)
    /\ Replace(r)
    /\ UNCHANGED <<phase, stopping, toClose, clients, consumed, lock, mail, burnt>>

\* The next beat, or a control; stop() ends the heartbeat.
Broadcast(b) ==
    /\ cast[b].at = "idle"
    /\ auth # {}
    /\ IF b = Heartbeat THEN phase = "up" /\ stopping = "no"
                        ELSE "control" \in Happens
    /\ cast' = [cast EXCEPT ![b] = Sending]
    /\ UNCHANGED <<phase, stopping, toClose, clients, consumed, lock, snap, mail,
                   burnt>>

HandedTo(x, c) ==
    [x EXCEPT !.todo = @ \ {c},
              !.on = IF Open(c) THEN c ELSE NoConn,
              !.stale = IF Open(c) THEN @ ELSE @ \cup {c}]

\* The message is handed to one of the connections.
HandTo(b, c) ==
    /\ cast[b].at = "sending"
    /\ cast[b].on = NoConn
    /\ c \in cast[b].todo
    /\ cast' = [cast EXCEPT ![b] = HandedTo(@, c)]
    /\ got' = IF Open(c) /\ b \in Revs THEN [got EXCEPT ![c] = b] ELSE got
    /\ UNCHANGED <<phase, stopping, toClose, handler, link, auth, consumed, lock,
                   snap, mail, burnt>>

\* The buffer has drained.
SendEnds(b) ==
    /\ cast[b].at = "sending"
    /\ cast[b].on # NoConn
    /\ link[cast[b].on] # "closed"
    /\ cast' = [cast EXCEPT ![b].on = NoConn]
    /\ UNCHANGED <<phase, stopping, toClose, clients, consumed, lock, snap, mail,
                   burnt>>

\* The send raises: the connection went, or broadcast_send_timeout_s is over.
SendFails(b) ==
    /\ cast[b].at = "sending"
    /\ cast[b].on # NoConn
    /\ cast' = [cast EXCEPT ![b].stale = @ \cup {cast[b].on}, ![b].on = NoConn]
    /\ UNCHANGED <<phase, stopping, toClose, clients, consumed, lock, snap, mail,
                   burnt>>

AllHanded(b) == cast[b].todo = {} /\ cast[b].on = NoConn

\* A connection whose send failed is forgotten and closed, one after another;
\* at most 2 s are spent on each.
DropStale(b, c) ==
    /\ cast[b].at = "sending"
    /\ AllHanded(b)
    /\ c \in cast[b].stale
    /\ auth' = auth \ {c}
    /\ HangUp({c})
    /\ cast' = [cast EXCEPT ![b].stale = @ \ {c}]
    /\ UNCHANGED <<phase, stopping, toClose, handler, got, consumed, lock, snap, mail,
                   burnt>>

CastEnds(b) ==
    /\ cast[b].at = "sending"
    /\ AllHanded(b)
    /\ cast[b].stale = {}
    /\ Finish(b)
    /\ UNCHANGED <<phase, stopping, toClose, clients, consumed, snap, mail, burnt>>

\* The task that publishes is cancelled while it waits for the lock or for a send.
PublishCancelled(r) ==
    /\ "cancelled" \in Happens
    /\ cast[r].at = "locking" \/ cast[r].on # NoConn
    /\ Finish(r)
    /\ UNCHANGED <<phase, stopping, toClose, clients, consumed, snap, mail, burnt>>

-----------------------------------------------------------------------------
(***************************************************************************)
(* stop().                                                                 *)
(***************************************************************************)
\* The heartbeat is cancelled and awaited.
StopBegins ==
    /\ phase = "up"
    /\ stopping = "no"
    /\ stopping' = "heartbeat"
    /\ cast' = [cast EXCEPT ![Heartbeat] = Quiet]
    /\ UNCHANGED <<phase, toClose, clients, consumed, lock, snap, mail, burnt>>

StopTakes ==
    /\ stopping = "heartbeat"
    /\ stopping' = "connections"
    /\ toClose' = auth
    /\ auth' = {}
    /\ HangUp(auth)
    /\ UNCHANGED <<phase, handler, got, consumed, lock, snap, cast, mail, burnt>>

StopClosed(c) ==
    /\ c \in toClose
    /\ link[c] = "closed"
    /\ toClose' = toClose \ {c}
    /\ UNCHANGED <<phase, stopping, clients, consumed, lock, snap, cast, mail, burnt>>

\* server.close() refuses new connections and closes those there are.
\* MUTANT: the server does not close the connections it has.
StopServer_KeepsClients ==
    /\ stopping = "connections"
    /\ toClose = {}
    /\ stopping' = "server"
    /\ phase' = "down"
    /\ UNCHANGED <<toClose, clients, consumed, lock, snap, cast, mail, burnt>>

StopServer ==
    /\ stopping = "connections"
    /\ toClose = {}
    /\ stopping' = "server"
    /\ phase' = "down"
    /\ HangUp(Conns)
    /\ UNCHANGED <<toClose, handler, auth, got, consumed, lock, snap, cast, mail, burnt>>

\* wait_closed() returns when every handler has ended.
\* MUTANT: the server is not awaited.
StopEnds_Unawaited ==
    /\ stopping = "server"
    /\ stopping' = "no"
    /\ mail' = FALSE
    /\ consumed' = FALSE
    /\ burnt' = FALSE
    /\ UNCHANGED <<phase, toClose, clients, lock, snap, cast>>

StopEnds ==
    /\ stopping = "server"
    /\ \A c \in Conns : handler[c] \in {"none", "gone"} /\ link[c] = "closed"
    /\ stopping' = "no"
    /\ mail' = FALSE
    /\ consumed' = FALSE
    /\ burnt' = FALSE
    /\ UNCHANGED <<phase, toClose, clients, lock, snap, cast>>

-----------------------------------------------------------------------------
Handle(c) ==
    \/ Locked(c) \/ Welcomed(c) \/ BrokenOff(c) \/ TurnedAway(c) \/ Served(c)

Work(b) ==
    \/ SendFails(b)
    \/ CastEnds(b)
    \/ \E c \in Conns : HandTo(b, c) \/ DropStale(b, c)

Stop ==
    \/ StopTakes
    \/ StopServer
    \/ StopEnds
    \/ \E c \in Conns : StopClosed(c)

Next ==
    \/ StartServer
    \/ StopBegins
    \/ Stop
    \/ Heard
    \/ \E c \in Conns :
          \/ Connects(c) \/ LinkEnds(c) \/ Authenticates(c) \/ Refused(c)
          \/ Speaks(c) \/ Malformed(c)
          \/ Handle(c)
    \/ \E r \in Revs : Publish(r) \/ PublishLocked(r) \/ PublishCancelled(r)
    \/ \E b \in Unlocked : Broadcast(b)
    \/ \E b \in Casts : SendEnds(b) \/ Work(b)

Spec == Init /\ [][Next]_vars

\* Handlers, broadcasts and stop() go on when they can; a connection one side
\* closes is closed in the end (the close timeout of the library), and a client
\* in its handshake reads or goes.  Nobody has to connect, speak or publish, and
\* a client that is served need not read.
FairSpec ==
    /\ Spec
    /\ WF_vars(Stop)
    /\ \A c \in Conns :
          /\ WF_vars(Handle(c))
          /\ WF_vars(link[c] = "closing" /\ LinkEnds(c))
    /\ \A b \in Casts : WF_vars(Work(b))
    /\ \A r \in Revs : WF_vars(PublishLocked(r))

-----------------------------------------------------------------------------
(***************************************************************************)
(* Properties.                                                             *)
(***************************************************************************)
\* Every variable keeps to its type.
TypeOK ==
    /\ phase \in {"up", "down"}
    /\ stopping \in {"no", "heartbeat", "connections", "server"}
    /\ toClose \subseteq Conns
    /\ handler \in [Conns -> {"none", "auth", "locking", "sending", "rejecting",
                             "serving", "gone"}]
    /\ link \in [Conns -> {"open", "closing", "closed"}]
    /\ auth \subseteq Conns
    /\ consumed \in BOOLEAN
    /\ lock \in Seq(Conns \cup Revs)
    /\ snap \in 0..MaxRev
    /\ got \in [Conns -> 0..MaxRev]
    /\ cast \in [Casts -> Progress]
    /\ mail \in BOOLEAN
    /\ burnt \in BOOLEAN

Holder(c) == handler[c] \in {"sending", "serving"}

\* However handshakes, broadcasts and stop() interleave, the token lets in one client at a
\* time ("replay while a connection is live is still rejected"), and while it is taken that
\* client holds it and will give it back, unless a handshake broke off: the next overlay is
\* not locked out.
OneClient ==
    /\ \A c, d \in Conns : Holder(c) /\ Holder(d) => c = d
    /\ consumed /\ ~burnt => \E c \in Conns : Holder(c)

Publishing(c) == \E r \in Revs : cast[r].at = "sending" /\ c \in cast[r].todo

\* A client that is served has the newest snapshot, or it is on its way.
ServedNewest ==
    \A c \in auth : Open(c) /\ ~Publishing(c) => got[c] = snap

\* No client is ever handed a snapshot older than one it has.
NeverBackwards == [][\A c \in Conns : got'[c] >= got[c]]_vars

\* When stop() has returned nobody is served, nothing waits to be read and the
\* token is free: the bridge can be started again.
StoppedClean ==
    phase = "down" /\ stopping = "no" =>
        /\ auth = {}
        /\ ~consumed
        /\ ~mail
        /\ \A c \in Conns : handler[c] \in {"none", "gone"}

\* stop() returns, whatever it finds under way; and a client that stops reading delays a
\* snapshot, but every publication ends.
CallsReturn ==
    /\ stopping # "no" ~> stopping = "no"
    /\ \A r \in Revs : cast[r].at = "locking" \/ cast[r].at = "sending"
                          ~> cast[r].at = "over"
=============================================================================
