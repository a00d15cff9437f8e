-------------------------- MODULE SttSessionProofs --------------------------
(***************************************************************************)
(* Theorems about SttSession, for any numbers of sessions, utterances and  *)
(* connect attempts and any choice of what happens.                        *)
(***************************************************************************)
EXTENDS SttSession, SequenceTheorems, TLAPS

\* Nothing runs beside close() that could open a session or reset one, and a
\* reset under way still stands for the session it saw.
Exclusive ==
    /\ closing => loop.at = "idle" /\ warm = "idle" /\ timer.at = "off"
    /\ timer.at \in {"bridging", "reconnecting"} => timer.old # None

\* A drain that the timer task runs exists only while that task drains, there
\* is at most one, and no session is active beside it.
TimerDrains ==
    /\ timer.at = "draining" => active = None
    /\ \A s \in Sessions :
          drain[s].by = "timer" /\ drain[s].at # "none" => timer.at = "draining"
    /\ \A s, t \in Sessions :
          /\ drain[s].by = "timer" /\ drain[s].at # "none"
          /\ drain[t].by = "timer" /\ drain[t].at # "none"
          => s = t

\* What the published state is, also while tasks change it.
StateFollows ==
    /\ active # None /\ ~closing => state = "STREAMING"
    /\ active = None /\ ~closing /\ LockFree /\ timer.at # "draining"
         => state = "DISCONNECTED"

\* The inductive invariant.  NoSessionOverwritten needs Exclusive: close() must
\* not meet an opener or a reset.  StateTellsTheTruth needs to know what state is
\* also in the middle of a change, and that a late timer drain cannot overwrite it.
IInv == TypeOK /\ NoSessionOverwritten /\ Exclusive /\ TimerDrains /\ StateFollows

\* None is outside Sessions, and every session and utterance is a member of the
\* sets the variables range over.
LEMMA Members ==
    /\ None \in SessionIds /\ None \in UttIds
    /\ \A s \in Sessions : s \in SessionIds /\ s # None /\ s \in 0..MaxSessions
    /\ \A s \in SessionIds : s # None => s \in Sessions
    /\ \A u \in UttIds : u < MaxUtts => u + 1 \in UttIds
BY SttAssumption DEF SessionIds, UttIds, Sessions, Utts, None

\* The records the actions build are values of their types.
LEMMA Values ==
    /\ NoDrain \in Drains /\ IdleLoop \in Loops /\ TimerOff \in Timers
    /\ NoDrain.at = "none" /\ IdleLoop.at = "idle" /\ TimerOff.at = "off"
    /\ \A at \in {"idle", "lock", "opening", "decoding"} :
          /\ \A s \in SessionIds : [at |-> at, sess |-> s] \in Loops
          /\ \A l \in Loops : /\ [l EXCEPT !.at = at] \in Loops
                              /\ [l EXCEPT !.at = at].at = at
    /\ \A at \in {"off", "armed", "bridging", "reconnecting", "draining"} :
          /\ [TimerOff EXCEPT !.at = at] \in Timers
          /\ [TimerOff EXCEPT !.at = at].at = at
          /\ \A s \in SessionIds, u \in UttIds :
                [at |-> at, old |-> s, utt |-> u] \in Timers
    /\ \A t \in Timers : t.old \in SessionIds /\ t.utt \in UttIds
    /\ \A l \in Loops : l.sess \in SessionIds
    /\ \A at \in {"none", "start", "flush", "grace", "wait"} :
          /\ \A d \in Drains : /\ [d EXCEPT !.at = at] \in Drains
                               /\ [d EXCEPT !.at = at].by = d.by
                               /\ [d EXCEPT !.at = at].at = at
          /\ \A by \in {"none", "timer", "bridge", "reconnect", "close"}, u \in UttIds :
                [at |-> at, by |-> by, utt |-> u] \in Drains
    /\ \A d \in Drains : /\ d.utt \in UttIds
                          /\ d.by \in {"none", "timer", "bridge", "reconnect", "close"}
    /\ \A u \in UttIds, kind \in {"text", "blank", "fail"} :
          [utt |-> u, kind |-> kind] \in SessionEvents
    /\ \A e \in SessionEvents : e.utt \in UttIds
BY Members DEF NoDrain, IdleLoop, TimerOff, Drains, Loops, Timers, SessionEvents

\* Cancelling the drains of some owners leaves drains and consumers in their types.
LEMMA CancelTypes ==
    ASSUME TypeOK, NEW owners
    PROVE  /\ DrainCancelled(owners) \in [Sessions -> Drains]
           /\ ConsumerCancelled(owners) \in
                 [Sessions -> {"none", "running", "failing", "ended"}]
BY Values DEF TypeOK, DrainCancelled, ConsumerCancelled, DrainsOf

\* Starting a drain leaves drains, sessions and buffered audio in their types.
LEMMA StartDrainTypes ==
    ASSUME TypeOK, NEW s \in Sessions, NEW utt, NEW finalize,
           NEW by \in {"none", "timer", "bridge", "reconnect", "close"},
           NEW d \in [Sessions -> Drains],
           StartDrain(s, by, finalize, utt, d)
    PROVE  /\ drain' \in [Sessions -> Drains]
           /\ sess' \in [Sessions -> {"unused", "open", "stopped", "closed"}]
           /\ audio' \in [Sessions -> UttIds]
<1> DEFINE entry == DrainEntry(s, finalize, utt)
<1>1. entry \in {"wait", "flush", "grace"}
  BY DEF DrainEntry
<1> HIDE DEF entry
<1>2. /\ drain' = [d EXCEPT ![s] = [at |-> entry, by |-> by, utt |-> audio[s]]]
      /\ sess' = [sess EXCEPT ![s] = IF entry = "wait" THEN Stopped(s) ELSE @]
      /\ audio' = [audio EXCEPT ![s] = IF entry = "grace" THEN @ ELSE None]
  BY DEF StartDrain, entry
<1>3. Stopped(s) \in {"unused", "open", "stopped", "closed"}
  BY DEF Stopped, TypeOK
<1>4. [at |-> entry, by |-> by, utt |-> audio[s]] \in Drains
  BY <1>1, Values DEF TypeOK
<1> QED
  BY <1>2, <1>3, <1>4, Members DEF TypeOK

\* An event put on a stream leaves the streams in their type; the session may be
\* None as far as the types know.
LEMMA PublishTypes ==
    ASSUME TypeOK, NEW s \in Sessions \cup SessionIds, NEW u \in UttIds,
           NEW kind \in {"text", "blank", "fail"}, Publish(s, u, kind)
    PROVE  out' \in [Sessions -> Seq(SessionEvents)]
<1>1. [utt |-> u, kind |-> kind] \in SessionEvents
  BY Values
<1>2. CASE s \in Sessions
  <2>1. Append(out[s], [utt |-> u, kind |-> kind]) \in Seq(SessionEvents)
    BY <1>1, <1>2 DEF TypeOK
  <2> QED
    BY <2>1, <1>2 DEF Publish, TypeOK
<1>3. CASE s \notin Sessions
  BY <1>3 DEF Publish, TypeOK
<1> QED
  BY <1>2, <1>3

\* Every step keeps the types.  Only the reconnect that fails needs more: the
\* session it drains is the one it saw.
LEMMA TypeStep == TypeOK /\ NoSessionOverwritten /\ Exclusive /\ [Next]_vars => TypeOK'
<1>1. SUFFICES ASSUME TypeOK, NoSessionOverwritten, Exclusive, [Next]_vars PROVE TypeOK'
  OBVIOUS
<1>2. QED
  <2>1. CASE SpeechStart
    <3>1. spoken + 1 \in UttIds
      BY <1>1, <2>1, Members DEF TypeOK, SpeechStart
    <3>2. audio' \in [Sessions -> UttIds]
      BY <1>1, <2>1, <3>1 DEF TypeOK, SpeechStart, HearAudio
    <3>3. state' \in States /\ loop' \in Loops /\ attempt' \in 0..ConnectAttempts
      BY <1>1, <2>1, SttAssumption, Values
         DEF TypeOK, States, SpeechStart, HearAudio, BeginConnecting
    <3> QED
      BY <1>1, <2>1, <3>1, <3>2, <3>3 DEF TypeOK, SpeechStart, HearAudio, voice
  <2>2. CASE SpeechChunk
    <3>1. spoken \in UttIds
      BY <1>1, <2>2, Members DEF TypeOK, SpeechChunk
    <3>2. audio' \in [Sessions -> UttIds]
      BY <1>1, <2>2, <3>1 DEF TypeOK, SpeechChunk, HearAudio
    <3>3. state' \in States /\ loop' \in Loops /\ attempt' \in 0..ConnectAttempts
      BY <1>1, <2>2, SttAssumption, Values
         DEF TypeOK, States, SpeechChunk, HearAudio, BeginConnecting
    <3> QED
      BY <1>1, <2>2, <3>1, <3>2, <3>3 DEF TypeOK, SpeechChunk, HearAudio, voice
  <2>3. CASE SpeechEnd
    <3>1. pending' \in Seq(UttIds)
      <4>1. Append(pending, spoken) \in Seq(UttIds)
        BY <1>1 DEF TypeOK
      <4> QED BY <1>1, <2>3, <4>1 DEF TypeOK, SpeechEnd
    <3>2. fresh' \in SUBSET UttIds /\ activeUtt' \in UttIds
      BY <1>1, <2>3, Members DEF TypeOK, SpeechEnd
    <3>3. audio' \in [Sessions -> UttIds]
      BY <1>1, <2>3, Members DEF TypeOK, SpeechEnd
    <3>4. loop' \in Loops
      BY <1>1, <2>3, Values DEF TypeOK, SpeechEnd
    <3> QED
      BY <1>1, <2>3, <3>1, <3>2, <3>3, <3>4 DEF TypeOK, SpeechEnd
  <2>4. CASE DecodeEnds
    <3>1. PICK kind \in DecodeResults : Publish(loop.sess, spoken, kind)
      BY <2>4 DEF DecodeEnds
    <3>2. kind \in {"text", "blank", "fail"}
      BY DEF DecodeResults
    <3>3. loop.sess \in SessionIds
      BY <1>1, Values DEF TypeOK
    <3>4. out' \in [Sessions -> Seq(SessionEvents)]
      BY <1>1, <3>1, <3>2, <3>3, PublishTypes DEF TypeOK
    <3> QED
      BY <1>1, <2>4, <3>4, Values DEF TypeOK, DecodeEnds, ids, voice
  <2>5. CASE Warmup
    BY SttAssumption, Members, Values, <1>1, <2>5
       DEF TypeOK, States, ids, backend, tasks, voice, Warmup, LockFree,
           BeginConnecting
  <2>6. CASE LoopGetsLock
    <3>1. loop' \in Loops
      BY <1>1, <2>6, Values DEF TypeOK, LoopGetsLock
    <3>2. audio' \in [Sessions -> UttIds]
      BY <1>1, <2>6 DEF TypeOK, LoopGetsLock
    <3>3. state' \in States /\ attempt' \in 0..ConnectAttempts
      BY <1>1, <2>6, SttAssumption
         DEF TypeOK, States, LoopGetsLock, BeginConnecting
    <3> QED
      BY <1>1, <2>6, <3>1, <3>2, <3>3 DEF TypeOK, LoopGetsLock, ids, voice
  <2>7. CASE WarmupGetsLock
    BY SttAssumption, Members, Values, <1>1, <2>7
       DEF TypeOK, States, ids, backend, tasks, voice, WarmupGetsLock,
           LockFree, BeginConnecting
  <2>8. CASE LoopOpens
    BY SttAssumption, Members, Values, <1>1, <2>8
       DEF TypeOK, States, ids, backend, tasks, voice, LoopOpens,
           Opened, Activate, DrainCancelled, ConsumerCancelled, DrainsOf
  <2>9. CASE WarmupOpens
    BY SttAssumption, Members, Values, <1>1, <2>9
       DEF TypeOK, States, ids, backend, tasks, voice, WarmupOpens,
           Opened, Activate, DrainCancelled, ConsumerCancelled, DrainsOf
  <2>10. CASE LoopOpenFails
    BY SttAssumption, Members, Values, <1>1, <2>10
       DEF TypeOK, States, ids, backend, tasks, voice, LoopOpenFails,
           OpenRaises
  <2>11. CASE WarmupOpenFails
    BY SttAssumption, Members, Values, <1>1, <2>11
       DEF TypeOK, States, ids, backend, tasks, voice, WarmupOpenFails,
           OpenRaises
  <2>12. CASE TimerBridges
    BY SttAssumption, Members, Values, <1>1, <2>12
       DEF TypeOK, States, ids, backend, tasks, voice, TimerBridges,
           TimerAt
  <2>13. CASE TimerReconnects
    BY SttAssumption, Members, Values, <1>1, <2>13
       DEF TypeOK, States, ids, backend, tasks, voice, TimerReconnects,
           TimerAt
  <2>14. CASE TimerInSilence
    <3>1. CASE ResetOnSilence
      <4>1. active \in Sessions
        BY <1>1, <2>14, Members
           DEF TypeOK, TimerInSilence, Exclusive,
               NoSessionOverwritten
      <4>2. /\ drain' \in [Sessions -> Drains]
            /\ sess' \in [Sessions -> {"unused", "open", "stopped", "closed"}]
            /\ audio' \in [Sessions -> UttIds]
        BY <1>1, <3>1, <4>1, StartDrainTypes DEF TypeOK, ResetOnSilence
      <4> QED
        BY <1>1, <3>1, <4>2, Members, Values
           DEF TypeOK, States, ResetOnSilence, ids, voice
    <3>2. CASE ~ResetOnSilence
      BY <1>1, <2>14, <3>2, Values
         DEF TypeOK, TimerInSilence, ids, backend, voice
    <3> QED BY <3>1, <3>2
  <2>15. CASE BridgeOpens
    <3>1. PICK s \in Sessions : Replaced(s) /\ audio' = [audio EXCEPT ![s] = timer.utt]
      BY <2>15 DEF BridgeOpens
    <3>2. drain' \in [Sessions -> Drains]
      BY <1>1, <2>15, Members, Values DEF TypeOK, BridgeOpens
    <3>3. timer' \in Timers /\ opened' \in 0..MaxSessions /\ active' \in SessionIds
      BY <3>1, Members, Values DEF Replaced, Activate
    <3>4. audio' \in [Sessions -> UttIds]
      BY <1>1, <2>15, <3>1, Values DEF TypeOK, BridgeOpens
    <3> QED
      BY <1>1, <3>1, <3>2, <3>3, <3>4
         DEF TypeOK, States, Replaced, Activate, ids, voice
  <2>16. CASE BridgeFails
    BY SttAssumption, Members, Values, <1>1, <2>16
       DEF TypeOK, States, ids, backend, tasks, voice, BridgeFails
  <2>17. CASE ReconnectOpens
    <3>1. PICK s \in Sessions : Replaced(s)
      BY <2>17 DEF ReconnectOpens
    <3>2. drain' \in [Sessions -> Drains]
      BY <1>1, <2>17, Members, Values DEF TypeOK, ReconnectOpens
    <3>3. timer' \in Timers /\ opened' \in 0..MaxSessions /\ active' \in SessionIds
      BY <3>1, Members, Values DEF Replaced, Activate
    <3>4. audio' \in [Sessions -> UttIds]
      BY <1>1, <2>17, <3>1, Values DEF TypeOK, ReconnectOpens
    <3> QED
      BY <1>1, <3>1, <3>2, <3>3, <3>4
         DEF TypeOK, States, Replaced, Activate, ids, voice
  <2>18. CASE ReconnectFails
    <3>1. CASE ResetOnSilence
      <4>1. active \in Sessions
        BY <1>1, <2>18, Members
           DEF TypeOK, ReconnectFails, Exclusive,
               NoSessionOverwritten
      <4>2. /\ drain' \in [Sessions -> Drains]
            /\ sess' \in [Sessions -> {"unused", "open", "stopped", "closed"}]
            /\ audio' \in [Sessions -> UttIds]
        BY <1>1, <3>1, <4>1, StartDrainTypes DEF TypeOK, ResetOnSilence
      <4> QED
        BY <1>1, <3>1, <4>2, Members, Values
           DEF TypeOK, States, ResetOnSilence, ids, voice
    <3> QED BY <2>18, <3>1 DEF ReconnectFails
  <2>19. CASE CloseBegins
    <3>0. /\ loop' = IdleLoop /\ attempt' = 0 /\ speaking' = FALSE /\ timer' = TimerOff
          /\ UNCHANGED <<active, ids, opened, out, warm, spoken, delivered>>
      BY <2>19 DEF CloseBegins
    <3>a. attempt' \in 0..ConnectAttempts /\ loop' \in Loops /\ timer' \in Timers
      BY <3>0, SttAssumption, Values
    <3>b. /\ activeUtt' \in UttIds /\ pending' \in Seq(UttIds)
          /\ fresh' \in SUBSET UttIds
      BY <1>1, <3>0 DEF TypeOK, ids
    <3>c. out' \in [Sessions -> Seq(SessionEvents)]
      BY <1>1, <3>0 DEF TypeOK
    <3>1. CASE active # None
      <4>1. active \in Sessions
        BY <1>1, <3>1, Members DEF TypeOK
      <4>2. /\ StartDrain(active, "close", TRUE, activeUtt, DrainCancelled({"timer"}))
            /\ consumer' = ConsumerCancelled({"timer"})
            /\ closing' = TRUE /\ state' = "DRAINING"
        BY <2>19, <3>1 DEF CloseBegins
      <4>3. /\ drain' \in [Sessions -> Drains]
            /\ sess' \in [Sessions -> {"unused", "open", "stopped", "closed"}]
            /\ audio' \in [Sessions -> UttIds]
            /\ consumer' \in [Sessions -> {"none", "running", "failing", "ended"}]
        BY <1>1, <4>1, <4>2, StartDrainTypes, CancelTypes
      <4> QED
        BY <1>1, <3>0, <3>a, <3>b, <3>c, <4>2, <4>3 DEF TypeOK, States
    <3>2. CASE active = None
      <4>1. /\ drain' \in [Sessions -> Drains]
            /\ consumer' \in [Sessions -> {"none", "running", "failing", "ended"}]
            /\ UNCHANGED <<closing, sess, audio>> /\ state' = "DISCONNECTED"
        BY <1>1, <2>19, <3>2, CancelTypes DEF CloseBegins
      <4> QED
        BY <1>1, <3>0, <3>a, <3>b, <3>c, <4>1 DEF TypeOK, States
    <3> QED BY <3>1, <3>2
  <2>20. CASE WindowPasses
    BY SttAssumption, Members, Values, <1>1, <2>20
       DEF TypeOK, States, ids, backend, tasks, voice, WindowPasses
  <2>21. ASSUME NEW s \in Sessions, ConsumeFinal(s) \/ ConsumerFails(s)
              \/ FailureHandled(s) \/ ConsumerEnds(s) \/ DrainStarts(s)
              \/ DrainFlushes(s) \/ DrainStops(s) \/ DrainCloses(s) \/ CloseEnds(s)
       PROVE  TypeOK'
    <3>1. CASE ConsumeFinal(s)
      <4>1. PICK n \in 0..Len(pending) :
                LET waiting == n < Len(pending)
                    id == IF waiting THEN pending[n + 1] ELSE activeUtt
                IN  /\ pending' = SubSeq(pending, IF waiting THEN n + 2 ELSE n + 1,
                                         Len(pending))
                    /\ delivered' =
                         IF id # None /\ Head(out[s]).kind = "text"
                         THEN delivered \cup {<<Head(out[s]).utt, id>>} ELSE delivered
        BY <3>1 DEF ConsumeFinal
      <4>2. pending' \in Seq(UttIds)
        <5>1. pending \in Seq(UttIds) /\ Len(pending) \in Nat
          BY <1>1 DEF TypeOK
        <5> QED BY <4>1, <5>1
      <4>3. Head(out[s]) \in SessionEvents
        BY <1>1, <3>1 DEF TypeOK, ConsumeFinal
      <4>4. delivered' \in SUBSET (UttIds \X UttIds)
        <5>1. n < Len(pending) => pending[n + 1] \in UttIds
          BY <1>1 DEF TypeOK
        <5> QED BY <1>1, <4>1, <4>3, <5>1, Values DEF TypeOK
      <4>5. out' \in [Sessions -> Seq(SessionEvents)]
        BY <1>1, <3>1 DEF TypeOK, ConsumeFinal
      <4> QED
        BY <1>1, <3>1, <4>2, <4>4, <4>5 DEF TypeOK, ConsumeFinal, tasks, voice
    <3>2. CASE ConsumerFails(s)
      <4>1. out' \in [Sessions -> Seq(SessionEvents)]
        BY <1>1, <3>2 DEF TypeOK, ConsumerFails
      <4>2. CASE s = active
        <5>1. /\ drain' \in [Sessions -> Drains]
              /\ consumer' \in [Sessions -> {"none", "running", "failing", "ended"}]
          BY <1>1, <3>2, <4>2, CancelTypes DEF ConsumerFails
        <5>2. pending' \in Seq(UttIds)
          BY <3>2, <4>2 DEF ConsumerFails
        <5> QED
          BY <1>1, <3>2, <4>1, <4>2, <5>1, <5>2, Members, Values
             DEF TypeOK, States, ConsumerFails, voice
      <4>3. CASE s # active
        BY <1>1, <3>2, <4>1, <4>3 DEF TypeOK, ConsumerFails, ids, voice
      <4> QED BY <4>2, <4>3
    <3>3. CASE FailureHandled(s)
      BY SttAssumption, Members, Values, <1>1, <3>3
         DEF TypeOK, States, ids, backend, tasks, voice,
             FailureHandled
    <3>4. CASE ConsumerEnds(s)
      BY SttAssumption, Members, Values, <1>1, <3>4
         DEF TypeOK, States, ids, backend, tasks, voice, ConsumerEnds
    <3>5. CASE DrainStarts(s)
      BY SttAssumption, Members, Values, <1>1, <3>5
         DEF TypeOK, States, ids, backend, tasks, voice, DrainStarts,
             StartDrain, DrainEntry, Stopped
    <3>6. CASE DrainFlushes(s)
      <4>1. PICK kind \in DecodeResults : Publish(s, drain[s].utt, kind)
        BY <3>6 DEF DrainFlushes
      <4>2. kind \in {"text", "blank", "fail"} /\ drain[s].utt \in UttIds
        BY <1>1, Values DEF DecodeResults, TypeOK
      <4>3. out' \in [Sessions -> Seq(SessionEvents)]
        BY <1>1, <4>1, <4>2, PublishTypes
      <4> QED
        BY <1>1, <3>6, <4>3, Values DEF TypeOK, DrainFlushes, ids, voice
    <3>7. CASE DrainStops(s)
      BY SttAssumption, Members, Values, <1>1, <3>7
         DEF TypeOK, States, ids, backend, tasks, voice, DrainStops,
             Stopped
    <3>8. CASE DrainCloses(s)
      BY SttAssumption, Members, Values, <1>1, <3>8
         DEF TypeOK, States, ids, backend, tasks, voice, DrainCloses,
             Closed
    <3>9. CASE CloseEnds(s)
      <4>1. drain' \in [Sessions -> Drains]
        BY <1>1, <3>9, CancelTypes, Values DEF CloseEnds
      <4>2. consumer' \in [Sessions -> {"none", "running", "failing", "ended"}]
        BY <1>1, <3>9, CancelTypes DEF CloseEnds
      <4>3. sess' \in [Sessions -> {"unused", "open", "stopped", "closed"}]
        BY <1>1, <3>9 DEF TypeOK, CloseEnds, Closed
      <4>4. UNCHANGED <<ids, opened, audio, out, loop, warm, attempt, timer, voice, delivered>>
        BY <3>9 DEF CloseEnds, Closed
      <4>5. active' \in SessionIds /\ state' \in States /\ closing' \in BOOLEAN
        BY <3>9, Members DEF CloseEnds, States
      <4> QED
        BY <1>1, <4>1, <4>2, <4>3, <4>4, <4>5 DEF TypeOK, ids, voice
    <3> QED BY <2>21, <3>1, <3>2, <3>3, <3>4, <3>5, <3>6, <3>7, <3>8, <3>9
  <2>22. CASE UNCHANGED vars
    BY SttAssumption, Members, Values, <1>1, <2>22
       DEF TypeOK, States, ids, backend, tasks, voice, vars
  <2> QED
    BY <1>1, <2>1, <2>2, <2>3, <2>4, <2>5, <2>6, <2>7, <2>8, <2>9, <2>10,
       <2>11, <2>12, <2>13, <2>14, <2>15, <2>16, <2>17, <2>18, <2>19,
       <2>20, <2>21, <2>22
       DEF Next
\* Every step keeps the openers, the resets and close() apart.
LEMMA ExclusiveStep ==
    TypeOK /\ NoSessionOverwritten /\ Exclusive /\ [Next]_vars
    => NoSessionOverwritten' /\ Exclusive'
<1>1. SUFFICES ASSUME TypeOK, NoSessionOverwritten, Exclusive, [Next]_vars
               PROVE  NoSessionOverwritten' /\ Exclusive'
  OBVIOUS
<1>2. QED
  <2>1. CASE SpeechStart
    <3>1. UNCHANGED <<active, timer, closing, warm>> /\ ~closing
      BY <2>1 DEF SpeechStart, HearAudio
    <3>2. /\ active # None => loop' = loop
          /\ active = None /\ LockFree => loop' = [loop EXCEPT !.at = "opening"]
          /\ active = None /\ ~LockFree => loop' = [loop EXCEPT !.at = "lock"]
      <4>1. CASE active # None
        BY <2>1, <4>1 DEF SpeechStart, HearAudio
      <4>2. CASE active = None /\ LockFree
        BY <2>1, <4>2 DEF SpeechStart, HearAudio
      <4>3. CASE active = None /\ ~LockFree
        BY <2>1, <4>3 DEF SpeechStart, HearAudio
      <4> QED BY <4>1, <4>2, <4>3
    <3>3. [loop EXCEPT !.at = "lock"].at = "lock"
      BY <1>1 DEF TypeOK, Loops
    <3>4. loop'.at = "opening" => loop' = loop \/ (active = None /\ LockFree)
      BY <3>2, <3>3
    <3>5. NoSessionOverwritten'
      <4>1. CASE loop' = loop
        BY <1>1, <3>1, <4>1 DEF NoSessionOverwritten
      <4>2. CASE loop'.at # "opening"
        BY <1>1, <3>1, <4>2 DEF NoSessionOverwritten
      <4>3. CASE active = None /\ LockFree
        BY <1>1, <3>1, <4>3 DEF NoSessionOverwritten, LockFree
      <4> QED BY <3>4, <4>1, <4>2, <4>3
    <3> QED BY <1>1, <3>1, <3>5 DEF Exclusive
  <2>2. CASE SpeechChunk
    <3>1. UNCHANGED <<active, timer, closing, warm>> /\ ~closing
      BY <2>2 DEF SpeechChunk, HearAudio
    <3>2. /\ active # None => loop' = loop
          /\ active = None /\ LockFree => loop' = [loop EXCEPT !.at = "opening"]
          /\ active = None /\ ~LockFree => loop' = [loop EXCEPT !.at = "lock"]
      <4>1. CASE active # None
        BY <2>2, <4>1 DEF SpeechChunk, HearAudio
      <4>2. CASE active = None /\ LockFree
        BY <2>2, <4>2 DEF SpeechChunk, HearAudio
      <4>3. CASE active = None /\ ~LockFree
        BY <2>2, <4>3 DEF SpeechChunk, HearAudio
      <4> QED BY <4>1, <4>2, <4>3
    <3>3. [loop EXCEPT !.at = "lock"].at = "lock"
      BY <1>1 DEF TypeOK, Loops
    <3>4. loop'.at = "opening" => loop' = loop \/ (active = None /\ LockFree)
      BY <3>2, <3>3
    <3>5. NoSessionOverwritten'
      <4>1. CASE loop' = loop
        BY <1>1, <3>1, <4>1 DEF NoSessionOverwritten
      <4>2. CASE loop'.at # "opening"
        BY <1>1, <3>1, <4>2 DEF NoSessionOverwritten
      <4>3. CASE active = None /\ LockFree
        BY <1>1, <3>1, <4>3 DEF NoSessionOverwritten, LockFree
      <4> QED BY <3>4, <4>1, <4>2, <4>3
    <3> QED BY <1>1, <3>1, <3>5 DEF Exclusive
  <2>3. CASE SpeechEnd
    BY Members, Values, <1>1, <2>3
       DEF TypeOK, NoSessionOverwritten, Exclusive, LockFree, ids,
           backend, tasks, voice, SpeechEnd
  <2>4. CASE DecodeEnds
    BY Members, Values, <1>1, <2>4
       DEF TypeOK, NoSessionOverwritten, Exclusive, LockFree, ids,
           backend, tasks, voice, DecodeEnds, DecodeResults, Publish
  <2>5. CASE Warmup
    BY Members, Values, <1>1, <2>5
       DEF TypeOK, NoSessionOverwritten, Exclusive, LockFree, ids,
           backend, tasks, voice, Warmup, BeginConnecting
  <2>6. CASE LoopGetsLock
    BY Members, Values, <1>1, <2>6
       DEF TypeOK, NoSessionOverwritten, Exclusive, LockFree, ids,
           backend, tasks, voice, LoopGetsLock, BeginConnecting
  <2>7. CASE WarmupGetsLock
    BY Members, Values, <1>1, <2>7
       DEF TypeOK, NoSessionOverwritten, Exclusive, LockFree, ids,
           backend, tasks, voice, WarmupGetsLock, BeginConnecting
  <2>8. CASE LoopOpens
    BY Members, Values, <1>1, <2>8
       DEF TypeOK, NoSessionOverwritten, Exclusive, LockFree, ids,
           backend, tasks, voice, LoopOpens, Opened, Activate,
           DrainCancelled, ConsumerCancelled, DrainsOf
  <2>9. CASE WarmupOpens
    BY Members, Values, <1>1, <2>9
       DEF TypeOK, NoSessionOverwritten, Exclusive, LockFree, ids,
           backend, tasks, voice, WarmupOpens, Opened, Activate,
           DrainCancelled, ConsumerCancelled, DrainsOf
  <2>10. CASE LoopOpenFails
    BY Members, Values, <1>1, <2>10
       DEF TypeOK, NoSessionOverwritten, Exclusive, LockFree, ids,
           backend, tasks, voice, LoopOpenFails, OpenRaises
  <2>11. CASE WarmupOpenFails
    BY Members, Values, <1>1, <2>11
       DEF TypeOK, NoSessionOverwritten, Exclusive, LockFree, ids,
           backend, tasks, voice, WarmupOpenFails, OpenRaises
  <2>12. CASE TimerBridges
    BY Members, Values, <1>1, <2>12
       DEF TypeOK, NoSessionOverwritten, Exclusive, LockFree, ids,
           backend, tasks, voice, TimerBridges, TimerAt
  <2>13. CASE TimerReconnects
    BY Members, Values, <1>1, <2>13
       DEF TypeOK, NoSessionOverwritten, Exclusive, LockFree, ids,
           backend, tasks, voice, TimerReconnects, TimerAt
  <2>14. CASE TimerInSilence
    <3>1. CASE ResetOnSilence
      <4>1. active' = None /\ timer'.at = "draining" /\ UNCHANGED <<loop, warm, closing>>
        BY <3>1, Values DEF ResetOnSilence
      <4>2. active \in Sessions /\ timer.at \notin {"draining"}
        BY <1>1, <2>14, Members DEF TypeOK, TimerInSilence
      <4> QED
        BY <1>1, <2>14, <4>1, Values
           DEF NoSessionOverwritten, Exclusive, TimerInSilence
    <3>2. CASE ~ResetOnSilence
      BY <1>1, <2>14, <3>2, Values
         DEF NoSessionOverwritten, Exclusive, TimerInSilence, ids,
             backend, voice
    <3> QED BY <3>1, <3>2
  <2>15. CASE BridgeOpens
    BY Members, Values, <1>1, <2>15
       DEF TypeOK, NoSessionOverwritten, Exclusive, LockFree, ids,
           backend, tasks, voice, BridgeOpens, Replaced, Activate
  <2>16. CASE BridgeFails
    BY Members, Values, <1>1, <2>16
       DEF TypeOK, NoSessionOverwritten, Exclusive, LockFree, ids,
           backend, tasks, voice, BridgeFails
  <2>17. CASE ReconnectOpens
    BY Members, Values, <1>1, <2>17
       DEF TypeOK, NoSessionOverwritten, Exclusive, LockFree, ids,
           backend, tasks, voice, ReconnectOpens, Replaced, Activate
  <2>18. CASE ReconnectFails
    BY Members, Values, <1>1, <2>18
       DEF TypeOK, NoSessionOverwritten, Exclusive, LockFree, ids,
           backend, tasks, voice, ReconnectFails, ResetOnSilence,
           StartDrain, DrainEntry, Stopped
  <2>19. CASE CloseBegins
    BY Members, Values, <1>1, <2>19
       DEF TypeOK, NoSessionOverwritten, Exclusive, LockFree, ids,
           backend, tasks, voice, CloseBegins, StartDrain, DrainEntry,
           Stopped, DrainCancelled, ConsumerCancelled, DrainsOf,
           Background
  <2>20. CASE WindowPasses
    BY Members, Values, <1>1, <2>20
       DEF TypeOK, NoSessionOverwritten, Exclusive, LockFree, ids,
           backend, tasks, voice, WindowPasses
  <2>21. ASSUME NEW s \in Sessions, ConsumeFinal(s) \/ ConsumerFails(s)
              \/ FailureHandled(s) \/ ConsumerEnds(s) \/ DrainStarts(s)
              \/ DrainFlushes(s) \/ DrainStops(s) \/ DrainCloses(s) \/ CloseEnds(s)
       PROVE  NoSessionOverwritten' /\ Exclusive'
    <3>1. CASE ConsumeFinal(s)
      BY Members, Values, <1>1, <3>1
         DEF TypeOK, NoSessionOverwritten, Exclusive, LockFree, ids,
             backend, tasks, voice, ConsumeFinal, DropsStale
    <3>2. CASE ConsumerFails(s)
      BY Members, Values, <1>1, <3>2
         DEF TypeOK, NoSessionOverwritten, Exclusive, LockFree, ids,
             backend, tasks, voice, ConsumerFails, DrainCancelled,
             ConsumerCancelled, DrainsOf
    <3>3. CASE FailureHandled(s)
      BY Members, Values, <1>1, <3>3
         DEF TypeOK, NoSessionOverwritten, Exclusive, LockFree, ids,
             backend, tasks, voice, FailureHandled
    <3>4. CASE ConsumerEnds(s)
      BY Members, Values, <1>1, <3>4
         DEF TypeOK, NoSessionOverwritten, Exclusive, LockFree, ids,
             backend, tasks, voice, ConsumerEnds
    <3>5. CASE DrainStarts(s)
      BY Members, Values, <1>1, <3>5
         DEF TypeOK, NoSessionOverwritten, Exclusive, LockFree, ids,
             backend, tasks, voice, DrainStarts, StartDrain,
             DrainEntry, Stopped
    <3>6. CASE DrainFlushes(s)
      BY Members, Values, <1>1, <3>6
         DEF TypeOK, NoSessionOverwritten, Exclusive, LockFree, ids,
             backend, tasks, voice, DrainFlushes, DecodeResults,
             Publish
    <3>7. CASE DrainStops(s)
      BY Members, Values, <1>1, <3>7
         DEF TypeOK, NoSessionOverwritten, Exclusive, LockFree, ids,
             backend, tasks, voice, DrainStops, Stopped
    <3>8. CASE DrainCloses(s)
      BY Members, Values, <1>1, <3>8
         DEF TypeOK, NoSessionOverwritten, Exclusive, LockFree, ids,
             backend, tasks, voice, DrainCloses, Closed
    <3>9. CASE CloseEnds(s)
      BY Members, Values, <1>1, <3>9
         DEF TypeOK, NoSessionOverwritten, Exclusive, LockFree, ids,
             backend, tasks, voice, CloseEnds, Closed, DrainCancelled,
             ConsumerCancelled, DrainsOf, Background
    <3> QED BY <2>21, <3>1, <3>2, <3>3, <3>4, <3>5, <3>6, <3>7, <3>8, <3>9
  <2>22. CASE UNCHANGED vars
    BY Members, Values, <1>1, <2>22
       DEF TypeOK, NoSessionOverwritten, Exclusive, LockFree, ids,
           backend, tasks, voice, vars
  <2> QED
    BY <1>1, <2>1, <2>2, <2>3, <2>4, <2>5, <2>6, <2>7, <2>8, <2>9, <2>10,
       <2>11, <2>12, <2>13, <2>14, <2>15, <2>16, <2>17, <2>18, <2>19,
       <2>20, <2>21, <2>22
       DEF Next

\* Every step keeps the drain of the timer task single and alone.
LEMMA TimerDrainsStep ==
    TypeOK /\ NoSessionOverwritten /\ Exclusive /\ TimerDrains /\ [Next]_vars
    => TimerDrains'
<1>1. SUFFICES ASSUME TypeOK, NoSessionOverwritten, Exclusive, TimerDrains, [Next]_vars
               PROVE  TimerDrains'
  OBVIOUS
<1>2. QED
  <2>1. CASE SpeechStart
    BY Members, Values, <1>1, <2>1
       DEF TypeOK, NoSessionOverwritten, Exclusive, TimerDrains, ids,
           backend, tasks, voice, SpeechStart, HearAudio,
           BeginConnecting
  <2>2. CASE SpeechChunk
    BY Members, Values, <1>1, <2>2
       DEF TypeOK, NoSessionOverwritten, Exclusive, TimerDrains, ids,
           backend, tasks, voice, SpeechChunk, HearAudio,
           BeginConnecting
  <2>3. CASE SpeechEnd
    BY Members, Values, <1>1, <2>3
       DEF TypeOK, NoSessionOverwritten, Exclusive, TimerDrains, ids,
           backend, tasks, voice, SpeechEnd
  <2>4. CASE DecodeEnds
    BY Members, Values, <1>1, <2>4
       DEF TypeOK, NoSessionOverwritten, Exclusive, TimerDrains, ids,
           backend, tasks, voice, DecodeEnds, DecodeResults, Publish
  <2>5. CASE Warmup
    BY Members, Values, <1>1, <2>5
       DEF TypeOK, NoSessionOverwritten, Exclusive, TimerDrains, ids,
           backend, tasks, voice, Warmup, BeginConnecting
  <2>6. CASE LoopGetsLock
    BY Members, Values, <1>1, <2>6
       DEF TypeOK, NoSessionOverwritten, Exclusive, TimerDrains, ids,
           backend, tasks, voice, LoopGetsLock, BeginConnecting
  <2>7. CASE WarmupGetsLock
    BY Members, Values, <1>1, <2>7
       DEF TypeOK, NoSessionOverwritten, Exclusive, TimerDrains, ids,
           backend, tasks, voice, WarmupGetsLock, BeginConnecting
  <2>8. CASE LoopOpens
    BY Members, Values, <1>1, <2>8
       DEF TypeOK, NoSessionOverwritten, Exclusive, TimerDrains, ids,
           backend, tasks, voice, LoopOpens, Opened, Activate,
           DrainCancelled, ConsumerCancelled, DrainsOf
  <2>9. CASE WarmupOpens
    BY Members, Values, <1>1, <2>9
       DEF TypeOK, NoSessionOverwritten, Exclusive, TimerDrains, ids,
           backend, tasks, voice, WarmupOpens, Opened, Activate,
           DrainCancelled, ConsumerCancelled, DrainsOf
  <2>10. CASE LoopOpenFails
    BY Members, Values, <1>1, <2>10
       DEF TypeOK, NoSessionOverwritten, Exclusive, TimerDrains, ids,
           backend, tasks, voice, LoopOpenFails, OpenRaises
  <2>11. CASE WarmupOpenFails
    BY Members, Values, <1>1, <2>11
       DEF TypeOK, NoSessionOverwritten, Exclusive, TimerDrains, ids,
           backend, tasks, voice, WarmupOpenFails, OpenRaises
  <2>12. CASE TimerBridges
    BY Members, Values, <1>1, <2>12
       DEF TypeOK, NoSessionOverwritten, Exclusive, TimerDrains, ids,
           backend, tasks, voice, TimerBridges, TimerAt
  <2>13. CASE TimerReconnects
    BY Members, Values, <1>1, <2>13
       DEF TypeOK, NoSessionOverwritten, Exclusive, TimerDrains, ids,
           backend, tasks, voice, TimerReconnects, TimerAt
  <2>14. CASE TimerInSilence
    <3>1. CASE ResetOnSilence
      <4>1. active' = None /\ timer'.at = "draining" /\ UNCHANGED <<loop, warm, closing>>
        BY <3>1, Values DEF ResetOnSilence
      <4>2. active \in Sessions /\ timer.at \notin {"draining"}
        BY <1>1, <2>14, Members DEF TypeOK, TimerInSilence
      <4>3. PICK e : drain' = [drain EXCEPT ![active] = [at |-> e, by |-> "timer", utt |-> audio[active]]]
        BY <3>1 DEF ResetOnSilence, StartDrain
      <4>4. \A s \in Sessions \ {active} : drain'[s] = drain[s]
        BY <1>1, <4>3 DEF TypeOK
      <4>5. \A s \in Sessions \ {active} : ~(drain'[s].by = "timer" /\ drain'[s].at # "none")
        BY <1>1, <4>2, <4>4 DEF TimerDrains
      <4> QED BY <4>1, <4>5 DEF TimerDrains
    <3>2. CASE ~ResetOnSilence
      BY <1>1, <2>14, <3>2, Values
         DEF TimerDrains, TimerInSilence, ids, backend, voice
    <3> QED BY <3>1, <3>2
  <2>15. CASE BridgeOpens
    BY Members, Values, <1>1, <2>15
       DEF TypeOK, NoSessionOverwritten, Exclusive, TimerDrains, ids,
           backend, tasks, voice, BridgeOpens, Replaced, Activate
  <2>16. CASE BridgeFails
    BY Members, Values, <1>1, <2>16
       DEF TypeOK, NoSessionOverwritten, Exclusive, TimerDrains, ids,
           backend, tasks, voice, BridgeFails
  <2>17. CASE ReconnectOpens
    BY Members, Values, <1>1, <2>17
       DEF TypeOK, NoSessionOverwritten, Exclusive, TimerDrains, ids,
           backend, tasks, voice, ReconnectOpens, Replaced, Activate
  <2>18. CASE ReconnectFails
    BY Members, Values, <1>1, <2>18
       DEF TypeOK, NoSessionOverwritten, Exclusive, TimerDrains, ids,
           backend, tasks, voice, ReconnectFails, ResetOnSilence,
           StartDrain, DrainEntry, Stopped
  <2>19. CASE CloseBegins
    <3>1. \A s \in Sessions : ~(DrainCancelled({"timer"})[s].by = "timer"
                                /\ DrainCancelled({"timer"})[s].at # "none")
      BY <1>1, Values DEF TypeOK, DrainCancelled, DrainsOf
    <3>2. timer'.at = "off"
      BY <2>19, Values DEF CloseBegins
    <3>3. CASE active # None
      <4>1. active \in Sessions
        BY <1>1, <3>3, Members DEF TypeOK
      <4>2. PICK e : drain' = [DrainCancelled({"timer"}) EXCEPT ![active] =
                                 [at |-> e, by |-> "close", utt |-> audio[active]]]
        BY <2>19, <3>3 DEF CloseBegins, StartDrain
      <4>3. \A s \in Sessions : ~(drain'[s].by = "timer" /\ drain'[s].at # "none")
        BY <1>1, <3>1, <4>1, <4>2, CancelTypes
      <4> QED BY <3>2, <4>3 DEF TimerDrains
    <3>4. CASE active = None
      <4>1. drain' = DrainCancelled({"timer"} \cup Background)
        BY <2>19, <3>4 DEF CloseBegins
      <4>2. \A s \in Sessions : ~(drain'[s].by = "timer" /\ drain'[s].at # "none")
        BY <1>1, <4>1, Values DEF TypeOK, DrainCancelled, DrainsOf
      <4> QED BY <3>2, <4>2 DEF TimerDrains
    <3> QED BY <3>3, <3>4
  <2>20. CASE WindowPasses
    BY Members, Values, <1>1, <2>20
       DEF TypeOK, NoSessionOverwritten, Exclusive, TimerDrains, ids,
           backend, tasks, voice, WindowPasses
  <2>21. ASSUME NEW s \in Sessions, ConsumeFinal(s) \/ ConsumerFails(s)
              \/ FailureHandled(s) \/ ConsumerEnds(s) \/ DrainStarts(s)
              \/ DrainFlushes(s) \/ DrainStops(s) \/ DrainCloses(s) \/ CloseEnds(s)
       PROVE  TimerDrains'
    <3>1. CASE ConsumeFinal(s)
      BY Members, Values, <1>1, <3>1
         DEF TypeOK, NoSessionOverwritten, Exclusive, TimerDrains,
             ids, backend, tasks, voice, ConsumeFinal, DropsStale
    <3>2. CASE ConsumerFails(s)
      BY Members, Values, <1>1, <3>2
         DEF TypeOK, NoSessionOverwritten, Exclusive, TimerDrains,
             ids, backend, tasks, voice, ConsumerFails,
             DrainCancelled, ConsumerCancelled, DrainsOf
    <3>3. CASE FailureHandled(s)
      BY Members, Values, <1>1, <3>3
         DEF TypeOK, NoSessionOverwritten, Exclusive, TimerDrains,
             ids, backend, tasks, voice, FailureHandled
    <3>4. CASE ConsumerEnds(s)
      BY Members, Values, <1>1, <3>4
         DEF TypeOK, NoSessionOverwritten, Exclusive, TimerDrains,
             ids, backend, tasks, voice, ConsumerEnds
    <3>5. CASE DrainStarts(s)
      BY Members, Values, <1>1, <3>5
         DEF TypeOK, NoSessionOverwritten, Exclusive, TimerDrains,
             ids, backend, tasks, voice, DrainStarts, StartDrain,
             DrainEntry, Stopped
    <3>6. CASE DrainFlushes(s)
      BY Members, Values, <1>1, <3>6
         DEF TypeOK, NoSessionOverwritten, Exclusive, TimerDrains,
             ids, backend, tasks, voice, DrainFlushes, DecodeResults,
             Publish
    <3>7. CASE DrainStops(s)
      BY Members, Values, <1>1, <3>7
         DEF TypeOK, NoSessionOverwritten, Exclusive, TimerDrains,
             ids, backend, tasks, voice, DrainStops, Stopped
    <3>8. CASE DrainCloses(s)
      BY Members, Values, <1>1, <3>8
         DEF TypeOK, NoSessionOverwritten, Exclusive, TimerDrains,
             ids, backend, tasks, voice, DrainCloses, Closed
    <3>9. CASE CloseEnds(s)
      <4>1. timer.at = "off" /\ timer' = timer /\ active' = None
        BY <1>1, <3>9 DEF CloseEnds, Exclusive
      <4>2. \A r \in Sessions : ~(drain[r].by = "timer" /\ drain[r].at # "none")
        BY <1>1, <4>1 DEF TimerDrains
      <4>3. drain' = [DrainCancelled(Background) EXCEPT ![s] = NoDrain]
        BY <3>9 DEF CloseEnds
      <4>4. \A r \in Sessions : drain'[r] = drain[r] \/ drain'[r] = NoDrain
        BY <1>1, <4>3, CancelTypes DEF DrainCancelled, DrainsOf, TypeOK
      <4>5. \A r \in Sessions : ~(drain'[r].by = "timer" /\ drain'[r].at # "none")
        BY <4>2, <4>4, Values
      <4> QED BY <4>1, <4>5 DEF TimerDrains
    <3> QED BY <2>21, <3>1, <3>2, <3>3, <3>4, <3>5, <3>6, <3>7, <3>8, <3>9
  <2>22. CASE UNCHANGED vars
    BY Members, Values, <1>1, <2>22
       DEF TypeOK, NoSessionOverwritten, Exclusive, TimerDrains, ids,
           backend, tasks, voice, vars
  <2> QED
    BY <1>1, <2>1, <2>2, <2>3, <2>4, <2>5, <2>6, <2>7, <2>8, <2>9, <2>10,
       <2>11, <2>12, <2>13, <2>14, <2>15, <2>16, <2>17, <2>18, <2>19,
       <2>20, <2>21, <2>22
       DEF Next

\* Every step keeps the published state in line with the session.
LEMMA StateStep ==
    TypeOK /\ NoSessionOverwritten /\ Exclusive /\ TimerDrains /\ StateFollows
    /\ [Next]_vars => StateFollows'
<1>1. SUFFICES ASSUME TypeOK, NoSessionOverwritten, Exclusive, TimerDrains, StateFollows,
                      [Next]_vars
               PROVE  StateFollows'
  OBVIOUS
<1>2. QED
  <2>1. CASE SpeechStart
    <3>1. UNCHANGED <<active, timer, closing, warm>> /\ ~closing
      BY <2>1 DEF SpeechStart, HearAudio
    <3>2. CASE active # None
      BY <1>1, <2>1, <3>1, <3>2 DEF SpeechStart, HearAudio, StateFollows
    <3>3. CASE active = None /\ LockFree
      <4>1. loop' = [loop EXCEPT !.at = "opening"]
        BY <2>1, <3>3 DEF SpeechStart, HearAudio
      <4>2. loop'.at = "opening"
        BY <1>1, <4>1 DEF TypeOK, Loops
      <4> QED BY <3>1, <3>3, <4>2 DEF StateFollows, LockFree
    <3>4. CASE active = None /\ ~LockFree
      <4>1. warm = "opening"
        BY <2>1, <3>4 DEF SpeechStart, HearAudio, LockFree
      <4> QED BY <3>1, <3>4, <4>1 DEF StateFollows, LockFree
    <3> QED BY <3>2, <3>3, <3>4
  <2>2. CASE SpeechChunk
    <3>1. UNCHANGED <<active, timer, closing, warm>> /\ ~closing
      BY <2>2 DEF SpeechChunk, HearAudio
    <3>2. CASE active # None
      BY <1>1, <2>2, <3>1, <3>2 DEF SpeechChunk, HearAudio, StateFollows
    <3>3. CASE active = None /\ LockFree
      <4>1. loop' = [loop EXCEPT !.at = "opening"]
        BY <2>2, <3>3 DEF SpeechChunk, HearAudio
      <4>2. loop'.at = "opening"
        BY <1>1, <4>1 DEF TypeOK, Loops
      <4> QED BY <3>1, <3>3, <4>2 DEF StateFollows, LockFree
    <3>4. CASE active = None /\ ~LockFree
      <4>1. warm = "opening"
        BY <2>2, <3>4 DEF SpeechChunk, HearAudio, LockFree
      <4> QED BY <3>1, <3>4, <4>1 DEF StateFollows, LockFree
    <3> QED BY <3>2, <3>3, <3>4
  <2>3. CASE SpeechEnd
    BY Members, Values, <1>1, <2>3
       DEF TypeOK, NoSessionOverwritten, Exclusive, TimerDrains,
           StateFollows, LockFree, ids, backend, tasks, voice, SpeechEnd
  <2>4. CASE DecodeEnds
    BY Members, Values, <1>1, <2>4
       DEF TypeOK, NoSessionOverwritten, Exclusive, TimerDrains,
           StateFollows, LockFree, ids, backend, tasks, voice,
           DecodeEnds, DecodeResults, Publish
  <2>5. CASE Warmup
    BY Members, Values, <1>1, <2>5
       DEF TypeOK, NoSessionOverwritten, Exclusive, TimerDrains,
           StateFollows, LockFree, ids, backend, tasks, voice, Warmup,
           BeginConnecting
  <2>6. CASE LoopGetsLock
    <3>1. UNCHANGED <<active, timer, closing, warm>> /\ LockFree /\ loop.at = "lock"
      BY <2>6 DEF LoopGetsLock
    <3>2. CASE active # None
      BY <1>1, <2>6, <3>1, <3>2 DEF LoopGetsLock, StateFollows
    <3>3. CASE active = None
      <4>1. loop' = [loop EXCEPT !.at = "opening"]
        BY <2>6, <3>3 DEF LoopGetsLock
      <4>2. loop'.at = "opening"
        BY <1>1, <4>1 DEF TypeOK, Loops
      <4> QED BY <3>1, <3>3, <4>2 DEF StateFollows, LockFree
    <3> QED BY <3>2, <3>3
  <2>7. CASE WarmupGetsLock
    BY Members, Values, <1>1, <2>7
       DEF TypeOK, NoSessionOverwritten, Exclusive, TimerDrains,
           StateFollows, LockFree, ids, backend, tasks, voice,
           WarmupGetsLock, BeginConnecting
  <2>8. CASE LoopOpens
    BY Members, Values, <1>1, <2>8
       DEF TypeOK, NoSessionOverwritten, Exclusive, TimerDrains,
           StateFollows, LockFree, ids, backend, tasks, voice,
           LoopOpens, Opened, Activate, DrainCancelled,
           ConsumerCancelled, DrainsOf
  <2>9. CASE WarmupOpens
    BY Members, Values, <1>1, <2>9
       DEF TypeOK, NoSessionOverwritten, Exclusive, TimerDrains,
           StateFollows, LockFree, ids, backend, tasks, voice,
           WarmupOpens, Opened, Activate, DrainCancelled,
           ConsumerCancelled, DrainsOf
  <2>10. CASE LoopOpenFails
    BY Members, Values, <1>1, <2>10
       DEF TypeOK, NoSessionOverwritten, Exclusive, TimerDrains,
           StateFollows, LockFree, ids, backend, tasks, voice,
           LoopOpenFails, OpenRaises
  <2>11. CASE WarmupOpenFails
    BY Members, Values, <1>1, <2>11
       DEF TypeOK, NoSessionOverwritten, Exclusive, TimerDrains,
           StateFollows, LockFree, ids, backend, tasks, voice,
           WarmupOpenFails, OpenRaises
  <2>12. CASE TimerBridges
    BY Members, Values, <1>1, <2>12
       DEF TypeOK, NoSessionOverwritten, Exclusive, TimerDrains,
           StateFollows, LockFree, ids, backend, tasks, voice,
           TimerBridges, TimerAt
  <2>13. CASE TimerReconnects
    BY Members, Values, <1>1, <2>13
       DEF TypeOK, NoSessionOverwritten, Exclusive, TimerDrains,
           StateFollows, LockFree, ids, backend, tasks, voice,
           TimerReconnects, TimerAt
  <2>14. CASE TimerInSilence
    <3>1. CASE ResetOnSilence
      <4>1. active' = None /\ timer'.at = "draining" /\ UNCHANGED <<loop, warm, closing>>
        BY <3>1, Values DEF ResetOnSilence
      <4>2. active \in Sessions /\ timer.at \notin {"draining"}
        BY <1>1, <2>14, Members DEF TypeOK, TimerInSilence
      <4> QED BY <4>1 DEF StateFollows
    <3>2. CASE ~ResetOnSilence
      BY <1>1, <2>14, <3>2, Values
         DEF StateFollows, LockFree, TimerInSilence, ids, backend,
             voice
    <3> QED BY <3>1, <3>2
  <2>15. CASE BridgeOpens
    BY Members, Values, <1>1, <2>15
       DEF TypeOK, NoSessionOverwritten, Exclusive, TimerDrains,
           StateFollows, LockFree, ids, backend, tasks, voice,
           BridgeOpens, Replaced, Activate
  <2>16. CASE BridgeFails
    BY Members, Values, <1>1, <2>16
       DEF TypeOK, NoSessionOverwritten, Exclusive, TimerDrains,
           StateFollows, LockFree, ids, backend, tasks, voice,
           BridgeFails
  <2>17. CASE ReconnectOpens
    BY Members, Values, <1>1, <2>17
       DEF TypeOK, NoSessionOverwritten, Exclusive, TimerDrains,
           StateFollows, LockFree, ids, backend, tasks, voice,
           ReconnectOpens, Replaced, Activate
  <2>18. CASE ReconnectFails
    BY Members, Values, <1>1, <2>18
       DEF TypeOK, NoSessionOverwritten, Exclusive, TimerDrains,
           StateFollows, LockFree, ids, backend, tasks, voice,
           ReconnectFails, ResetOnSilence, StartDrain, DrainEntry,
           Stopped
  <2>19. CASE CloseBegins
    BY Members, Values, <1>1, <2>19
       DEF TypeOK, NoSessionOverwritten, Exclusive, TimerDrains,
           StateFollows, LockFree, ids, backend, tasks, voice,
           CloseBegins, StartDrain, DrainEntry, Stopped, DrainCancelled,
           ConsumerCancelled, DrainsOf, Background
  <2>20. CASE WindowPasses
    BY Members, Values, <1>1, <2>20
       DEF TypeOK, NoSessionOverwritten, Exclusive, TimerDrains,
           StateFollows, LockFree, ids, backend, tasks, voice,
           WindowPasses
  <2>21. ASSUME NEW s \in Sessions, ConsumeFinal(s) \/ ConsumerFails(s)
              \/ FailureHandled(s) \/ ConsumerEnds(s) \/ DrainStarts(s)
              \/ DrainFlushes(s) \/ DrainStops(s) \/ DrainCloses(s) \/ CloseEnds(s)
       PROVE  StateFollows'
    <3>1. CASE ConsumeFinal(s)
      BY Members, Values, <1>1, <3>1
         DEF TypeOK, NoSessionOverwritten, Exclusive, TimerDrains,
             StateFollows, LockFree, ids, backend, tasks, voice,
             ConsumeFinal, DropsStale
    <3>2. CASE ConsumerFails(s)
      BY Members, Values, <1>1, <3>2
         DEF TypeOK, NoSessionOverwritten, Exclusive, TimerDrains,
             StateFollows, LockFree, ids, backend, tasks, voice,
             ConsumerFails, DrainCancelled, ConsumerCancelled,
             DrainsOf
    <3>3. CASE FailureHandled(s)
      BY Members, Values, <1>1, <3>3
         DEF TypeOK, NoSessionOverwritten, Exclusive, TimerDrains,
             StateFollows, LockFree, ids, backend, tasks, voice,
             FailureHandled
    <3>4. CASE ConsumerEnds(s)
      BY Members, Values, <1>1, <3>4
         DEF TypeOK, NoSessionOverwritten, Exclusive, TimerDrains,
             StateFollows, LockFree, ids, backend, tasks, voice,
             ConsumerEnds
    <3>5. CASE DrainStarts(s)
      BY Members, Values, <1>1, <3>5
         DEF TypeOK, NoSessionOverwritten, Exclusive, TimerDrains,
             StateFollows, LockFree, ids, backend, tasks, voice,
             DrainStarts, StartDrain, DrainEntry, Stopped
    <3>6. CASE DrainFlushes(s)
      BY Members, Values, <1>1, <3>6
         DEF TypeOK, NoSessionOverwritten, Exclusive, TimerDrains,
             StateFollows, LockFree, ids, backend, tasks, voice,
             DrainFlushes, DecodeResults, Publish
    <3>7. CASE DrainStops(s)
      BY Members, Values, <1>1, <3>7
         DEF TypeOK, NoSessionOverwritten, Exclusive, TimerDrains,
             StateFollows, LockFree, ids, backend, tasks, voice,
             DrainStops, Stopped
    <3>8. CASE DrainCloses(s)
      BY Members, Values, <1>1, <3>8
         DEF TypeOK, NoSessionOverwritten, Exclusive, TimerDrains,
             StateFollows, LockFree, ids, backend, tasks, voice,
             DrainCloses, Closed
    <3>9. CASE CloseEnds(s)
      BY Members, Values, <1>1, <3>9
         DEF TypeOK, NoSessionOverwritten, Exclusive, TimerDrains,
             StateFollows, LockFree, ids, backend, tasks, voice,
             CloseEnds, Closed, DrainCancelled, ConsumerCancelled,
             DrainsOf, Background
    <3> QED BY <2>21, <3>1, <3>2, <3>3, <3>4, <3>5, <3>6, <3>7, <3>8, <3>9
  <2>22. CASE UNCHANGED vars
    BY Members, Values, <1>1, <2>22
       DEF TypeOK, NoSessionOverwritten, Exclusive, TimerDrains,
           StateFollows, LockFree, ids, backend, tasks, voice, vars
  <2> QED
    BY <1>1, <2>1, <2>2, <2>3, <2>4, <2>5, <2>6, <2>7, <2>8, <2>9, <2>10,
       <2>11, <2>12, <2>13, <2>14, <2>15, <2>16, <2>17, <2>18, <2>19,
       <2>20, <2>21, <2>22
       DEF Next

\* The provider starts disconnected, with no task running.
LEMMA InitInv == Init => IInv
<1> SUFFICES ASSUME Init PROVE IInv
  OBVIOUS
<1>1. TypeOK
  <2>1. pending \in Seq(UttIds) /\ out \in [Sessions -> Seq(SessionEvents)]
    BY DEF Init
  <2>2. loop \in Loops /\ timer \in Timers /\ drain \in [Sessions -> Drains]
    BY Values DEF Init
  <2>3. opened \in 0..MaxSessions /\ attempt \in 0..ConnectAttempts
    BY SttAssumption DEF Init
  <2>4. spoken \in UttIds /\ active \in SessionIds /\ activeUtt \in UttIds
    BY Members DEF Init, None
  <2> QED
    BY <2>1, <2>2, <2>3, <2>4, Members DEF Init, TypeOK, States
<1>2. NoSessionOverwritten /\ Exclusive /\ TimerDrains /\ StateFollows
  BY DEF Init, NoSessionOverwritten, Exclusive, TimerDrains, StateFollows,
         IdleLoop, TimerOff, NoDrain
<1> QED
  BY <1>1, <1>2 DEF IInv

\* The inductive invariant holds in every behaviour.
THEOREM InvHolds == Spec => []IInv
<1>1. IInv /\ [Next]_vars => IInv'
  BY TypeStep, ExclusiveStep, TimerDrainsStep, StateStep DEF IInv
<1> QED
  BY InitInv, <1>1, PTL DEF Spec

\* Every variable of the managed provider stays in its type.
THEOREM TypeCorrect == Spec => []TypeOK
<1>1. IInv => TypeOK
  BY DEF IInv
<1> QED
  BY <1>1, InvHolds, PTL

\* _active_session is never overwritten: whoever opens a session for an empty
\* slot finds it empty, whoever opens one to replace a session finds that session.
THEOREM SessionsNeverOverwritten == Spec => []NoSessionOverwritten
<1>1. IInv => NoSessionOverwritten
  BY DEF IInv
<1> QED
  BY <1>1, InvHolds, PTL

\* Whenever no task is in the middle of changing it, the state event published
\* last tells whether there is an active session.
THEOREM StateIsTrue == Spec => []StateTellsTheTruth
<1>1. IInv => StateTellsTheTruth
  BY DEF IInv, StateFollows, StateTellsTheTruth, Settled, LockFree
<1> QED
  BY <1>1, InvHolds, PTL

-----------------------------------------------------------------------------
(***************************************************************************)
(* The deadline of a session.                                              *)
(***************************************************************************)
\* As long as a session is active, the timer that resets it is armed or at work: no
\* task that replaces, drains or fails a session forgets to schedule it anew.  Left out
\* are the two places where the code drops the deadline itself: a session that stays
\* warm, and a bridge whose open_session raises.
THEOREM DeadlineKept ==
    ASSUME "bridge_fails" \notin Happens, ~StaysWarm
    PROVE  Spec => []DeadlineArmed
<1>1. Init => DeadlineArmed
  BY DEF Init, DeadlineArmed
<1>2. IInv /\ DeadlineArmed /\ [Next]_vars => DeadlineArmed'
  <2> SUFFICES ASSUME IInv, DeadlineArmed, [Next]_vars, active' # None, timer'.at = "off"
               PROVE  closing'
    BY DEF DeadlineArmed
  <2>1. CASE UNCHANGED <<active, timer, closing>>
    BY <2>1 DEF DeadlineArmed
  <2>2. CASE UNCHANGED vars
    BY <2>1, <2>2 DEF vars, tasks
  <2>3. CASE SpeechStart \/ SpeechChunk \/ SpeechEnd \/ DecodeEnds \/ LoopOpenFails
             \/ WarmupOpenFails \/ Warmup \/ LoopGetsLock \/ WarmupGetsLock \/ WindowPasses
    BY <2>1, <2>3 DEF SpeechStart, SpeechChunk, HearAudio, SpeechEnd, DecodeEnds,
       LoopOpenFails, WarmupOpenFails, OpenRaises, Warmup, LoopGetsLock, WarmupGetsLock,
       WindowPasses, tasks
  <2>4. CASE LoopOpens \/ WarmupOpens \/ BridgeOpens \/ ReconnectOpens
    BY <2>4
       DEF LoopOpens, WarmupOpens, BridgeOpens, ReconnectOpens, Opened, Replaced,
       Activate
  <2>5. CASE TimerBridges \/ TimerReconnects \/ BridgeFails
    BY <2>5 DEF TimerBridges, TimerReconnects, BridgeFails, TimerAt
  <2>6. CASE TimerInSilence \/ ReconnectFails
    BY <2>6 DEF TimerInSilence, ReconnectFails, ResetOnSilence
  <2>7. CASE CloseBegins
    BY <2>7 DEF CloseBegins
  <2>8. ASSUME NEW s \in Sessions,
               ConsumeFinal(s) \/ FailureHandled(s) \/ ConsumerEnds(s) \/ DrainStarts(s)
               \/ DrainFlushes(s) \/ DrainStops(s)
        PROVE  closing'
    BY <2>1, <2>8 DEF ConsumeFinal, FailureHandled, ConsumerEnds, DrainStarts,
       DrainFlushes, DrainStops, tasks
  <2>9. ASSUME NEW s \in Sessions, ConsumerFails(s) PROVE closing'
    <3>1. CASE s = active
      BY <2>9, <3>1 DEF ConsumerFails
    <3>2. CASE s # active
      BY <2>1, <2>9, <3>2 DEF ConsumerFails
    <3> QED  BY <3>1, <3>2
  <2>10. ASSUME NEW s \in Sessions, DrainCloses(s) PROVE closing'
    <3>1. CASE drain[s].by = "timer"
      BY <2>10, <3>1 DEF DrainCloses, IInv, TimerDrains
    <3>2. CASE drain[s].by # "timer"
      BY <2>1, <2>10, <3>2 DEF DrainCloses
    <3> QED  BY <3>1, <3>2
  <2>11. ASSUME NEW s \in Sessions, CloseEnds(s) PROVE closing'
    BY <2>11 DEF CloseEnds
  <2> QED  BY <2>2, <2>3, <2>4, <2>5, <2>6, <2>7, <2>8, <2>9, <2>10, <2>11 DEF Next
<1> QED  BY <1>1, <1>2, InvHolds, PTL DEF Spec

-----------------------------------------------------------------------------
(***************************************************************************)
(* Sessions somebody will close.                                           *)
(***************************************************************************)
\* No drain runs in a task that can be cancelled.
NoCancelledDrain ==
    /\ timer.at # "draining" /\ ~closing
    /\ \A s \in Sessions : drain[s].at # "none" => drain[s].by \notin {"timer", "close"}

LEMMA NothingCancelled ==
    ASSUME TypeOK, NoCancelledDrain
    PROVE  /\ DrainCancelled({"timer"}) = drain
           /\ ConsumerCancelled({"timer"}) = consumer
BY DEF NoCancelledDrain, DrainCancelled, ConsumerCancelled, DrainsOf, TypeOK

\* Then every session keeps its owner.
Owned == NoCancelledDrain /\ NoOrphanSession

LEMMA OwnedStep ==
    ASSUME StaysWarm, "open_fails" \notin Happens, "close" \notin Happens,
           IInv, Owned, [Next]_vars
    PROVE  Owned'
<1> USE DEF Owned
<1>1. CASE UNCHANGED <<active, sess, consumer, timer, drain, closing>>
  BY <1>1 DEF NoCancelledDrain, NoOrphanSession, Orphan
<1>2. CASE UNCHANGED vars
  BY <1>1, <1>2 DEF vars, tasks, backend
<1>3. CASE SpeechStart \/ SpeechChunk \/ SpeechEnd \/ DecodeEnds \/ LoopOpenFails
           \/ WarmupOpenFails \/ Warmup \/ LoopGetsLock \/ WarmupGetsLock \/ WindowPasses
  BY <1>1, <1>3 DEF SpeechStart, SpeechChunk, HearAudio, SpeechEnd, DecodeEnds,
     LoopOpenFails, WarmupOpenFails, OpenRaises, Warmup, LoopGetsLock, WarmupGetsLock,
     WindowPasses, tasks, backend
<1>4. CASE LoopOpens \/ WarmupOpens
  <2>1. PICK s \in Sessions : Opened(s)
    BY <1>4 DEF LoopOpens, WarmupOpens
  <2>2. drain' = drain /\ consumer' = [consumer EXCEPT ![s] = "running"]
    BY <2>1, NothingCancelled DEF Opened, IInv
  <2>3. /\ active = None /\ active' = s /\ timer'.at = "armed" /\ closing' = closing
        /\ sess' = [sess EXCEPT ![s] = "open"]
    BY <1>4, <2>1
       DEF LoopOpens, WarmupOpens, Opened, Activate, IInv, NoSessionOverwritten
  <2>4. NoCancelledDrain'
    BY <2>2, <2>3 DEF NoCancelledDrain
  <2>5. NoOrphanSession'
    BY <2>2, <2>3, Members DEF NoOrphanSession, Orphan, IInv, TypeOK
  <2> QED  BY <2>4, <2>5
<1>5. CASE BridgeOpens \/ ReconnectOpens
  <2>1. PICK s \in Sessions : Replaced(s)
    BY <1>5 DEF BridgeOpens, ReconnectOpens
  <2>2. PICK by \in {"bridge", "reconnect"} :
            drain' = [drain EXCEPT ![active] = [at |-> "start", by |-> by, utt |-> None]]
    BY <1>5 DEF BridgeOpens, ReconnectOpens, IInv, NoSessionOverwritten
  <2>3. /\ active' = s /\ timer'.at = "armed" /\ closing' = closing
        /\ sess' = [sess EXCEPT ![s] = "open"]
        /\ consumer' = [consumer EXCEPT ![s] = "running"]
    BY <2>1 DEF Replaced, Activate
  <2>4. \A r \in Sessions :
            drain'[r] = IF r = active THEN [at |-> "start", by |-> by, utt |-> None]
                        ELSE drain[r]
    BY <2>2 DEF IInv, TypeOK
  <2>5. NoCancelledDrain'
    BY <2>3, <2>4 DEF NoCancelledDrain
  <2>6. NoOrphanSession'
    <3> SUFFICES ASSUME NEW r \in Sessions, r # s PROVE ~(Orphan(r)')
      BY <2>3 DEF NoOrphanSession, Orphan
    <3>1. CASE r = active
      BY <2>4, <3>1 DEF Orphan
    <3>2. CASE r # active
      <4>1. drain'[r] = drain[r] /\ sess'[r] = sess[r] /\ consumer'[r] = consumer[r]
        BY <2>3, <2>4, <3>2 DEF IInv, TypeOK
      <4> QED  BY <3>2, <4>1 DEF NoOrphanSession, Orphan
    <3> QED  BY <3>1, <3>2
  <2> QED  BY <2>5, <2>6
<1>6. CASE TimerBridges \/ TimerReconnects \/ BridgeFails \/ TimerInSilence
  <2>1. UNCHANGED <<active, sess, consumer, drain, closing>> /\ timer'.at # "draining"
    BY <1>6 DEF TimerBridges, TimerReconnects, BridgeFails, TimerInSilence, TimerAt,
       TimerOff, backend
  <2> QED  BY <2>1 DEF NoCancelledDrain, NoOrphanSession, Orphan
<1>7. CASE ReconnectFails \/ CloseBegins
  BY <1>7 DEF ReconnectFails, CloseBegins
<1>8. ASSUME NEW s \in Sessions, ConsumeFinal(s) PROVE Owned'
  BY <1>1, <1>8 DEF ConsumeFinal, tasks
<1>9. ASSUME NEW s \in Sessions, ConsumerFails(s) PROVE Owned'
  <2>1. CASE s = active
    <3>1. /\ drain' = drain /\ consumer' = [consumer EXCEPT ![s] = "failing"]
          /\ active' = None /\ timer' = TimerOff /\ UNCHANGED <<sess, closing>>
      BY <1>9, <2>1, NothingCancelled DEF ConsumerFails, IInv
    <3>2. NoCancelledDrain'
      BY <3>1, Values DEF NoCancelledDrain
    <3>3. NoOrphanSession'
      BY <2>1, <3>1 DEF NoOrphanSession, Orphan, IInv, TypeOK
    <3> QED  BY <3>2, <3>3
  <2>2. CASE s # active
    <3>1. /\ consumer' = [consumer EXCEPT ![s] = "failing"]
          /\ UNCHANGED <<active, timer, drain, sess, closing>>
      BY <1>9, <2>2 DEF ConsumerFails
    <3> QED  BY <3>1 DEF NoCancelledDrain, NoOrphanSession, Orphan, IInv, TypeOK
  <2> QED  BY <2>1, <2>2
<1>10. ASSUME NEW s \in Sessions, FailureHandled(s) PROVE Owned'
  BY <1>10
     DEF FailureHandled, tasks, NoCancelledDrain, NoOrphanSession, Orphan, IInv,
         TypeOK
<1>11. ASSUME NEW s \in Sessions, ConsumerEnds(s) PROVE Owned'
  BY <1>11
     DEF ConsumerEnds, tasks, NoCancelledDrain, NoOrphanSession, Orphan, IInv,
         TypeOK
<1>12. ASSUME NEW s \in Sessions, DrainStarts(s) \/ DrainFlushes(s) \/ DrainStops(s)
       PROVE  Owned'
  <2>1. /\ UNCHANGED <<active, consumer, timer, closing>>
        /\ drain[s].at # "none" /\ drain'[s].at # "none" /\ drain'[s].by = drain[s].by
        /\ \A r \in Sessions : r # s => drain'[r] = drain[r] /\ sess'[r] = sess[r]
    <3>1. CASE DrainStarts(s)
      BY <3>1 DEF DrainStarts, StartDrain, DrainEntry, IInv, TypeOK
    <3>2. CASE DrainFlushes(s)
      BY <3>2, Values DEF DrainFlushes, IInv, TypeOK
    <3>3. CASE DrainStops(s)
      BY <3>3, Values DEF DrainStops, IInv, TypeOK
    <3> QED  BY <1>12, <3>1, <3>2, <3>3
  <2>2. NoCancelledDrain'
    BY <2>1 DEF NoCancelledDrain
  <2>3. NoOrphanSession'
    BY <2>1 DEF NoOrphanSession, Orphan
  <2> QED  BY <2>2, <2>3
<1>13. ASSUME NEW s \in Sessions, DrainCloses(s) PROVE Owned'
  <2>1. UNCHANGED <<active, timer, closing>>
    BY <1>13 DEF DrainCloses, NoCancelledDrain
  <2>2. /\ drain' = [drain EXCEPT ![s] = NoDrain] /\ sess' = [sess EXCEPT ![s] = "closed"]
        /\ consumer' = [consumer EXCEPT ![s] = "ended"]
    BY <1>13 DEF DrainCloses, Closed
  <2>3. NoCancelledDrain'
    BY <2>1, <2>2, Values DEF NoCancelledDrain, IInv, TypeOK
  <2>4. NoOrphanSession'
    BY <2>1, <2>2 DEF NoOrphanSession, Orphan, IInv, TypeOK
  <2> QED  BY <2>3, <2>4
<1>14. ASSUME NEW s \in Sessions, CloseEnds(s) PROVE Owned'
  BY <1>14 DEF CloseEnds, NoCancelledDrain
<1> QED  BY <1>2, <1>3, <1>4, <1>5, <1>6, <1>7, <1>8, <1>9, <1>10, <1>11, <1>12,
   <1>13,
         <1>14 DEF Next

\* A session that is not closed is the active one, or a drain or a failure handler has it,
\* for any number of sessions, failures of decodes and bridges and resets.  Left out is
\* what cancels a drain where it stands: close(), and the timer task that drains in
\* silence or after a reconnect that failed.
THEOREM SessionsOwned ==
    ASSUME StaysWarm, "open_fails" \notin Happens, "close" \notin Happens
    PROVE  Spec => []NoOrphanSession
<1>1. Init => Owned
  BY DEF Init, Owned, NoCancelledDrain, NoOrphanSession, Orphan, TimerOff, NoDrain
<1>2. IInv /\ Owned /\ [Next]_vars => Owned'
  BY OwnedStep
<1>3. Owned => NoOrphanSession
  BY DEF Owned
<1> QED  BY <1>1, <1>2, <1>3, InvHolds, PTL DEF Spec
-----------------------------------------------------------------------------
(***************************************************************************)
(* Finals and utterances.                                                  *)
(***************************************************************************)
\* No warmup(), reset with speech or close(): a drain only waits, and not for the
\* active session.
Quiet ==
    /\ warm = "idle" /\ ~closing /\ loop.at # "lock"
    /\ timer.at \notin {"bridging", "reconnecting"}
    /\ \A s \in Sessions :
          drain[s].at # "none" => drain[s].at = "wait" /\ drain[s].by # "close" /\ s # active

\* Sessions not opened yet, and the active one.
Unopened ==
    \A s \in Sessions : s > opened =>
        /\ sess[s] = "unused" /\ out[s] = <<>> /\ consumer[s] = "none"
        /\ drain[s].at = "none"
Live == active # None => sess[active] = "open" /\ consumer[active] = "running"

\* Who speaks is buffered, and is not being decoded.
Turns ==
    /\ speaking => spoken # None
    /\ speaking /\ loop.at = "idle" /\ active # None => audio[active] # None
    /\ loop.at = "decoding" => ~speaking /\ loop.sess \in Sessions

\* The pending ids are those of the finals on the stream of the active session, in
\* their order, and of the decode that goes on.
Decoding == IF loop.at = "decoding" THEN 1 ELSE 0
InStep ==
    /\ active = None => pending = <<>>
    /\ active # None =>
          /\ Len(pending) = Len(out[active]) + Decoding
          /\ \A i \in 1..Len(out[active]) : pending[i] = out[active][i].utt
          /\ loop.at = "decoding" => loop.sess = active /\ pending[Len(pending)] = spoken

\* A consumer of another session has nothing to publish and will get nothing.
Drained ==
    \A s \in Sessions : s # active /\ consumer[s] = "running" =>
        out[s] = <<>> /\ ~(loop.at = "decoding" /\ loop.sess = s)

\* The end of a pending utterance is within the reconnect window.
Known == \A i \in 1..Len(pending) : pending[i] \in fresh

Paired ==
    /\ Quiet
    /\ Unopened
    /\ Live
    /\ Turns
    /\ InStep
    /\ Drained
    /\ Known
    /\ FinalsPaired

\* Steps that leave sessions, streams and ids alone.
LEMMA PairedFrame ==
    ASSUME IInv, Paired, UNCHANGED <<active, pending, fresh, out, consumer, sess, delivered,
                                     drain, warm, closing, opened, spoken, speaking, timer>>,
           loop'.at \in {"idle", "opening"}, loop.at # "decoding",
           audio' = audio \/ (active # None /\ spoken # None /\ audio' = [audio EXCEPT ![active] = spoken]),
           loop'.at = "idle" => loop.at = "idle" \/ active = None
    PROVE  Paired'
<1>1. Quiet' /\ Unopened' /\ Live' /\ InStep' /\ Drained' /\ Known' /\ FinalsPaired'
  BY DEF Paired, Quiet, Unopened, Live, InStep, Decoding, Drained, Known,
     FinalsPaired
<1>2. Turns'
  BY Members DEF Paired, Turns, IInv, TypeOK
<1> QED  BY <1>1, <1>2 DEF Paired

LEMMA SpeechStartPaired ==
    ASSUME IInv, Paired, SpeechStart
    PROVE  Paired'
<1>1. /\ loop.at = "idle" /\ spoken' = spoken + 1 /\ speaking' /\ LockFree
      /\ UNCHANGED <<active, pending, fresh, out, consumer, sess, delivered>>
      /\ UNCHANGED <<drain, warm, closing, opened, timer>>
  BY DEF SpeechStart, HearAudio, Paired, Quiet, LockFree
<1>2. spoken' # None /\ spoken \in Nat
  BY <1>1, SttAssumption DEF IInv, TypeOK, UttIds, Utts, None
<1>3. loop'.at \in {"idle", "opening"} /\ (active # None => loop' = loop)
  BY <1>1 DEF SpeechStart, HearAudio, IInv, TypeOK, Loops
<1>4. active # None /\ loop'.at = "idle" => audio'[active] # None
  BY <1>1, <1>2, Members DEF SpeechStart, HearAudio, Paired, Live, IInv, TypeOK
<1>5. Quiet' /\ Unopened' /\ Live' /\ Drained' /\ Known' /\ FinalsPaired'
  BY <1>1, <1>3 DEF Paired, Quiet, Unopened, Live, Drained, Known, FinalsPaired
<1>6. InStep'
  BY <1>1, <1>3 DEF Paired, InStep, Decoding
<1>7. Turns'
  BY <1>1, <1>2, <1>3, <1>4 DEF Turns
<1> QED  BY <1>5, <1>6, <1>7 DEF Paired

LEMMA SpeechChunkPaired ==
    ASSUME IInv, Paired, SpeechChunk
    PROVE  Paired'
<1>1. /\ loop.at = "idle" /\ LockFree /\ spoken # None
      /\ UNCHANGED <<active, pending, fresh, out, consumer, sess, delivered>>
      /\ UNCHANGED <<drain, warm, closing, opened, timer, spoken, speaking>>
  BY DEF SpeechChunk, HearAudio, Paired, Quiet, Turns, LockFree, voice
<1>2. loop'.at \in {"idle", "opening"}
  BY <1>1 DEF SpeechChunk, HearAudio, IInv, TypeOK, Loops
<1>3. audio' = audio \/ (active # None /\ spoken # None /\ audio' = [audio EXCEPT ![active] = spoken])
  BY <1>1 DEF SpeechChunk, HearAudio
<1> QED  BY <1>1, <1>2, <1>3, PairedFrame

LEMMA LoopOpenFailsPaired ==
    ASSUME IInv, Paired, LoopOpenFails
    PROVE  Paired'
<1>1. loop'.at \in {"idle", "opening"} /\ active = None /\ loop.at = "opening"
  BY Values DEF LoopOpenFails, IInv, NoSessionOverwritten
<1>2. UNCHANGED <<active, pending, fresh, out, consumer, sess, delivered, audio,
                  drain, warm, closing, opened, timer, spoken, speaking>>
  BY DEF LoopOpenFails, OpenRaises, ids, backend, voice
<1> QED  BY <1>1, <1>2, PairedFrame

LEMMA LoopOpensPaired ==
    ASSUME IInv, Paired, LoopOpens
    PROVE  Paired'
<1>1. PICK s \in Sessions : Opened(s) /\ audio' = [audio EXCEPT ![s] = spoken]
  BY DEF LoopOpens
<1>2. /\ s = opened + 1 /\ opened' = s /\ active' = s /\ active = None /\ loop' = IdleLoop
      /\ timer'.at = "armed" /\ sess' = [sess EXCEPT ![s] = "open"]
      /\ consumer' = [ConsumerCancelled({"timer"}) EXCEPT ![s] = "running"]
      /\ drain' = DrainCancelled({"timer"})
      /\ UNCHANGED <<pending, fresh, out, warm, closing, spoken, speaking, delivered>>
      /\ opened \in Nat
  BY <1>1, SttAssumption
     DEF LoopOpens, Opened, Activate, IInv, NoSessionOverwritten, ids, voice, TypeOK
<1>3. \A r \in Sessions : /\ consumer'[r] = IF r = s THEN "running" ELSE ConsumerCancelled({"timer"})[r]
                          /\ r # s => ConsumerCancelled({"timer"})[r] \in {consumer[r], "ended"}
                          /\ drain'[r] = drain[r] \/ drain'[r] = NoDrain
                          /\ sess'[r] = IF r = s THEN "open" ELSE sess[r]
  BY <1>2, CancelTypes DEF IInv, TypeOK, ConsumerCancelled, DrainCancelled
<1>4. ASSUME NEW r \in Sessions, r > s PROVE r > opened /\ r # s
  BY <1>2, <1>4 DEF Sessions
<1>5. s > opened /\ out[s] = <<>> /\ drain[s].at = "none"
  BY <1>2 DEF Paired, Unopened
<1>6. Quiet'
  BY <1>2, <1>3, <1>5, Values DEF Paired, Quiet
<1>7. Unopened'
  BY <1>2, <1>3, <1>4, Values DEF Paired, Unopened, ConsumerCancelled, DrainsOf
<1>8. Live' /\ Known' /\ FinalsPaired'
  BY <1>2, <1>3 DEF Paired, Live, Known, FinalsPaired
<1>9. Turns'
  BY <1>1, <1>2, Values DEF Paired, Turns, IInv, TypeOK
<1>10. InStep'
  BY <1>2, <1>5, Values, Members DEF Paired, InStep, Decoding
<1>11. Drained'
  <2> SUFFICES ASSUME NEW r \in Sessions, r # s, consumer'[r] = "running"
               PROVE  out[r] = <<>>
    BY <1>2, Values DEF Drained
  <2>1. consumer[r] = "running" /\ r # None
    BY <1>3, Members
  <2> QED  BY <1>2, <2>1 DEF Paired, Drained
<1> QED  BY <1>6, <1>7, <1>8, <1>9, <1>10, <1>11 DEF Paired

LEMMA SpeechEndPaired ==
    ASSUME IInv, Paired, SpeechEnd
    PROVE  Paired'
<1>1. /\ loop.at = "idle" /\ speaking /\ ~(speaking') /\ fresh' = fresh \cup {spoken}
      /\ UNCHANGED <<active, out, consumer, sess, delivered, spoken>>
      /\ UNCHANGED <<drain, warm, closing, opened, timer>>
  BY DEF SpeechEnd
<1>2. CASE active = None
  <2>1. UNCHANGED <<pending, loop>>
    BY <1>2 DEF SpeechEnd
  <2>2. Quiet' /\ Unopened' /\ Live' /\ Turns' /\ InStep' /\ Drained' /\ Known' /\ FinalsPaired'
    BY <1>1, <1>2, <2>1
       DEF Paired, Quiet, Unopened, Live, Turns, InStep, Decoding, Drained,
       Known, FinalsPaired
  <2> QED  BY <2>2 DEF Paired
<1>3. CASE active # None
  <2>1. /\ pending' = Append(pending, spoken)
        /\ loop' = [at |-> "decoding", sess |-> active]
        /\ active \in Sessions /\ pending \in Seq(UttIds) /\ out[active] \in Seq(SessionEvents)
    BY <1>1, <1>3, Members DEF SpeechEnd, Paired, Turns, IInv, TypeOK
  <2>2. loop'.at = "decoding" /\ loop'.sess = active
    BY <2>1
  <2>3. /\ Len(pending') = Len(pending) + 1 /\ pending'[Len(pending')] = spoken
        /\ \A i \in 1..Len(pending) : pending'[i] = pending[i]
        /\ Len(pending) \in Nat /\ Len(out[active]) \in Nat
    BY <2>1 DEF IInv, TypeOK
  <2>4. /\ Len(pending) = Len(out[active])
        /\ \A i \in 1..Len(out[active]) : pending[i] = out[active][i].utt
    BY <1>1, <1>3, <2>3 DEF Paired, InStep, Decoding
  <2>5. InStep'
    BY <1>1, <1>3, <2>2, <2>3, <2>4 DEF InStep, Decoding
  <2>6. Known'
    BY <1>1, <2>3 DEF Paired, Known
  <2>7. Quiet' /\ Unopened' /\ Live' /\ Turns' /\ Drained' /\ FinalsPaired'
    BY <1>1, <1>3, <2>1, <2>2
       DEF Paired, Quiet, Unopened, Live, Turns, Drained, FinalsPaired
  <2> QED  BY <2>5, <2>6, <2>7 DEF Paired
<1> QED  BY <1>2, <1>3

LEMMA DecodeEndsPaired ==
    ASSUME IInv, Paired, DecodeEnds
    PROVE  Paired'
<1> DEFINE s == loop.sess
<1>1. /\ loop.at = "decoding" /\ ~speaking /\ s \in Sessions /\ loop' = IdleLoop
      /\ UNCHANGED <<active, pending, fresh, consumer, sess, delivered, spoken, speaking>>
      /\ UNCHANGED <<drain, warm, closing, opened, timer, audio>>
  BY DEF DecodeEnds, Paired, Turns, ids, voice
<1>2. PICK kind \in DecodeResults : Publish(s, spoken, kind)
  BY DEF DecodeEnds
<1> DEFINE e == [utt |-> spoken, kind |-> kind]
<1>3. /\ out \in [Sessions -> Seq(SessionEvents)] /\ spoken \in UttIds
      /\ kind \in {"text", "blank", "fail"}
  BY DEF IInv, TypeOK, DecodeResults
<1>4. e \in SessionEvents /\ e.utt = spoken
  BY <1>3, Values
<1>5. /\ sess[s] = "open" => out' = [out EXCEPT ![s] = Append(out[s], e)]
      /\ sess[s] # "open" => out' = out
      /\ \A r \in Sessions : r # s => out'[r] = out[r]
  BY <1>1, <1>2, <1>3 DEF Publish
<1> HIDE DEF e
<1>6. loop'.at = "idle"
  BY <1>1, Values
<1>7. Quiet' /\ Live' /\ Turns' /\ Known' /\ FinalsPaired'
  BY <1>1, <1>6 DEF Paired, Quiet, Live, Turns, Known, FinalsPaired
<1>8. Unopened'
  BY <1>1, <1>5 DEF Paired, Unopened
<1>9. Drained'
  BY <1>1, <1>5, <1>6 DEF Paired, Drained
<1>10. InStep'
  <2>1. CASE active = None
    BY <1>1, <2>1 DEF Paired, InStep
  <2>2. CASE active # None
    <3>1. s = active /\ sess[s] = "open" /\ pending[Len(pending)] = spoken
      BY <1>1, <2>2 DEF Paired, InStep, Live
    <3>2. out'[active] = Append(out[active], e)
      BY <1>1, <1>3, <1>5, <3>1
    <3>3. /\ Len(out'[active]) = Len(out[active]) + 1 /\ Len(out[active]) \in Nat
          /\ out'[active][Len(out[active]) + 1] = e
          /\ \A i \in 1..Len(out[active]) : out'[active][i] = out[active][i]
      BY <1>1, <1>3, <1>4, <3>1, <3>2
    <3>4. /\ Len(pending) = Len(out[active]) + 1
          /\ \A i \in 1..Len(out[active]) : pending[i] = out[active][i].utt
      BY <1>1, <2>2, <3>1 DEF Paired, InStep, Decoding
    <3>5. \A i \in 1..Len(out'[active]) : pending[i] = out'[active][i].utt
      BY <1>4, <3>1, <3>3, <3>4
    <3> QED  BY <1>1, <1>6, <2>2, <3>3, <3>4, <3>5 DEF InStep, Decoding
  <2> QED  BY <2>1, <2>2
<1> QED  BY <1>7, <1>8, <1>9, <1>10 DEF Paired

\* The head of the stream is the oldest pending id.
LEMMA ConsumeFinalPaired ==
    ASSUME IInv, Paired, NEW s \in Sessions, ConsumeFinal(s)
    PROVE  Paired'
<1>1. s = active /\ s # None /\ out[s] # <<>>
  BY Members DEF ConsumeFinal, Paired, Drained
<1>2. /\ out[s] \in Seq(SessionEvents) /\ pending \in Seq(UttIds)
      /\ Len(out[s]) \in Nat /\ Len(out[s]) > 0 /\ Len(pending) \in Nat
  BY <1>1 DEF IInv, TypeOK
<1>3. /\ Len(pending) = Len(out[s]) + Decoding
      /\ \A i \in 1..Len(out[s]) : pending[i] = out[s][i].utt
      /\ Decoding \in {0, 1}
  BY <1>1 DEF Paired, InStep, Decoding
<1>4. Len(pending) > 0 /\ 1 \in 1..Len(pending) /\ 1 \in 1..Len(out[s])
  BY <1>2, <1>3
<1>5. pending[1] = Head(out[s]).utt /\ pending[1] \in fresh
  BY <1>1, <1>2, <1>3, <1>4 DEF Paired, Known
<1>6. ASSUME NEW n \in 0..Len(pending), DropsStale(n) PROVE n = 0
  <2>1. n # 0 => 1 \in 1..n
    BY <1>2
  <2> QED  BY <1>5, <1>6, <2>1 DEF DropsStale
<1>7. /\ pending' = SubSeq(pending, 2, Len(pending))
      /\ delivered' \in {delivered, delivered \cup {<<Head(out[s]).utt, pending[1]>>}}
  <2>1. PICK n \in 0..Len(pending) :
          /\ DropsStale(n)
          /\ LET waiting == n < Len(pending)
                 id == IF waiting THEN pending[n + 1] ELSE activeUtt
             IN  /\ pending' = SubSeq(pending, IF waiting THEN n + 2 ELSE n + 1,
                                      Len(pending))
                 /\ delivered' =
                      IF id # None /\ Head(out[s]).kind = "text"
                      THEN delivered \cup {<<Head(out[s]).utt, id>>} ELSE delivered
    BY DEF ConsumeFinal
  <2>2. n = 0 /\ n < Len(pending)
    BY <1>2, <1>4, <1>6, <2>1
  <2> QED  BY <2>1, <2>2
<1>8. FinalsPaired'
  BY <1>5, <1>7 DEF Paired, FinalsPaired
<1>9. /\ out' = [out EXCEPT ![s] = Tail(out[s])]
      /\ UNCHANGED <<active, fresh, consumer, sess, spoken, speaking, loop>>
      /\ UNCHANGED <<drain, warm, closing, opened, timer, audio>>
  BY DEF ConsumeFinal, tasks, voice
<1>10. /\ Len(pending') = Len(pending) - 1
       /\ \A i \in 1..Len(pending') : pending'[i] = pending[i + 1]
  <2>1. pending # <<>> /\ pending' = Tail(pending)
    BY <1>2, <1>4, <1>7, TailIsSubSeq
  <2> QED  BY <1>2, <2>1, HeadTailProperties
<1>11. /\ out'[s] = Tail(out[s]) /\ \A r \in Sessions : r # s => out'[r] = out[r]
  BY <1>9 DEF IInv, TypeOK
<1>12. /\ Len(out'[s]) = Len(out[s]) - 1
       /\ \A i \in 1..Len(out'[s]) : out'[s][i] = out[s][i + 1]
  BY <1>2, <1>11
<1>13. InStep'
  <2>1. Decoding' = Decoding /\ active' = s /\ s # None
    BY <1>1, <1>9 DEF Decoding
  <2>2. Len(pending') = Len(out'[s]) + Decoding
    BY <1>2, <1>3, <1>10, <1>12
  <2>3. ASSUME NEW i \in 1..Len(out'[s]) PROVE pending'[i] = out'[s][i].utt
    <3>1. i + 1 \in 1..Len(out[s]) /\ i \in 1..Len(pending')
      BY <1>2, <1>3, <1>10, <1>12, <2>3
    <3> QED  BY <1>3, <1>10, <1>12, <3>1
  <2>4. ASSUME loop'.at = "decoding"
        PROVE  loop'.sess = s /\ pending'[Len(pending')] = spoken'
    <3>1. loop.at = "decoding" /\ Decoding = 1
      BY <1>9, <2>4 DEF Decoding
    <3>2. loop.sess = s /\ pending[Len(pending)] = spoken
      BY <1>1, <3>1 DEF Paired, InStep
    <3>3. Len(pending') \in 1..Len(pending') /\ Len(pending') + 1 = Len(pending)
      BY <1>2, <1>3, <1>10, <3>1
    <3> QED  BY <1>9, <1>10, <3>2, <3>3
  <2> QED  BY <2>1, <2>2, <2>3, <2>4 DEF InStep
<1>14. Known'
  <2> SUFFICES ASSUME NEW i \in 1..Len(pending') PROVE pending'[i] \in fresh
    BY <1>9 DEF Known
  <2>1. i + 1 \in 1..Len(pending)
    BY <1>2, <1>10
  <2> QED  BY <1>10, <2>1 DEF Paired, Known
<1>15. Quiet' /\ Live' /\ Turns'
  BY <1>9 DEF Paired, Quiet, Live, Turns
<1>16. Unopened'
  <2> SUFFICES ASSUME NEW r \in Sessions, r > opened PROVE r # s
    BY <1>9, <1>11 DEF Paired, Unopened
  <2> QED  BY <1>1 DEF Paired, Unopened
<1>17. Drained'
  BY <1>1, <1>9, <1>11 DEF Paired, Drained
<1> QED  BY <1>8, <1>13, <1>14, <1>15, <1>16, <1>17 DEF Paired

LEMMA ConsumerFailsPaired ==
    ASSUME IInv, Paired, NEW s \in Sessions, ConsumerFails(s)
    PROVE  Paired'
<1>1. s = active /\ s # None
  BY Members DEF ConsumerFails, Paired, Drained
<1>2. /\ active' = None /\ pending' = <<>> /\ fresh' = {} /\ timer' = TimerOff
      /\ drain' = DrainCancelled({"timer"})
      /\ consumer' = [ConsumerCancelled({"timer"}) EXCEPT ![s] = "failing"]
      /\ out' = [out EXCEPT ![s] = Tail(@)]
      /\ UNCHANGED <<opened, sess, audio, loop, warm, closing, spoken, speaking, delivered>>
  BY <1>1 DEF ConsumerFails, voice
<1>3. \A r \in Sessions : /\ r # s => consumer'[r] \in {consumer[r], "ended"} /\ out'[r] = out[r]
                          /\ drain'[r] = drain[r] \/ drain'[r] = NoDrain
  BY <1>2, CancelTypes DEF IInv, TypeOK, ConsumerCancelled, DrainCancelled
<1>4. consumer'[s] = "failing"
  BY <1>2, CancelTypes DEF IInv
<1>5. Quiet'
  <2>1. ASSUME NEW r \in Sessions, drain'[r].at # "none"
        PROVE  drain'[r].at = "wait" /\ drain'[r].by # "close" /\ r # active'
    <3>1. drain'[r] = drain[r]
      BY <1>3, <2>1, Values
    <3> QED  BY <1>2, <2>1, <3>1, Members DEF Paired, Quiet
  <2> QED  BY <1>2, <2>1, Values DEF Paired, Quiet
<1>6. Unopened'
  <2>1. \A r \in Sessions : r > opened => r # s /\ drain[r].at = "none"
    BY <1>1 DEF Paired, Unopened, ConsumerFails
  <2>2. \A r \in Sessions : r > opened => consumer'[r] = consumer[r]
    BY <1>2, <2>1, CancelTypes DEF IInv, TypeOK, ConsumerCancelled, DrainsOf
  <2> QED  BY <1>2, <1>3, <2>1, <2>2, Values DEF Paired, Unopened
<1>7. Live' /\ Turns' /\ InStep' /\ Known' /\ FinalsPaired'
  BY <1>2 DEF Paired, Live, Turns, InStep, Known, FinalsPaired
<1>8. Drained'
  BY <1>1, <1>2, <1>3, <1>4 DEF Paired, Drained
<1> QED  BY <1>5, <1>6, <1>7, <1>8 DEF Paired

\* A session that has no consumer any more is closed or stopped.
LEMMA FailureHandledPaired ==
    ASSUME IInv, Paired, NEW s \in Sessions, FailureHandled(s) \/ ConsumerEnds(s)
    PROVE  Paired'
<1>1. /\ s # active /\ consumer' = [consumer EXCEPT ![s] = "ended"] /\ consumer[s] # "none"
      /\ \A r \in Sessions : r # s => sess'[r] = sess[r] /\ audio'[r] = audio[r]
      /\ UNCHANGED <<active, pending, fresh, out, delivered, spoken, speaking, loop>>
      /\ UNCHANGED <<drain, warm, closing, opened, timer>>
  <2>1. CASE FailureHandled(s)
    <3>1. s # None
      BY Members
    <3>2. consumer[s] = "failing"
      BY <2>1 DEF FailureHandled
    <3>3. s # active
      BY <3>1, <3>2 DEF Paired, Live
    <3> QED  BY <2>1, <3>2, <3>3 DEF FailureHandled, IInv, TypeOK, ids, tasks, voice
  <2>2. CASE ConsumerEnds(s)
    <3>1. s # None
      BY Members
    <3> QED  BY <2>2, <3>1 DEF ConsumerEnds, Paired, Live, ids, tasks, voice
  <2> QED  BY <2>1, <2>2
<1>2. \A r \in Sessions : consumer'[r] = IF r = s THEN "ended" ELSE consumer[r]
  BY <1>1 DEF IInv, TypeOK
<1>3. Quiet' /\ InStep' /\ Known' /\ FinalsPaired'
  BY <1>1 DEF Paired, Quiet, InStep, Decoding, Known, FinalsPaired
<1>4. Unopened'
  BY <1>1, <1>2 DEF Paired, Unopened
<1>5. Live' /\ Turns'
  BY <1>1, <1>2, Members DEF Paired, Live, Turns, IInv, TypeOK
<1>6. Drained'
  BY <1>1, <1>2 DEF Paired, Drained
<1> QED  BY <1>3, <1>4, <1>5, <1>6 DEF Paired

\* Only utterances that are answered fall out of the window.
LEMMA WindowPassesPaired ==
    ASSUME "slow_decode" \notin Happens, IInv, Paired, WindowPasses
    PROVE  Paired'
<1>1. PICK u \in fresh : /\ \A s \in Sessions : \A i \in DOMAIN out[s] : out[s][i].utt # u
                         /\ ~BeingDecoded(u)
                         /\ fresh' = fresh \ {u}
  BY DEF WindowPasses
<1>2. /\ UNCHANGED <<active, pending, out, consumer, sess, delivered, spoken, speaking, loop>>
      /\ UNCHANGED <<drain, warm, closing, opened, timer, audio>>
  BY DEF WindowPasses, backend, tasks, voice
<1>3. Known'
  <2> SUFFICES ASSUME NEW i \in 1..Len(pending), pending[i] = u PROVE FALSE
    BY <1>1, <1>2 DEF Paired, Known
  <2>0. Len(pending) \in Nat
    BY DEF IInv, TypeOK
  <2>1. active # None /\ active \in Sessions
    BY <2>0, Members DEF Paired, InStep, IInv, TypeOK
  <2>2. out[active] \in Seq(SessionEvents) /\ DOMAIN out[active] = 1..Len(out[active])
        /\ Len(out[active]) \in Nat
    BY <2>1 DEF IInv, TypeOK
  <2>3. i \in 1..Len(out[active]) \/ (loop.at = "decoding" /\ i = Len(pending))
    <3>1. Len(pending) = Len(out[active]) + Decoding
      BY <2>1 DEF Paired, InStep
    <3>2. CASE loop.at = "decoding"
      <4>1. Decoding = 1
        BY <3>2 DEF Decoding
      <4> QED  BY <2>0, <2>2, <3>1, <3>2, <4>1
    <3>3. CASE loop.at # "decoding"
      <4>1. Decoding = 0
        BY <3>3 DEF Decoding
      <4> QED  BY <2>0, <2>2, <3>1, <4>1
    <3> QED  BY <3>2, <3>3
  <2> QED  BY <1>1, <2>1, <2>2, <2>3 DEF Paired, InStep, BeingDecoded
<1>4. Quiet' /\ Unopened' /\ Live' /\ Turns' /\ InStep' /\ Drained' /\ FinalsPaired'
  BY <1>2
     DEF Paired, Quiet, Unopened, Live, Turns, InStep, Decoding, Drained,
         FinalsPaired
<1> QED  BY <1>3, <1>4 DEF Paired

\* In silence nothing is pending: there is nothing to flush.
LEMMA TimerInSilencePaired ==
    ASSUME IInv, Paired, TimerInSilence
    PROVE  Paired'
<1>1. active # None /\ active \in Sessions /\ activeUtt = None /\ fresh = {}
  BY Members DEF TimerInSilence, IInv, TypeOK
<1>2. pending = <<>> /\ out[active] = <<>> /\ loop.at # "decoding"
  <2>1. Len(pending) \in Nat /\ pending \in Seq(UttIds) /\ Len(out[active]) \in Nat
        /\ out[active] \in Seq(SessionEvents)
    BY <1>1 DEF IInv, TypeOK
  <2>2. Len(pending) = 0
    <3>1. Len(pending) > 0 => 1 \in 1..Len(pending)
      BY <2>1
    <3> QED  BY <1>1, <2>1, <3>1 DEF Paired, Known
  <2>3. Len(out[active]) = 0 /\ loop.at # "decoding"
    <3>1. Len(pending) = Len(out[active]) + Decoding
      BY <1>1 DEF Paired, InStep
    <3>2. CASE loop.at = "decoding"
      <4>1. Decoding = 1
        BY <3>2 DEF Decoding
      <4>2. Len(out[active]) + 1 = 0
        BY <2>2, <3>1, <4>1
      <4>3. \A n \in Nat : n + 1 # 0
        OBVIOUS
      <4> QED  BY <2>1, <4>2, <4>3
    <3>3. CASE loop.at # "decoding"
      <4>1. Decoding = 0
        BY <3>3 DEF Decoding
      <4> QED  BY <2>1, <2>2, <3>1, <3>3, <4>1
    <3> QED  BY <3>2, <3>3
  <2> QED  BY <2>1, <2>2, <2>3
<1>3. CASE ~ResetOnSilence
  <2>1. /\ UNCHANGED <<active, pending, fresh, out, consumer, sess, delivered, spoken>>
        /\ UNCHANGED <<drain, warm, closing, opened, loop, audio, speaking>> /\ timer' = TimerOff
    BY <1>3 DEF TimerInSilence, ids, backend, voice
  <2> QED  BY <2>1, Values
     DEF Paired, Quiet, Unopened, Live, Turns, InStep, Decoding, Drained,
             Known, FinalsPaired
<1>4. CASE ResetOnSilence
  <2>1. /\ active' = None /\ timer' = [TimerOff EXCEPT !.at = "draining"]
        /\ UNCHANGED <<pending, fresh, out, consumer, delivered, spoken, speaking>>
        /\ UNCHANGED <<warm, closing, opened, loop>>
    BY <1>4 DEF ResetOnSilence, ids, voice
  <2>2. /\ drain' = [drain EXCEPT ![active] = [at |-> "wait", by |-> "timer", utt |-> audio[active]]]
        /\ \A r \in Sessions : r # active => sess'[r] = sess[r]
    BY <1>1, <1>2, <1>4 DEF ResetOnSilence, StartDrain, DrainEntry, IInv, TypeOK
  <2>3. \A r \in Sessions : drain'[r] = IF r = active THEN [at |-> "wait", by |-> "timer", utt |-> audio[active]]
                                        ELSE drain[r]
    BY <2>2 DEF IInv, TypeOK
  <2>4. Quiet'
    BY <2>1, <2>3, Values, Members DEF Paired, Quiet
  <2>5. Unopened'
    <3>1. \A r \in Sessions : r > opened => r # active
      BY <1>1 DEF Paired, Unopened, Live
    <3> QED  BY <2>1, <2>2, <2>3, <3>1 DEF Paired, Unopened
  <2>6. Live' /\ Turns' /\ InStep' /\ Known' /\ FinalsPaired'
    BY <1>2, <2>1 DEF Paired, Live, Turns, InStep, Known, FinalsPaired
  <2>7. Drained'
    BY <1>2, <2>1 DEF Paired, Drained
  <2> QED  BY <2>4, <2>5, <2>6, <2>7 DEF Paired
<1> QED  BY <1>3, <1>4

LEMMA DrainClosesPaired ==
    ASSUME IInv, Paired, NEW s \in Sessions, DrainCloses(s)
    PROVE  Paired'
<1>1. /\ s # active /\ drain[s].at # "none" /\ consumer[s] # "running"
      /\ drain' = [drain EXCEPT ![s] = NoDrain]
      /\ consumer' = [consumer EXCEPT ![s] = "ended"] /\ sess' = [sess EXCEPT ![s] = "closed"]
      /\ timer' \in {timer, TimerOff}
      /\ UNCHANGED <<active, pending, fresh, out, delivered, spoken, speaking, loop>>
      /\ UNCHANGED <<warm, closing, opened, audio>>
  BY DEF DrainCloses, Closed, ids, voice, Paired, Quiet
<1>2. \A r \in Sessions : /\ consumer'[r] = IF r = s THEN "ended" ELSE consumer[r]
                          /\ sess'[r] = IF r = s THEN "closed" ELSE sess[r]
                          /\ drain'[r] = IF r = s THEN NoDrain ELSE drain[r]
  BY <1>1 DEF IInv, TypeOK
<1>3. Quiet'
  BY <1>1, <1>2, Values DEF Paired, Quiet
<1>4. Unopened' /\ Drained'
  BY <1>1, <1>2 DEF Paired, Unopened, Drained
<1>5. Live' /\ Turns' /\ InStep' /\ Known' /\ FinalsPaired'
  BY <1>1, <1>2, Members
     DEF Paired, Live, Turns, InStep, Decoding, Known, FinalsPaired, IInv, TypeOK
<1> QED  BY <1>3, <1>4, <1>5 DEF Paired

LEMMA PairedStep ==
    ASSUME {"slow_decode", "warmup", "reset", "close"} \cap Happens = {},
           IInv, Paired, [Next]_vars
    PROVE  Paired'
<1>1. CASE UNCHANGED vars
  BY <1>1
     DEF vars, ids, backend, tasks, voice, Paired, Quiet, Unopened, Live, Turns,
         InStep,
     Decoding, Drained, Known, FinalsPaired
<1>2. CASE SpeechStart \/ SpeechChunk \/ SpeechEnd \/ DecodeEnds \/ LoopOpens \/ LoopOpenFails
           \/ WindowPasses \/ TimerInSilence
  BY <1>2, SpeechStartPaired, SpeechChunkPaired, SpeechEndPaired, DecodeEndsPaired,
     LoopOpensPaired, LoopOpenFailsPaired, WindowPassesPaired, TimerInSilencePaired
<1>3. CASE Warmup \/ LoopGetsLock \/ WarmupGetsLock \/ WarmupOpens \/ WarmupOpenFails
           \/ TimerBridges \/ TimerReconnects \/ BridgeOpens \/ BridgeFails \/ ReconnectOpens
           \/ ReconnectFails \/ CloseBegins
  BY <1>3
     DEF Warmup, LoopGetsLock, WarmupGetsLock, WarmupOpens, WarmupOpenFails,
         TimerBridges,
     TimerReconnects, BridgeOpens, BridgeFails, ReconnectOpens, ReconnectFails, CloseBegins,
     Paired, Quiet
<1>4. ASSUME NEW s \in Sessions, DrainStarts(s) \/ DrainFlushes(s) \/ DrainStops(s) \/ CloseEnds(s)
      PROVE  Paired'
  BY <1>4 DEF DrainStarts, DrainFlushes, DrainStops, CloseEnds, Paired, Quiet
<1>5. ASSUME NEW s \in Sessions, ConsumeFinal(s) \/ ConsumerFails(s) \/ FailureHandled(s)
             \/ ConsumerEnds(s) \/ DrainCloses(s)
      PROVE  Paired'
  BY <1>5, ConsumeFinalPaired, ConsumerFailsPaired, FailureHandledPaired,
     DrainClosesPaired
<1> QED  BY <1>1, <1>2, <1>3, <1>4, <1>5 DEF Next

LEMMA InitPaired == Init => Paired
<1> SUFFICES ASSUME Init PROVE Paired
  OBVIOUS
<1>1. Quiet /\ Unopened /\ Live /\ Turns /\ Drained /\ FinalsPaired
  BY DEF Init, Quiet, Unopened, Live, Turns, Drained, FinalsPaired, IdleLoop,
     TimerOff, NoDrain
<1>2. InStep /\ Known
  BY DEF Init, InStep, Known
<1> QED  BY <1>1, <1>2 DEF Paired

\* A transcript is published under the id of the utterance it transcribes, however long
\* people speak, whatever decodes and connects fail and whenever silence resets the session:
\* the pending ids stay in step with the finals on the stream.  Left out is what the code
\* does to the sessions while somebody speaks (resets, warmup(), close()) and a decode
\* that outlasts the reconnect window.
THEOREM FinalsKeepTheirIds ==
    ASSUME {"slow_decode", "warmup", "reset", "close"} \cap Happens = {}
    PROVE  Spec => []FinalsPaired
<1>1. IInv /\ Paired /\ [Next]_vars => Paired'
  BY PairedStep
<1>2. Paired => FinalsPaired
  BY DEF Paired
<1> QED  BY InitPaired, <1>1, <1>2, InvHolds, PTL DEF Spec
=============================================================================
