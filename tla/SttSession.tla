----------------------------- MODULE SttSession -----------------------------
(***************************************************************************)
(* The managed speech-to-text provider of one channel: ManagedSTTProvider  *)
(* of core/stt/controller.py, over backend sessions that decode inside     *)
(* on_speech_end and answer it with one final (the local sherpa session    *)
(* and the custom server).                                                 *)
(*                                                                         *)
(* The coroutines that interleave are the audio loop (handle_vad_event),   *)
(* warmup(), the reset timer, one consumer per session, the drains of      *)
(* replaced sessions and close().  A step runs from one await that can     *)
(* suspend to the next.  The event queues are unbounded, so put() never    *)
(* suspends, and no backend suspends in send_audio.                        *)
(***************************************************************************)
EXTENDS Naturals, Sequences, FiniteSets

CONSTANTS
    MaxSessions,      \* bound: sessions the backend opens in a behaviour
    MaxUtts,          \* bound: utterances spoken in a behaviour
    ConnectAttempts,  \* connect_attempts
    StaysWarm,        \* TRUE for LOCAL_QWEN: no reset on silence
    Happens           \* which events an instance includes, see below

\* "open_fails"    open_session raises for the audio loop, warmup, reconnect
\* "bridge_fails"  open_session raises inside _reset_with_bridging
\* "decode_fails"  a decode puts an exception on the session's event stream
\* "slow_decode"   a decode outlasts reconnect_window_s
\* "warmup"        warmup() runs beside the audio loop
\* "reset"         the reset timer fires with an utterance active or just ended
\* "silence"       the reset timer fires in silence
\* "close"         the microphone is switched off: loop cancelled, close()
Events == {"open_fails", "bridge_fails", "decode_fails", "slow_decode", "warmup",
           "reset", "silence", "close"}

ASSUME SttAssumption ==
    /\ MaxSessions \in Nat
    /\ MaxUtts \in Nat
    /\ ConnectAttempts \in Nat \ {0}
    /\ StaysWarm \in BOOLEAN
    /\ Happens \subseteq Events

Sessions == 1..MaxSessions
Utts == 1..MaxUtts
None == 0          \* no session, no utterance (None in the code)

VARIABLES
    state,       \* _state, the last STTSessionStateEvent
    active,      \* _active_session
    activeUtt,   \* _active_utterance_id
    pending,     \* _pending_final_utterance_ids
    fresh,       \* ended utterances whose end is within reconnect_window_s
    opened,      \* sessions opened so far
    sess,        \* backend session: open, stopped (its stream ends), closed
    audio,       \* utterance whose audio the session buffers
    out,         \* events on the session's stream, not yet consumed
    consumer,    \* the _consume_session_events task of the session
    loop,        \* the audio loop: where it is suspended
    warm,        \* warmup(): where it is suspended
    attempt,     \* connect attempt of whoever holds the ensure lock
    timer,       \* _reset_timer: where it is, the session and utterance it saw
    drain,       \* _drain_and_close of the session: where it is, who awaits it
    closing,     \* close() awaits the drain of the active session
    spoken,      \* utterances the VAD has started
    speaking,    \* the VAD is between SpeechStart and SpeechEnd
    delivered    \* history: <<utterance decoded, id it was published under>>

ids == <<activeUtt, pending, fresh>>
backend == <<opened, sess, audio, out, consumer>>
tasks == <<loop, warm, attempt, timer, drain, closing>>
voice == <<spoken, speaking>>
vars == <<state, active, ids, backend, tasks, voice, delivered>>

NoDrain == [at |-> "none", by |-> "none", utt |-> None]
IdleLoop == [at |-> "idle", sess |-> None]
TimerOff == [at |-> "off", old |-> None, utt |-> None]

Init ==
    /\ state = "DISCONNECTED"
    /\ active = None
    /\ activeUtt = None
    /\ pending = <<>>
    /\ fresh = {}
    /\ opened = 0
    /\ sess = [s \in Sessions |-> "unused"]
    /\ audio = [s \in Sessions |-> None]
    /\ out = [s \in Sessions |-> <<>>]
    /\ consumer = [s \in Sessions |-> "none"]
    /\ loop = IdleLoop
    /\ warm = "idle"
    /\ attempt = 0
    /\ timer = TimerOff
    /\ drain = [s \in Sessions |-> NoDrain]
    /\ closing = FALSE
    /\ spoken = 0
    /\ speaking = FALSE
    /\ delivered = {}

-----------------------------------------------------------------------------
\* Events put after stop() stand behind the end-of-stream mark and are lost.
Publish(s, u, kind) ==
    out' = IF sess[s] = "open"
             THEN [out EXCEPT ![s] = Append(@, [utt |-> u, kind |-> kind])]
             ELSE out

\* What a decode leaves on the stream: a transcript, nothing worth showing
\* (an empty or a suppressed final), or an exception.
DecodeResults ==
    {"text", "blank"} \cup (IF "decode_fails" \in Happens THEN {"fail"} ELSE {})

Stopped(s) == IF sess[s] = "open" THEN "stopped" ELSE sess[s]

\* Cancelling the owner of a drain abandons it where it stands; at the wait for
\* the consumer the consumer is cancelled with it.
DrainsOf(owners) ==
    {s \in Sessions : drain[s].at # "none" /\ drain[s].by \in owners}
DrainCancelled(owners) ==
    [s \in Sessions |-> IF s \in DrainsOf(owners) THEN NoDrain ELSE drain[s]]
ConsumerCancelled(owners) ==
    [s \in Sessions |->
        IF s \in DrainsOf(owners) /\ drain[s].at = "wait" THEN "ended" ELSE consumer[s]]

Activate_NoTimer(s) ==
    /\ opened' = s
    /\ active' = s
    /\ timer' = TimerOff
    /\ state' = "STREAMING"

\* A new session becomes the active one: its consumer starts and the reset
\* timer is scheduled anew, which cancels the old timer task.
Activate(s) ==
    /\ opened' = s
    /\ active' = s
    /\ timer' = [at |-> "armed", old |-> None, utt |-> None]
    /\ state' = "STREAMING"

\* How _drain_and_close(s) starts: finalize the speech still buffered, then a
\* grace period; or stop the stream at once.
DrainEntry(s, finalize, utt) ==
    IF ~finalize \/ (utt = None /\ pending = <<>>) THEN "wait"
    ELSE IF utt # None /\ audio[s] # None THEN "flush" ELSE "grace"
StartDrain(s, by, finalize, utt, drainBefore) ==
    LET entry == DrainEntry(s, finalize, utt)
    IN  /\ drain' = [drainBefore EXCEPT ![s] =
                        [at |-> entry, by |-> by, utt |-> audio[s]]]
        /\ sess' = [sess EXCEPT ![s] = IF entry = "wait" THEN Stopped(s) ELSE @]
        /\ audio' = [audio EXCEPT ![s] = IF entry = "grace" THEN @ ELSE None]

-----------------------------------------------------------------------------
(***************************************************************************)
(* _ensure_session(), called by the audio loop and by warmup().            *)
(***************************************************************************)
LockFree == loop.at # "opening" /\ warm # "opening"

\* The caller holds the lock and starts connecting.
BeginConnecting ==
    /\ attempt' = 1
    /\ state' = "CONNECTING"

\* Audio for the session: sent at once when one is active; else the loop asks
\* for a session and suspends, at the lock or in open_session.
HearAudio(u) ==
    /\ loop.at = "idle"
    /\ ~closing
    /\ activeUtt' = u
    /\ \/ /\ active # None
          /\ audio' = IF sess[active] = "open" THEN [audio EXCEPT ![active] = u]
                      ELSE audio
          /\ UNCHANGED <<state, loop, attempt>>
       \/ /\ active = None
          /\ LockFree
          /\ opened < MaxSessions
          /\ loop' = [loop EXCEPT !.at = "opening"]
          /\ BeginConnecting
          /\ UNCHANGED audio
       \/ /\ active = None
          /\ ~LockFree
          /\ loop' = [loop EXCEPT !.at = "lock"]
          /\ UNCHANGED <<state, audio, attempt>>
    /\ UNCHANGED <<active, pending, fresh, opened, sess, out, consumer, warm,
                   timer, drain, closing, delivered>>

SpeechStart ==
    /\ ~speaking
    /\ spoken < MaxUtts
    /\ spoken' = spoken + 1
    /\ speaking' = TRUE
    /\ HearAudio(spoken + 1)

SpeechChunk ==
    /\ speaking
    /\ HearAudio(spoken)
    /\ UNCHANGED voice

\* warmup() asks for a session too.
Warmup ==
    /\ "warmup" \in Happens
    /\ warm = "idle"
    /\ ~closing
    /\ active = None
    /\ \/ /\ LockFree
          /\ opened < MaxSessions
          /\ warm' = "opening"
          /\ BeginConnecting
       \/ /\ ~LockFree
          /\ warm' = "lock"
          /\ UNCHANGED <<state, attempt>>
    /\ UNCHANGED <<active, ids, backend, loop, timer, drain, closing, voice, delivered>>

LoopGetsLock_NoRecheck ==
    /\ loop.at = "lock"
    /\ LockFree
    /\ opened < MaxSessions
    /\ loop' = [loop EXCEPT !.at = "opening"]
    /\ BeginConnecting
    /\ UNCHANGED <<active, ids, backend, warm, timer, drain, closing, voice, delivered>>

\* The lock is handed to the caller that waited, which looks again at the
\* session before it connects.
LoopGetsLock ==
    /\ loop.at = "lock"
    /\ LockFree
    /\ \/ /\ active # None
          /\ loop' = IdleLoop
          /\ audio' = IF sess[active] = "open"
                      THEN [audio EXCEPT ![active] = spoken] ELSE audio
          /\ UNCHANGED <<state, attempt>>
       \/ /\ active = None
          /\ opened < MaxSessions
          /\ loop' = [loop EXCEPT !.at = "opening"]
          /\ BeginConnecting
          /\ UNCHANGED audio
    /\ UNCHANGED <<active, ids, opened, sess, out, consumer, warm, timer, drain, closing,
                   voice, delivered>>

WarmupGetsLock ==
    /\ warm = "lock"
    /\ LockFree
    /\ \/ /\ active # None
          /\ warm' = "idle"
          /\ UNCHANGED <<state, attempt>>
       \/ /\ active = None
          /\ opened < MaxSessions
          /\ warm' = "opening"
          /\ BeginConnecting
    /\ UNCHANGED <<active, ids, backend, loop, timer, drain, closing, voice, delivered>>

\* open_session returned: the session is active, its timer armed; a timer task
\* still draining the previous session is cancelled.  The audio that asked for
\* the session is sent to it in the same step.
Opened(s) ==
    /\ s = opened + 1
    /\ s \in Sessions
    /\ Activate(s)
    /\ sess' = [sess EXCEPT ![s] = "open"]
    /\ consumer' = [ConsumerCancelled({"timer"}) EXCEPT ![s] = "running"]
    /\ drain' = DrainCancelled({"timer"})
    /\ attempt' = 0
    /\ UNCHANGED closing

LoopOpens ==
    /\ loop.at = "opening"
    /\ \E s \in Sessions :
          /\ Opened(s)
          /\ audio' = [audio EXCEPT ![s] = spoken]
    /\ loop' = IdleLoop
    /\ UNCHANGED <<ids, out, warm, voice, delivered>>

WarmupOpens ==
    /\ warm = "opening"
    /\ \E s \in Sessions : Opened(s)
    /\ warm' = "idle"
    /\ UNCHANGED <<ids, audio, out, loop, voice, delivered>>

\* open_session raised: back off and try again, or give up and report.
OpenRaises ==
    /\ "open_fails" \in Happens
    /\ IF attempt < ConnectAttempts
         THEN attempt' = attempt + 1 /\ UNCHANGED state
         ELSE attempt' = 0 /\ state' = "DISCONNECTED"
    /\ UNCHANGED <<active, ids, backend, timer, drain, closing, voice, delivered>>

LoopOpenFails ==
    /\ loop.at = "opening"
    /\ OpenRaises
    /\ loop' = IF attempt' = 0 THEN IdleLoop ELSE loop
    /\ UNCHANGED warm

WarmupOpenFails ==
    /\ warm = "opening"
    /\ OpenRaises
    /\ warm' = IF attempt' = 0 THEN "idle" ELSE warm
    /\ UNCHANGED loop

-----------------------------------------------------------------------------
(***************************************************************************)
(* Speech ends and their finals.                                           *)
(***************************************************************************)
\* SpeechEnd: with a session, the id joins the FIFO and the loop awaits the
\* decode; a session with nothing buffered returns without answering.
SpeechEnd ==
    /\ speaking
    /\ loop.at = "idle"
    /\ ~closing
    /\ speaking' = FALSE
    /\ activeUtt' = IF activeUtt = spoken THEN None ELSE activeUtt
    /\ fresh' = fresh \cup {spoken}
    /\ IF active = None
         THEN UNCHANGED <<pending, audio, loop>>
         ELSE /\ pending' = Append(pending, spoken)
              /\ audio' = [audio EXCEPT ![active] = None]
              /\ loop' = IF audio[active] = None THEN loop
                         ELSE [at |-> "decoding", sess |-> active]
    /\ UNCHANGED <<state, active, opened, sess, out, consumer, warm, attempt,
                   timer, drain, closing, spoken, delivered>>

DecodeEnds ==
    /\ loop.at = "decoding"
    /\ \E kind \in DecodeResults : Publish(loop.sess, spoken, kind)
    /\ loop' = IdleLoop
    /\ UNCHANGED <<state, active, ids, opened, sess, audio, consumer, warm,
                   attempt, timer, drain, closing, voice, delivered>>

\* The ids that _drop_stale_pending_final_utterance_ids leaves: ids past the
\* reconnect window go, but a lone one stays while nobody speaks.
DropsStale(n) ==
    LET droppable(i) == /\ pending[i] \notin fresh
                        /\ Len(pending) - i >= 1 \/ activeUtt # None
    IN  /\ \A i \in 1..n : droppable(i)
        /\ n < Len(pending) => ~droppable(n + 1)

\* A final is published under the oldest pending id, else under the active one.
ConsumeFinal(s) ==
    /\ consumer[s] = "running"
    /\ out[s] # <<>>
    /\ Head(out[s]).kind # "fail"
    /\ \E n \in 0..Len(pending) :
          /\ DropsStale(n)
          /\ LET waiting == n < Len(pending)
                 id == IF waiting THEN pending[n + 1] ELSE activeUtt
             IN  /\ pending' = SubSeq(pending, IF waiting THEN n + 2 ELSE n + 1,
                                      Len(pending))
                 /\ delivered' =
                      IF id # None /\ Head(out[s]).kind = "text"
                      THEN delivered \cup {<<Head(out[s]).utt, id>>} ELSE delivered
    /\ out' = [out EXCEPT ![s] = Tail(@)]
    /\ UNCHANGED <<state, active, activeUtt, fresh, opened, sess, audio, consumer,
                   tasks, voice>>

ConsumerFails_KeepsPending(s) ==
    /\ consumer[s] = "running"
    /\ out[s] # <<>>
    /\ Head(out[s]).kind = "fail"
    /\ out' = [out EXCEPT ![s] = Tail(@)]
    /\ active' = IF s = active THEN None ELSE active
    /\ activeUtt' = IF s = active THEN None ELSE activeUtt
    /\ state' = IF s = active THEN "DISCONNECTED" ELSE state
    /\ timer' = IF s = active THEN TimerOff ELSE timer
    /\ consumer' = [consumer EXCEPT ![s] = "failing"]
    /\ UNCHANGED <<pending, fresh, opened, sess, audio, loop, warm, attempt, drain,
                   closing, voice, delivered>>

\* The stream raised: _handle_terminal_session_failure.  Only the failure of
\* the active session clears the provider.
ConsumerFails(s) ==
    /\ consumer[s] = "running"
    /\ out[s] # <<>>
    /\ Head(out[s]).kind = "fail"
    /\ out' = [out EXCEPT ![s] = Tail(@)]
    /\ IF s = active
         THEN /\ active' = None
              /\ activeUtt' = None
              /\ pending' = <<>>
              /\ fresh' = {}
              /\ state' = "DISCONNECTED"
              /\ timer' = TimerOff
              /\ drain' = DrainCancelled({"timer"})
              /\ consumer' = [ConsumerCancelled({"timer"}) EXCEPT ![s] = "failing"]
         ELSE /\ consumer' = [consumer EXCEPT ![s] = "failing"]
              /\ UNCHANGED <<active, ids, state, timer, drain>>
    /\ UNCHANGED <<opened, sess, audio, loop, warm, attempt, closing, voice,
                   delivered>>

\* ... and the rest of the handler: callback, stop(), close().
FailureHandled(s) ==
    /\ consumer[s] = "failing"
    /\ consumer' = [consumer EXCEPT ![s] = "ended"]
    /\ sess' = [sess EXCEPT ![s] = "closed"]
    /\ audio' = [audio EXCEPT ![s] = None]
    /\ UNCHANGED <<state, active, ids, opened, out, tasks, voice, delivered>>

\* The stream ended.
ConsumerEnds(s) ==
    /\ consumer[s] = "running"
    /\ out[s] = <<>>
    /\ sess[s] # "open"
    /\ consumer' = [consumer EXCEPT ![s] = "ended"]
    /\ UNCHANGED <<state, active, ids, opened, sess, audio, out, tasks, voice,
                   delivered>>

\* The end of the oldest fresh utterance falls out of the reconnect window.  An
\* event already on a stream is consumed well before that, and a decode ends
\* before that unless it is a slow one.
BeingDecoded(u) ==
    \/ loop.at = "decoding" /\ u = spoken
    \/ \E s \in Sessions : drain[s].at = "flush" /\ drain[s].utt = u
WindowPasses ==
    /\ \E u \in fresh :
          /\ \A v \in fresh : u <= v
          /\ \A s \in Sessions : \A i \in DOMAIN out[s] : out[s][i].utt # u
          /\ BeingDecoded(u) => "slow_decode" \in Happens
          /\ fresh' = fresh \ {u}
    /\ UNCHANGED <<state, active, activeUtt, pending, backend, tasks, voice, delivered>>

-----------------------------------------------------------------------------
(***************************************************************************)
(* The reset timer.                                                        *)
(***************************************************************************)
TimerAt(at) == [at |-> at, old |-> active, utt |-> activeUtt]

\* The deadline passes while somebody speaks: open the session to bridge to.
TimerBridges ==
    /\ "reset" \in Happens
    /\ timer.at = "armed"
    /\ active # None /\ activeUtt # None
    /\ opened < MaxSessions
    /\ timer' = TimerAt("bridging")
    /\ UNCHANGED <<state, active, ids, backend, loop, warm, attempt, drain,
                   closing, voice, delivered>>

\* ... or shortly after somebody spoke: open the session to reconnect to.
TimerReconnects ==
    /\ "reset" \in Happens
    /\ timer.at = "armed"
    /\ active # None /\ activeUtt = None /\ fresh # {}
    /\ opened < MaxSessions
    /\ timer' = TimerAt("reconnecting")
    /\ UNCHANGED <<state, active, ids, backend, loop, warm, attempt, drain,
                   closing, voice, delivered>>

\* _reset_on_silence: the session is dropped and drained by the timer task.
ResetOnSilence ==
    /\ active' = None
    /\ state' = "DRAINING"
    /\ timer' = [TimerOff EXCEPT !.at = "draining"]
    /\ StartDrain(active, "timer", TRUE, activeUtt, drain)
    /\ UNCHANGED <<ids, opened, out, consumer, loop, warm, attempt, closing,
                   voice, delivered>>

\* ... or in silence: drop the session, or keep it if it costs nothing.
TimerInSilence ==
    /\ "silence" \in Happens
    /\ timer.at = "armed"
    /\ active # None /\ activeUtt = None /\ fresh = {}
    /\ \/ /\ StaysWarm
          /\ timer' = TimerOff
          /\ UNCHANGED <<state, active, ids, backend, loop, warm, attempt, drain,
                         closing, voice, delivered>>
       \/ /\ ~StaysWarm
          /\ ResetOnSilence

\* open_session returned to the timer task: the new session replaces the old
\* one, which a task of its own will drain.  _schedule_reset_timer cancels the
\* very task that runs here, but it does not suspend again.
Replaced(s) ==
    /\ s = opened + 1
    /\ Activate(s)
    /\ sess' = [sess EXCEPT ![s] = "open"]
    /\ consumer' = [consumer EXCEPT ![s] = "running"]
    /\ UNCHANGED <<ids, out, loop, warm, attempt, closing, voice, delivered>>

BridgeOpens_OldForgotten ==
    /\ timer.at = "bridging"
    /\ \E s \in Sessions :
          /\ Replaced(s)
          /\ audio' = [audio EXCEPT ![s] = timer.utt]
    /\ UNCHANGED drain

\* The new session gets the audio of the ring buffer.
BridgeOpens ==
    /\ timer.at = "bridging"
    /\ \E s \in Sessions :
          /\ Replaced(s)
          /\ audio' = [audio EXCEPT ![s] = timer.utt]
    /\ drain' = [drain EXCEPT ![timer.old] =
                    [at |-> "start", by |-> "bridge", utt |-> None]]

ReconnectOpens_OldForgotten ==
    /\ timer.at = "reconnecting"
    /\ \E s \in Sessions : Replaced(s)
    /\ UNCHANGED <<drain, audio>>

ReconnectOpens ==
    /\ timer.at = "reconnecting"
    /\ \E s \in Sessions : Replaced(s)
    /\ drain' = [drain EXCEPT ![timer.old] =
                    [at |-> "start", by |-> "reconnect", utt |-> None]]
    /\ UNCHANGED audio

\* Nothing catches an exception of open_session here: the timer task dies.
BridgeFails ==
    /\ "bridge_fails" \in Happens
    /\ timer.at = "bridging"
    /\ timer' = TimerOff
    /\ UNCHANGED <<state, active, ids, backend, loop, warm, attempt, drain,
                   closing, voice, delivered>>

\* A reconnect that fails falls back to the reset on silence.
ReconnectFails ==
    /\ "open_fails" \in Happens
    /\ timer.at = "reconnecting"
    /\ ResetOnSilence

-----------------------------------------------------------------------------
(***************************************************************************)
(* _drain_and_close().                                                     *)
(***************************************************************************)
\* A drain started as a task of its own begins to run.
DrainStarts(s) ==
    /\ drain[s].at = "start"
    /\ StartDrain(s, drain[s].by, drain[s].by = "reconnect", activeUtt, drain)
    /\ UNCHANGED <<state, active, ids, opened, out, consumer, loop, warm, attempt,
                   timer, closing, voice, delivered>>

\* The decode of the speech that was still buffered ends.
DrainFlushes(s) ==
    /\ drain[s].at = "flush"
    /\ \E kind \in DecodeResults : Publish(s, drain[s].utt, kind)
    /\ drain' = [drain EXCEPT ![s].at = "grace"]
    /\ UNCHANGED <<state, active, ids, opened, sess, audio, consumer, loop, warm,
                   attempt, timer, closing, voice, delivered>>

\* The grace period is over: stop() ends the stream, then wait for the consumer.
DrainStops(s) ==
    /\ drain[s].at = "grace"
    /\ drain' = [drain EXCEPT ![s].at = "wait"]
    /\ sess' = [sess EXCEPT ![s] = Stopped(s)]
    /\ audio' = [audio EXCEPT ![s] = None]
    /\ UNCHANGED <<state, active, ids, opened, out, consumer, loop, warm, attempt,
                   timer, closing, voice, delivered>>

\* The consumer ended, or drain_timeout_s cut a failure handler short (nothing
\* else holds a consumer up once its stream has ended); close().
Closed(s) ==
    /\ sess' = [sess EXCEPT ![s] = "closed"]
    /\ UNCHANGED <<ids, opened, audio, out, loop, warm, attempt, voice, delivered>>

DrainCloses_Disconnects(s) ==
    /\ drain[s].at = "wait"
    /\ drain[s].by # "close"
    /\ consumer[s] # "running"
    /\ drain' = [drain EXCEPT ![s] = NoDrain]
    /\ consumer' = [consumer EXCEPT ![s] = "ended"]
    /\ Closed(s)
    /\ state' = "DISCONNECTED"
    /\ timer' = IF drain[s].by = "timer" THEN TimerOff ELSE timer
    /\ UNCHANGED <<active, closing>>

DrainCloses(s) ==
    /\ drain[s].at = "wait"
    /\ drain[s].by # "close"
    /\ consumer[s] # "running"
    /\ drain' = [drain EXCEPT ![s] = NoDrain]
    /\ consumer' = [consumer EXCEPT ![s] = "ended"]
    /\ Closed(s)
    /\ IF drain[s].by = "timer"
         THEN timer' = TimerOff /\ state' = "DISCONNECTED"
         ELSE UNCHANGED <<timer, state>>
    /\ UNCHANGED <<active, closing>>

-----------------------------------------------------------------------------
(***************************************************************************)
(* close(), as the switch of the microphone calls it: the audio loop has   *)
(* been cancelled where it was, and warmup() is not running.               *)
(***************************************************************************)
Background == {"bridge", "reconnect"}

CloseBegins ==
    /\ "close" \in Happens
    /\ warm = "idle"
    /\ ~closing
    /\ loop' = IdleLoop
    /\ attempt' = 0
    /\ speaking' = FALSE
    /\ timer' = TimerOff
    /\ \/ /\ active # None
          /\ closing' = TRUE
          /\ state' = "DRAINING"
          /\ consumer' = ConsumerCancelled({"timer"})
          /\ StartDrain(active, "close", TRUE, activeUtt, DrainCancelled({"timer"}))
       \/ /\ active = None
          /\ state' = "DISCONNECTED"
          /\ consumer' = ConsumerCancelled({"timer"} \cup Background)
          /\ drain' = DrainCancelled({"timer"} \cup Background)
          /\ UNCHANGED <<closing, sess, audio>>
    /\ UNCHANGED <<active, ids, opened, out, warm, spoken, delivered>>

\* The drain of the active session is over: the background drains are
\* cancelled where they are.
CloseEnds(s) ==
    /\ closing
    /\ drain[s].at = "wait"
    /\ drain[s].by = "close"
    /\ consumer[s] # "running"
    /\ closing' = FALSE
    /\ active' = None
    /\ state' = "DISCONNECTED"
    /\ drain' = [DrainCancelled(Background) EXCEPT ![s] = NoDrain]
    /\ consumer' = [ConsumerCancelled(Background) EXCEPT ![s] = "ended"]
    /\ Closed(s)
    /\ UNCHANGED timer

Next ==
    \/ SpeechStart \/ SpeechChunk \/ SpeechEnd \/ DecodeEnds
    \/ Warmup \/ LoopGetsLock \/ WarmupGetsLock
    \/ LoopOpens \/ WarmupOpens \/ LoopOpenFails \/ WarmupOpenFails
    \/ TimerBridges \/ TimerReconnects \/ TimerInSilence
    \/ BridgeOpens \/ BridgeFails \/ ReconnectOpens \/ ReconnectFails
    \/ CloseBegins \/ WindowPasses
    \/ \E s \in Sessions :
          \/ ConsumeFinal(s) \/ ConsumerFails(s) \/ FailureHandled(s)
          \/ ConsumerEnds(s)
          \/ DrainStarts(s) \/ DrainFlushes(s) \/ DrainStops(s) \/ DrainCloses(s)
          \/ CloseEnds(s)

Spec == Init /\ [][Next]_vars

\* The event loop keeps running every task that is ready: a backend call, a
\* decode, a consumer with events or a grace period comes to its end.  Nothing
\* is assumed of the speaker, of warmup(), of the timer or of failures.
Fairness ==
    /\ WF_vars(DecodeEnds)
    /\ WF_vars(LoopGetsLock) /\ WF_vars(WarmupGetsLock)
    /\ WF_vars(LoopOpens \/ LoopOpenFails) /\ WF_vars(WarmupOpens \/ WarmupOpenFails)
    /\ WF_vars(BridgeOpens \/ BridgeFails) /\ WF_vars(ReconnectOpens \/ ReconnectFails)
    /\ \A s \in Sessions :
          /\ WF_vars(ConsumeFinal(s) \/ ConsumerFails(s) \/ ConsumerEnds(s))
          /\ WF_vars(FailureHandled(s))
          /\ WF_vars(DrainStarts(s) \/ DrainFlushes(s) \/ DrainStops(s) \/ DrainCloses(s))
          /\ WF_vars(CloseEnds(s))
FairSpec == Spec /\ Fairness

-----------------------------------------------------------------------------
SessionIds == Sessions \cup {None}
UttIds == Utts \cup {None}
States == {"DISCONNECTED", "CONNECTING", "STREAMING", "DRAINING"}
SessionEvents == [utt : UttIds, kind : {"text", "blank", "fail"}]
Loops == [at : {"idle", "lock", "opening", "decoding"}, sess : SessionIds]
Timers == [at : {"off", "armed", "bridging", "reconnecting", "draining"},
           old : SessionIds, utt : UttIds]
Drains == [at : {"none", "start", "flush", "grace", "wait"},
           by : {"none", "timer", "bridge", "reconnect", "close"},
           utt : UttIds]

\* Every variable stays in its type.
TypeOK ==
    /\ state \in States
    /\ active \in SessionIds
    /\ activeUtt \in UttIds
    /\ pending \in Seq(UttIds)
    /\ fresh \in SUBSET UttIds
    /\ opened \in 0..MaxSessions
    /\ sess \in [Sessions -> {"unused", "open", "stopped", "closed"}]
    /\ audio \in [Sessions -> UttIds]
    /\ out \in [Sessions -> Seq(SessionEvents)]
    /\ consumer \in [Sessions -> {"none", "running", "failing", "ended"}]
    /\ loop \in Loops
    /\ warm \in {"idle", "lock", "opening"}
    /\ attempt \in 0..ConnectAttempts
    /\ timer \in Timers
    /\ drain \in [Sessions -> Drains]
    /\ closing \in BOOLEAN
    /\ spoken \in UttIds
    /\ speaking \in BOOLEAN
    /\ delivered \in SUBSET (UttIds \X UttIds)

\* No session is overwritten.  Whoever is opening one to fill an empty slot
\* finds it empty when open_session returns, and whoever opens one to replace
\* a session finds that session: the lock, the check repeated under it and the
\* cancellation of the timer leave no way to lose a session (controller.py:92,
\* "both callers opened a session and one leaked").
NoSessionOverwritten ==
    /\ (loop.at = "opening" \/ warm = "opening") => active = None
    /\ timer.at \in {"bridging", "reconnecting"} => active = timer.old
    /\ ~(loop.at = "opening" /\ warm = "opening")

\* The state shown to the user is the state of the provider, whenever no task
\* is in the middle of changing it: a late drain, a failed reconnect or a
\* cancelled timer never leaves STREAMING without a session, or the reverse.
Settled ==
    /\ loop.at \notin {"lock", "opening"}
    /\ warm = "idle"
    /\ timer.at # "draining"
    /\ ~closing
StateTellsTheTruth ==
    Settled => state = IF active = None THEN "DISCONNECTED" ELSE "STREAMING"

\* Every session that is not closed has somebody who will close it: it is the
\* active one, or a drain or a failure handler has it.
Orphan(s) ==
    /\ sess[s] \in {"open", "stopped"}
    /\ s # active
    /\ drain[s].at = "none"
    /\ consumer[s] # "failing"
NoOrphanSession == \A s \in Sessions : ~Orphan(s)

\* A session that was replaced is closed in the end, whatever its consumer and
\* its decodes do meanwhile.
ReplacedSessionCloses ==
    \A s \in Sessions :
        (sess[s] \in {"open", "stopped"} /\ s # active) ~> (sess[s] = "closed")

\* A transcript is published under the id of the utterance it transcribes
\* (controller.py:785: the empty final keeps "the pending-id FIFO above ... in
\* step with the SpeechEnds").
FinalsPaired == \A p \in delivered : p[1] = p[2]

\* A session lives until a deadline: as long as one is active, the timer that
\* resets it is armed or at work.
DeadlineArmed == active # None => timer.at # "off" \/ closing
=============================================================================
