# A TLA+ model of PuriPuly Heart

PuriPuly Heart listens to the user's microphone and, optionally, to the sound
of the other players (the *peer* channel), recognises the speech, translates
it, and shows text and translation in the VRChat chatbox, in an overlay and in
its own window. The application is one asyncio program; almost everything that
can go wrong in it is a question of which coroutine runs between two awaits of
another. This directory holds TLA+ modules that model its core at that grain,
TLC configurations that check them on small instances, and proofs, checked by
TLAPS, of the most important invariants for every instance.

Paths below are relative to `src/puripuly_heart/` of the repository unless they
start with `docs/` or `tests/`. Line numbers are those of the commit modelled.

Contents

1. The system: components, state, operations, interactions
2. What is hard about it
3. The modules, and how they correspond to the code
4. What each run checks, its bounds, and why they are enough
5. Fairness
6. What is proved
7. Where the code and its documents disagree, and observations
8. What is only model-checked, and what is not modelled
9. Plan
10. Running the checks

## 1. The system

```
 microphone -> VAD --\                                       /-> ChatboxPaginator -> VRChat (OSC)
                      > ManagedSTTProvider -> ClientHub -----+-> overlay presenter -> OverlayBridge -> overlay
 desktop audio -> VAD/   one per channel      |      ^       \-> event bridge -> window
    ^                                          v      |
    '-- PeerChannelRuntime (starts, stops)   LLM provider (FallbackRacingLLMProvider over two backends)

 GuiController: switches the microphone, the peer channel and the overlay on and off,
                replaces providers, owns OverlayBridge and OverlayProcessManager
```

`docs/ARCHITECTURE.md` draws the same picture. All of it runs on one event
loop, so a run of code without an await is atomic; threads are used only inside
backends and devices.

| Component | State it keeps | Operations | Talks to |
|---|---|---|---|
| Chatbox queue, `core/osc/chatbox_paginator.py` | pages of the message being shown, messages waiting, two deadlines | `enqueue`, `send_preview`, `process_due` | called by the hub and by its flush loop every 0.1 s; sends OSC |
| Managed STT provider, `core/stt/controller.py` | active backend session, utterance in progress, FIFO of utterances whose final is due, reset timer, draining sessions | `handle_vad_event`, `warmup`, `close`, the reset timer, one consumer task per session | driven by the audio loop; opens sessions of a backend; publishes events on a queue the hub reads |
| Hub, `core/orchestrator/hub.py`, `channel_runtime.py` | per channel: transcripts, translation tasks, merge buffer, texts the overlay waits for, turns of the other people, typing indicator | VAD events, STT events, typed text, translation, chatbox output, `start`, `stop`, `replace_*_provider`, `clear_language_runtime_state` | everything |
| Live preview, part of the hub | the utterances being previewed, a translation task each, the time of the last one sent | a partial, a final, the task | `send_preview` of the chatbox queue |
| Peer channel runtime, `core/runtime/peer_channel.py` | generation, desired and shown state, signature, provider, source, loop | `apply_policy`, `close`, failure handlers | UI calls it; attaches a provider to the hub; owns an audio source |
| Translation race, `core/llm/fallback_racing.py` | attempts in flight, closed flag | `translate`, `close` | the hub calls it; it calls two backends |
| Overlay bridge, `core/overlay/bridge.py` | connections, token, authenticated connection, snapshot | `start`, `stop`, handshake, heartbeats, broadcast | web socket to the overlay |
| Overlay runtime, `core/overlay/process.py`, `ui/controller.py` | the switch, the soft-hidden window, start task, watcher, lock; child process, its state, monitor | switch on and off, start, wait for readiness, watch, tear down | the overlay executable; owns the bridge |
| Microphone switch, `ui/controller.py` | wanted state, the task that makes it true, audio source, its loop | `set_stt_enabled`, `_run_stt_switch`, `_replace_runtime_stt_provider` | the device, the audio loop, the STT provider |
| Overlay presentation, `core/overlay/presenter.py`, `state.py` | blocks on show, expiry, revisions | apply events, snapshot | the hub pushes events |
| Microphone mute gate, `core/osc/receiver.py`, `core/audio/gate.py` | muted, pending change | OSC messages of VRChat | the audio loop asks it |
| VAD and buffers, `core/vad/gating.py`, `core/audio/ring_buffer.py` | speaking or not, hangover, pre-roll | `process_chunk` | yields SpeechStart, SpeechChunk, SpeechEnd |
| Audio capture, `core/audio/source.py`, ... | device streams | frames | the audio loops |
| Managed connection, `core/managed_openrouter_release.py`, ... | trial identity and key | handshake with the broker | broker service |
| Backends, `providers/stt/*`, `providers/llm/*` | one streaming session, one request | open, send, stop; translate | third-party services |
| UI, settings, wiring, OCR, updater, assets, language helpers | widgets, files | - | drive the components above |
| Broker (TypeScript), native overlay (Rust), Steam bridge | separate programs | - | over the network |

`PROJECT.json` lists every component with the files it consists of and whether
it is modelled.

## 2. What is hard about it

*Interleaving at awaits.* A coroutine reads shared state, awaits, and goes on
with what it read. `ManagedSTTProvider` has five kinds of tasks that touch
`_active_session`; the merge buffer of the hub may be committed by five
different tasks; the generations of the peer runtime are not serialised at all.

*Cancellation.* Starting one timer cancels another, which may be the very task
that is in the middle of a drain; a commit cancels the speculative translation
it may be running in.

*Ordering without identifiers.* Backends answer without an utterance id. A
final is paired with the oldest utterance that waits for one, so one final lost
or dropped makes every later one wrong.

*Partial failure.* Opening a session, loading a model, opening a device, one of
two translations: each may fail with the others done.

*Timeouts.* Grace periods, a wait for VAD, a debounce of resumed speech, a
reset deadline, a fallback delay; each may fire in the same turn as the event it
was guarding against.

*Something must happen.* Text is held back in several places; each hold must be
released by somebody.

The properties that make the components correct, in words; section 4 says which
definition states which.

- Chatbox: messages appear whole, one at a time, in order behind pages, after
  the preview gap, and each appears.
- STT: no session is overwritten or forgotten; a replaced session is closed; the
  state shown is true; transcripts come under their own utterance's id.
- Peer runtime: nothing captures that nobody can stop; off is off and settles;
  RUNNING means running, with the configuration asked for last.
- Merge: text is sent once, whole, with its own translation, and is sent.
- Race: an answer if there is one, an error only if all fail, every call ends
  and leaves nothing running, and no closed provider is asked.
- Preview: what is shown before the final follows what is being said and never
  replaces the finished message; the queue is none the worse for it.
- Hub: each text is answered, and what was shown or held for it (typing
  indicator, caption, turn) is taken back in whatever way it ends.
- Overlay bridge: one client at a time, with the newest snapshot; the next one
  is not locked out; stop() returns and leaves nothing.
- Overlay runtime: one renderer, which is watched; off is off, and leaves no
  process and no open bridge.
- Microphone: no open device that nobody can close; the last word of the user
  wins.

`PROJECT.json` lists each hazard at its line with the properties that watch it,
or the reason why none does yet.

## 3. The modules, and how they correspond to the code

| Module | Models | Used by |
|---|---|---|
| `Chatbox` | `ChatboxPaginator` and the flush loop of the hub | `ChatboxPreview`, `ChatboxProofs` |
| `ChatboxPreview` | the hub's live preview, over `Chatbox` | `MCChatboxPreview`, `ChatboxProofs` |
| `SttSession` | `ManagedSTTProvider` over backends that decode inside `on_speech_end` | `MCSttSession`, `SttSessionProofs` |
| `PeerRuntime` | `PeerChannelRuntime` and `replace_peer_stt_provider` of the hub | `MCPeerRuntime`, `PeerRuntimeProofs` |
| `LowLatencyMerge` | the merge buffer of the microphone channel in the hub | `MCLowLatencyMerge`, `LowLatencyMergeProofs` |
| `TextDelivery` | abstract: what the microphone channel promises of a text | implemented by `LowLatencyMerge` |
| `HubTurns` | a text's way through the hub without low latency | `MCHubTurns`, `HubTurnsProofs` |
| `LlmRace` | `FallbackRacingLLMProvider` | `MCLlmRace`, `LlmRaceProofs` |
| `TranslationCall` | abstract: what `LLMProvider.translate` promises its caller | implemented by `LlmRace` |
| `OverlayBridge` | the web socket server of the overlay | `MCOverlayBridge`, `OverlayBridgeProofs` |
| `OverlayRuntime` | starting, watching and stopping an overlay: `GuiController`, `OverlayProcessManager` | `MCOverlayRuntime`, `GuiControllerProofs` |
| `MicSwitch` | the microphone switch of `GuiController` | `MCMicSwitch`, `GuiControllerProofs` |

Common conventions.

- A step runs from one await *that can suspend* to the next. An await of a
  coroutine that never reaches a suspension point does not end a step.
- The place where a coroutine is suspended is a state variable (`loop.at`,
  `flow[f].at`, `phase[c]`, ...) whose values are named for what it waits for.
- Cancellation is part of the action that cancels: a cancelled coroutine that
  holds nothing is gone; one that handles its cancellation has a stage for it.
- Data is named, not spelled: a text is the number of its pages (`Chatbox`), the
  finals it was put together from (`LowLatencyMerge`), or nothing (`LlmRace`).
- An event an instance may leave out is a member of `Happens`. It widens a
  specification and never narrows what happens otherwise; it lets one run
  include all of them at a small size and another few of them at a larger one.
- Variables marked *history* are written and never read by a guard; only
  properties look at them.
- A definition whose name is that of another plus a suffix (`Activate_NoTimer`)
  is that definition with one plausible slip in it. `PROJECT.json` pairs each
  property of each run with such a slip, which makes the run fail.

### Chatbox

`queue` holds the fields of the class. The two absolute deadlines are compared
with the clock only, so the module keeps the distance to each, saturated:
`pageWait` down to `_next_page_at`, `previewAge` up from `_last_preview_at`.
`Enqueue`, `SendPreview` and `ProcessDue` are the methods (no method awaits);
`Tick` is the clock. Left out: `send_immediate` and `send_typing`, which leave
the queue alone; an `OSError` of the sender, which is swallowed inside `_send`
(the page is then gone, as it would be if the datagram were lost).

Observed while modelling: `enqueue` looks at the pages and at the preview, not
at `_pending_messages`. A message held back by a preview can therefore be
overtaken by one that arrives after the hold has expired and before the next
flush. No document promises that order, so the property
`PaginationKeepsArrivalOrder` is about messages that waited for pages.

### ChatboxPreview

Extends `Chatbox` and shares its variables: the hub is the queue's user.
`open` is the ordered dictionary `_chatbox_previews`, `preview[u]` a
`_ChatboxPreview`, `sinceSent` the time since `_last_preview_send_at`.

| Code | Actions |
|---|---|
| `_maybe_preview_self_partial` | `Partial`: opens a preview, or gives it a newer text; closes the oldest of too many |
| `_handle_transcript` of a final, `_close_chatbox_preview` | `Final` |
| `_run_chatbox_preview` | `Asks` (the interval is over), `Shows`, `NotShown` (empty, the same, or the queue is busy), `Fails` |
| `_enqueue_osc`, the flush loop, the clock | `Finished`, `Flush`, `TimePasses` |

Of a partial the module keeps whether it is newer than the text last asked for
and whether a final has come since (a history); so an utterance may have any
number of partials. Left out: the end of all previews at `stop`. Observations in
section 7.

### SttSession

One variable per field of the provider (`state`, `active`, `activeUtt`,
`pending`, ...), arrays over the sessions for what belongs to each (`sess`,
`audio`, `out`, `consumer`, `drain`), and one per coroutine for where it is
(`loop`, `warm`, `timer`, `closing`).

| Code | Actions |
|---|---|
| `handle_vad_event` | `SpeechStart`, `SpeechChunk`, `SpeechEnd`, `DecodeEnds` |
| `_ensure_session` | `LoopGetsLock`, `LoopOpens`, `LoopOpenFails`, `Warmup` and its three counterparts |
| `_reset_timer_task`: `_reset_with_bridging`, `_reset_with_reconnect`, `_reset_on_silence` | `TimerBridges`, `TimerReconnects`, `TimerInSilence`, `BridgeOpens`, `BridgeFails`, `ReconnectOpens`, `ReconnectFails` |
| `_drain_and_close` | `DrainStarts`, `DrainFlushes`, `DrainStops`, `DrainCloses` |
| `_consume_session_events`, terminal failure | `ConsumeFinal`, `ConsumerFails`, `FailureHandled`, `ConsumerEnds` |
| `close` | `CloseBegins`, `CloseEnds` |
| the clock | `WindowPasses`: a speech end is no longer within `reconnect_window_s` |

The backend is the inline kind (`providers/stt/local_qwen_sherpa.py`,
`custom_whisper.py`): audio is buffered, `on_speech_end` decodes in a thread and
puts one final, possibly blank, on the stream; `stop` puts the end mark, and
whatever is put later stands behind it and is lost. `send_audio` and the queues
never suspend. Left out: partial transcripts, logging, `is_shutting_down`. A
final suppressed by the hallucination filter counts as blank. `slow_decode`
(a decode longer than the 5 s window) is excluded from the pairing run: with
it the controller drops the pending id by design.

Observed and not stated as a property, because no document contradicts it:
switching the microphone off between the end of an utterance and its final
cancels the decode and loses that text; and a bridging reset that fails on the
backend leaves the old session in place with no timer, so nothing watches its
deadline until the next session (`DeadlineArmed` is checked without that event).

### PeerRuntime

Each policy that changes something opens a generation; the provider, source and
loop it builds carry its number. A coroutine is a *flow*: the start or stop of a
generation, the loop's own task handling its failure, or the hub's consumer
handling the failure of its provider. `ApplySame`, `ApplyOn` and `ApplyOff` are
`apply_policy` up to its first suspension, `Starts(g)` the stages of
`_start_generation`, `Failures(g)` a factory, source, loop or provider that
fails, with the handler up to its first suspension, `TearingStopped` and
`TearingEnds` the two suspensions of `_teardown_resources`.
`replace_peer_stt_provider` is modelled with its awaits: it suspends when there
is an old provider to close or an old consumer to stop, and assigns `peer_stt`
last. Left out: `warmup`, which only delays others at the lock (without it no
acquisition waits); cancellation of a start from outside; the clean return of an
audio loop without a target that exited.

Observed: switching the channel off and on while one teardown still runs lets
that teardown set STOPPED over a channel that runs. This is why `SerialPolicies`
is conditioned on policies that did not overlap; `NoOrphanCapture`,
`OffMeansOff` and `OffSettles` hold without that condition.

### LowLatencyMerge and TextDelivery

`buf[b]` is a `_MergeBuffer`, `cur` the current one. A buffer that was
committed keeps its fields, because suspended handlers and late timers still
hold a reference and compare `merge_id`. A text is a function from utterances to
the number of the final that last changed their part, so two texts are equal
exactly if they were put together from the same finals.

| Code | Actions |
|---|---|
| `handle_vad_event` | `SpeechStart`, `ThirdChunk` (a false start is not confirmed before), `SpeechEnd` |
| `_handle_low_latency_final` | `FinalArrives`, `FinalContinues` |
| `_run_spec_translation` | `SpecAnswers`, `SpecShown`, `SpecFails` |
| `_finalize_wait_timeout`, `_awaiting_vad_timeout`, `_resume_end_timeout` | `GraceTimer`, `WaitTimer`, `EndTimer` |
| `_commit_merge`, `_try_commit_after_spec` | the operators `Commit` and `Leaves` inside those actions |
| the translation after a commit | `TranslationEnds` |
| UI switch; channel reset | `Switches`; `ResetBegins`, `ResetEnds` |

The module stands for `low_latency_mode` on, positive timeouts, and
`fallback_transcript_only` as the GUI sets it. Durations are not counted: the
silence that ends an utterance is a setting of the user (`settings.py:610`, only
checked to be >= 0), and the microphone loop may lag behind, so a grace period
may end before, during or after any speech. One fact about durations is kept as a
guard of `WaitTimer` and `EndTimer`: the two have the same timeout, so the one
that began first is over first (`waitLast` says which). Texts that differ only
in boundary marks are identified (`_soft_reuse_mode`). Blank finals change
nothing. Context, latency measurements and the content of overlay events are
left out.

The history `hit` marks the buffers that may be left without a committer:
their speculative translation failed, they were current when translation was
switched, or a false start ended in a grace period or a wait after confirmed
speech had dropped their translation (`Strands`). `NoTextForgotten` and
`EveryTextLeaves` do not speak of them; all three cases are observations of
section 7. `out = "cut"` is a commit that runs inside the speculative task,
cancels that task, and is suspended by the overlay: the text is lost there as
well.

`TextDelivery` says what the channel promises, knowing nothing of speech, timers
and translations: each final joins the open text or opens the next one; a text
closes once, and then it leaves, is lost, or is reset; it arrives once and never
changes after it closed. Texts are lost only where a speculative translation may
fail or the overlay may wait (`CanBeLost`), and reset only where somebody may
reset the channel (`CanBeReset`). `Promise` in `LowLatencyMerge` is the
refinement mapping; `Fate(b)` reads off a buffer what has become of its text.

### HubTurns

A text is the n-th final of an utterance, or a typed message. `at[t]` is where
its handler or its translation is; `tasks`, `held` and `typing` are
`translation_tasks`, `_pending_overlay_transcripts` and the typing indicator;
`book` has the tables of the turns of the other people.

| Code | Actions |
|---|---|
| `handle_vad_event`, `handle_peer_vad_event` at the end of speech | `SpokenEnds`, `PeerEnds` |
| `_handle_stt_event`, `_handle_transcript` | `SpokenDropped`, `SpokenFinal`, `SpokenEmitted` |
| `submit_text` | `Submitted`, `TypedTranslated`, `TypedSkipped`, `TypedSaid` |
| `_handle_peer_final_transcript`, `_finalize_peer_source_only` | `PeerDropped`, `PeerSkipped`, `PeerTranslated`, `PeerShown` |
| `_ensure_translation`, `_translate_and_enqueue` | `Translate`, `TaskRuns`, `Answered`, `ExtrasEnd`, `TranslationFails`, `SelfOut`, `SelfFailed`, `PeerOut`, `Cancelled`, `CutOff` |
| `_register_peer_logical_turn`, `_complete_peer_logical_turn`, `_maybe_clear_completed_peer_parent` | `Registered`, `Complete`, `MaybeForget`, `ForgetParent` |
| `clear_language_runtime_state`, `replace_stt_provider`, `replace_peer_stt_provider` | `ResetBegins` (cancels), `ResetEnds` (what it cancelled has ended) |
| the switches | `SwitchTranslation`, `SwitchSink` |

A cancelled translation takes one of two ways: while the provider is asked its
handler lets the text out as it is (`Cancelled`), anywhere else the task just
ends (`CutOff`). The histories `fate` and `due` say what became of a text and
which utterances got none; the invariants name by them the ways a text may end
without its due:

- `CaptionsLeave`: a translation cut before it released the text; a second final
  that came when the translation of the first was out already.
- `TypingReleased`: speech that got no text; a text that was cut, cancelled,
  swallowed, or whose translation failed without the fallback.
- `TurnsBooked`: a dropped turn; a turn that came after its parent was
  forgotten; a reset.
- `TextsAnswered`: a text that was dropped, whose translation failed or was cut
  off; a second final lost while the first is being translated, if that one had
  an end of its own (`LostBehind`).

A task that ends takes the entry of its utterance out of `tasks`, whichever task
has it by then (`TaskDone`).

Each of these exemptions is an observation of section 7. Left out: `start` and `stop` of
the hub, the context given to providers, latency records, peer loopback.

### LlmRace and TranslationCall

`phase[c]` is where a call of `translate` is suspended; `att[c][p]`,
`sched[c][p]` are its attempts and schedules. An attempt runs (`Running`) from
the moment its task is created, which is before the lock under which the call
notes it down (`fallback_racing.py:314`); only once noted down is it `Pending`, that is,
seen by the call that waits for it and by whoever cleans up. Waking up (`WakesCancelled`,
`WakesWithWinner`, `WakesWithoutWinner`) a call sees every task that has ended
by then, which is what `asyncio.wait(FIRST_COMPLETED)` returns. `_state_lock` only
ever suspends a call that starts an attempt while another call, refused because
`close` has begun, holds it and awaits its own attempt: that is the state
`"queued"`. The lock is fair (`LockIsFree`): it is never taken past a call that
waits for it. Delays are untimed: a schedule may come due at any moment.
The number of attempts is general although the wiring uses two.
Assumed of the code that calls it: `close` runs once; a provider that is
cancelled ends cancelled; `loser_grace_ms` is positive. The semaphore and the
lazy factory around it are left out.

`TranslationCall` says what a caller may rely on, knowing nothing of tasks: a
translation only if a provider gave one, an error only if every provider failed
or a close came, a cancellation only if the caller or a close asked for it, and
one end per call. `Promise` in `LlmRace` is the refinement mapping.

Observed: `close` during the grace period cancels a loser, and the
`CancelledError` collected from it replaces the winner's translation. The
promise therefore lets a close cancel a call. In the hub that error passes
through callers that do not expect it.

Observed too: the attempt of a queued call runs although the call has not asked
whether the race is closed. `OnlyRefusedAfterClose` and `OnlyAbandonedOutlives`
say what this leads to and that it is all: such an attempt may still run on a
provider that has been closed, until its call has the lock and cancels it, and it
outlives the call if the caller cancels that while it waits (section 7).

### OverlayBridge

`handler[c]` is where `_handle_connection` is for a connection, `link[c]` the
connection itself, `auth` `_authenticated_connections`, `consumed` the token,
`lock` the snapshot lock with those who wait (asyncio locks are fair), and
`cast[b]` the progress of a broadcast: one per revision, the heartbeat, and the
controls. `got[c]` is the revision a client was handed last.

| Code | Actions |
|---|---|
| `start`, `stop` | `StartServer`; `StopBegins`, `StopTakes`, `StopClosed`, `StopServer`, `StopEnds` |
| `_handle_connection` | `Connects`, `Authenticates`, `Refused`, `Locked`, `Welcomed`, `BrokenOff`, `TurnedAway`, `Speaks`, `Malformed`, `Served` |
| `replace_snapshot` | `Publish`, `PublishLocked`, `PublishCancelled` |
| `_run_heartbeat_loop`, the controls | `Broadcast` |
| `_broadcast_json` | `HandTo`, `SendEnds`, `SendFails`, `DropStale`, `CastEnds` |
| the reader of `messages`; the network | `Heard`; `LinkEnds` |

`Leave` is the release of an asyncio lock. A connection is used once, and its
handler ends before `wait_closed` does. Left out: the content of messages, a port
that cannot be bound. The history
`burnt` says that a handshake broke off after it took the token; `OneClient`
does not promise the next client a free token then.

### OverlayRuntime

The controller's fields and one manager, bridge and process per start, all
named by the number of the start. A *flow* is a request (the toggle, the peer
toggle, another shutdown), a start task or a watcher; `flow[f].at` is where it
is suspended, and `lock` is `_overlay_lock` with those who wait.

| Code | Actions |
|---|---|
| `set_overlay_enabled`, with the window that is kept warm | `ToggleAsked`, `ToggleOn`, `ToggleOff`, `Hid`, `Revealed` |
| `set_peer_translation_enabled`; other shutdowns | `PeerAsked`; `OtherAsked` |
| `_begin_overlay_start` | `BeginLocked`, `BeginStarts` |
| `_shutdown_overlay_runtime` | `ShutdownLocked`, `GraceOver`, `ShutdownTorn`, `ShutdownEnds` |
| `_teardown_overlay_runtime`, `OverlayProcessManager.stop` | `TearStart`, `TearWatcher`, `TearManager`, `TearProcess`, `TearProcessEnds`, `TearBridge`, `TornByTask` |
| `_run_overlay_start`, `OverlayProcessManager.start` | `StartRuns`, `BridgeUp`, `Spawned`, `Ready`, `NotReady`, `StartConnected`, `StartRefused`, `StartEnds`, `BridgeFails`, `SpawnFails` |
| `_monitor_connected_process`, `_watch_overlay_runtime` | `RendererError`, `MonitorEnds`, `WatcherWakes` |
| the process | `ProcessDies` |

A task that is cancelled ends in the step that cancels it, because all it still
runs is its `finally`. The history `cut` marks the bridges whose start or stop
was itself cancelled, `missed` a toggle-off that found the overlay off while a
start was waiting for the lock; the properties except both, and section 7
describes them. Left out: the presenter, diagnostics, calibration, events of
the renderer's window.

### MicSwitch

`pc[p]` is where the switch task, or a replacement of the provider, is
suspended; a microphone is one audio source with the loop that reads it.

| Code | Actions |
|---|---|
| `set_stt_enabled`, `_ensure_stt_switch`; refused by a local model | `SttToggle`; `SttToggleRefused` |
| `_run_stt_switch` | `Pass`, `SttReady`, `SttNotReady`, `Settle` |
| `_start_mic_loop` | `StartsNothing`, `StartStops`, `StartOpens`, `StartFails` |
| `_stop_mic_loop` | `StopMic`, `Joined`, `SourceClosed` |
| `_replace_runtime_stt_provider` | `Replace`, `Rebuilt` |
| `_run_mic_loop` | `LoopBegins`, `LoopCancelled`, `LoopRunsDry`, `LoopDies` |

The switch task holds a lock; a replacement stops the microphone without it. The
history `overlapped` says that this happened while the switch task was at work,
and both properties speak of behaviours without it; `failed` is a device or a
loop that failed, `refused` a local model that was refused while the microphone
was on, by the toggle or by the switch task: the wish is taken back, and the
microphone stays on until the switch task looks again. All three are described
in section 7. Left out: the microphone test and the rebuild of the whole
pipeline.

## 4. What each run checks, its bounds, and why they are enough

Each run is one question. States are distinct states.

| Run | Instance | Question | States |
|---|---|---|---|
| `chatbox` | four messages of 0, 1, 2 and 3 pages, any subset in any order, two of them utterances with any number of partials before and after their final; one preview kept, page interval and spacing of previews 2 ticks, gap 1 tick | Are messages shown whole, in order behind pages, all of them, whatever previews do, and never too close behind one; and do previews follow what is said? | 425 712 |
| `stt_states` | 3 sessions, 2 utterances, 2 connect attempts, every event but a failing bridge | Can openers, timers, drains, failures and `close` lose a session, a deadline, or the true state? | 2 055 877 |
| `stt_drains` | 3 sessions, 2 utterances; a provider that stays warm; resets, warmup, silence, failing decodes and bridges | Is every replaced session closed? | 228 789 |
| `stt_pairing` | 3 sessions, 3 utterances; failed opens and decodes, silence | Are transcripts published under their own utterance? | 2 135 |
| `peer_policies` | 3 generations, 2 configurations, every event | Can overlapping starts, stops and failures leave a capture, or an *on* that should be off? What holds when policies wait for each other? | 22 310 |
| `merge` | 3 utterances with a final each, 2 buffers, every event | Does the merge implement `TextDelivery`; is text sent with its own translation, in one piece, and sent at all? | 525 266 |
| `llm_race` | 2 calls, 2 providers, callers that cancel, close | Does the race implement `TranslationCall`, end, and clean up? | 124 441 |
| `hub_turns` | one utterance of the microphone and one of the others, two finals each; one typed message; two switches or resets; drops, failures, extra languages | Is each text answered, and all that was shown or held for it taken back? | 322 607 |
| `overlay_bridge` | 2 connections, 2 revisions, the heartbeat; wrong tokens, rubbish, cancelled publications, clients that go or stop reading at any point; restarts | One client, the newest snapshot, a clean and certain stop? | 124 832 |
| `overlay_runtime` | 3 requests of any kind, 2 starts, 2 targets, failed starts, crashes | One overlay, watched, and off when it should be? | 81 356 |
| `mic_switch` | any number of toggles, two tasks that replace the provider, 3 microphones, failing devices and loops | Is a microphone lost, and is the last wish obeyed? | 559 275 |

The run that finds a violation, `hub_captions`, is in section 7.

Properties, run by run.

`chatbox`. `WholeMessagesOnWire`: what VRChat received is one whole message
after the other. `PaginationKeepsArrivalOrder`: a message that waited for pages
is not overtaken. `PreviewsFollow`: a preview task runs for an open preview
only, the newest text heard has one on its way, and nothing heard before a final
is shown after it. `EveryMessageShown` (liveness): previews and pages starve
nobody. `PreviewGapKept`: no queued message follows a preview sooner than the
gap. (`Chatbox` states `PendingPagesContinueWire` too; it is proved.)

`stt_states`. `NoSessionOverwritten`: whoever waits for `open_session` still
finds the slot as it was when it decided to open one. `StateTellsTheTruth`: no
late drain, failure or cancelled timer leaves a wrong state. `DeadlineArmed`: an
active session always has its timer.

`stt_drains`. `NoOrphanSession`: a session that is not closed has somebody who
will close it. `ReplacedSessionCloses` (liveness): it is closed. The provider is one
that keeps its session on silence (`StaysWarm`): for one that does not, section 7
tells how a drain on silence is lost.

`stt_pairing`. `FinalsPaired`: FIFO pairing is right across failed opens,
failed and empty decodes, terminal failures and resets on silence.

`peer_policies`. `NoOrphanCapture`, `OffMeansOff`, `OffSettles` (liveness) for any
overlap; `SerialPolicies` (RUNNING is true and with the last configuration, and
nothing leaks) as long as policies waited for the work of earlier ones.

`merge`. `Delivers` is the specification of `TextDelivery` under the refinement
mapping: no text leaves twice, and no late handler touches one that has left.
`TranslatesWhatItSends`, `HeldWhileResumed` (action property), `NoTextForgotten`
(the current buffer has a committer) and `EveryTextLeaves` (liveness: and it does
commit). (`NothingSentTwice` is stated too; it is proved.)

`llm_race`. `KeepsPromise` is the specification of `TranslationCall` under the
refinement mapping, checked as a property. `OnlyRefusedAfterClose`: once the providers are
closed, the only attempt that runs on one is that of a call that began it after
`close` did. `OnlyAbandonedOutlives`: a call that has returned left nothing
behind, but for such an attempt if its caller cancelled it at the lock.
`EveryCallEnds` (liveness): every call that begins ends, those that wait for the
lock too, and so does `close`.

`hub_turns`. `CaptionsLeave`: a text the overlay holds has a translation or a
handler that will release it. `TypingReleased`: at rest the typing indicator is
off. `TurnsBooked`: the tables of a peer utterance are there while one of its
turns is in progress, and no longer. Each with the exemptions of section 3.
`TextsAnswered` (liveness): in the end each text has been answered, and sent to the
chatbox if it is the user's own, whatever is reset.

`overlay_bridge`. `OneClient`: at most one client passes the handshake, and a
token that is taken has a holder who will give it back. `ServedNewest`,
`NeverBackwards` (action property): a served client has the newest snapshot or
is about to get it, and never an older one after a newer. `StoppedClean`: when
stop() has returned nobody is served and the token is free. `CallsReturn`
(liveness): stop() and each publication end, whatever clients do.

`overlay_runtime`. `TypeOK`, which also says that whoever is in the queue of the
lock is alive; `OneOverlay`: no two processes, and each process and listening
bridge has somebody who will stop it; `ConnectedIsWatched`: somebody will
notice when it dies; `OffObeyed`: at rest, what the user switched off is off and
nothing is left behind; `Settles` (liveness): no flow waits for ever, and a
renderer that died is torn down.

`mic_switch`. `NoOrphanMic`: an open device and a running loop are the ones in
the controller's fields; `SwitchObeyed` (liveness): the microphone comes to what
is wanted for good, with the exemptions of section 3.

Why the bounds are enough.

- Chatbox: one message makes the page list, others the queue behind it; the
  three paginations (none, one page, several) and a drain over blank and short
  messages are all there. The clock is three distances that never exceed 2, 1
  and 2. One preview kept and two utterances make eviction happen; partials are
  unbounded.
- STT: a bridging reset needs two sessions and a second one during its drain a
  third. Two utterances give one whose final is due while the next is spoken;
  the pairing run has three, so that a shift could reach a later pair.
- Peer: the known races need a start, one that supersedes it, and one that
  supersedes both. With four generations (847 475 states) the invariants hold too.
- Merge: a buffer, one made while the first is being committed or translated,
  and speech that resumes after each. Three more instances were checked once and
  passed: two finals for each of two utterances (1.6 million states), two finals
  for each of three utterances without resets and switches (270 853), and, without
  liveness, three buffers (6.4 million).
- Race: a second call is there because the lock and `close` are shared. Three
  calls with one provider, two of them in the queue of the lock, were checked
  once (93 256 states); the proofs cover any number of calls and of providers.
- Hub: texts meet only through the id of their utterance, so two finals of one
  utterance are what can interfere; the two channels share only the two
  switches, so a behaviour has texts of one of them (`OneChannel`).
- Bridge: one client that is served and one that replaces or outruns it; two
  revisions, of which one may overtake the other at the lock.
- Overlay runtime: a start, one that follows a failure or a switch-off, and
  three requests, so that one may hold the lock, one wait, and one change its mind.
- Microphone: one being stopped, one being started, and a third by then.
  Names are used again, so behaviours have no bound.

Runs stop only where the system may rest: the user may be silent, the channel
may be off, every call may have ended; those configurations turn deadlock
checking off and say so. `MaxSessions`, `MaxUtts`, `MaxGen`, `Utterances`
and `Finals` of the merge, `MaxBuffers`, `MaxFinals`, `MaxSwitch`, `MaxRev`,
`MaxStart` and `MaxAsked` are the bounds that stand in guards; `Messages`,
`Calls`, `Conns`, `Spoken`, `Typed` and `Peers` are finite sets of which each
member is used at most once (an utterance for `MaxFinals` finals).

## 5. Fairness

Weak fairness is assumed of what the event loop and the clock will do, and of
nothing a person, a network or a failure may or may not do.

- ChatboxPreview: `Flush` (the flush loop runs every 0.1 s as long as the hub does)
  and `TimePasses`. Nothing of messages, speech, previews and their translations.
- SttSession: each task that is ready goes on; `open_session` returns or raises;
  a decode ends (it runs in a thread on finite audio). Nothing of the speaker,
  of `warmup`, of the reset timer, of which way a call ends.
- PeerRuntime: a start and a teardown go on; loading a model, opening and
  closing a device return.
- LowLatencyMerge: handlers, resets and timers go on; a translation answers or
  fails (clients have timeouts). Nothing of the speaker, of further finals, of the
  switch. The VAD of the microphone has no maximum segment
  (`controller.py:6503`), so speech need not end; `EveryTextLeaves` promises
  something only to a user who pauses again and again (`[]<>~speaking`).
- LlmRace: a call that can go on does, an attempt ends, a delay passes, `close`
  goes on when what it waits for has ended. Nothing of callers.
- HubTurns: the event loop goes on while a handler or a translation is ready
  (one condition for all of them, as for one loop), and a reset goes on when
  what it cancelled has ended. Providers answer or fail (clients have timeouts),
  the overlay takes what it is given. Nothing of speech, switches and resets.
- OverlayBridge: handlers, broadcasts and stop() go on; a connection that one
  side closes is closed in the end (close timeout of the library); a client in
  its handshake reads or goes. A client that is served need not read: its send
  fails after `broadcast_send_timeout_s`. Nobody has to connect or publish.
- OverlayRuntime: flows go on, a start is answered or times out, a process that
  is told to end ends. Nobody has to ask for anything, no renderer has to crash.
- MicSwitch: the switch task, the replacements and the loops go on. Nothing of
  the user, of settings, of devices and errors.

## 6. What is proved

TLAPS proves the following for every value of the constants. The only
assumptions are the named `ASSUME`s of the modules: the bounds are natural
numbers, `Happens` is a set of the named events, a tick interval is positive,
the value for "none" is not among the things it stands apart from, and names of
different things are different. TLC evaluates them on every run.

Four theorems have hypotheses of their own. They are those of the runs that check
the same property, and leave out cases in which the code fails by what section 7
observes of it:

- `CaptionsGo`: no sentence of the microphone (`Spoken`) is in the target
  language already.
- `DeadlineKept`: the opening of a session that bridges a reset does not fail,
  and the provider does not keep its session on silence. After a bridge that
  failed, and after a reset on silence of a provider that stays warm, a session
  is left without a timer.
- `SessionsOwned`: the provider does keep its session on silence, sessions open,
  and the channel is not closed (a failed reconnect and a close cancel the drain
  that a timer is in; of one that does not stay warm so does the next speech).
- `FinalsKeepTheirIds`: no reset, warmup or close, and no decode longer than the
  window; each of these may part a final from its id.

| Module | Theorem | What it proves |
|---|---|---|
| `ChatboxProofs` | `TypeCorrect`, `PagesContinue`, `MessagesWhole`, `GapKept` | `TypeOK`, `PendingPagesContinueWire`, `WholeMessagesOnWire`, `PreviewGapKept` of the queue alone |
| | `ArrivalOrderKept` | `PaginationKeepsArrivalOrder` of the queue alone |
| | `MessagesWholeBesidePreviews`, `ArrivalOrderBesidePreviews`, `GapKeptBesidePreviews` | the same of the hub with its previews |
| | `PreviewTypeCorrect`, `SpeechFollowed` | `PreviewTypeOK`, `PreviewsFollow` |
| `SttSessionProofs` | `TypeCorrect`, `SessionsNeverOverwritten`, `StateIsTrue` | `TypeOK`, `NoSessionOverwritten`, `StateTellsTheTruth` |
| | `DeadlineKept`, `SessionsOwned`, `FinalsKeepTheirIds` | `DeadlineArmed`, `NoOrphanSession`, `FinalsPaired`, each under the hypotheses above |
| `PeerRuntimeProofs` | `TypeCorrect`, `CaptureOwned`, `OffIsOff`, `WaitingPoliciesWin` | `TypeOK`, `NoOrphanCapture`, `OffMeansOff`, `SerialPolicies` |
| `LowLatencyMergeProofs` | `TypeCorrect`, `SentOnce`, `TranslationFits`, `SentenceHeld` | `TypeOK`, `NothingSentTwice`, `TranslatesWhatItSends`, `HeldWhileResumed` |
| | `NothingForgotten`, `ChannelDelivers`, `ClosedForGood` | `NoTextForgotten`; `Delivers`: the merge implements `TextDelivery`; and so a text that has closed stays as it is and can only arrive |
| `LlmRaceProofs` | `TypeCorrect`, `OnlyRefusedAskedAfterClose`, `CallsCleanUp`, `RaceKeepsPromise` | `TypeOK`, `OnlyRefusedAfterClose`, `OnlyAbandonedOutlives`, `KeepsPromise` |
| `HubTurnsProofs` | `TypeCorrect`, `CaptionsGo`, `IndicatorReleased`, `TurnsForgotten` | `TypeOK`, `CaptionsLeave`, `TypingReleased`, `TurnsBooked` |
| `OverlayBridgeProofs` | `TypeCorrect`, `OneAtATime`, `StopsClean`, `ServesNewest`, `OnlyForwards` | `TypeOK`, `OneClient`, `StoppedClean`, `ServedNewest`, `NeverBackwards` |
| `GuiControllerProofs` | `TypeSafe`, `OverlaysOwned`, `EndsSeen`, `OffKept` | `TypeOK`, `OneOverlay`, `ConnectedIsWatched`, `OffObeyed` of `OverlayRuntime` |
| | `MicTypes`, `MicInReach` | `MicTypeOK`, `NoOrphanMic` of `MicSwitch` |

The inductive invariants, and why each part is needed.

*Chatbox* (`Inv`): the type, `PendingPagesContinueWire`, `WholeMessagesOnWire`;
`WireEnded`, that without pending pages the last message on the wire is
complete (else a new first page could not follow); and `NoHoldBehindPages`, that
no preview is fresh while pages wait (this is why `process_due` may send a page
without looking at the preview). The drain loop of the code is one relation,
"the first `n` waiting messages are started, where all but the last are short",
so that the proof speaks of `n` messages at once and needs no induction. `Order`
is beside `Inv` for `ArrivalOrderKept`: a message comes once, and then it waits or
has been started (`ComesOnce`, `WaitOrStart`); those that wait do so in the order they
came (`WaitInOrder`); and as long as a message that waited for pages waits, pages do
(`PagesHold`), so that nothing can start before it.

*ChatboxPreview*. Previews reach the queue only through its own operations, so
the invariants of the queue alone serve here as well (the lemma `QueueAlone`).
`PreviewInv` for `SpeechFollowed` is the type, `PreviewTasks`,
`NothingStale`; `OpenOnce`, that no utterance is twice in `open` (else closing
one entry would leave another behind); and `LatestNew`, that the newest text of a
task that runs, which it asks for next, has had no final since.

*SttSession* (`IInv`): the type, `NoSessionOverwritten`; `Exclusive`, that
`close` meets neither an opener nor a timer, and that a timer opening a session
has one to replace; `TimerDrains`, that a drain by the timer task exists only
while that task drains, once, and beside no active session; and `StateFollows`,
which says what the published state is also in the middle of changes.
`DeadlineArmed` is inductive beside it. `Owned` for `SessionsOwned` adds that no
drain runs in a task somebody may cancel. `Paired` for `FinalsKeepTheirIds` says
why first in, first out is right: the pending ids are those of the finals on the
stream of the active session, in their order, and of the decode that goes on
(`InStep`); other sessions have nothing left to publish (`Drained`, `Unopened`);
nobody but the audio loop disturbs the active one (`Quiet`, `Live`, `Turns`); and
each pending end is within the reconnect window (`Known`), so that no id is dropped.

*PeerRuntime* (`IInv`): the type, `NoOrphanCapture`; `Fresh`, that a generation
not opened yet owns nothing; `Holds`, that only a flow about to stop a
loop and a source holds them;
`SlotsFree`, that a current start finds the slots empty when it attaches, so that
filling them loses nothing; `StartStages`, that a start runs its loop at its end
and holds its source in between; `LoopIdle`, that a loop that
runs is not handling its own failure. `Off` for `OffIsOff`: the provider in the hub
is the current one, or a flow is on its way to take it out (`HubOwned`); a channel
that is off holds nothing (`OffFree`); only a wanted channel shows that it
starts, runs or failed, and STOPPING has a teardown that ends it (`StateOwned`). `Serial` for
`WaitingPoliciesWin`: as long as policies have not overlapped, either nobody
works, and one generation is in use as a whole, the current one, or nothing is (`Rest`); or
one flow works alone, and each of its stages knows what is left of the
generation before (`Doing`).

*LowLatencyMerge* (`IInv`): the type, `NothingSentTwice`; `CurrentIsFresh`, that
the current buffer has not been committed; `GoodBuffers`, which ties the
speculative translation to its text; `SpeechIsSomeones` and `TimersPast`, that
the timer of a confirmed resume belongs to speech that has ended, which is what
`SentenceHeld` needs. `Kept` for `NothingForgotten` says of the current buffer,
unless it is hit or its tasks are being cancelled, what every hold is good for
(`KeptBy`): a resume has its speech or its timer; unless a final handler will
start another, a translation that runs or came back is that of the whole text
(`TranslatesText`), and a text without one is still resumed, and no wait began
after the timer of that resume: so the timer finds nothing in the way and commits.
`OnlyMade`, that buffers to come are empty, is beside it.
`ChannelDelivers` then maps steps: a final is `Says`, a commit `Leaves` or
`Loses`, the end of a reset `Resets`, the translation of a committed buffer
`Arrives`, and everything else, a late handler above all, leaves texts and fates
alone. `OpenFits` is what that needs: the current text has not left, what was
reset was once made, and a reset is only waited for where there are resets.

*LlmRace* (`IInv`): the type and `CallOK(c)` for each call: who was asked when
(`Beginning`, `AskedInTurn`), how it will end and on whose account
(`EndAccounted`), that only close cancels attempts while the race is on
(`CancelledByClose`), that an attempt its call has not noted down runs only
while that call waits for the lock or is refused, or was abandoned there, and is
being cancelled once the call is refused (`RefusedIsCancelled`), and that no
other runs on closed providers or after the call (`QuietWhenClosed`,
`QuietWhenDone`). A step concerns one call, so the lemma `Assemble` derives the
invariant from one call's and every action needs a lemma about its own call
only. `RaceKeepsPromise` then maps steps: an attempt that ends is
`ProviderAnswers`, the end of a call `CallEnds`, and everything else leaves the
abstract variables alone. `AskedInTurn` is what makes an error legitimate: a
call gives up only when each schedule was taken, and then each provider was
asked.

*HubTurns*. `CaptionsLeave` is weaker than what is inductive. `AllCarried` says
that a held text has a *carrier*: a text of its utterance at a stage that will
release it, or one that was cut off or swallowed, and that a spoken text is none
while its handler waits for the overlay; `EndsAreDone` that a text that met
those two fates is done. No step makes a carrier cease without releasing, so
one lemma about that (`CarriedStill`) serves every action. `Indicator` for
`IndicatorReleased`: while the typing indicator is on some utterance waits for its
text, or has one that is in progress or met an exempt end (`TypingOwed`), and
such ends are final (`FatesAreDone`). `Booked` for `TurnsForgotten`: a turn in
progress is in the book, unless a reset cleared it (`InProgress`, `Ended`); one in the
book that is not completed is in progress, was dropped, or waits for the reset that cut
it (`Uncompleted`, `Tasks`); and a parent whose speech has ended and whose turns are all
completed is no longer there (`Remembered`, `Awaited`), since whatever completes a turn,
or ends the speech, looks whether it was the last.

*OverlayBridge*, in three layers. `Token`: `OneClient`, that the token is taken
while somebody has been let in, and that only such a connection is registered.
`Queue`: nobody is twice in the queue of the snapshot lock (`NoneTwice`), and a
connection in its handshake (`ConnsQueue`) or a revision (`RevsQueue`) that
sends is the head of the queue, so that only one of them ever sends. `Fresh`:
`ServedNewest`; that a client whose handshake is being sent was handed the
snapshot as it still is; and that a revision with somebody left to hand to is
the newest, and has one client left at most, by the token.

*OverlayRuntime* (`IInv`). None of its properties is inductive, because a property
speaks of a process or of rest, and what keeps it is who may run at one time.
`LockFits`: the queue of the lock has each waiting request once, and only its head
works. `SlotsFit`: at most one start or watcher is alive, the one in the slot, and
none once a teardown under the lock is past the cancellations. `ManagersFit`: so
whose manager and bridge the slots hold is known at each stage of a start, a
watcher, or a teardown. `ProcessesFit`, `BridgesFit`: a process that runs is held by
the manager in the slot or by a flow nobody cancels; a bridge likewise, but for
those that were cut. `StateFits` ties the state that is shown to the stage of the
start or the watcher, unless a shutdown is at work. `OffFits` says why an overlay
that was switched off is off or will be: the window is hidden or being hidden, a
shutdown is in the queue with no peer toggle behind it, or nothing is left and no
peer toggle is under way. There is one lemma per action.

*MicSwitch*. A stop forgets, after an await, the task it joined and the source
it closed, whatever the fields hold by then. `Alone`, `JoinsTheLast` and
`ClosesTheLast` say that without an overlap they still hold what was stopped;
`KnowsAll` is `NoOrphanMic`.

## 7. Where the code and its documents disagree, and observations

One disagreement is a run of its own, which must find a violation; TLC prints
the trace, and `PROJECT.json` quotes the lines.

| Run | Property | What happens |
|---|---|---|
| `hub_captions` | `CaptionsReleased` | A final of the microphone is parked for the overlay because translation is on; the language filter then finds that it is in the target language already and sends it to the chatbox without translation (`hub.py:1198`). Nothing releases the parked caption, so the overlay never shows it. The comment at `hub.py:1036` says why typed text releases its caption in the same branch: without it "the caption is parked forever and the message never appears at all". |

### Observations

Met while modelling. The models contain each of them; the properties are stated
so that they hold beside it, by an event an instance leaves out or by a history
they except, and the module or `PROJECT.json` says so at the place.

*Speech to text.* A bridging or reconnecting reset while a decode is in flight
stops the session; the final lands behind the end mark and is lost, its id stays
in the FIFO, and every later final is published under the id before it
(`controller.py:784` means to keep the two in step). On silence the timer task
itself drains the session; speech that starts meanwhile arms a new timer, which
cancels that task, and the old session is never closed.

*Peer channel.* `replace_peer_stt_provider` assigns `peer_stt` last: a superseded
start that detaches its provider while a newer one attaches writes None over
it. `_signature` is set when a start ends: of A, then B, then A again while B
starts, the second A returns early and B runs.

*Merge.* A speculative translation that fails before the grace period ends asks
for a commit, which is deferred; the grace timer then calls
`_try_commit_after_spec` with `allow_fallback=False`, and the text stays. After
the grace period the commit runs inside the task it cancels. Translation
switched off and on while a text is buffered leaves that text without a
committer. So may a false start: confirmed speech drops the translation; if a
grace period still runs (or a wait: another final of an utterance whose text was
committed waits for an end of speech that `_speech_ended_ids` has forgotten,
`hub.py:3055`), and the false start that follows ends before it, that end forgets
the resume but cannot commit, and the grace timer finds no translation and, with
`allow_fallback=False`, leaves the text. That needs a hangover shorter than the
grace period of 400 ms, which is a setting, or a microphone loop that lags.
A false start whose commit translates in the microphone loop blocks
audio for as long as the translation takes (`hub.py:966`), and the translations of
two committed buffers may reach the chatbox in either order (`hub.py:3190`).

*Preview.* The spacing of previews holds within an utterance, not across two:
each task looks at `_last_preview_send_at` before it asks and sets it after. A
partial that comes after the last final of its utterance opens a preview that
only an eviction or the next final closes. A change of language leaves the
previews of the old one running. `send_preview` asks the queue whether it is
busy, not when its last message was sent.

*Hub.* A second final of an utterance that is being translated is dropped
(`hub.py:3637`). Translations run side by side, so that texts may reach the
chatbox in another order. A final that is blank, or never comes, leaves the
typing indicator on; so does a failed translation without
`fallback_transcript_only` (which the desktop program always sets). A dropped
turn of the other people is never completed, and its parent stays booked until
the next reset; a turn that comes after its parent was forgotten likewise, and a
skipped one leaves the time of its end behind. A translation cancelled before
it asks, or between two languages, leaves its caption held. A reset forgets the
tasks that start while it awaits those it cancelled, and the callback of a task
removes whatever task has its id by then.

*Race.* An attempt is created before the lock under which the call looks whether
the race is closed (`fallback_racing.py:314`). Behind another call that is being
refused it runs meanwhile, on providers `close` may have closed; and if its caller
cancels the call at the lock, nobody cancels or awaits it. `close` during the grace
period replaces a winner's translation by a cancellation (section 3).

*Overlay bridge.* The token is taken before the snapshot is sent (`bridge.py:149`)
and freed only when a connection that was served ends: a client that goes in
between locks the next one out until the bridge is restarted, although the
comment at `bridge.py:212` means an overlay that crashed on its first start to be
let in again. The
sends of a handshake have no timeout and hold the snapshot lock. A control that
is broadcast during a handshake does not reach that client.

*Overlay runtime.* A teardown takes the bridge out of its slot before it stops it
(`controller.py:3342`); cancelled there, or while a bridge begins to listen, it
leaves a server nobody stops (`cut`). The peer toggle looks at the state before it
has the lock (`controller.py:2994`), so that a toggle-off that comes meanwhile
finds the overlay off and does nothing (`missed`). A start that ends during the
grace of a shutdown marks the overlay connected once more. The wait for a
terminated process has no bound and holds the lock.

*Microphone.* A replacement of the provider stops the microphone outside the
switch's lock (`controller.py:4148`): it may clear the fields of one that the
switch has just opened, which nobody can close any more. A loop that died keeps
its task, so that switching on does nothing until the user has switched off. A
local model refused while the microphone is on, by the toggle
(`controller.py:3553`) or by the switch task (`controller.py:3978`), takes the wish
back and leaves the loop running.

## 8. What is only model-checked, and what is not modelled

Only model-checked: every liveness property (liveness under fairness is beyond
the prover). Every invariant, action property and refinement that a run checks
is proved for all values of the constants; four of them under the hypotheses of
section 6. Also beyond the prover: induction over data, and recursive operators,
which the modules avoid.

Not modelled:

- Of the hub: `start` and `stop`, the context given to providers, the peer half of
  the low-latency mode, latency records.
- Overlay presentation: a large pure reducer, mostly layout. Mute gate and voice
  activity detection: small and sequential, in the plan.
- Streaming STT backends and translation backends: third-party protocols. What
  the core sees of them (a final, an answer, a failure) is in the modules.
- Most of the desktop program by size: pages and widgets, settings, prompts,
  wiring. They hold no protocol of their own; the two parts of the controller
  that do, the microphone switch and the overlay's, are modules.
- Capture, OSC encoding, assets, updater, OCR, speaker identification, language
  tables: devices, files, images or arithmetic.
- The managed connection and the broker: a protocol with a remote service,
  apart from the pipeline; a candidate for a module.
- The native overlay and the Steam bridge: separate programs.

## 9. Plan

Done: the modules of section 3 and the proofs of section 6.

Next, in order of importance.

1. `MuteGate` and `VadGating`: sequential; gating as a state machine over
   probabilities, whose events are those `SttSession` assumes.
2. `HubLife`: `start`, `stop` and the event loops of the hub around `HubTurns`.
3. `OverlayRuntime` over `OverlayBridge`: a client that lost the token, seen as a
   start that times out.
4. The managed connection: trial identity, release, retries.

## 10. Running the checks

In this directory, with TLC, TLAPS and the community modules on their paths:

    tlc -workers 2 -config Merge.cfg MCLowLatencyMerge
    tlapm LowLatencyMergeProofs.tla

`PROJECT.json` names the module and the configuration of each run. The longest
run takes about three minutes, the longest proof about six. A run marked
`violation` ends with a counterexample.
