------------------------------- MODULE MicSwitch -------------------------------
(***************************************************************************)
(* The microphone switch of the desktop controller (ui/controller.py): the *)
(* wanted state, the task that makes it true, and the replacements of the  *)
(* speech provider, which stop the microphone themselves and outside the   *)
(* lock of that task.                                                      *)
(*                                                                         *)
(* An action goes from one await to the next.  A microphone is one audio   *)
(* source with the loop that reads it; its name is used again once nothing *)
(* refers to it any more.  Closing a source swallows every error           *)
(* (core/audio/source.py:599), so the branches for a source whose close    *)
(* failed are left out; _stt_restart_requested is never set, and the       *)
(* branch for it is left out too.                                          *)
(*                                                                         *)
(* Its names differ from those of OverlayRuntime, the other part of        *)
(* GuiController, so that one module can prove theorems of both.           *)
(***************************************************************************)
EXTENDS Naturals

CONSTANTS
    Replacers,   \* tasks that apply settings: each replaces the provider, any number of times
    Mics         \* names of microphones

Switch == "switch"   \* the one task of _stt_switch_task
NoMic == "none"

ASSUME MicAssumption ==
    /\ Switch \notin Replacers
    /\ NoMic \notin Mics

Procs == Replacers \cup {Switch}

VARIABLES
    desired,      \* _stt_desired
    wanted,       \* the value of it the switch task acts on
    pc,           \* per task: what it awaits
    at,           \* per task: the microphone whose loop it waits for, or whose source it closes
    micTask,      \* _mic_task
    audioSource,  \* _audio_source
    loop,         \* per microphone: its loop
    open,         \* microphones whose device is open
    failed,       \* history: the last start found no device, or the loop ended by itself
    refused,      \* history: a refused model took the wish back while the microphone was on,
                  \*          and no pass of the switch task has followed
    overlapped    \* history: a replacement stopped the microphone beside the switch task

micVars == <<desired, wanted, pc, at, micTask, audioSource, loop, open, failed, refused,
          overlapped>>

Points == {"idle", "pass", "joining", "closing", "ready", "start", "settle", "rebuild"}
LoopStates == {"none", "created", "running", "cancelled", "over"}
LoopLives(m) == loop[m] \in {"created", "running"}

MicInit ==
    /\ desired = FALSE
    /\ wanted = FALSE
    /\ pc = [p \in Procs |-> "idle"]
    /\ at = [p \in Procs |-> NoMic]
    /\ micTask = NoMic
    /\ audioSource = NoMic
    /\ loop = [m \in Mics |-> "none"]
    /\ open = {}
    /\ failed = FALSE
    /\ refused = FALSE
    /\ overlapped = FALSE

-----------------------------------------------------------------------------
(***************************************************************************)
(* _stop_mic_loop, on behalf of p, which goes on at next.                  *)
(***************************************************************************)
\* MUTANT: the source is forgotten, not closed.
CloseSource_Forgets(p, next) ==
    /\ audioSource' = NoMic
    /\ pc' = [pc EXCEPT ![p] = next]
    /\ at' = [at EXCEPT ![p] = NoMic]
    /\ UNCHANGED open

\* The device is closed at once, and the close of its queue awaited; a close of a source
\* that is being closed returns at once.
CloseSource(p, next) ==
    IF audioSource \in open
      THEN /\ open' = open \ {audioSource}
           /\ pc' = [pc EXCEPT ![p] = "closing"]
           /\ at' = [at EXCEPT ![p] = audioSource]
           /\ UNCHANGED audioSource
      ELSE /\ audioSource' = NoMic
           /\ pc' = [pc EXCEPT ![p] = next]
           /\ at' = [at EXCEPT ![p] = NoMic]
           /\ UNCHANGED open

\* A task cancelled before it ran never runs.
CancelLoop(m) ==
    loop' = [loop EXCEPT ![m] = IF @ = "created" THEN "over"
                                ELSE IF @ = "running" THEN "cancelled" ELSE @]

StopMic(p, next) ==
    IF micTask # NoMic
      THEN /\ CancelLoop(micTask)
           /\ pc' = [pc EXCEPT ![p] = "joining"]
           /\ at' = [at EXCEPT ![p] = micTask]
           /\ UNCHANGED <<audioSource, open>>
      ELSE /\ CloseSource(p, next)
           /\ UNCHANGED loop

AfterStop(p) ==
    IF p # Switch THEN "rebuild" ELSE IF wanted THEN "start" ELSE "settle"

Joined(p) ==
    /\ pc[p] = "joining"
    /\ loop[at[p]] = "over"
    /\ micTask' = NoMic
    /\ CloseSource(p, AfterStop(p))
    /\ UNCHANGED <<desired, wanted, loop, failed, refused,
                   overlapped>>

SourceClosed(p) ==
    /\ pc[p] = "closing"
    /\ audioSource' = NoMic
    /\ pc' = [pc EXCEPT ![p] = AfterStop(p)]
    /\ at' = [at EXCEPT ![p] = NoMic]
    /\ UNCHANGED <<desired, wanted, micTask, loop, open, failed, refused,
                   overlapped>>

-----------------------------------------------------------------------------
(***************************************************************************)
(* _run_stt_switch                                                         *)
(***************************************************************************)
\* A replacement is stopping the microphone.
ReplacerStops == \E r \in Replacers : pc[r] \in {"joining", "closing"}

\* _ensure_stt_switch: a new task, unless one is running.
Ensured == [pc EXCEPT ![Switch] = IF @ = "idle" THEN "pass" ELSE @]

\* set_stt_enabled; also what the end of a download does for a wish it had taken back
\* (ui/controller.py:3928).
SttToggle(on) ==
    /\ desired' = on
    /\ pc' = Ensured
    /\ overlapped' = (overlapped \/ ReplacerStops)
    /\ UNCHANGED <<wanted, at, micTask, audioSource, loop, open, failed, refused>>

\* Switched on with a local model that is missing, broken or being downloaded: the wish is
\* taken back at once, and nobody tells the switch task.
SttToggleRefused ==
    /\ desired' = FALSE
    /\ refused' = (micTask # NoMic /\ (pc[Switch] = "idle" \/ refused))
    /\ UNCHANGED <<wanted, pc, at, micTask, audioSource, loop, open, failed, overlapped>>

Pass ==
    /\ pc[Switch] = "pass"
    /\ wanted' = desired
    /\ IF desired
         THEN /\ pc' = [pc EXCEPT ![Switch] = "ready"]
              /\ UNCHANGED <<at, audioSource, loop, open>>
         ELSE StopMic(Switch, "settle")
    /\ refused' = FALSE
    /\ UNCHANGED <<desired, micTask, failed, overlapped>>

\* _ensure_local_stt_ready
SttReady ==
    /\ pc[Switch] = "ready"
    /\ pc' = [pc EXCEPT ![Switch] = "start"]
    /\ UNCHANGED <<desired, wanted, at, micTask, audioSource, loop, open, failed, refused,
                   overlapped>>

\* The local model is missing, broken, too large or being downloaded: switched off again.
SttNotReady ==
    /\ pc[Switch] = "ready"
    /\ desired' = FALSE
    /\ pc' = [pc EXCEPT ![Switch] = "idle"]
    /\ refused' = (micTask # NoMic)
    /\ UNCHANGED <<wanted, at, micTask, audioSource, loop, open, failed, overlapped>>

\* _start_mic_loop: nothing to do while there is a task, whatever became of it.
StartsNothing ==
    /\ pc[Switch] = "start"
    /\ micTask # NoMic
    /\ pc' = [pc EXCEPT ![Switch] = "settle"]
    /\ UNCHANGED <<desired, wanted, at, micTask, audioSource, loop, open, failed, refused,
                   overlapped>>

\* A source without a task is closed first.
StartStops ==
    /\ pc[Switch] = "start"
    /\ micTask = NoMic
    /\ audioSource # NoMic
    /\ StopMic(Switch, "start")
    /\ UNCHANGED <<desired, wanted, micTask, failed, refused,
                   overlapped>>

StartOpens(m) ==
    /\ pc[Switch] = "start"
    /\ micTask = NoMic
    /\ audioSource = NoMic
    /\ ~LoopLives(m) /\ loop[m] # "cancelled" /\ m \notin open   \* a name no longer used
    /\ \A p \in Procs : at[p] # m
    /\ micTask' = m
    /\ audioSource' = m
    /\ open' = open \cup {m}
    /\ loop' = [loop EXCEPT ![m] = "created"]
    /\ pc' = [pc EXCEPT ![Switch] = "settle"]
    /\ failed' = FALSE
    /\ UNCHANGED <<desired, wanted, at, refused,
                   overlapped>>

\* Every attempt to open a device failed, or the model of the voice detector is missing.
StartFails ==
    /\ pc[Switch] = "start"
    /\ micTask = NoMic
    /\ audioSource = NoMic
    /\ pc' = [pc EXCEPT ![Switch] = "settle"]
    /\ failed' = TRUE
    /\ UNCHANGED <<desired, wanted, at, micTask, audioSource, loop, open, refused,
                   overlapped>>

\* MUTANT: the switch ends without looking.
Settle_Once ==
    /\ pc[Switch] = "settle"
    /\ pc' = [pc EXCEPT ![Switch] = "idle"]
    /\ UNCHANGED <<desired, wanted, at, micTask, audioSource, loop, open, failed, refused,
                   overlapped>>

\* The session is closed, or warmed up; then the switch looks whether it still is right.
Settle ==
    /\ pc[Switch] = "settle"
    /\ pc' = [pc EXCEPT ![Switch] = IF desired = wanted THEN "idle" ELSE "pass"]
    /\ UNCHANGED <<desired, wanted, at, micTask, audioSource, loop, open, failed, refused,
                   overlapped>>

-----------------------------------------------------------------------------
(***************************************************************************)
(* _replace_runtime_stt_provider                                           *)
(***************************************************************************)
Replace(r) ==
    /\ pc[r] = "idle"
    /\ IF micTask # NoMic
         THEN StopMic(r, "rebuild")
         ELSE /\ pc' = [pc EXCEPT ![r] = "rebuild"]
              /\ UNCHANGED <<at, audioSource, loop, open>>
    /\ overlapped' = (overlapped \/ (micTask # NoMic /\ pc[Switch] # "idle"))
    /\ UNCHANGED <<desired, wanted, micTask, failed, refused>>

\* _rebuild_stt_provider is done.
Rebuilt(r) ==
    /\ pc[r] = "rebuild"
    /\ pc' = [(IF desired THEN Ensured ELSE pc) EXCEPT ![r] = "idle"]
    /\ overlapped' = (overlapped \/ (desired /\ ReplacerStops))
    /\ UNCHANGED <<desired, wanted, at, micTask, audioSource, loop, open, failed, refused>>

-----------------------------------------------------------------------------
(***************************************************************************)
(* _run_mic_loop                                                           *)
(***************************************************************************)
\* It asserts that there is a source, and reads the one it finds: its own, unless a
\* replacement overlapped the switch.
LoopBegins(m) ==
    /\ loop[m] = "created"
    /\ loop' = [loop EXCEPT ![m] = IF audioSource # NoMic THEN "running" ELSE "over"]
    /\ UNCHANGED <<desired, wanted, pc, at, micTask, audioSource, open, failed, refused,
                   overlapped>>

LoopCancelled(m) ==
    /\ loop[m] = "cancelled"
    /\ loop' = [loop EXCEPT ![m] = "over"]
    /\ UNCHANGED <<desired, wanted, pc, at, micTask, audioSource, open, failed, refused,
                   overlapped>>

\* A source that is closed has no more frames.
LoopRunsDry(m) ==
    /\ loop[m] = "running"
    /\ m \notin open
    /\ loop' = [loop EXCEPT ![m] = "over"]
    /\ UNCHANGED <<desired, wanted, pc, at, micTask, audioSource, open, failed, refused,
                   overlapped>>

\* An error ends the loop; its task and its source stay where they are.
LoopDies(m) ==
    /\ loop[m] = "running"
    /\ m \in open
    /\ loop' = [loop EXCEPT ![m] = "over"]
    /\ failed' = TRUE
    /\ UNCHANGED <<desired, wanted, pc, at, micTask, audioSource, open, refused,
                   overlapped>>

-----------------------------------------------------------------------------
SwitchStep ==
    \/ Joined(Switch) \/ SourceClosed(Switch)
    \/ Pass \/ SttReady \/ SttNotReady
    \/ StartsNothing \/ StartStops \/ StartFails \/ (\E m \in Mics : StartOpens(m))
    \/ Settle

ReplacerStep(r) == Joined(r) \/ SourceClosed(r) \/ Rebuilt(r)
LoopStep(m) == LoopBegins(m) \/ LoopCancelled(m) \/ LoopRunsDry(m)

MicNext ==
    \/ \E on \in BOOLEAN : SttToggle(on)
    \/ SttToggleRefused
    \/ \E r \in Replacers : Replace(r) \/ ReplacerStep(r)
    \/ \E m \in Mics : LoopStep(m) \/ LoopDies(m)
    \/ SwitchStep

MicSpec == MicInit /\ [][MicNext]_micVars

\* Every task of the event loop goes on, and what it awaits ends.  Nothing is assumed of the
\* user, of settings and of errors.
Fairness ==
    /\ WF_micVars(SwitchStep)
    /\ \A r \in Replacers : WF_micVars(ReplacerStep(r))
    /\ \A m \in Mics : WF_micVars(LoopStep(m))

MicFairSpec == MicSpec /\ Fairness

-----------------------------------------------------------------------------
\* The variables have their types.
MicTypeOK ==
    /\ desired \in BOOLEAN
    /\ wanted \in BOOLEAN
    /\ pc \in [Procs -> Points]
    /\ at \in [Procs -> Mics \cup {NoMic}]
    /\ micTask \in Mics \cup {NoMic}
    /\ audioSource \in Mics \cup {NoMic}
    /\ loop \in [Mics -> LoopStates]
    /\ open \subseteq Mics
    /\ failed \in BOOLEAN
    /\ refused \in BOOLEAN
    /\ overlapped \in BOOLEAN

\* A device that is open and a loop that reads it are the ones the controller knows, so that
\* it can stop them - as long as no replacement of the provider stops the microphone while
\* the switch task runs: it does so outside the lock (ui/controller.py:4147).
NoOrphanMic ==
    overlapped \/ \A m \in Mics :
                     /\ LoopLives(m) => micTask = m
                     /\ m \in open => audioSource = m

Quiet == open = {} /\ \A m \in Mics : ~LoopLives(m)
Listening == \E m \in open : LoopLives(m)
Replacing == \E r \in Replacers : pc[r] # "idle"

\* The microphone comes to what is wanted for good, however fast the user switched before: off,
\* nothing listens; on, and nothing being replaced any more, it listens, unless the device or
\* the loop failed (set_stt_enabled, _run_stt_switch, _replace_runtime_stt_provider).  Two
\* things the code does are exempt by name: a model refused while the microphone was on takes
\* the wish back and leaves the microphone on, until the switch task looks again; and a
\* replacement may have stopped the microphone beside the switch task.
SwitchObeyed ==
    /\ <>[](~desired /\ ~refused) => <>[](overlapped \/ Quiet)
    /\ <>[](desired /\ ~Replacing) => <>[](overlapped \/ failed \/ Listening)
=============================================================================
