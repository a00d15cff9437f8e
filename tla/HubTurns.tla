------------------------------- MODULE HubTurns -------------------------------
(***************************************************************************)
(* What becomes of a text in ClientHub (core/orchestrator/hub.py) without  *)
(* low latency: a final of the microphone, a typed message or a final of   *)
(* the other people is shown, translated, sent to the chatbox, skipped or  *)
(* dropped, while translation is switched, the overlay comes and goes and  *)
(* a channel is cleared (a new language) or gets a new provider.           *)
(*                                                                         *)
(* A text is the n-th final of an utterance.  The two event loops handle   *)
(* one final at a time; a typed message and a translation have tasks of    *)
(* their own.  A step runs from one await to the next.  The chatbox        *)
(* belongs to the microphone channel; texts of the overlay and the user    *)
(* interface are told apart only by what they belong to.                   *)
(***************************************************************************)
EXTENDS Naturals, FiniteSets

CONSTANTS
    Spoken,     \* utterances of the microphone
    Typed,      \* typed messages
    Peers,      \* utterances of the other people ("parents" of their turns)
    MaxFinals,  \* bound: finals of an utterance
    MaxSwitch,  \* bound: switches of translation and overlay, and resets
    Same,       \* those that may be in the target language already
    Fallback,   \* fallback_transcript_only
    Happens     \* which events an instance includes

\* "drop"   a final is a filler, or a filter hides it
\* "fails"  a translation fails
\* "extra"  the microphone channel has extra target languages
\* "clear"  a language is changed, or a provider replaced
Events == {"drop", "fails", "extra", "clear"}

ASSUME HubAssumption ==
    /\ Spoken \cap Typed = {}
    /\ Spoken \cap Peers = {}
    /\ Typed \cap Peers = {}
    /\ MaxFinals \in Nat \ {0}
    /\ MaxSwitch \in Nat
    /\ Same \subseteq Spoken \cup Typed \cup Peers
    /\ Fallback \in BOOLEAN
    /\ Happens \subseteq Events

Channels == {"self", "peer"}
Resets == {"language", "provider"}  \* a channel gets a new language, or a new provider
Texts == (Spoken \cup Peers) \X (1..MaxFinals) \cup Typed \X {1}
ChannelOf(t) == IF t[1] \in Peers THEN "peer" ELSE "self"

\* A final of the other people becomes a turn with an id of its own; the texts of the
\* microphone channel go by the id of their utterance.
SameId(t, x) == t = x \/ (t[1] = x[1] /\ t[1] \notin Peers)

VARIABLES
    translating,  \* translation_enabled
    sink,      \* overlay_sink is set
    over,      \* utterances whose speech has ended
    at,        \* per text: where its handler or its translation is
    tasks,     \* translation_tasks: the texts whose translation the hub knows of
    held,      \* _pending_overlay_transcripts
    typing,    \* the typing indicator is shown
    book,      \* bookkeeping of peer turns
    clearing,  \* per channel: the reset that awaits the tasks it cancelled
    switched,  \* history: switches and resets so far
    due,       \* history: utterances that have ended and got no text since
    fate,      \* history: what became of a text
    said       \* history: texts sent to the chatbox

history == <<switched, due, fate, said>>
vars == <<translating, sink, over, at, tasks, held, typing, book, clearing, history>>

Init ==
    /\ translating \in BOOLEAN
    /\ sink \in BOOLEAN
    /\ over = {}
    /\ at = [t \in Texts |-> "none"]
    /\ tasks = {}
    /\ held = {}
    /\ typing = FALSE
    /\ book = [known |-> {}, completed |-> {}, ended |-> {}, times |-> {},
               late |-> {}, cleared |-> {}]
    /\ clearing = [c \in Channels |-> "no"]
    /\ switched = 0
    /\ due = {}
    /\ fate = [t \in Texts |-> "none"]
    /\ said = {}

-----------------------------------------------------------------------------
(***************************************************************************)
(* Peer turns: _peer_turn_parent_ids and _peer_parent_turn_ids (known),    *)
(* _peer_completed_turn_ids, the runtime's speech_ended_ids and            *)
(* _peer_parent_speech_end_times.  Two fields are histories: turns that    *)
(* came after their parent was forgotten (late) and turns that a reset     *)
(* made the hub forget (cleared).                                          *)
(***************************************************************************)
SpeechOver(b, p) == p \in b.ended \/ p \in b.times

\* _clear_peer_parent_vad_bookkeeping
ForgetParent(b, p, keepTime) ==
    [b EXCEPT !.known = {t \in @ : t[1] # p},
              !.completed = {t \in @ : t[1] # p},
              !.ended = @ \ {p},
              !.times = IF keepTime THEN @ ELSE @ \ {p}]

\* MUTANT: a parent is forgotten as soon as one of its turns is completed.
MaybeForget_Early(b, p, keepTime) ==
    IF SpeechOver(b, p) THEN ForgetParent(b, p, keepTime) ELSE b

\* _maybe_clear_completed_peer_parent
MaybeForget(b, p, keepTime) ==
    LET turns == {t \in b.known : t[1] = p} IN
    IF turns = {} \/ (SpeechOver(b, p) /\ turns \subseteq b.completed)
      THEN ForgetParent(b, p, keepTime)
      ELSE b

\* _complete_peer_logical_turn
Complete(b, t, keepTime) ==
    IF t \in b.known
      THEN MaybeForget([b EXCEPT !.completed = @ \cup {t}], t[1], keepTime)
      ELSE b

\* handle_vad_event: the indicator is shown until the message is sent.
SpokenEnds(u) ==
    /\ u \in Spoken \ over
    /\ over' = over \cup {u}
    /\ typing' = TRUE
    /\ due' = due \cup {u}
    /\ UNCHANGED <<translating, sink, at, tasks, held, book, clearing, switched, fate, said>>

\* handle_peer_vad_event
PeerEnds(p) ==
    /\ p \in Peers \ over
    /\ over' = over \cup {p}
    /\ LET b == [book EXCEPT !.ended = @ \cup {p}, !.times = @ \cup {p}] IN
       book' = IF \E t \in b.known : t[1] = p THEN MaybeForget(b, p, FALSE) ELSE b
    /\ UNCHANGED <<translating, sink, at, tasks, held, typing, clearing, history>>

-----------------------------------------------------------------------------
(***************************************************************************)
(* A text of the microphone or the keyboard.                               *)
(***************************************************************************)
Goes(t, stage) == at' = [at EXCEPT ![t] = stage]
Meets(t, end) == fate' = [fate EXCEPT ![t] = end]
Release(t) == held' = {h \in held : ~SameId(h, t)}

\* The next final of an utterance: they come in order, during the speech or after it.
IsNext(t) ==
    /\ at[t] = "none"
    /\ \A n \in 1..(t[2] - 1) : at[<<t[1], n>>] # "none"

\* An event loop handles one final at a time, and a new provider has a new one.
LoopFree(us, c) ==
    /\ clearing[c] # "provider"
    /\ \A t \in us \X (1..MaxFinals) : at[t] \notin {"emitting", "sourceonly"}

\* _enqueue_osc: the message is queued and the indicator taken back.
Say(t) ==
    /\ said' = said \cup {t}
    /\ typing' = FALSE

\* _ensure_translation: an utterance that is being translated gets no second task.
Translate(t) ==
    IF \E x \in tasks : SameId(x, t)
      THEN /\ Goes(t, "done")
           /\ Meets(t, "swallowed")
           /\ UNCHANGED tasks
      ELSE /\ Goes(t, "created")
           /\ tasks' = tasks \cup {t}
           /\ Meets(t, "open")

\* What the handler decides after _handle_transcript: to translate, or to send it as it is.
SpokenDecides(t) ==
    \/ /\ translating
       /\ Translate(t)
       /\ UNCHANGED <<typing, said>>
    \/ /\ ~translating \/ t[1] \in Same
       /\ Goes(t, "done")
       /\ Meets(t, "answered")
       /\ Say(t)
       /\ UNCHANGED tasks

\* MUTANT: a filler leaves the indicator on.
SpokenDropped_Typing(t) ==
    /\ "drop" \in Happens
    /\ t \in Spoken \X (1..MaxFinals) /\ IsNext(t)
    /\ LoopFree(Spoken, "self")
    /\ due' = due \ {t[1]}
    /\ Goes(t, "done")
    /\ Meets(t, "dropped")
    /\ UNCHANGED <<translating, sink, over, tasks, held, typing, book, clearing,
                   switched, said>>

\* _handle_stt_event with a filler.
SpokenDropped(t) ==
    /\ "drop" \in Happens
    /\ t \in Spoken \X (1..MaxFinals) /\ IsNext(t)
    /\ LoopFree(Spoken, "self")
    /\ due' = due \ {t[1]}
    /\ typing' = FALSE
    /\ Goes(t, "done")
    /\ Meets(t, "dropped")
    /\ UNCHANGED <<translating, sink, over, tasks, held, book, clearing, switched, said>>

\* _handle_transcript and, for a final that is to be translated, on to its translation:
\* the overlay gets the text together with its translation, until then it is held.
SpokenFinal(t) ==
    /\ t \in Spoken \X (1..MaxFinals) /\ IsNext(t)
    /\ LoopFree(Spoken, "self")
    /\ due' = due \ {t[1]}
    /\ IF sink /\ ~translating
         THEN /\ Goes(t, "emitting")
              /\ Meets(t, "open")
              /\ UNCHANGED <<tasks, held, typing, said>>
         ELSE /\ SpokenDecides(t)
              /\ held' = IF sink THEN {h \in held : ~SameId(h, t)} \cup {t} ELSE held
    /\ UNCHANGED <<translating, sink, over, book, clearing, switched>>

SpokenEmitted(t) ==
    /\ t[1] \in Spoken
    /\ at[t] = "emitting"
    /\ SpokenDecides(t)
    /\ UNCHANGED <<translating, sink, over, held, book, clearing, switched, due>>

\* submit_text
Submitted(t) ==
    /\ t \in Typed \X {1} /\ IsNext(t)
    /\ Goes(t, "emitting")
    /\ Meets(t, "open")
    /\ held' = IF sink /\ translating THEN held \cup {t} ELSE held
    /\ UNCHANGED <<translating, sink, over, tasks, typing, book, clearing, switched, due,
                   said>>

TypedTranslated(t) ==
    /\ t[1] \in Typed
    /\ at[t] = "emitting"
    /\ translating
    /\ Translate(t)
    /\ UNCHANGED <<translating, sink, over, held, typing, book, clearing, switched, due,
                   said>>

\* _release_pending_overlay_transcript
TypedSkipped(t) ==
    /\ t[1] \in Typed
    /\ at[t] = "emitting"
    /\ ~translating \/ t[1] \in Same
    /\ Release(t)
    /\ Goes(t, "releasing")
    /\ UNCHANGED <<translating, sink, over, tasks, typing, book, clearing, history>>

TypedSaid(t) ==
    /\ t[1] \in Typed
    /\ at[t] = "releasing"
    /\ Goes(t, "done")
    /\ Meets(t, "answered")
    /\ Say(t)
    /\ UNCHANGED <<translating, sink, over, tasks, held, book, clearing, switched, due>>

-----------------------------------------------------------------------------
(***************************************************************************)
(* A final of the other people is a turn of its parent: dropped, skipped   *)
(* or translated.                                                          *)
(***************************************************************************)
\* _register_peer_logical_turn
Registered(t) ==
    [book EXCEPT !.known = @ \cup {t},
                 !.late = IF t[1] \in over /\ ~SpeechOver(book, t[1]) THEN @ \cup {t} ELSE @]

PeerFinal(t) ==
    /\ t \in Peers \X (1..MaxFinals) /\ IsNext(t)
    /\ LoopFree(Peers, "peer")
    /\ book' = Registered(t)
    /\ UNCHANGED <<translating, sink, over, held, typing, clearing, switched, due, said>>

\* _handle_peer_final_transcript drops it: its turn is not completed.
PeerDropped(t) ==
    /\ "drop" \in Happens
    /\ PeerFinal(t)
    /\ Goes(t, "done")
    /\ Meets(t, "dropped")
    /\ UNCHANGED tasks

\* _finalize_peer_source_only, which awaits the overlay
PeerSkipped(t) ==
    /\ ~translating \/ t[1] \in Same
    /\ PeerFinal(t)
    /\ Goes(t, "sourceonly")
    /\ Meets(t, "open")
    /\ UNCHANGED tasks

PeerTranslated(t) ==
    /\ translating
    /\ PeerFinal(t)
    /\ Translate(t)

PeerShown(t) ==
    /\ t[1] \in Peers
    /\ at[t] = "sourceonly"
    /\ book' = Complete(book, t, TRUE)
    /\ Goes(t, "done")
    /\ Meets(t, "answered")
    /\ UNCHANGED <<translating, sink, over, tasks, held, typing, clearing, switched, due, said>>

-----------------------------------------------------------------------------
(***************************************************************************)
(* _translate_and_enqueue.  The provider is asked, the microphone channel  *)
(* asks it again for each extra language, and what comes of it goes out:   *)
(* to the overlay, which may take its time, and then to the chatbox.       *)
(***************************************************************************)
Translation(t) ==
    /\ t \in Texts
    /\ UNCHANGED <<translating, sink, over, clearing, switched, due>>

TaskRuns(t) ==
    /\ at[t] = "created"
    /\ Goes(t, "asking")
    /\ Translation(t)
    /\ UNCHANGED <<tasks, held, typing, book, fate, said>>

\* The text held for this translation goes out with it.
Releases(t) ==
    IF ChannelOf(t) = "self" THEN Release(t) ELSE UNCHANGED held

Answered(t) ==
    /\ at[t] = "asking"
    /\ IF ChannelOf(t) = "self" /\ "extra" \in Happens
         THEN Goes(t, "extra") /\ UNCHANGED held
         ELSE Goes(t, "out") /\ Releases(t)
    /\ Translation(t)
    /\ UNCHANGED <<tasks, typing, book, fate, said>>

\* The last extra language has come, or failed to.
ExtrasEnd(t) ==
    /\ at[t] = "extra"
    /\ Goes(t, "out")
    /\ Releases(t)
    /\ Translation(t)
    /\ UNCHANGED <<tasks, typing, book, fate, said>>

\* MUTANT: a failure forgets what the overlay holds.
TranslationFails_Holds(t) ==
    /\ "fails" \in Happens
    /\ at[t] = "asking"
    /\ Goes(t, "failing")
    /\ Translation(t)
    /\ UNCHANGED <<tasks, held, typing, book, fate, said>>

\* MUTANT: the exception is not caught.
TranslationFails_Uncaught(t) ==
    /\ "fails" \in Happens
    /\ at[t] = "asking"
    /\ Goes(t, "done")
    /\ tasks' = tasks \ {t}
    /\ Releases(t)
    /\ Translation(t)
    /\ UNCHANGED <<typing, book, fate, said>>

TranslationFails(t) ==
    /\ "fails" \in Happens
    /\ at[t] = "asking"
    /\ Goes(t, "failing")
    /\ Releases(t)
    /\ Translation(t)
    /\ UNCHANGED <<tasks, typing, book, fate, said>>

\* The task's callback removes whatever has its id by then: after a reset that forgot the
\* task this may be the task of a later final.
TaskDone(t) ==
    /\ Goes(t, "done")
    /\ tasks' = {x \in tasks : ~SameId(x, t)}

\* The overlay has it; the chatbox gets it next.
SelfOut(t) ==
    /\ at[t] = "out" /\ ChannelOf(t) = "self"
    /\ Say(t)
    /\ Meets(t, "answered")
    /\ TaskDone(t)
    /\ Translation(t)
    /\ UNCHANGED <<held, book>>

\* The transcript goes to the chatbox without a translation, if the settings say so.
SelfFailed(t) ==
    /\ at[t] = "failing" /\ ChannelOf(t) = "self"
    /\ IF Fallback THEN Say(t) ELSE UNCHANGED <<said, typing>>
    /\ Meets(t, "failed")
    /\ TaskDone(t)
    /\ Translation(t)
    /\ UNCHANGED <<held, book>>

\* Translated and shown, or shown without a translation: the turn is completed.
PeerOut(t) ==
    /\ at[t] \in {"out", "failing"} /\ ChannelOf(t) = "peer"
    /\ book' = Complete(book, t, FALSE)
    /\ Meets(t, IF at[t] = "out" THEN "answered" ELSE "failed")
    /\ TaskDone(t)
    /\ Translation(t)
    /\ UNCHANGED <<held, typing, said>>

\* Cancelled while it asked: the text goes to the overlay as it is.
Cancelled(t) ==
    /\ at[t] = "cancelled"
    /\ Releases(t)
    /\ book' = IF ChannelOf(t) = "peer" THEN Complete(book, t, FALSE) ELSE book
    /\ Meets(t, "cancelled")
    /\ TaskDone(t)
    /\ Translation(t)
    /\ UNCHANGED <<typing, said>>

\* Cancelled anywhere else: the task just ends.
CutOff(t) ==
    /\ at[t] = "cut"
    /\ Meets(t, "cut")
    /\ TaskDone(t)
    /\ Translation(t)
    /\ UNCHANGED <<held, typing, book, said>>

-----------------------------------------------------------------------------
(***************************************************************************)
(* clear_language_runtime_state, replace_stt_provider and                  *)
(* replace_peer_stt_provider: the channel's translations are cancelled,    *)
(* and once they have ended their state is cleared.                        *)
(***************************************************************************)
Cancelling == {"created", "asking", "extra", "out", "failing", "cancelled"}

\* A new provider also cuts the event loop, with the final it is handling.
AfterCancel(t, c, kind) ==
    IF ChannelOf(t) = c /\ t \in tasks /\ at[t] \in Cancelling
      THEN IF at[t] = "asking" THEN "cancelled" ELSE "cut"
    ELSE IF ChannelOf(t) = c /\ kind = "provider" /\ t[1] \notin Typed
              /\ at[t] \in {"emitting", "sourceonly"}
      THEN "done"
    ELSE at[t]

ResetBegins(c, kind) ==
    /\ "clear" \in Happens /\ switched < MaxSwitch
    /\ clearing[c] = "no"
    /\ clearing' = [clearing EXCEPT ![c] = kind]
    /\ at' = [t \in Texts |-> AfterCancel(t, c, kind)]
    /\ fate' = [t \in Texts |-> IF at'[t] = "done" /\ at[t] # "done" THEN "cut" ELSE fate[t]]
    /\ switched' = switched + 1
    /\ UNCHANGED <<translating, sink, over, tasks, held, typing, book, due, said>>

ResetEnds(c) ==
    /\ clearing[c] # "no"
    /\ \A t \in Texts : ChannelOf(t) = c => at[t] \notin {"cancelled", "cut"}
    /\ clearing' = [clearing EXCEPT ![c] = "no"]
    /\ tasks' = {t \in tasks : ChannelOf(t) # c}
    /\ book' = IF c = "self" THEN book
               ELSE [book EXCEPT !.known = {}, !.completed = {}, !.times = {},
                                 !.ended = IF clearing[c] = "provider" THEN {} ELSE @,
                                 !.cleared = @ \cup book.known]
    /\ UNCHANGED <<translating, sink, over, at, held, typing, history>>

\* The user switches translation; the overlay comes and goes.
SwitchTranslation ==
    /\ switched < MaxSwitch
    /\ translating' = ~translating
    /\ switched' = switched + 1
    /\ UNCHANGED <<sink, over, at, tasks, held, typing, book, clearing, due, fate, said>>

SwitchSink ==
    /\ switched < MaxSwitch
    /\ sink' = ~sink
    /\ switched' = switched + 1
    /\ UNCHANGED <<translating, over, at, tasks, held, typing, book, clearing, due, fate, said>>

-----------------------------------------------------------------------------
Arrives(t) ==
    \/ SpokenDropped(t) \/ SpokenFinal(t)
    \/ Submitted(t)
    \/ PeerDropped(t) \/ PeerSkipped(t) \/ PeerTranslated(t)

Handled(t) ==
    \/ SpokenEmitted(t)
    \/ TypedTranslated(t) \/ TypedSkipped(t) \/ TypedSaid(t)
    \/ PeerShown(t)

Runs(t) ==
    \/ TaskRuns(t)
    \/ Answered(t) \/ TranslationFails(t)
    \/ ExtrasEnd(t)
    \/ SelfOut(t) \/ SelfFailed(t) \/ PeerOut(t)
    \/ Cancelled(t) \/ CutOff(t)

Next ==
    \/ \E u \in Spoken : SpokenEnds(u)
    \/ \E p \in Peers : PeerEnds(p)
    \/ \E t \in Texts : Arrives(t) \/ Handled(t) \/ Runs(t)
    \/ \E c \in Channels, kind \in Resets : ResetBegins(c, kind)
    \/ \E c \in Channels : ResetEnds(c)
    \/ SwitchTranslation
    \/ SwitchSink

Spec == Init /\ [][Next]_vars

\* The event loop of the program goes on while some task is ready: the overlay and the
\* providers answer or fail, and a reset has nothing to wait for but what it cancelled.
Works == \E t \in Texts : Handled(t) \/ Runs(t)
Fairness == WF_vars(Works) /\ WF_vars(\E c \in Channels : ResetEnds(c))
FairSpec == Spec /\ Fairness

-----------------------------------------------------------------------------
Stages == {"none", "emitting", "releasing", "sourceonly", "done", "cut"} \cup Cancelling
Fates == {"none", "open", "dropped", "swallowed", "answered", "failed", "cancelled", "cut"}
PeerTurns == Peers \X (1..MaxFinals)
Books == [known : SUBSET PeerTurns, completed : SUBSET PeerTurns, ended : SUBSET Peers,
          times : SUBSET Peers, late : SUBSET PeerTurns, cleared : SUBSET PeerTurns]

\* The state has its types: what is being translated, held and booked are texts of the
\* right channel, and a text that was handled has met its fate (ClientHub's fields).
TypeOK ==
    /\ translating \in BOOLEAN
    /\ sink \in BOOLEAN
    /\ over \subseteq Spoken \cup Peers
    /\ at \in [Texts -> Stages]
    /\ tasks \subseteq Texts
    /\ held \subseteq Texts \ PeerTurns
    /\ typing \in BOOLEAN
    /\ book \in Books
    /\ clearing \in [Channels -> {"no"} \cup Resets]
    /\ switched \in 0..MaxSwitch
    /\ due \subseteq Spoken
    /\ fate \in [Texts -> Fates]
    /\ said \subseteq Texts \ PeerTurns

Working(t) == at[t] \notin {"none", "done"}
AtRest == /\ \A t \in Texts : ~Working(t)
          /\ \A c \in Channels : clearing[c] = "no"

\* A text that the overlay holds belongs to a translation, or a handler, that has yet to
\* release it; but for one that was cut before it could and one that came when the
\* translation of its utterance was out already (_pending_overlay_transcripts).
CaptionsLeave ==
    \A h \in held :
      \/ \E t \in Texts : /\ SameId(t, h)
                         /\ at[t] \in {"emitting", "created", "asking", "extra", "cancelled", "cut"}
      \/ \E t \in Texts : SameId(t, h) /\ fate[t] \in {"cut", "swallowed"}

\* Every text held back for a translation that does not come is released: at rest the
\* overlay holds none (the docstring of _release_pending_overlay_transcript).
CaptionsReleased == AtRest => held = {}

\* When nothing is in progress the typing indicator is off, unless some utterance has ended
\* and got no text since, or its text got no message: it was cut by a reset, came while
\* the utterance was being translated, or failed without a fallback (send_typing).
TypingReleased ==
    AtRest /\ typing =>
      \/ due # {}
      \/ \E t \in Texts : /\ t[1] \in Spoken \cap over
                         /\ \/ fate[t] \in {"cut", "cancelled", "swallowed"}
                            \/ ~Fallback /\ fate[t] = "failed"

\* The turns of a parent are booked while one of them is in progress, and no longer than
\* until its speech is over and the last has been completed; but for a reset, a dropped turn
\* and a turn that came too late (_maybe_clear_completed_peer_parent).
TurnsBooked ==
    \A t \in PeerTurns :
      /\ Working(t) => t \in book.known \cup book.cleared
      /\ /\ t \in book.known
         /\ t[1] \in over
         /\ clearing["peer"] = "no"
         => \E x \in book.known : /\ x[1] = t[1]
                                 /\ \/ Working(x)
                                    \/ fate[x] = "dropped"
                                    \/ x \in book.late

\* A final that was handed over while an earlier one of its utterance was being translated
\* is lost (_ensure_translation): one that had an end of its own, not lost the same way.
LostBehind(t, x) ==
    /\ fate[t] = "swallowed"
    /\ SameId(x, t) /\ x[2] < t[2]
    /\ fate[x] \in {"answered", "failed", "cancelled", "cut"}

\* Nothing that was handed over stays unanswered, whatever is reset meanwhile: in the end a
\* text of the microphone or the keyboard has been sent to the chatbox, and a turn of the
\* other people has been shown and completed, unless it was dropped, its translation failed
\* or was cut off by a reset, or it was lost behind an earlier final.  The texts are finitely
\* many, so that this holds of the last of them for good.
TextsAnswered == <>[](\A t \in Texts :
    \/ at[t] = "none"
    \/ at[t] = "done" /\ fate[t] = "answered" /\ (ChannelOf(t) = "self" => t \in said)
    \/ at[t] = "done" /\ fate[t] \in {"dropped", "failed", "cancelled", "cut"}
    \/ \E x \in Texts : LostBehind(t, x))
=============================================================================
