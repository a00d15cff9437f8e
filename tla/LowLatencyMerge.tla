--------------------------- MODULE LowLatencyMerge ---------------------------
(***************************************************************************)
(* Low-latency mode of the hub (core/orchestrator/hub.py): how the finals  *)
(* of the microphone become messages.  A final does not leave at once: it  *)
(* joins a merge buffer, is translated speculatively, and the buffer is    *)
(* committed when the user has stopped speaking and a grace period is      *)
(* over.  Speech that resumes meanwhile holds the buffer.                  *)
(*                                                                         *)
(* The tasks that interleave are the microphone loop (handle_vad_event),   *)
(* the STT event loop (_handle_low_latency_final), the speculative         *)
(* translation and the three timers of each buffer, and whoever resets     *)
(* the channel.  A step runs from one await that suspends to the next; a   *)
(* cancelled timer or translation never runs again.  A buffer that was     *)
(* committed keeps its fields; its timers compare merge_id and end.        *)
(*                                                                         *)
(* Durations are not counted: any timer may fire at any time, before or    *)
(* after any event of the microphone.  One fact about them is kept as a    *)
(* guard: the wait for an end of speech and the wait for the final of      *)
(* speech that resumed have the same timeout, so the one that began first  *)
(* is over first.                                                          *)
(***************************************************************************)
EXTENDS Naturals, FiniteSets

CONSTANTS
    Utterances,  \* bound: utterances the user speaks, one after the other
    Finals,      \* bound: finals the STT may publish for one utterance
    MaxBuffers,  \* bound: merge buffers in a behaviour
    Happens      \* which events an instance includes

\* "spec_fails"     the speculative translation raises
\* "overlay_waits"  sending to the overlay suspends the sender
\* "resets"         the channel state is cleared (a change of language)
\* "turns_off"      translation is switched off, "turns_on" on again
Events == {"spec_fails", "overlay_waits", "resets", "turns_off", "turns_on"}

ASSUME MergeAssumption ==
    /\ Utterances \in Nat
    /\ Finals \in Nat
    /\ MaxBuffers \in Nat
    /\ Happens \subseteq Events

Utts == 1..Utterances
Buffers == 1..MaxBuffers
None == 0

\* A text is known by the finals merged into it: the latest one that changed
\* the part of each utterance, or 0.
Texts == [Utts -> 0..Finals]
NoText == [u \in Utts |-> 0]

VARIABLES
    cur,         \* _merge_buffer, or None
    made,        \* buffers created so far
    buf,         \* the buffers, as _MergeBuffer
    started,     \* utterances started so far; the last is the current one
    speaking,    \* the current utterance has not ended
    ended,       \* _speech_ended_ids
    heard,       \* finals published for each utterance
    handled,     \* the buffer whose final handler is suspended, and for whom
    mic,         \* the buffer the microphone loop is committing, or None
    resetting,   \* the buffer a reset is waiting to drop, or None
    translating, \* llm present and translation_enabled
    commits,     \* history: how often each buffer was committed
    dropped,     \* history: buffers dropped by a reset
    hit          \* history: buffers whose speculative translation failed,
                 \* that were current when translation was switched, or that
                 \* a false start left without a translation

speech == <<started, speaking>>
history == <<commits, dropped, hit>>
vars == <<cur, made, buf, speech, ended, heard, handled, mic, resetting,
          translating, history>>

Buffer == [parts: Texts,                          \* parts, utterance_ids
           wait: Utts \cup {None},                \* awaiting_vad_utterance_id
           waitLast: BOOLEAN,                     \* it began after endTimer
           grace: {"off", "on"},                  \* finalize_wait_task
           resume: {"no", "pending", "confirmed"},
           resumeId: Utts \cup {None},            \* resume_utterance_id
           endTimer: Utts \cup {None},            \* resume_end_utterance_id
           spec: {"no", "running", "showing"},    \* spec_task
           specText: Texts,
           specDone: Texts,                       \* text of spec_translation
           out: {"no", "translating", "sent", "cut"}]

EmptyBuffer == [parts |-> NoText, wait |-> None, waitLast |-> FALSE,
                grace |-> "off", resume |-> "no", resumeId |-> None,
                endTimer |-> None, spec |-> "no", specText |-> NoText,
                specDone |-> NoText, out |-> "no"]

Idle == [buf |-> None, utt |-> None]

Init ==
    /\ cur = None
    /\ made = 0
    /\ buf = [b \in Buffers |-> EmptyBuffer]
    /\ started = 0
    /\ speaking = FALSE
    /\ ended = {}
    /\ heard = [u \in Utts |-> 0]
    /\ handled = Idle
    /\ mic = None
    /\ resetting = None
    /\ translating = TRUE
    /\ commits = [b \in Buffers |-> 0]
    /\ dropped = {}
    /\ hit = {}

-----------------------------------------------------------------------------
(* What the helpers do to a buffer x.                                       *)

Spoken(text) == {u \in Utts : text[u] # 0}

\* _upsert_merge_part: a repeated final may add nothing to its part.
Upserts(x, u) ==
    {[x EXCEPT !.parts[u] = heard[u] + 1]} \cup {y \in {x} : x.parts[u] # 0}

ClearResume(x) ==
    [x EXCEPT !.resume = "no", !.resumeId = None, !.endTimer = None]

ClearSpec_KeepsTranslation(x) == [x EXCEPT !.spec = "no", !.specText = NoText]

ClearSpec(x) ==
    [x EXCEPT !.spec = "no", !.specText = NoText, !.specDone = NoText]

\* _maybe_restart_spec: every attempt cancels the one before.
RestartSpec(x) ==
    IF translating
    THEN [ClearSpec(x) EXCEPT !.spec = "running", !.specText = x.parts]
    ELSE x

\* A final that comes before the end of its utterance waits for it; after
\* the end it (re)starts the grace period.
Armed(x, u) ==
    IF u \in ended
    THEN RestartSpec([x EXCEPT !.wait = IF @ = u THEN None ELSE @,
                               !.grace = "on"])
    ELSE RestartSpec([x EXCEPT !.wait = u, !.waitLast = x.endTimer # None,
                               !.grace = "off"])

MayLeave_Resuming(x) == x.wait = None /\ x.grace = "off"

\* The three holds _commit_merge and _try_commit_after_spec look at.
MayLeave(x) ==
    /\ x.resume = "no"
    /\ x.wait = None
    /\ x.grace = "off"

\* _soft_reuse_mode, with texts that differ in boundary marks identified.
Reusable(x) == x.specDone # NoText /\ x.specText = x.parts

\* _try_commit_after_spec reaches _commit_merge.
Leaves(x, fallback) ==
    /\ MayLeave(x)
    /\ IF x.specDone = NoText THEN fallback ELSE Reusable(x)

\* _commit_merge cancels spec_task, which may be the very task it runs in:
\* then its next await that suspends ends it.
Outcomes(x, by) ==
    IF translating /\ ~Reusable(x)
    THEN IF by = "spec" THEN {"cut"} ELSE {"translating"}
    ELSE {"sent"} \cup
         (IF by = "spec" /\ "overlay_waits" \in Happens THEN {"cut"} ELSE {})

\* _commit_merge of buffer b, now x; e are the _speech_ended_ids.
Commit_KeepsBuffer(b, x, by, e) ==
    \E o \in Outcomes(x, by) :
        /\ buf' = [buf EXCEPT ![b] = [x EXCEPT !.spec = "no", !.out = o]]
        /\ mic' = IF by = "mic" /\ o = "translating" THEN b ELSE mic
        /\ ended' = e \ Spoken(x.parts)
        /\ commits' = [commits EXCEPT ![b] = @ + 1]
        /\ UNCHANGED cur

Commit(b, x, by, e) ==
    \E o \in Outcomes(x, by) :
        /\ buf' = [buf EXCEPT ![b] = [x EXCEPT !.spec = "no", !.out = o]]
        /\ mic' = IF by = "mic" /\ o = "translating" THEN b ELSE mic
        /\ ended' = e \ Spoken(x.parts)
        /\ commits' = [commits EXCEPT ![b] = @ + 1]
        /\ cur' = None

\* Buffer b becomes x, and is committed if leaves holds.
Becomes(b, x, leaves, by, e) ==
    IF leaves THEN Commit(b, x, by, e)
    ELSE /\ buf' = [buf EXCEPT ![b] = x]
         /\ ended' = e
         /\ UNCHANGED <<cur, mic, commits>>

\* The timers and the speculative translation of b are alive and find it.
Lives(b) == cur = b /\ resetting # b

-----------------------------------------------------------------------------
(* The microphone loop: handle_vad_event, one event after the other.        *)

\* _mark_resume_pending for utterance u.
Resumed(x, u) ==
    [x EXCEPT !.resume = "pending", !.resumeId = u, !.endTimer = None]

SpeechStart ==
    /\ ~speaking
    /\ mic = None
    /\ started < Utterances
    /\ started' = started + 1
    /\ speaking' = TRUE
    /\ buf' = IF cur = None THEN buf
              ELSE [buf EXCEPT ![cur] = Resumed(buf[cur], started + 1)]
    /\ UNCHANGED <<cur, made, ended, heard, handled, mic, resetting,
                   translating, history>>

\* _maybe_confirm_resume: the first two chunks are only counted.
ThirdChunk ==
    /\ speaking
    /\ mic = None
    /\ cur # None
    /\ buf[cur].resume = "pending"
    /\ buf[cur].resumeId = started
    /\ buf' = [buf EXCEPT ![cur] = [ClearSpec(@) EXCEPT !.resume = "confirmed"]]
    /\ UNCHANGED <<cur, made, speech, ended, heard, handled, mic, resetting,
                   translating, history>>

\* _maybe_start_finalize_wait.
EndAwaited(x, u) ==
    IF x.wait = u THEN [x EXCEPT !.wait = None, !.grace = "on"] ELSE x

\* _maybe_clear_resume_on_end, in a buffer b that is x by now.
ResumeEnds_NoTimer(b, x, u, e) ==
    LET falseStart == x.resumeId = u /\ x.resume = "pending"
        y == IF falseStart THEN ClearResume(x) ELSE x
    IN  Becomes(b, y, falseStart /\ Leaves(y, TRUE), "mic", e)

ResumeEnds(b, x, u, e) ==
    LET falseStart == x.resumeId = u /\ x.resume = "pending"
        y == IF falseStart THEN ClearResume(x)
             ELSE IF x.resumeId = u
             THEN [x EXCEPT !.endTimer = u, !.waitLast = FALSE]
             ELSE x
    IN  Becomes(b, y, falseStart /\ Leaves(y, TRUE), "mic", e)

\* Speech that resumed earlier has dropped the translation of x.  If a grace
\* period or a wait still runs, its timer will not fall back to the text alone.
Strands(x) ==
    /\ x.resume = "pending" /\ x.resumeId = started
    /\ handled.buf # cur
    /\ translating /\ x.spec = "no" /\ ~Reusable(x)

SpeechEnd ==
    /\ speaking
    /\ mic = None
    /\ speaking' = FALSE
    /\ \/ /\ cur = None
          /\ ended' = ended \cup {started}
          /\ UNCHANGED <<cur, buf, mic, commits, hit>>
       \/ /\ cur # None
          /\ ResumeEnds(cur, EndAwaited(buf[cur], started), started,
                        ended \cup {started})
          /\ hit' = IF Strands(buf[cur]) THEN hit \cup ({cur'} \ {None})
                    ELSE hit
    /\ UNCHANGED <<made, started, heard, handled, resetting, translating,
                   dropped>>

-----------------------------------------------------------------------------
(* The STT event loop: _handle_low_latency_final.                           *)

\* The handler up to the update of the overlay, and beyond it unless that
\* suspends.  The commit at its end (translation off) is always held back,
\* because the final has just been told to wait or started a grace period.
FinalArrives(u) ==
    LET b == IF cur = None THEN made + 1 ELSE cur
    IN  /\ handled = Idle
        /\ u <= started
        /\ heard[u] < Finals
        /\ \A v \in Utts : v > u => heard[v] = 0
        /\ b \in Buffers
        /\ cur' = b
        /\ made' = IF cur = None THEN b ELSE made
        /\ heard' = [heard EXCEPT ![u] = @ + 1]
        /\ \E x \in Upserts(ClearResume(buf[b]), u) :
              \/ /\ buf' = [buf EXCEPT ![b] = Armed(x, u)]
                 /\ UNCHANGED handled
              \/ /\ "overlay_waits" \in Happens
                 /\ buf' = [buf EXCEPT ![b] = x]
                 /\ handled' = [buf |-> b, utt |-> u]
        /\ UNCHANGED <<speech, ended, mic, resetting, translating, history>>

\* The handler goes on with the buffer it had, committed or not.
FinalContinues ==
    /\ handled # Idle
    /\ buf' = [buf EXCEPT ![handled.buf] = Armed(@, handled.utt)]
    /\ handled' = Idle
    /\ UNCHANGED <<cur, made, speech, ended, heard, mic, resetting,
                   translating, history>>

-----------------------------------------------------------------------------
(* The speculative translation: _run_spec_translation.                      *)

SpecAnswers(b) ==
    LET y == [buf[b] EXCEPT !.specDone = buf[b].specText, !.spec = "no"]
    IN  /\ Lives(b)
        /\ buf[b].spec = "running"
        /\ \/ Becomes(b, y, Leaves(y, FALSE), "spec", ended)
           \/ /\ "overlay_waits" \in Happens
              /\ buf' = [buf EXCEPT ![b] = [y EXCEPT !.spec = "showing"]]
              /\ UNCHANGED <<cur, ended, mic, commits>>
        /\ UNCHANGED <<made, speech, heard, handled, resetting, translating,
                       dropped, hit>>

SpecShown(b) ==
    LET y == [buf[b] EXCEPT !.spec = "no"]
    IN  /\ Lives(b)
        /\ buf[b].spec = "showing"
        /\ Becomes(b, y, Leaves(y, FALSE), "spec", ended)
        /\ UNCHANGED <<made, speech, heard, handled, resetting, translating,
                       dropped, hit>>

SpecFails(b) ==
    LET y == [buf[b] EXCEPT !.spec = "no"]
    IN  /\ "spec_fails" \in Happens
        /\ Lives(b)
        /\ buf[b].spec = "running"
        /\ Becomes(b, y, Leaves(y, TRUE), "spec", ended)
        /\ hit' = hit \cup {b}
        /\ UNCHANGED <<made, speech, heard, handled, resetting, translating,
                       dropped>>

-----------------------------------------------------------------------------
(* The timers of a buffer.                                                  *)

\* _finalize_wait_timeout.
GraceTimer(b) ==
    LET y == [buf[b] EXCEPT !.grace = "off"]
    IN  /\ Lives(b)
        /\ buf[b].grace # "off"
        /\ Becomes(b, y, IF translating THEN Leaves(y, FALSE) ELSE MayLeave(y),
                   "timer", ended)
        /\ UNCHANGED <<made, speech, heard, handled, resetting, translating,
                       dropped, hit>>

\* _awaiting_vad_timeout: it runs exactly while the buffer waits.
WaitTimer_NoGrace(b) ==
    /\ Lives(b)
    /\ buf[b].wait # None
    /\ buf[b].endTimer = None \/ ~buf[b].waitLast
    /\ buf' = [buf EXCEPT ![b] = [@ EXCEPT !.wait = None]]
    /\ UNCHANGED <<cur, made, speech, ended, heard, handled, mic, resetting,
                   translating, history>>

WaitTimer(b) ==
    /\ Lives(b)
    /\ buf[b].wait # None
    /\ buf[b].endTimer = None \/ ~buf[b].waitLast
    /\ buf' = [buf EXCEPT ![b] = [@ EXCEPT !.wait = None, !.grace = "on"]]
    /\ UNCHANGED <<cur, made, speech, ended, heard, handled, mic, resetting,
                   translating, history>>

\* _resume_end_timeout.
EndTimer(b) ==
    LET y == [ClearResume(buf[b]) EXCEPT !.grace = "off"]
    IN  /\ Lives(b)
        /\ buf[b].endTimer # None
        /\ buf[b].resume = "confirmed"
        /\ buf[b].wait = None \/ buf[b].waitLast
        /\ Becomes(b, y, Leaves(y, TRUE), "timer", ended)
        /\ UNCHANGED <<made, speech, heard, handled, resetting, translating,
                       dropped, hit>>

-----------------------------------------------------------------------------
(* Committed buffers, the translation switch and resets.                    *)

\* _translate_and_enqueue: the translation, or the plain text if it fails.
TranslationEnds(b) ==
    /\ buf[b].out = "translating"
    /\ buf' = [buf EXCEPT ![b].out = "sent"]
    /\ mic' = IF mic = b THEN None ELSE mic
    /\ UNCHANGED <<cur, made, speech, ended, heard, handled, resetting,
                   translating, history>>

\* set_translation_enabled leaves the merge buffer alone.
Switches ==
    /\ IF translating THEN "turns_off" \in Happens ELSE "turns_on" \in Happens
    /\ translating' = ~translating
    /\ hit' = hit \cup ({cur} \ {None})
    /\ UNCHANGED <<cur, made, buf, speech, ended, heard, handled, mic,
                   resetting, commits, dropped>>

\* clear_live_translation_state: the tasks of the buffer are cancelled and
\* awaited before whatever buffer there is by then is dropped.
ResetBegins ==
    /\ "resets" \in Happens
    /\ resetting = None
    /\ cur # None
    /\ resetting' = cur
    /\ UNCHANGED <<cur, made, buf, speech, ended, heard, handled, mic,
                   translating, history>>

ResetEnds ==
    /\ resetting # None
    /\ resetting' = None
    /\ cur' = None
    /\ dropped' = dropped \cup ({cur} \ {None})
    /\ ended' = ended \ Spoken(buf[resetting].parts)
    /\ UNCHANGED <<made, buf, speech, heard, handled, mic, translating,
                   commits, hit>>

-----------------------------------------------------------------------------
Next ==
    \/ SpeechStart \/ ThirdChunk \/ SpeechEnd
    \/ \E u \in Utts : FinalArrives(u)
    \/ FinalContinues
    \/ \E b \in Buffers :
          \/ SpecAnswers(b) \/ SpecShown(b) \/ SpecFails(b)
          \/ GraceTimer(b) \/ WaitTimer(b) \/ EndTimer(b)
          \/ TranslationEnds(b)
    \/ Switches \/ ResetBegins \/ ResetEnds

Spec == Init /\ [][Next]_vars

\* The event loop runs every task that is ready, every timer fires, and the
\* translator answers or fails.  Nothing is promised of the user, whose
\* utterances the VAD of the microphone does not cut at any length.
FairSpec ==
    /\ Spec
    /\ WF_vars(FinalContinues)
    /\ WF_vars(ResetEnds)
    /\ \A b \in Buffers :
          /\ WF_vars(SpecAnswers(b) \/ SpecFails(b))
          /\ WF_vars(SpecShown(b))
          /\ WF_vars(GraceTimer(b))
          /\ WF_vars(WaitTimer(b))
          /\ WF_vars(EndTimer(b))
          /\ WF_vars(TranslationEnds(b))

-----------------------------------------------------------------------------
(* Properties.                                                              *)

\* Every variable stays in its type, and the resume state of a buffer is
\* always set and cleared as a whole.
TypeOK ==
    /\ cur \in Buffers \cup {None}
    /\ made \in 0..MaxBuffers
    /\ buf \in [Buffers -> Buffer]
    /\ \A b \in Buffers : buf[b].resume = "no" <=> buf[b].resumeId = None
    /\ started \in 0..Utterances
    /\ speaking \in BOOLEAN
    /\ ended \subseteq Utts
    /\ heard \in [Utts -> 0..Finals]
    /\ handled \in [buf : Buffers, utt : Utts] \cup {Idle}
    /\ mic \in Buffers \cup {None}
    /\ resetting \in Buffers \cup {None}
    /\ translating \in BOOLEAN
    /\ commits \in [Buffers -> Nat]
    /\ dropped \subseteq Buffers
    /\ hit \subseteq Buffers

\* Whatever is suspended, cancelled or late, no text is handed over twice:
\* five tasks may commit a buffer, and handlers hold on to committed ones.
NothingSentTwice == \A b \in Buffers : commits[b] <= 1

\* A speculative translation is only kept as the translation of the text it
\* is compared with: a message never carries the translation of a shorter or
\* an older sentence.
TranslatesWhatItSends ==
    \A b \in Buffers :
        buf[b].specDone # NoText => buf[b].specDone = buf[b].specText

\* Somebody will still commit the current buffer: its final handler, the end
\* of the speech that resumed, a timer, or the translation it waits for.
WillBeCommitted(b) ==
    LET x == buf[b]
    IN  \/ handled.buf = b
        \/ /\ x.resume # "no"
           /\ \/ speaking /\ x.resumeId = started
              \/ x.resume = "confirmed" /\ x.endTimer # None
        \/ /\ x.resume = "no"
           /\ ~MayLeave(x)
           /\ translating => x.spec # "no" \/ Reusable(x)
        \/ /\ x.resume = "no"
           /\ x.spec # "no"
           /\ x.specText = x.parts

\* No text waits in the merge buffer for nobody.
NoTextForgotten ==
    cur # None /\ cur \notin hit /\ resetting = None => WillBeCommitted(cur)

\* While speech that resumed goes on, the text before it is held, so that
\* the sentence is sent in one piece.
HeldWhileResumed ==
    [][\A b \in Buffers :
          /\ buf[b].resume = "confirmed"
          /\ speaking /\ speaking'
          /\ buf[b].resumeId = started
          => commits'[b] = commits[b]]_vars

\* What has become of text b.
Fate(b) ==
    CASE buf[b].out = "translating" -> "leaving"
      [] buf[b].out = "sent" -> "arrived"
      [] buf[b].out = "cut" -> "lost"
      [] buf[b].out = "no" /\ b = cur -> "open"
      [] buf[b].out = "no" /\ b # cur /\ b \in dropped -> "reset"
      [] buf[b].out = "no" /\ b # cur /\ b \notin dropped -> "unopened"

\* What the channel promises: see TextDelivery.
Promise == INSTANCE TextDelivery WITH
    Parts <- Utts,
    MaxTexts <- MaxBuffers,
    CanBeLost <- Happens \cap {"spec_fails", "overlay_waits"} # {},
    CanBeReset <- "resets" \in Happens,
    open <- cur,
    opened <- made,
    said <- heard,
    text <- [b \in Buffers |-> buf[b].parts],
    fate <- [b \in Buffers |-> Fate(b)]

\* Five tasks may commit a buffer and handlers hold on to committed ones: still
\* each text is open at its time, leaves once and whole, never changes after
\* that, and ends without arriving only by a reset or if the commit runs in the
\* speculative translation.
Delivers == Promise!Spec

Gone(b) == buf[b].out = "sent" \/ b \in dropped

\* If the user pauses now and then, every text reaches the chatbox, unless a
\* reset drops it, its speculative translation failed, translation was switched
\* over it, a false start left it without a translation, or its commit runs in
\* the speculative translation and the overlay suspends that.
EveryTextLeaves ==
    []<>~speaking =>
        \A b \in Buffers :
            made >= b ~> Gone(b) \/ buf[b].out = "cut" \/ b \in hit

=============================================================================
