---------------------------- MODULE ChatboxPreview ----------------------------
(***************************************************************************)
(* The live chatbox preview of ClientHub (core/orchestrator/hub.py) beside *)
(* the chatbox queue: while somebody speaks, the newest partial of the     *)
(* utterance is translated and shown at once, until its final arrives.     *)
(*                                                                         *)
(* Of a partial the model keeps whether it is newer than the text that was *)
(* last asked for, and whether a final of its utterance has come since, so *)
(* that an utterance may have any number of them.  The final of an         *)
(* utterance is the message of the same name, queued when its own          *)
(* translation is done; the other messages are typed.  An utterance may    *)
(* have more partials after a final: it goes on, or the partial is late.   *)
(***************************************************************************)
EXTENDS Chatbox

CONSTANTS
    Utterances,   \* messages that are spoken
    Keep,         \* _PREVIEW_KEEP
    MinInterval   \* _PREVIEW_MIN_INTERVAL_S, in ticks

ASSUME PreviewAssumption ==
    /\ Utterances \subseteq Messages
    /\ Keep \in Nat \ {0}
    /\ MinInterval \in Nat

VARIABLES
    open,       \* _chatbox_previews: utterances in the order their preview began
    preview,    \* per utterance: its _ChatboxPreview, the last one it had
    sinceSent,  \* ticks since _last_preview_send_at, at most MinInterval
    final       \* history: utterances whose final has come

allVars == <<vars, open, preview, sinceSent, final>>

\* behind: latest_text is not the text that was last asked for; latestOld, askedOld
\* (histories): a final has come since the one, or the other, was heard.
Tasks == {"none", "waiting", "asking", "done", "failed"}
Fresh == [behind |-> FALSE, task |-> "none", latestOld |-> FALSE, askedOld |-> FALSE]
IsOpen(u) == \E i \in DOMAIN open : open[i] = u
Running(u) == preview[u].task \in {"waiting", "asking"}

PreviewInit ==
    /\ Init
    /\ open = <<>>
    /\ preview = [u \in Utterances |-> Fresh]
    /\ sinceSent = MinInterval       \* none sent yet: nothing to wait for
    /\ final = {}

-----------------------------------------------------------------------------
\* MUTANT: the task is left alone.
Closed_Uncancelled(p) == p

\* _close_chatbox_preview: the task is cancelled where it waits, and ends.
Closed(p) == [p EXCEPT !.task = "none"]

\* The newest text, and a task to translate it if none is running.
WithText(p) ==
    [p EXCEPT !.behind = TRUE, !.latestOld = FALSE,
              !.task = IF @ = "asking" THEN @ ELSE "waiting"]

\* _maybe_preview_self_partial: of too many previews the oldest is closed.
Partial(u) ==
    /\ IF IsOpen(u)
         THEN /\ preview' = [preview EXCEPT ![u] = WithText(@)]
              /\ UNCHANGED open
         ELSE LET all == Append(open, u)
                  full == Len(all) > Keep IN
              /\ open' = IF full THEN Tail(all) ELSE all
              /\ preview' = [v \in Utterances |->
                               IF v = u THEN WithText(Fresh)
                               ELSE IF full /\ v = Head(all) THEN Closed(preview[v])
                               ELSE preview[v]]
    /\ UNCHANGED <<vars, sinceSent, final>>

\* Without its i-th element.
Without(s, i) == [j \in 1..(Len(s) - 1) |-> IF j < i THEN s[j] ELSE s[j + 1]]

\* _handle_transcript of a final: the preview is closed; the message follows when it is
\* translated.
Final(u) ==
    /\ final' = final \cup {u}
    /\ IF IsOpen(u)
         THEN \E i \in DOMAIN open : open[i] = u /\ open' = Without(open, i)
         ELSE UNCHANGED open
    /\ LET p == IF IsOpen(u) THEN Closed(preview[u]) ELSE preview[u] IN
       preview' = [preview EXCEPT ![u] = [p EXCEPT !.latestOld = TRUE, !.askedOld = TRUE]]
    /\ UNCHANGED <<vars, sinceSent>>

\* _enqueue_osc
Finished(m) ==
    /\ m \in Utterances => m \in final
    /\ Enqueue(m)
    /\ UNCHANGED <<open, preview, sinceSent, final>>

-----------------------------------------------------------------------------
(***************************************************************************)
(* _run_chatbox_preview: from one await to the next.                       *)
(***************************************************************************)
\* It sleeps until the interval is over, and asks for what is the newest text by then.
Asks(u) ==
    /\ preview[u].task = "waiting"
    /\ sinceSent = MinInterval
    /\ preview' = [preview EXCEPT ![u].task = "asking", ![u].behind = FALSE,
                                  ![u].askedOld = preview[u].latestOld]
    /\ UNCHANGED <<vars, open, sinceSent, final>>

\* The text asked for is translated; if it still is the newest the task ends.
Translated(p) == [p EXCEPT !.task = IF p.behind THEN "waiting" ELSE "done"]

\* The translation is empty, the same as the last, or refused by the queue (is_busy).
NotShown(u) ==
    /\ preview[u].task = "asking"
    /\ preview' = [preview EXCEPT ![u] = Translated(@)]
    /\ UNCHANGED <<vars, open, sinceSent, final>>

\* The preview goes out; if the datagram cannot be sent nothing is remembered of it.
Shows(u) ==
    /\ preview[u].task = "asking"
    /\ SendPreview
    /\ \/ previewAge' = 0 /\ sinceSent' = 0
       \/ UNCHANGED <<previewAge, sinceSent>>
    /\ preview' = [preview EXCEPT ![u] = Translated(@)]
    /\ UNCHANGED <<open, final>>

\* Previews are best effort: the next partial tries again.
Fails(u) ==
    /\ preview[u].task = "asking"
    /\ preview' = [preview EXCEPT ![u].task = "failed"]
    /\ UNCHANGED <<vars, open, sinceSent, final>>

Flush ==
    /\ ProcessDue
    /\ UNCHANGED <<open, preview, sinceSent, final>>

TimePasses ==
    /\ Tick
    /\ sinceSent' = IF sinceSent < MinInterval THEN sinceSent + 1 ELSE sinceSent
    /\ UNCHANGED <<open, preview, final>>

PreviewNext ==
    \/ \E u \in Utterances : Partial(u) \/ Final(u)
    \/ \E m \in Messages : Finished(m)
    \/ \E u \in Utterances : Asks(u) \/ NotShown(u) \/ Shows(u) \/ Fails(u)
    \/ Flush
    \/ TimePasses

PreviewSpec == PreviewInit /\ [][PreviewNext]_allVars

\* The flush loop and the clock go on, as for the queue alone.  Nothing is assumed of
\* speech, previews and translations.
PreviewFairSpec == PreviewSpec /\ WF_allVars(Flush) /\ WF_allVars(TimePasses)

-----------------------------------------------------------------------------
\* The previews are those of utterances, and their fields have their types.
PreviewTypeOK ==
    /\ open \in Seq(Utterances)
    /\ preview \in [Utterances -> [behind : BOOLEAN, task : Tasks, latestOld : BOOLEAN,
                                   askedOld : BOOLEAN]]
    /\ sinceSent \in 0..MinInterval
    /\ final \subseteq Utterances

\* A preview task runs for an utterance whose preview is open and for no other; and what was
\* heard last has been asked for, unless a task is on its way to it or failed
\* (_maybe_preview_self_partial, _run_chatbox_preview).
PreviewTasks ==
    \A u \in Utterances :
      /\ Running(u) => IsOpen(u)
      /\ IsOpen(u) /\ ~Running(u) => ~preview[u].behind \/ preview[u].task = "failed"

\* Once the final of an utterance has come, nothing heard before it is shown any more: no
\* preview replaces the finished message (hub.py:4289, "the final arrived; it replaces the
\* preview").
NothingStale ==
    \A u \in Utterances :
      /\ preview[u].task = "waiting" => ~preview[u].latestOld
      /\ preview[u].task = "asking" => ~preview[u].askedOld

\* Both: previews follow what is being said, and end with it.
PreviewsFollow == PreviewTasks /\ NothingStale
=============================================================================
