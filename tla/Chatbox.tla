------------------------------ MODULE Chatbox ------------------------------
(***************************************************************************)
(* The VRChat chatbox queue: ChatboxPaginator of                           *)
(* core/osc/chatbox_paginator.py, driven by the flush loop of the hub.     *)
(* No method awaits, so one method is one action.                          *)
(*                                                                         *)
(* Text is abstracted to its number of pages.  The two absolute deadlines  *)
(* of the code are only ever compared with the current time, so the model  *)
(* keeps the distance to each of them, saturated: pageWait counts down to  *)
(* _next_page_at, previewAge counts up from _last_preview_at.              *)
(***************************************************************************)
EXTENDS Naturals, Sequences

CONSTANTS
    Messages,       \* the OSCMessage objects handed to the queue
    PageCount,      \* pages of each message after strip and split; 0 is blank
    PageInterval,   \* page_interval_s, in ticks
    PreviewGap      \* preview_gap_s, in ticks

ASSUME ChatboxAssumption ==
    /\ PageCount \in [Messages -> Nat]
    /\ PageInterval \in Nat \ {0}
    /\ PreviewGap \in Nat

VARIABLES
    pendingPages,     \* _pending_pages: pages of the message being shown
    pendingMessages,  \* _pending_messages: whole messages not started yet
    pageWait,         \* ticks until _next_page_at is reached
    previewAge,       \* ticks since the last preview, at most PreviewGap
    arrived,          \* history: messages in the order they were enqueued
    behindPages,      \* history: messages that had to wait for pages
    wire              \* history: queued pages handed to the OSC sender, and a
                      \* page 0 for a blank message that was taken silently

queue == <<pendingPages, pendingMessages, pageWait, previewAge>>
history == <<arrived, behindPages, wire>>
vars == <<queue, history>>

Page == [msg : Messages, no : Nat]

Init ==
    /\ pendingPages = <<>>
    /\ pendingMessages = <<>>
    /\ pageWait = 0
    /\ previewAge = PreviewGap      \* no preview yet: nothing to hold for
    /\ arrived = <<>>
    /\ behindPages = {}
    /\ wire = <<>>

-----------------------------------------------------------------------------
\* Mutants are definitions of this module with the name of the definition they
\* replace and a suffix that tells the slip; nothing else refers to them.
IsPaginating == pendingPages # <<>>
PreviewHoldActive == previewAge < PreviewGap
IsBusy_IgnoresMessages == IsPaginating
IsBusy_IgnoresPages == pendingMessages # <<>>
IsBusy == IsPaginating \/ pendingMessages # <<>>

\* What starting a message sends at once.
FirstPage(m) == [msg |-> m, no |-> IF PageCount[m] = 0 THEN 0 ELSE 1]

\* The pages starting it leaves behind.
TailPages(m) == [i \in 1..(PageCount[m] - 1) |-> [msg |-> m, no |-> i + 1]]

Drains_PastPages(ms, n) == n = Len(ms)

\* A run of the drain loop over ms starts its first n messages: all of them, or
\* up to the first one that leaves pages behind.
Drains(ms, n) ==
    /\ \A i \in 1..n : PageCount[ms[i]] > 1 => i = n
    /\ n = Len(ms) \/ (n > 0 /\ PageCount[ms[n]] > 1)

\* Start the first n messages of ms, of which only ms[n] may be long, after the
\* pages sentNow: first pages go out back to back, the rest waits PageInterval.
StartMessages(ms, n, sentNow) ==
    /\ pendingPages' =
         IF n > 0 /\ PageCount[ms[n]] > 1 THEN TailPages(ms[n]) ELSE <<>>
    /\ pageWait' = IF n > 0 /\ PageCount[ms[n]] > 1 THEN PageInterval ELSE 0
    /\ wire' = wire \o sentNow \o [i \in 1..n |-> FirstPage(ms[i])]

-----------------------------------------------------------------------------
\* enqueue(): wait behind pages or behind a fresh preview, else start at once.
\* Each message object is handed over once.
Enqueue(m) ==
    /\ \A i \in DOMAIN arrived : arrived[i] # m
    /\ arrived' = Append(arrived, m)
    /\ behindPages' = IF IsPaginating THEN behindPages \cup {m} ELSE behindPages
    /\ \/ /\ IsPaginating \/ PreviewHoldActive
          /\ pendingMessages' = Append(pendingMessages, m)
          /\ UNCHANGED <<pendingPages, pageWait, wire>>
       \/ /\ ~IsPaginating /\ ~PreviewHoldActive
          /\ StartMessages(<<m>>, 1, <<>>)
          /\ UNCHANGED pendingMessages
    /\ UNCHANGED previewAge

\* send_preview() of a non-blank text: refused while anything is waiting; the
\* hold starts only when the datagram was sent (OSError leaves it alone).
SendPreview ==
    /\ ~IsBusy
    /\ previewAge' \in {0, previewAge}
    /\ UNCHANGED <<pendingPages, pendingMessages, pageWait, history>>

\* _drain_pending_messages(), after the pages sentNow.
Drain(sentNow) ==
    \E n \in 0..Len(pendingMessages) :
        /\ Drains(pendingMessages, n)
        /\ StartMessages(pendingMessages, n, sentNow)
        /\ pendingMessages' =
             SubSeq(pendingMessages, n + 1, Len(pendingMessages))

\* process_due() with no page waiting: drain unless a preview is still fresh.
DrainIdle ==
    /\ ~IsPaginating
    /\ ~PreviewHoldActive
    /\ pendingMessages # <<>>
    /\ Drain(<<>>)
    /\ UNCHANGED <<previewAge, arrived, behindPages>>

SendDuePage_NoDrain ==
    /\ IsPaginating
    /\ pageWait = 0
    /\ pendingPages' = Tail(pendingPages)
    /\ pageWait' = IF Len(pendingPages) > 1 THEN PageInterval ELSE 0
    /\ wire' = Append(wire, Head(pendingPages))
    /\ UNCHANGED <<pendingMessages, previewAge, arrived, behindPages>>

\* process_due() with a page due: the page is gone even if sending it fails;
\* the last page of a message lets the queued messages drain in the same call.
SendDuePage ==
    /\ IsPaginating
    /\ pageWait = 0
    /\ \/ /\ Len(pendingPages) > 1
          /\ pendingPages' = Tail(pendingPages)
          /\ pageWait' = PageInterval
          /\ wire' = Append(wire, Head(pendingPages))
          /\ UNCHANGED pendingMessages
       \/ /\ Len(pendingPages) = 1
          /\ Drain(pendingPages)
    /\ UNCHANGED <<previewAge, arrived, behindPages>>

ProcessDue == DrainIdle \/ SendDuePage

\* Time passes.
Tick ==
    /\ pageWait' = IF pageWait = 0 THEN 0 ELSE pageWait - 1
    /\ previewAge' = IF PreviewHoldActive THEN previewAge + 1 ELSE previewAge
    /\ UNCHANGED <<pendingPages, pendingMessages, history>>

Next ==
    \/ \E m \in Messages : Enqueue(m)
    \/ SendPreview
    \/ ProcessDue
    \/ Tick

Spec == Init /\ [][Next]_vars

\* The hub's flush loop calls process_due every 0.1 s for as long as it runs,
\* and the clock does not stop.  Nothing is assumed of messages and previews.
Fairness == WF_vars(ProcessDue) /\ WF_vars(Tick)
FairSpec == Spec /\ Fairness

-----------------------------------------------------------------------------
\* Every variable stays in its type.
TypeOK ==
    /\ pendingPages \in Seq(Page)
    /\ pendingMessages \in Seq(Messages)
    /\ pageWait \in 0..PageInterval
    /\ previewAge \in 0..PreviewGap
    /\ arrived \in Seq(Messages)
    /\ behindPages \in SUBSET Messages
    /\ wire \in Seq(Page)

\* The pages still waiting are the last pages of one message, in order, and the
\* last page sent is the one before them: the code keeps one flat page list, so
\* a message started while pages wait would be spliced into another one.
PendingPagesContinueWire ==
    \A i \in DOMAIN pendingPages :
        /\ wire # <<>>
        /\ pendingPages[i].msg = wire[Len(wire)].msg
        /\ pendingPages[i].no = wire[Len(wire)].no + i
        /\ PageCount[pendingPages[i].msg] = wire[Len(wire)].no + Len(pendingPages)

\* What reached VRChat shows one message at a time and shows it whole: a page
\* follows the page before it of the same message, or it is a first page and
\* the message before it was complete.  No other message is spliced in by a
\* drain, however previews, enqueues and due pages interleave.
WholeMessagesOnWire ==
    \A i \in DOMAIN wire :
        \/ /\ wire[i] = FirstPage(wire[i].msg)
           /\ i > 1 => wire[i - 1].no = PageCount[wire[i - 1].msg]
        \/ /\ i > 1
           /\ wire[i] = [msg |-> wire[i - 1].msg, no |-> wire[i - 1].no + 1]

\* A queued page never follows a preview sooner than the gap VRChat needs
\* (chatbox_paginator.py:25: "A queued message right after a live preview waits
\* this long so it is not lost"), although the page branch of process_due does
\* not look at the preview at all.
PreviewGapKept ==
    [][wire' # wire => previewAge = PreviewGap]_vars

PositionOnWire(m) == {i \in DOMAIN wire : wire[i] = FirstPage(m)}
ArrivedBefore(m, n) ==
    \E i, j \in DOMAIN arrived : i < j /\ arrived[i] = m /\ arrived[j] = n

\* A message that waited for pages is never overtaken by a later one.  (A
\* message held back by a preview can be: see the README.)
PaginationKeepsArrivalOrder ==
    \A m \in behindPages, n \in Messages :
        (ArrivedBefore(m, n) /\ PositionOnWire(n) # {})
            => \E i \in PositionOnWire(m), j \in PositionOnWire(n) : i < j

\* Every message handed over is eventually shown to its last page: neither
\* pagination nor live previews can starve it.
EveryMessageShown ==
    \A m \in Messages :
        (\E i \in DOMAIN arrived : arrived[i] = m)
            ~> (\E i \in DOMAIN wire : wire[i] = [msg |-> m, no |-> PageCount[m]])
=============================================================================
