---------------------------- MODULE TextDelivery ----------------------------
(***************************************************************************)
(* What the microphone channel promises in low-latency mode                *)
(* (core/orchestrator/hub.py): the finals of the user are put together to  *)
(* texts, one text after the other.  A text is open while it grows, leaves *)
(* once and as it is then, and arrives once.  Nothing is said here of      *)
(* speech, of timers or of speculative translations.                       *)
(***************************************************************************)
EXTENDS Naturals

CONSTANTS
    Parts,      \* the utterances a text may have parts of
    MaxTexts,   \* bound: texts in a behaviour
    CanBeLost,  \* a text may end as it leaves
    CanBeReset  \* somebody may reset the channel

VARIABLES
    open,    \* the text that still grows, or 0
    opened,  \* texts opened so far
    said,    \* finals so far, by utterance
    text,    \* text[t][u]: the final of u that text t has, or 0
    fate     \* "unopened", "open", "leaving", "arrived", "lost" or "reset"

vars == <<open, opened, said, text, fate>>

Init ==
    /\ open = 0
    /\ opened = 0
    /\ said = [u \in Parts |-> 0]
    /\ text = [t \in 1..MaxTexts |-> [u \in Parts |-> 0]]
    /\ fate = [t \in 1..MaxTexts |-> "unopened"]

\* A final of u joins the open text, or opens the next one; it need not
\* change a text that has a part of u already.
Says(u) ==
    LET t == IF open = 0 THEN opened + 1 ELSE open
    IN  /\ t \in 1..MaxTexts
        /\ fate[t] = IF open = 0 THEN "unopened" ELSE "open"
        /\ open' = t
        /\ opened' = IF open = 0 THEN t ELSE opened
        /\ said' = [said EXCEPT ![u] = @ + 1]
        /\ \/ text' = [text EXCEPT ![t][u] = said[u] + 1]
           \/ text[t][u] # 0 /\ text' = text
        /\ fate' = [fate EXCEPT ![t] = "open"]

\* The open text closes for good and meets fate f.
Closes(f) ==
    /\ open # 0
    /\ fate[open] = "open"
    /\ open' = 0
    /\ fate' = [fate EXCEPT ![open] = f]
    /\ UNCHANGED <<opened, said, text>>

Leaves == \E f \in {"leaving", "arrived"} : Closes(f)

Loses == CanBeLost /\ Closes("lost")

Resets == CanBeReset /\ Closes("reset")

\* What has left arrives; nothing is lost on its way.
Arrives(t) ==
    /\ fate[t] = "leaving"
    /\ fate' = [fate EXCEPT ![t] = "arrived"]
    /\ UNCHANGED <<open, opened, said, text>>

Next ==
    \/ \E u \in Parts : Says(u)
    \/ Leaves \/ Loses \/ Resets
    \/ \E t \in 1..MaxTexts : Arrives(t)

Spec == Init /\ [][Next]_vars
=============================================================================
