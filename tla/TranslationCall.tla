--------------------------- MODULE TranslationCall ---------------------------
(***************************************************************************)
(* What LLMProvider.translate promises its caller when several providers   *)
(* race for the answer (core/llm/fallback_racing.py): a translation if one *)
(* answers, an error only when every one has failed, a cancellation only   *)
(* when the caller asked for it, and otherwise only a close may end it.    *)
(***************************************************************************)
EXTENDS Naturals

CONSTANTS
    Calls,     \* calls of translate
    Providers  \* the providers each call may ask

VARIABLES
    answer,   \* what each provider has said to each call
    asked,    \* the calls whose caller asked for cancellation
    closed,   \* close() has begun
    outcome   \* how each call has ended

vars == <<answer, asked, closed, outcome>>

Init ==
    /\ answer = [c \in Calls |-> [p \in Providers |-> "none"]]
    /\ asked = {}
    /\ closed = FALSE
    /\ outcome = [c \in Calls |-> "none"]

ProviderAnswers(c, p, a) ==
    /\ answer[c][p] = "none"
    /\ answer' = [answer EXCEPT ![c][p] = a]
    /\ UNCHANGED <<asked, closed, outcome>>

CallerCancels(c) ==
    /\ asked' = asked \cup {c}
    /\ UNCHANGED <<answer, closed, outcome>>

Close ==
    /\ closed' = TRUE
    /\ UNCHANGED <<answer, asked, outcome>>

\* A call ends once, in a way its providers or its caller account for.
Accounted(c, o) ==
    \/ o = "result" /\ \E p \in Providers : answer[c][p] = "ok"
    \/ o = "error" /\ (closed \/ \A p \in Providers : answer[c][p] = "failed")
    \/ o = "cancelled" /\ (c \in asked \/ closed)

CallEnds(c, o) ==
    /\ outcome[c] = "none"
    /\ Accounted(c, o)
    /\ outcome' = [outcome EXCEPT ![c] = o]
    /\ UNCHANGED <<answer, asked, closed>>

Next ==
    \/ \E c \in Calls, p \in Providers, a \in {"ok", "failed"} :
          ProviderAnswers(c, p, a)
    \/ \E c \in Calls : CallerCancels(c)
    \/ Close
    \/ \E c \in Calls, o \in {"result", "error", "cancelled"} : CallEnds(c, o)

Spec == Init /\ [][Next]_vars
=============================================================================
