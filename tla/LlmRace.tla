------------------------------- MODULE LlmRace -------------------------------
(***************************************************************************)
(* FallbackRacingLLMProvider (core/llm/fallback_racing.py): each call of   *)
(* translate asks its first provider at once and the others after a delay, *)
(* or when the first has failed; the first answer wins, the losers get a   *)
(* grace period and are cancelled.  close() cancels whatever runs, waits   *)
(* for it and then closes the providers.                                   *)
(*                                                                         *)
(* The tasks that interleave are the calls, their callers, the attempts,   *)
(* the schedules that start the later ones, and close.  A step of a call   *)
(* runs from one await that suspends to the next: waking up, it sees every *)
(* task that has ended by then.  The state lock only suspends a call that  *)
(* starts an attempt after close.  A cancelled provider ends cancelled.    *)
(***************************************************************************)
EXTENDS Naturals, FiniteSets

CONSTANTS
    Calls,   \* bound: calls of translate on this provider
    Last     \* attempts are numbered 0..Last

ASSUME RaceAssumption == Last \in Nat

Providers == 0..Last
Fallbacks == 1..Last
Nobody == "nobody"

ASSUME CallsAreNamed == Nobody \notin Calls

VARIABLES
    phase,     \* where each call is in translate
    att,       \* its attempts: provider_tasks and outcomes
    sched,     \* its schedule_tasks
    starting,  \* the attempt it tries to start on a closed provider, untracked
    ending,    \* how it will end once its tasks have
    outcome,   \* how it has ended
    asked,     \* the calls whose caller has cancelled them
    lock,      \* the call that holds _state_lock across an await
    closing    \* _closed, and whether the providers are closed too

vars == <<phase, att, sched, starting, ending, outcome, asked, lock, closing>>

Phases == {"new", "racing", "grace", "dropping", "cleaning", "queued",
           "refused", "done"}
Attempts == {"no", "running", "cancelling",        \* not ended
             "answered", "failed", "cancelled",    \* ended
             "lost"}                               \* its error was captured
Schedules == {"no", "waiting", "due", "cancelling", "cancelled", "ended"}
Ends == {"none", "result", "error", "cancelled"}

Init ==
    /\ phase = [c \in Calls |-> "new"]
    /\ att = [c \in Calls |-> [p \in Providers |-> "no"]]
    /\ sched = [c \in Calls |-> [p \in Fallbacks |-> "no"]]
    /\ starting = [c \in Calls |-> {}]
    /\ ending = [c \in Calls |-> "none"]
    /\ outcome = [c \in Calls |-> "none"]
    /\ asked = {}
    /\ lock = Nobody
    /\ closing = "open"

-----------------------------------------------------------------------------
(* Tasks.                                                                   *)

\* The task of an attempt has not ended.
Running(c, p) == att[c][p] \in {"running", "cancelling"}

\* _inflight_tasks has it: close and its call see it.  A task is created before
\* the lock that tracks it, so the one a call is starting is not there yet.
Pending(c, p) == p \notin starting[c] /\ Running(c, p)

SchedulePending(c, p) == sched[c][p] \in {"waiting", "cancelling"}

\* Provider p gets its answer, or raises, or ends because it was cancelled.
AttemptEnds(c, p) ==
    /\ \/ /\ att[c][p] = "running"
          /\ \E a \in {"answered", "failed"} :
                att' = [att EXCEPT ![c] = [att[c] EXCEPT ![p] = a]]
       \/ /\ att[c][p] = "cancelling"
          /\ att' = [att EXCEPT ![c] = [att[c] EXCEPT ![p] = "cancelled"]]
    /\ UNCHANGED <<phase, sched, starting, ending, outcome, asked, lock, closing>>

\* Mutant: a schedule that swallows its cancellation goes on waiting.
ScheduleEnds_Swallows(c, p) ==
    /\ sched[c][p] = "waiting"
    /\ sched' = [sched EXCEPT ![c] = [sched[c] EXCEPT ![p] = "due"]]
    /\ UNCHANGED <<phase, att, starting, ending, outcome, asked, lock, closing>>

\* _wait_for_attempt_start: the delay is over or the first attempt failed.
\* It swallows a cancellation that arrives while it drops its two waiters.
ScheduleEnds(c, p) ==
    /\ \/ /\ sched[c][p] = "waiting"
          /\ sched' = [sched EXCEPT ![c] = [sched[c] EXCEPT ![p] = "due"]]
       \/ /\ sched[c][p] = "cancelling"
          /\ \E s \in {"cancelled", "due"} :
                sched' = [sched EXCEPT ![c] = [sched[c] EXCEPT ![p] = s]]
    /\ UNCHANGED <<phase, att, starting, ending, outcome, asked, lock, closing>>

-----------------------------------------------------------------------------
(* Starting attempts: start_attempt and _create_tracked_task.               *)

LockIsFree == lock = Nobody /\ \A c \in Calls : phase[c] # "queued"

\* On a closed provider the task is cancelled before it runs, unless another
\* call has the lock: then it runs until this call has the lock.
Refuse(c, p, a) ==
    /\ starting' = [starting EXCEPT ![c] = {p}]
    /\ IF LockIsFree
       THEN /\ lock' = c
            /\ phase' = [phase EXCEPT ![c] = "refused"]
            /\ att' = [att EXCEPT ![c] = [a EXCEPT ![p] = "cancelling"]]
       ELSE /\ phase' = [phase EXCEPT ![c] = "queued"]
            /\ att' = [att EXCEPT ![c] = [a EXCEPT ![p] = "running"]]
            /\ UNCHANGED lock
    /\ UNCHANGED <<ending, outcome, asked, closing>>

\* Mutant: the task that ran while its call was queued is not cancelled.
QueuedGetsLock_LeavesTask(c) ==
    /\ phase[c] = "queued"
    /\ lock = Nobody
    /\ lock' = c
    /\ phase' = [phase EXCEPT ![c] = "refused"]
    /\ UNCHANGED <<att, sched, starting, ending, outcome, asked, closing>>

QueuedGetsLock(c) ==
    /\ phase[c] = "queued"
    /\ lock = Nobody
    /\ lock' = c
    /\ phase' = [phase EXCEPT ![c] = "refused"]
    /\ att' = [att EXCEPT ![c] = [p \in Providers |->
                  IF p \in starting[c] /\ @[p] = "running" THEN "cancelling"
                  ELSE @[p]]]
    /\ UNCHANGED <<sched, starting, ending, outcome, asked, closing>>

RefusedEnds(c) ==
    /\ phase[c] = "refused"
    /\ \A p \in starting[c] : att[c][p] # "cancelling"
    /\ lock' = Nobody
    /\ phase' = [phase EXCEPT ![c] = "cleaning"]
    /\ ending' = [ending EXCEPT ![c] = "cancelled"]
    /\ UNCHANGED <<att, sched, starting, outcome, asked, closing>>

\* translate up to its loop.
Translate(c) ==
    /\ phase[c] = "new"
    /\ \/ /\ closing = "open"
          /\ phase' = [phase EXCEPT ![c] = "racing"]
          /\ att' = [att EXCEPT ![c] = [att[c] EXCEPT ![0] = "running"]]
          /\ sched' = [sched EXCEPT ![c] = [p \in Fallbacks |-> "waiting"]]
          /\ UNCHANGED <<starting, ending, outcome, asked, lock, closing>>
       \/ /\ closing # "open"
          /\ Refuse(c, 0, att[c])
          /\ UNCHANGED sched

-----------------------------------------------------------------------------
(* The loop of translate wakes up.                                          *)

Some(c, a) == \E p \in Providers : att[c][p] = a

\* _capture_outcome raises for an attempt that was cancelled.
WakesCancelled(c) ==
    /\ phase[c] = "racing"
    /\ Some(c, "cancelled")
    /\ phase' = [phase EXCEPT ![c] = "cleaning"]
    /\ ending' = [ending EXCEPT ![c] = "cancelled"]
    /\ UNCHANGED <<att, sched, starting, outcome, asked, lock, closing>>

WakesWithWinner(c) ==
    /\ phase[c] = "racing"
    /\ ~Some(c, "cancelled")
    /\ Some(c, "answered")
    /\ phase' = [phase EXCEPT ![c] = "grace"]
    /\ ending' = [ending EXCEPT ![c] = "result"]
    /\ UNCHANGED <<att, sched, starting, outcome, asked, lock, closing>>

Due(c) == {p \in Fallbacks : sched[c][p] = "due"}

Captured(c) == [p \in Providers |->
                  IF att[c][p] = "failed" THEN "lost" ELSE att[c][p]]

SchedulesTaken(c) == [p \in Fallbacks |->
    IF sched[c][p] \in {"due", "cancelled"} THEN "ended" ELSE sched[c][p]]

\* Mutant: gives up although a fallback has yet to start.
NothingActive_OnlyAttempts(a, s) ==
    \A p \in Providers : a[p] \notin {"running", "cancelling"}

NothingActive(a, s) ==
    /\ \A p \in Providers : a[p] \notin {"running", "cancelling"}
    /\ \A p \in Fallbacks : s[p] \notin {"waiting", "cancelling"}

\* What the loop does when no attempt has answered: it starts those that are
\* due, and gives up when nothing is left to wait for.
GoesOn(c) ==
    LET a == [p \in Providers |-> IF p \in Due(c) THEN "running"
                                  ELSE Captured(c)[p]]
        s == SchedulesTaken(c)
        over == NothingActive(a, s)
    IN  /\ att' = [att EXCEPT ![c] = a]
        /\ sched' = [sched EXCEPT ![c] = s]
        /\ phase' = [phase EXCEPT ![c] = IF over THEN "done" ELSE "racing"]
        /\ outcome' = [outcome EXCEPT ![c] = IF over THEN "error" ELSE @]
        /\ UNCHANGED <<starting, ending, asked, lock, closing>>

WakesWithoutWinner(c) ==
    /\ phase[c] = "racing"
    /\ ~Some(c, "cancelled") /\ ~Some(c, "answered")
    /\ \/ Some(c, "failed")
       \/ \E p \in Fallbacks : sched[c][p] \in {"due", "cancelled"}
    /\ \/ /\ closing = "open" \/ Due(c) = {}
          /\ GoesOn(c)
       \/ /\ closing # "open"
          /\ \E p \in Due(c) : Refuse(c, p, Captured(c))
          /\ sched' = [sched EXCEPT ![c] = SchedulesTaken(c)]

-----------------------------------------------------------------------------
(* The end of a call.                                                       *)

\* _allow_loser_grace: its timeout, or no loser is left.
GraceEnds(c) ==
    /\ phase[c] = "grace"
    /\ \/ /\ Some(c, "cancelled")
          /\ phase' = [phase EXCEPT ![c] = "cleaning"]
          /\ ending' = [ending EXCEPT ![c] = "cancelled"]
       \/ /\ ~Some(c, "cancelled")
          /\ phase' = [phase EXCEPT ![c] = "dropping"]
          /\ UNCHANGED ending
    /\ UNCHANGED <<att, sched, starting, outcome, asked, lock, closing>>

\* _cancel_task for one attempt after the other; it waits for each.
CancelAttempt(c) ==
    /\ \/ phase[c] = "dropping"
       \/ phase[c] = "cleaning" /\ \A p \in Fallbacks : ~SchedulePending(c, p)
    /\ \A p \in Providers : Pending(c, p) => att[c][p] = "running"
    /\ \E p \in Providers :
          /\ Pending(c, p)
          /\ att' = [att EXCEPT ![c] = [att[c] EXCEPT ![p] = "cancelling"]]
    /\ UNCHANGED <<phase, sched, starting, ending, outcome, asked, lock, closing>>

CancelSchedule(c) ==
    /\ phase[c] = "cleaning"
    /\ \A p \in Fallbacks : sched[c][p] # "cancelling"
    /\ \E p \in Fallbacks :
          /\ sched[c][p] = "waiting"
          /\ sched' = [sched EXCEPT ![c] = [sched[c] EXCEPT ![p] = "cancelling"]]
    /\ UNCHANGED <<phase, att, starting, ending, outcome, asked, lock, closing>>

LosersDropped(c) ==
    /\ phase[c] = "dropping"
    /\ \A p \in Providers : ~Pending(c, p)
    /\ phase' = [phase EXCEPT ![c] = "cleaning"]
    /\ UNCHANGED <<att, sched, starting, ending, outcome, asked, lock, closing>>

\* Mutant: the schedules are not cancelled before the call returns.
CallEnds_SchedulesLeft(c) ==
    /\ phase[c] = "cleaning"
    /\ \A p \in Providers : ~Pending(c, p)
    /\ phase' = [phase EXCEPT ![c] = "done"]
    /\ outcome' = [outcome EXCEPT ![c] = ending[c]]
    /\ UNCHANGED <<att, sched, starting, ending, asked, lock, closing>>

CallEnds(c) ==
    /\ phase[c] = "cleaning"
    /\ \A p \in Providers : ~Pending(c, p)
    /\ \A p \in Fallbacks : ~SchedulePending(c, p)
    /\ phase' = [phase EXCEPT ![c] = "done"]
    /\ outcome' = [outcome EXCEPT ![c] = ending[c]]
    /\ UNCHANGED <<att, sched, starting, ending, asked, lock, closing>>

\* The caller's cancellation interrupts the loop, the grace period and the
\* wait for the lock; _cancel_task suppresses it.
CallerCancels(c) ==
    /\ c \notin asked
    /\ phase[c] \notin {"new", "done"}
    /\ asked' = asked \cup {c}
    /\ \/ /\ phase[c] \in {"racing", "grace", "queued"}
          /\ phase' = [phase EXCEPT ![c] = "cleaning"]
          /\ ending' = [ending EXCEPT ![c] = "cancelled"]
       \/ /\ phase[c] \in {"dropping", "cleaning", "refused"}
          /\ UNCHANGED <<phase, ending>>
    /\ UNCHANGED <<att, sched, starting, outcome, lock, closing>>

-----------------------------------------------------------------------------
(* close().                                                                 *)

CloseBegins ==
    /\ closing = "open"
    /\ closing' = "closing"
    /\ att' = [c \in Calls |-> [p \in Providers |->
                 IF Pending(c, p) THEN "cancelling" ELSE att[c][p]]]
    /\ sched' = [c \in Calls |-> [p \in Fallbacks |->
                 IF SchedulePending(c, p) THEN "cancelling" ELSE sched[c][p]]]
    /\ UNCHANGED <<phase, starting, ending, outcome, asked, lock>>

CloseEnds ==
    /\ closing = "closing"
    /\ \A c \in Calls :
          /\ \A p \in Providers : ~Pending(c, p)
          /\ \A p \in Fallbacks : ~SchedulePending(c, p)
    /\ closing' = "closed"
    /\ UNCHANGED <<phase, att, sched, starting, ending, outcome, asked, lock>>

-----------------------------------------------------------------------------
Next ==
    \/ \E c \in Calls :
          \/ Translate(c) \/ QueuedGetsLock(c) \/ RefusedEnds(c)
          \/ WakesCancelled(c) \/ WakesWithWinner(c) \/ WakesWithoutWinner(c)
          \/ GraceEnds(c) \/ CancelAttempt(c) \/ CancelSchedule(c)
          \/ LosersDropped(c) \/ CallEnds(c) \/ CallerCancels(c)
          \/ \E p \in Providers : AttemptEnds(c, p)
          \/ \E p \in Fallbacks : ScheduleEnds(c, p)
    \/ CloseBegins \/ CloseEnds

Spec == Init /\ [][Next]_vars

\* The event loop runs every task that can go on; a provider answers or
\* fails in the end (its client has a timeout), a delay passes.
FairSpec ==
    /\ Spec
    /\ \A c \in Calls :
          /\ WF_vars(QueuedGetsLock(c))
          /\ WF_vars(RefusedEnds(c))
          /\ WF_vars(WakesCancelled(c) \/ WakesWithWinner(c)
                        \/ WakesWithoutWinner(c))
          /\ WF_vars(GraceEnds(c) \/ LosersDropped(c))
          /\ WF_vars(CancelAttempt(c) \/ CancelSchedule(c) \/ CallEnds(c))
          /\ \A p \in Providers : WF_vars(AttemptEnds(c, p))
          /\ \A p \in Fallbacks : WF_vars(ScheduleEnds(c, p))
    /\ WF_vars(CloseEnds)

-----------------------------------------------------------------------------
(* Properties.                                                              *)

\* Every variable stays in its type.
TypeOK ==
    /\ phase \in [Calls -> Phases]
    /\ att \in [Calls -> [Providers -> Attempts]]
    /\ sched \in [Calls -> [Fallbacks -> Schedules]]
    /\ starting \in [Calls -> SUBSET Providers]
    /\ ending \in [Calls -> Ends]
    /\ outcome \in [Calls -> Ends]
    /\ asked \subseteq Calls
    /\ lock \in Calls \cup {Nobody}
    /\ closing \in {"open", "closing", "closed"}

\* Once the providers are closed, no attempt runs on one of them but that of a
\* call that began it too late: it waits for the lock to cancel it, or its
\* caller has cancelled it while it waited.  No other attempt is ever missed.
OnlyRefusedAfterClose ==
    closing = "closed" => \A c \in Calls, p \in Providers :
        Running(c, p) => /\ p \in starting[c]
                         /\ phase[c] \in {"queued", "refused"} \/ c \in asked

\* A call that has returned leaves no schedule behind, and no attempt but one
\* its caller abandoned: the call was cancelled while it waited for the lock.
OnlyAbandonedOutlives ==
    \A c \in Calls : phase[c] = "done" =>
        /\ \A p \in Providers :
              Running(c, p) => p \in starting[c] /\ c \in asked
        /\ \A p \in Fallbacks : ~SchedulePending(c, p)

\* What provider p has said to call c.
Answer(c, p) ==
    CASE att[c][p] = "answered" -> "ok"
      [] att[c][p] \in {"failed", "lost"} -> "failed"
      [] OTHER -> "none"

\* What translate promises its caller: see TranslationCall.
Promise == INSTANCE TranslationCall WITH
    answer <- [c \in Calls |-> [p \in Providers |-> Answer(c, p)]],
    closed <- closing # "open"

\* A call returns a translation only if a provider gave one, an error only
\* if every provider was asked and failed or close interrupted it, and a
\* cancellation only if its caller or close asked for it; and it ends once.
KeepsPromise == Promise!Spec

\* Every call ends, and so does close, whatever they wait for: an answer, a
\* loser, a schedule, or the lock behind the attempt of another call.
EveryCallEnds ==
    /\ \A c \in Calls : phase[c] # "new" ~> phase[c] = "done"
    /\ closing = "closing" ~> closing = "closed"

=============================================================================
