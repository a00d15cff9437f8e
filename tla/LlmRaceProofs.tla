---------------------------- MODULE LlmRaceProofs ----------------------------
(***************************************************************************)
(* Proofs about LlmRace: type correctness, which attempts can still run    *)
(* once the providers are closed or their call has returned, and that the  *)
(* race implements TranslationCall, for any calls and number of attempts.  *)
(*                                                                         *)
(* A step concerns one call; the inductive invariant is therefore a        *)
(* property CallOK of each call, and Assemble derives it for all of them.  *)
(***************************************************************************)
EXTENDS LlmRace, TLAPS

\* A call that has started no attempt yet, or starts one on a closed provider.
Beginning(c) ==
    /\ phase[c] \in {"new", "racing"} => starting[c] = {}
    /\ phase[c] = "new" => \A p \in Providers : att[c][p] = "no"
    /\ phase[c] \in {"queued", "refused"} => closing # "open"

\* Who was asked: the first at once, each other when its schedule was taken.
AskedInTurn(c) ==
    /\ phase[c] = "racing" => att[c][0] # "no"
    /\ \A p \in Fallbacks :
          /\ sched[c][p] # "ended" => att[c][p] = "no"
          /\ closing = "open" /\ sched[c][p] = "ended" => att[c][p] # "no"
          /\ closing = "open" /\ phase[c] = "racing" =>
                sched[c][p] \in {"waiting", "due", "ended"}

\* How a call ends is accounted for, and decided before it does.
EndAccounted(c) ==
    /\ ending[c] # "error"
    /\ phase[c] \in {"grace", "dropping", "cleaning"} => ending[c] # "none"
    /\ ending[c] = "result" => \E p \in Providers : att[c][p] = "answered"
    /\ ending[c] = "cancelled" => c \in asked \/ closing # "open"
    /\ phase[c] # "done" => outcome[c] = "none"

\* While the race is on, only close cancels attempts.
CancelledByClose(c) ==
    phase[c] \in {"racing", "grace"} /\ closing = "open" =>
        \A p \in Providers : att[c][p] \notin {"cancelling", "cancelled"}

\* An attempt that is not tracked ends before its call, unless the caller
\* cancelled the call while it waited for the lock.
RefusedIsCancelled(c) == \A p \in starting[c] :
    /\ Running(c, p) => phase[c] \in {"queued", "refused"} \/ c \in asked
    /\ phase[c] = "refused" => att[c][p] # "running"

QuietWhenClosed(c) ==
    closing = "closed" => \A p \in Providers : ~Pending(c, p)

QuietWhenDone(c) ==
    phase[c] = "done" => /\ \A p \in Providers : ~Pending(c, p)
                         /\ \A p \in Fallbacks : ~SchedulePending(c, p)

CallOK(c) ==
    /\ Beginning(c) /\ AskedInTurn(c) /\ EndAccounted(c)
    /\ CancelledByClose(c) /\ RefusedIsCancelled(c)
    /\ QuietWhenClosed(c) /\ QuietWhenDone(c)

IInv == TypeOK /\ \A c \in Calls : CallOK(c)

-----------------------------------------------------------------------------
LEMMA Names ==
    /\ 0 \in Providers
    /\ \A p \in Fallbacks : p \in Providers /\ p # 0
    /\ \A p \in Providers : p = 0 \/ p \in Fallbacks
    /\ \A c \in Calls : c # Nobody
BY RaceAssumption, CallsAreNamed DEF Providers, Fallbacks

\* The other calls are as they were.
Others(c) ==
    /\ asked \subseteq asked' /\ closing' = closing
    /\ \A d \in Calls \ {c} :
          /\ phase'[d] = phase[d] /\ att'[d] = att[d] /\ sched'[d] = sched[d]
          /\ starting'[d] = starting[d] /\ ending'[d] = ending[d]
          /\ outcome'[d] = outcome[d]

LEMMA OtherOK ==
    ASSUME NEW c, NEW d \in Calls \ {c}, Others(c), CallOK(d)
    PROVE  CallOK(d)'
BY DEF Others, CallOK, Beginning, AskedInTurn, EndAccounted, CancelledByClose,
       RefusedIsCancelled, QuietWhenClosed, QuietWhenDone, Pending, Running,
       SchedulePending

LEMMA Assemble ==
    ASSUME IInv, NEW c \in Calls, TypeOK', Others(c), CallOK(c)'
    PROVE  IInv'
<1>1. ASSUME NEW d \in Calls PROVE CallOK(d)'
  <2>1. CASE d = c BY <2>1
  <2>2. CASE d # c
    <3>1. CallOK(d) BY DEF IInv
    <3> QED BY <2>2, <3>1, OtherOK
  <2> QED BY <2>1, <2>2
<1> QED BY <1>1 DEF IInv

LEMMA Put ==
    ASSUME NEW S, NEW T, NEW f \in [S -> T], NEW x \in S, NEW v \in T
    PROVE  [f EXCEPT ![x] = v] \in [S -> T]
OBVIOUS

USE DEF Phases, Attempts, Schedules, Ends, Running

LEMMA PutAttempt ==
    ASSUME TypeOK, NEW c \in Calls, NEW p \in Providers, NEW v \in Attempts,
           att' = [att EXCEPT ![c] = [att[c] EXCEPT ![p] = v]]
    PROVE  att' \in [Calls -> [Providers -> Attempts]]
<1>1. att[c] \in [Providers -> Attempts] BY DEF TypeOK
<1>2. [att[c] EXCEPT ![p] = v] \in [Providers -> Attempts] BY <1>1, Put
<1> QED BY <1>2, Put DEF TypeOK

LEMMA PutSchedule ==
    ASSUME TypeOK, NEW c \in Calls, NEW p \in Fallbacks, NEW v \in Schedules,
           sched' = [sched EXCEPT ![c] = [sched[c] EXCEPT ![p] = v]]
    PROVE  sched' \in [Calls -> [Fallbacks -> Schedules]]
<1>1. sched[c] \in [Fallbacks -> Schedules] BY DEF TypeOK
<1>2. [sched[c] EXCEPT ![p] = v] \in [Fallbacks -> Schedules] BY <1>1, Put
<1> QED BY <1>2, Put DEF TypeOK

-----------------------------------------------------------------------------
\* One lemma per action.  Each first types the arrays the action writes, then
\* shows that the other calls are untouched and that its own call stays CallOK.
LEMMA AttemptEndsKeeps ==
    ASSUME IInv, NEW c \in Calls, NEW p \in Providers, AttemptEnds(c, p)
    PROVE  IInv'
<1>0. TypeOK /\ CallOK(c) BY DEF IInv
<1>a. PICK v \in Attempts : att' = [att EXCEPT ![c] = [att[c] EXCEPT ![p] = v]]
  BY DEF AttemptEnds
<1>b. att' \in [Calls -> [Providers -> Attempts]] BY <1>0, <1>a, PutAttempt
<1>1. TypeOK' BY <1>0, <1>b DEF TypeOK, AttemptEnds
<1>2. Others(c) BY <1>0 DEF TypeOK, AttemptEnds, Others
<1>4. Beginning(c)' BY <1>0, Names DEF TypeOK, AttemptEnds, CallOK, Beginning
<1>5. AskedInTurn(c)'
  BY <1>0, Names DEF TypeOK, AttemptEnds, CallOK, AskedInTurn, Beginning
<1>6. EndAccounted(c)'
  BY <1>0, Names DEF TypeOK, AttemptEnds, CallOK, EndAccounted,
     CancelledByClose, Beginning
<1>7. CancelledByClose(c)'
  BY <1>0, Names DEF TypeOK, AttemptEnds, CallOK, CancelledByClose, Beginning
<1>8. QuietWhenClosed(c)' /\ QuietWhenDone(c)'
  BY <1>0, Names DEF TypeOK, AttemptEnds, CallOK, Beginning, QuietWhenClosed,
     QuietWhenDone, Pending, SchedulePending
<1>9. RefusedIsCancelled(c)'
  BY <1>0, Names DEF TypeOK, AttemptEnds, CallOK, Beginning,
     RefusedIsCancelled
<1>10. CallOK(c)' BY <1>4, <1>5, <1>6, <1>7, <1>8, <1>9 DEF CallOK
<1> QED BY <1>1, <1>2, <1>10, Assemble

LEMMA ScheduleEndsKeeps ==
    ASSUME IInv, NEW c \in Calls, NEW p \in Fallbacks, ScheduleEnds(c, p)
    PROVE  IInv'
<1>0. TypeOK /\ CallOK(c) BY DEF IInv
<1>a. PICK v \in Schedules : sched' = [sched EXCEPT ![c] = [sched[c] EXCEPT ![p] = v]]
  BY DEF ScheduleEnds
<1>b. sched' \in [Calls -> [Fallbacks -> Schedules]] BY <1>0, <1>a, PutSchedule
<1>1. TypeOK' BY <1>0, <1>b DEF TypeOK, ScheduleEnds
<1>2. Others(c) BY <1>0 DEF TypeOK, ScheduleEnds, Others
<1>4. Beginning(c)' BY <1>0, Names DEF TypeOK, ScheduleEnds, CallOK, Beginning
<1>5. AskedInTurn(c)'
  BY <1>0, Names DEF TypeOK, ScheduleEnds, CallOK, AskedInTurn, Beginning
<1>6. EndAccounted(c)'
  BY <1>0, Names DEF TypeOK, ScheduleEnds, CallOK, EndAccounted,
     CancelledByClose, Beginning
<1>7. CancelledByClose(c)'
  BY <1>0, Names DEF TypeOK, ScheduleEnds, CallOK, CancelledByClose, Beginning
<1>8. QuietWhenClosed(c)' /\ QuietWhenDone(c)'
  BY <1>0, Names DEF TypeOK, ScheduleEnds, CallOK, Beginning, QuietWhenClosed,
     QuietWhenDone, Pending, SchedulePending
<1>9. RefusedIsCancelled(c)'
  BY <1>0, Names DEF TypeOK, ScheduleEnds, CallOK, Beginning,
     RefusedIsCancelled
<1>10. CallOK(c)' BY <1>4, <1>5, <1>6, <1>7, <1>8, <1>9 DEF CallOK
<1> QED BY <1>1, <1>2, <1>10, Assemble

LEMMA QueuedGetsLockKeeps ==
    ASSUME IInv, NEW c \in Calls, QueuedGetsLock(c)
    PROVE  IInv'
<1>0. TypeOK /\ CallOK(c) BY DEF IInv
<1>1. TypeOK' BY <1>0, Put, Names DEF TypeOK, QueuedGetsLock
<1>2. Others(c) BY <1>0 DEF TypeOK, QueuedGetsLock, Others
<1>4. Beginning(c)' BY <1>0, Names DEF TypeOK, QueuedGetsLock, CallOK, Beginning
<1>5. AskedInTurn(c)'
  BY <1>0, Names DEF TypeOK, QueuedGetsLock, CallOK, AskedInTurn, Beginning
<1>6. EndAccounted(c)'
  BY <1>0, Names DEF TypeOK, QueuedGetsLock, CallOK, EndAccounted,
     CancelledByClose, Beginning
<1>7. CancelledByClose(c)'
  BY <1>0, Names DEF TypeOK, QueuedGetsLock, CallOK, CancelledByClose, Beginning
<1>8. QuietWhenClosed(c)' /\ QuietWhenDone(c)'
  BY <1>0, Names DEF TypeOK, QueuedGetsLock, CallOK, Beginning,
     QuietWhenClosed, QuietWhenDone, Pending, SchedulePending
<1>9. RefusedIsCancelled(c)'
  BY <1>0, Names DEF TypeOK, QueuedGetsLock, CallOK, Beginning,
     RefusedIsCancelled
<1>10. CallOK(c)' BY <1>4, <1>5, <1>6, <1>7, <1>8, <1>9 DEF CallOK
<1> QED BY <1>1, <1>2, <1>10, Assemble

LEMMA RefusedEndsKeeps ==
    ASSUME IInv, NEW c \in Calls, RefusedEnds(c)
    PROVE  IInv'
<1>0. TypeOK /\ CallOK(c) BY DEF IInv
<1>1. TypeOK' BY <1>0, Put, Names DEF TypeOK, RefusedEnds
<1>2. Others(c) BY <1>0 DEF TypeOK, RefusedEnds, Others
<1>4. Beginning(c)' BY <1>0, Names DEF TypeOK, RefusedEnds, CallOK, Beginning
<1>5. AskedInTurn(c)'
  BY <1>0, Names DEF TypeOK, RefusedEnds, CallOK, AskedInTurn, Beginning
<1>6. EndAccounted(c)'
  BY <1>0, Names DEF TypeOK, RefusedEnds, CallOK, EndAccounted,
     CancelledByClose, Beginning
<1>7. CancelledByClose(c)'
  BY <1>0, Names DEF TypeOK, RefusedEnds, CallOK, CancelledByClose, Beginning
<1>8. QuietWhenClosed(c)' /\ QuietWhenDone(c)'
  BY <1>0, Names DEF TypeOK, RefusedEnds, CallOK, Beginning, QuietWhenClosed,
     QuietWhenDone, Pending, SchedulePending
<1>9. RefusedIsCancelled(c)'
  BY <1>0, Names DEF TypeOK, RefusedEnds, CallOK, Beginning,
     RefusedIsCancelled
<1>10. CallOK(c)' BY <1>4, <1>5, <1>6, <1>7, <1>8, <1>9 DEF CallOK
<1> QED BY <1>1, <1>2, <1>10, Assemble

LEMMA WakesCancelledKeeps ==
    ASSUME IInv, NEW c \in Calls, WakesCancelled(c)
    PROVE  IInv'
<1>0. TypeOK /\ CallOK(c) BY DEF IInv
<1>1. TypeOK' BY <1>0, Put, Names DEF TypeOK, WakesCancelled, Some
<1>2. Others(c) BY <1>0 DEF TypeOK, WakesCancelled, Some, Others
<1>4. Beginning(c)'
  BY <1>0, Names DEF TypeOK, WakesCancelled, Some, CallOK, Beginning
<1>5. AskedInTurn(c)'
  BY <1>0, Names DEF TypeOK, WakesCancelled, Some, CallOK, AskedInTurn,
     Beginning
<1>6. EndAccounted(c)'
  BY <1>0, Names DEF TypeOK, WakesCancelled, Some, CallOK, EndAccounted,
     CancelledByClose, Beginning
<1>7. CancelledByClose(c)'
  BY <1>0, Names DEF TypeOK, WakesCancelled, Some, CallOK, CancelledByClose,
     Beginning
<1>8. QuietWhenClosed(c)' /\ QuietWhenDone(c)'
  BY <1>0, Names DEF TypeOK, WakesCancelled, Some, CallOK, Beginning,
     QuietWhenClosed, QuietWhenDone, Pending, SchedulePending
<1>9. RefusedIsCancelled(c)'
  BY <1>0, Names DEF TypeOK, WakesCancelled, Some, CallOK, Beginning,
     RefusedIsCancelled
<1>10. CallOK(c)' BY <1>4, <1>5, <1>6, <1>7, <1>8, <1>9 DEF CallOK
<1> QED BY <1>1, <1>2, <1>10, Assemble

LEMMA WakesWithWinnerKeeps ==
    ASSUME IInv, NEW c \in Calls, WakesWithWinner(c)
    PROVE  IInv'
<1>0. TypeOK /\ CallOK(c) BY DEF IInv
<1>1. TypeOK' BY <1>0, Put, Names DEF TypeOK, WakesWithWinner, Some
<1>2. Others(c) BY <1>0 DEF TypeOK, WakesWithWinner, Some, Others
<1>4. Beginning(c)'
  BY <1>0, Names DEF TypeOK, WakesWithWinner, Some, CallOK, Beginning
<1>5. AskedInTurn(c)'
  BY <1>0, Names DEF TypeOK, WakesWithWinner, Some, CallOK, AskedInTurn,
     Beginning
<1>6. EndAccounted(c)'
  BY <1>0, Names DEF TypeOK, WakesWithWinner, Some, CallOK, EndAccounted,
     CancelledByClose, Beginning
<1>7. CancelledByClose(c)'
  BY <1>0, Names DEF TypeOK, WakesWithWinner, Some, CallOK, CancelledByClose,
     Beginning
<1>8. QuietWhenClosed(c)' /\ QuietWhenDone(c)'
  BY <1>0, Names DEF TypeOK, WakesWithWinner, Some, CallOK, Beginning,
     QuietWhenClosed, QuietWhenDone, Pending, SchedulePending
<1>9. RefusedIsCancelled(c)'
  BY <1>0, Names DEF TypeOK, WakesWithWinner, Some, CallOK, Beginning,
     RefusedIsCancelled
<1>10. CallOK(c)' BY <1>4, <1>5, <1>6, <1>7, <1>8, <1>9 DEF CallOK
<1> QED BY <1>1, <1>2, <1>10, Assemble

LEMMA GraceEndsKeeps ==
    ASSUME IInv, NEW c \in Calls, GraceEnds(c)
    PROVE  IInv'
<1>0. TypeOK /\ CallOK(c) BY DEF IInv
<1>1. TypeOK' BY <1>0, Put, Names DEF TypeOK, GraceEnds, Some
<1>2. Others(c) BY <1>0 DEF TypeOK, GraceEnds, Some, Others
<1>4. Beginning(c)'
  BY <1>0, Names DEF TypeOK, GraceEnds, Some, CallOK, Beginning
<1>5. AskedInTurn(c)'
  BY <1>0, Names DEF TypeOK, GraceEnds, Some, CallOK, AskedInTurn, Beginning
<1>6. EndAccounted(c)'
  BY <1>0, Names DEF TypeOK, GraceEnds, Some, CallOK, EndAccounted,
     CancelledByClose, Beginning
<1>7. CancelledByClose(c)'
  BY <1>0, Names DEF TypeOK, GraceEnds, Some, CallOK, CancelledByClose,
     Beginning
<1>8. QuietWhenClosed(c)' /\ QuietWhenDone(c)'
  BY <1>0, Names DEF TypeOK, GraceEnds, Some, CallOK, Beginning,
     QuietWhenClosed, QuietWhenDone, Pending, SchedulePending
<1>9. RefusedIsCancelled(c)'
  BY <1>0, Names DEF TypeOK, GraceEnds, Some, CallOK, Beginning,
     RefusedIsCancelled
<1>10. CallOK(c)' BY <1>4, <1>5, <1>6, <1>7, <1>8, <1>9 DEF CallOK
<1> QED BY <1>1, <1>2, <1>10, Assemble

LEMMA CancelAttemptKeeps ==
    ASSUME IInv, NEW c \in Calls, CancelAttempt(c)
    PROVE  IInv'
<1>0. TypeOK /\ CallOK(c) BY DEF IInv
<1>1. TypeOK'
  BY <1>0, Put, Names DEF TypeOK, CancelAttempt, Pending, SchedulePending
<1>2. Others(c)
  BY <1>0 DEF TypeOK, CancelAttempt, Pending, SchedulePending, Others
<1>4. Beginning(c)'
  BY <1>0, Names DEF TypeOK, CancelAttempt, Pending, SchedulePending, CallOK,
     Beginning
<1>5. AskedInTurn(c)'
  BY <1>0, Names DEF TypeOK, CancelAttempt, Pending, SchedulePending, CallOK,
     AskedInTurn, Beginning
<1>6. EndAccounted(c)'
  BY <1>0, Names DEF TypeOK, CancelAttempt, Pending, SchedulePending, CallOK,
     EndAccounted, CancelledByClose, Beginning
<1>7. CancelledByClose(c)'
  BY <1>0, Names DEF TypeOK, CancelAttempt, Pending, SchedulePending, CallOK,
     CancelledByClose, Beginning
<1>8. QuietWhenClosed(c)' /\ QuietWhenDone(c)'
  BY <1>0, Names DEF TypeOK, CancelAttempt, Pending, SchedulePending, CallOK,
     Beginning, QuietWhenClosed, QuietWhenDone, Pending, SchedulePending
<1>9. RefusedIsCancelled(c)'
  BY <1>0, Names DEF TypeOK, CancelAttempt, Pending, SchedulePending,
     CallOK, Beginning, RefusedIsCancelled
<1>10. CallOK(c)' BY <1>4, <1>5, <1>6, <1>7, <1>8, <1>9 DEF CallOK
<1> QED BY <1>1, <1>2, <1>10, Assemble

LEMMA CancelScheduleKeeps ==
    ASSUME IInv, NEW c \in Calls, CancelSchedule(c)
    PROVE  IInv'
<1>0. TypeOK /\ CallOK(c) BY DEF IInv
<1>1. TypeOK' BY <1>0, Put, Names DEF TypeOK, CancelSchedule
<1>2. Others(c) BY <1>0 DEF TypeOK, CancelSchedule, Others
<1>4. Beginning(c)' BY <1>0, Names DEF TypeOK, CancelSchedule, CallOK, Beginning
<1>5. AskedInTurn(c)'
  BY <1>0, Names DEF TypeOK, CancelSchedule, CallOK, AskedInTurn, Beginning
<1>6. EndAccounted(c)'
  BY <1>0, Names DEF TypeOK, CancelSchedule, CallOK, EndAccounted,
     CancelledByClose, Beginning
<1>7. CancelledByClose(c)'
  BY <1>0, Names DEF TypeOK, CancelSchedule, CallOK, CancelledByClose, Beginning
<1>8. QuietWhenClosed(c)' /\ QuietWhenDone(c)'
  BY <1>0, Names DEF TypeOK, CancelSchedule, CallOK, Beginning,
     QuietWhenClosed, QuietWhenDone, Pending, SchedulePending
<1>9. RefusedIsCancelled(c)'
  BY <1>0, Names DEF TypeOK, CancelSchedule, CallOK, Beginning,
     RefusedIsCancelled
<1>10. CallOK(c)' BY <1>4, <1>5, <1>6, <1>7, <1>8, <1>9 DEF CallOK
<1> QED BY <1>1, <1>2, <1>10, Assemble

LEMMA LosersDroppedKeeps ==
    ASSUME IInv, NEW c \in Calls, LosersDropped(c)
    PROVE  IInv'
<1>0. TypeOK /\ CallOK(c) BY DEF IInv
<1>1. TypeOK' BY <1>0, Put, Names DEF TypeOK, LosersDropped, Pending
<1>2. Others(c) BY <1>0 DEF TypeOK, LosersDropped, Pending, Others
<1>4. Beginning(c)'
  BY <1>0, Names DEF TypeOK, LosersDropped, Pending, CallOK, Beginning
<1>5. AskedInTurn(c)'
  BY <1>0, Names DEF TypeOK, LosersDropped, Pending, CallOK, AskedInTurn,
     Beginning
<1>6. EndAccounted(c)'
  BY <1>0, Names DEF TypeOK, LosersDropped, Pending, CallOK, EndAccounted,
     CancelledByClose, Beginning
<1>7. CancelledByClose(c)'
  BY <1>0, Names DEF TypeOK, LosersDropped, Pending, CallOK, CancelledByClose,
     Beginning
<1>8. QuietWhenClosed(c)' /\ QuietWhenDone(c)'
  BY <1>0, Names DEF TypeOK, LosersDropped, Pending, CallOK, Beginning,
     QuietWhenClosed, QuietWhenDone, Pending, SchedulePending
<1>9. RefusedIsCancelled(c)'
  BY <1>0, Names DEF TypeOK, LosersDropped, Pending, CallOK, Beginning,
     RefusedIsCancelled
<1>10. CallOK(c)' BY <1>4, <1>5, <1>6, <1>7, <1>8, <1>9 DEF CallOK
<1> QED BY <1>1, <1>2, <1>10, Assemble

LEMMA CallEndsKeeps ==
    ASSUME IInv, NEW c \in Calls, CallEnds(c)
    PROVE  IInv'
<1>0. TypeOK /\ CallOK(c) BY DEF IInv
<1>1. TypeOK' BY <1>0, Put, Names DEF TypeOK, CallEnds, Pending, SchedulePending
<1>2. Others(c) BY <1>0 DEF TypeOK, CallEnds, Pending, SchedulePending, Others
<1>4. Beginning(c)'
  BY <1>0, Names DEF TypeOK, CallEnds, Pending, SchedulePending, CallOK,
     Beginning
<1>5. AskedInTurn(c)'
  BY <1>0, Names DEF TypeOK, CallEnds, Pending, SchedulePending, CallOK,
     AskedInTurn, Beginning
<1>6. EndAccounted(c)'
  BY <1>0, Names DEF TypeOK, CallEnds, Pending, SchedulePending, CallOK,
     EndAccounted, CancelledByClose, Beginning
<1>7. CancelledByClose(c)'
  BY <1>0, Names DEF TypeOK, CallEnds, Pending, SchedulePending, CallOK,
     CancelledByClose, Beginning
<1>8. QuietWhenClosed(c)' /\ QuietWhenDone(c)'
  BY <1>0, Names DEF TypeOK, CallEnds, Pending, SchedulePending, CallOK,
     Beginning, QuietWhenClosed, QuietWhenDone, Pending, SchedulePending
<1>9. RefusedIsCancelled(c)'
  BY <1>0, Names DEF TypeOK, CallEnds, Pending, SchedulePending, CallOK,
     Beginning, RefusedIsCancelled
<1>10. CallOK(c)' BY <1>4, <1>5, <1>6, <1>7, <1>8, <1>9 DEF CallOK
<1> QED BY <1>1, <1>2, <1>10, Assemble

LEMMA CallerCancelsKeeps ==
    ASSUME IInv, NEW c \in Calls, CallerCancels(c)
    PROVE  IInv'
<1>0. TypeOK /\ CallOK(c) BY DEF IInv
<1>a. asked' \subseteq Calls BY <1>0 DEF TypeOK, CallerCancels
<1>b. phase' \in [Calls -> Phases] /\ ending' \in [Calls -> Ends]
  BY <1>0 DEF TypeOK, CallerCancels
<1>1. TypeOK' BY <1>0, <1>a, <1>b DEF TypeOK, CallerCancels
<1>2. Others(c) BY <1>0 DEF TypeOK, CallerCancels, Others
<1>4. Beginning(c)' BY <1>0, Names DEF TypeOK, CallerCancels, CallOK, Beginning
<1>5. AskedInTurn(c)'
  BY <1>0, Names DEF TypeOK, CallerCancels, CallOK, AskedInTurn, Beginning
<1>6. EndAccounted(c)'
  BY <1>0, Names DEF TypeOK, CallerCancels, CallOK, EndAccounted,
     CancelledByClose, Beginning
<1>7. CancelledByClose(c)'
  BY <1>0, Names DEF TypeOK, CallerCancels, CallOK, CancelledByClose, Beginning
<1>8. QuietWhenClosed(c)' /\ QuietWhenDone(c)'
  BY <1>0, Names DEF TypeOK, CallerCancels, CallOK, Beginning, QuietWhenClosed,
     QuietWhenDone, Pending, SchedulePending
<1>9. RefusedIsCancelled(c)'
  BY <1>0, Names DEF TypeOK, CallerCancels, CallOK, Beginning,
     RefusedIsCancelled
<1>10. CallOK(c)' BY <1>4, <1>5, <1>6, <1>7, <1>8, <1>9 DEF CallOK
<1> QED BY <1>1, <1>2, <1>10, Assemble

\* Attempts a and schedules s from which call c may turn to attempt p.
TurnsTo(c, p, a, s) ==
    /\ a \in [Providers -> Attempts] /\ s \in [Fallbacks -> Schedules]
    /\ a[p] = "no"
    /\ \A q \in Providers :
          /\ att[c][q] = "answered" => a[q] = "answered"
          /\ a[q] \in {"running", "cancelling"} => a[q] = att[c][q]
    /\ \A q \in Fallbacks : s[q] # "ended" => a[q] = "no" /\ q # p

\* Starting attempt p on a closed provider, from attempts a and schedules s.
LEMMA RefuseKeeps ==
    ASSUME IInv, NEW c \in Calls, NEW p \in Providers, NEW a, NEW s,
           closing # "open", phase[c] \in {"new", "racing"},
           TurnsTo(c, p, a, s),
           Refuse(c, p, a), sched' = [sched EXCEPT ![c] = s]
    PROVE  IInv'
<1> USE DEF TurnsTo
<1>0. TypeOK /\ CallOK(c) BY DEF IInv
<1>1. TypeOK'
  <2>1. [a EXCEPT ![p] = "cancelling"] \in [Providers -> Attempts] BY Put
  <2>2. [a EXCEPT ![p] = "running"] \in [Providers -> Attempts] BY Put
  <2>3. att' \in [Calls -> [Providers -> Attempts]]
    <3>1. PICK v \in [Providers -> Attempts] : att' = [att EXCEPT ![c] = v]
      BY <2>1, <2>2 DEF Refuse
    <3> QED BY <1>0, <3>1, Put DEF TypeOK
  <2>4. sched' \in [Calls -> [Fallbacks -> Schedules]] BY <1>0, Put DEF TypeOK
  <2>5. starting' \in [Calls -> SUBSET Providers]
    BY <1>0, Put DEF TypeOK, Refuse
  <2>6. phase' \in [Calls -> Phases] /\ lock' \in Calls \cup {Nobody}
    <3>1. \/ lock' = c /\ phase' = [phase EXCEPT ![c] = "refused"]
          \/ lock' = lock /\ phase' = [phase EXCEPT ![c] = "queued"]
      BY DEF Refuse
    <3> QED BY <1>0, <3>1 DEF TypeOK
  <2>7. UNCHANGED <<ending, outcome, asked, closing>> BY DEF Refuse
  <2> QED BY <1>0, <2>3, <2>4, <2>5, <2>6, <2>7 DEF TypeOK
<1>2. Others(c) BY <1>0 DEF TypeOK, Refuse, Others
<1>3. /\ phase'[c] \in {"queued", "refused"} /\ starting'[c] = {p}
      /\ closing' = closing /\ sched'[c] = s
      /\ \A q \in Providers : q # p => att'[c][q] = a[q]
      /\ att'[c][p] \in {"running", "cancelling"}
      /\ phase'[c] = "refused" => att'[c][p] = "cancelling"
  BY <1>0 DEF TypeOK, Refuse
<1>4. Beginning(c)' BY <1>3 DEF Beginning
<1>5. AskedInTurn(c)' BY <1>3, Names DEF AskedInTurn
<1>6. EndAccounted(c)'
  BY <1>0, <1>3 DEF TypeOK, Refuse, CallOK, EndAccounted
<1>7. CancelledByClose(c)' BY <1>3 DEF CancelledByClose
<1>8. QuietWhenClosed(c)'
  BY <1>0, <1>3 DEF CallOK, Beginning, QuietWhenClosed, Pending
<1>9. QuietWhenDone(c)' BY <1>3 DEF QuietWhenDone
<1>10. RefusedIsCancelled(c)' BY <1>3 DEF RefusedIsCancelled
<1>11. CallOK(c)' BY <1>4, <1>5, <1>6, <1>7, <1>8, <1>9, <1>10 DEF CallOK
<1> QED BY <1>1, <1>2, <1>11, Assemble

LEMMA TranslateKeeps ==
    ASSUME IInv, NEW c \in Calls, Translate(c)
    PROVE  IInv'
<1>0. TypeOK /\ CallOK(c) BY DEF IInv
<1>1. \A p \in Providers : att[c][p] = "no"
  BY <1>0 DEF CallOK, Beginning, Translate
<1>2. CASE closing = "open"
  <2>1. att' = [att EXCEPT ![c] = [att[c] EXCEPT ![0] = "running"]]
    BY <1>2 DEF Translate
  <2>2. att' \in [Calls -> [Providers -> Attempts]]
    BY <1>0, <2>1, Names, PutAttempt
  <2>3. sched' \in [Calls -> [Fallbacks -> Schedules]]
    <3>1. [p \in Fallbacks |-> "waiting"] \in [Fallbacks -> Schedules]
      OBVIOUS
    <3>2. sched' = [sched EXCEPT ![c] = [p \in Fallbacks |-> "waiting"]]
      BY <1>2 DEF Translate
    <3>3. sched \in [Calls -> [Fallbacks -> Schedules]] BY <1>0 DEF TypeOK
    <3> HIDE DEF Schedules
    <3> QED BY <3>1, <3>2, <3>3, Put
  <2>4. TypeOK' BY <1>0, <1>2, <2>2, <2>3 DEF TypeOK, Translate
  <2>5. Others(c) BY <1>0, <1>2 DEF TypeOK, Translate, Others
  <2>6. /\ att'[c][0] = "running"
        /\ \A p \in Fallbacks : att'[c][p] = "no" /\ sched'[c][p] = "waiting"
        /\ \A p \in Providers : att'[c][p] \in {"no", "running"}
        /\ phase'[c] = "racing" /\ closing' = "open"
    BY <1>0, <1>1, <1>2, <2>1, Names DEF TypeOK, Translate
  <2>7. Beginning(c)' /\ EndAccounted(c)'
    BY <1>0, <1>1, <1>2, <2>6 DEF TypeOK, Translate, CallOK, Beginning,
       EndAccounted
  <2>8. AskedInTurn(c)' /\ CancelledByClose(c)' /\ QuietWhenClosed(c)' /\ QuietWhenDone(c)'
    BY <2>6 DEF AskedInTurn, CancelledByClose, QuietWhenClosed, QuietWhenDone
  <2>9. RefusedIsCancelled(c)'
    BY <1>0, <1>2 DEF Translate, CallOK, Beginning, RefusedIsCancelled
  <2>10. CallOK(c)' BY <2>7, <2>8, <2>9 DEF CallOK
  <2> QED BY <2>4, <2>5, <2>10, Assemble
<1>3. CASE closing # "open"
  <2>1. Refuse(c, 0, att[c]) /\ sched' = [sched EXCEPT ![c] = sched[c]]
    BY <1>0, <1>3 DEF Translate, TypeOK
  <2>2. att[c] \in [Providers -> Attempts] /\ sched[c] \in [Fallbacks -> Schedules]
    BY <1>0 DEF TypeOK
  <2>3. \A q \in Fallbacks : sched[c][q] # "ended" => att[c][q] = "no" /\ q # 0
    BY <1>1, Names
  <2>4. phase[c] \in {"new", "racing"} BY DEF Translate
  <2>5. 0 \in Providers /\ att[c][0] = "no" BY <1>1, Names
  <2>6. TurnsTo(c, 0, att[c], sched[c]) BY <2>2, <2>3, <2>5 DEF TurnsTo
  <2> QED BY <1>3, <2>1, <2>4, <2>5, <2>6, RefuseKeeps
<1> QED BY <1>2, <1>3

LEMMA CapturedType ==
    ASSUME TypeOK, NEW c \in Calls
    PROVE  /\ Captured(c) \in [Providers -> Attempts]
           /\ SchedulesTaken(c) \in [Fallbacks -> Schedules]
BY DEF TypeOK, Captured, SchedulesTaken

LEMMA WakesWithoutWinnerKeeps ==
    ASSUME IInv, NEW c \in Calls, WakesWithoutWinner(c)
    PROVE  IInv'
<1> DEFINE a == [p \in Providers |-> IF p \in Due(c) THEN "running"
                                     ELSE Captured(c)[p]]
           s == SchedulesTaken(c)
           over == NothingActive(a, s)
<1>0. TypeOK /\ CallOK(c) /\ phase[c] = "racing"
  BY DEF IInv, WakesWithoutWinner
<1>1. \A p \in Providers : att[c][p] \notin {"cancelled", "answered"}
  BY DEF WakesWithoutWinner, Some
<1>2. CASE GoesOn(c) /\ (closing = "open" \/ Due(c) = {})
  <2>0. a \in [Providers -> Attempts] /\ s \in [Fallbacks -> Schedules]
    BY <1>0, CapturedType
  <2>1. /\ att' = [att EXCEPT ![c] = a] /\ sched' = [sched EXCEPT ![c] = s]
        /\ phase' = [phase EXCEPT ![c] = IF over THEN "done" ELSE "racing"]
        /\ outcome' = [outcome EXCEPT ![c] = IF over THEN "error" ELSE @]
        /\ UNCHANGED <<starting, ending, asked, lock, closing>>
    BY <1>2 DEF GoesOn
  <2>2. \A p \in Providers : a[p] = IF p \in Due(c) THEN "running"
                             ELSE IF att[c][p] = "failed" THEN "lost" ELSE att[c][p]
    BY DEF Captured
  <2>3. \A p \in Fallbacks : s[p] = IF sched[c][p] \in {"due", "cancelled"}
                                    THEN "ended" ELSE sched[c][p]
    BY DEF SchedulesTaken
  <2>4. \A p \in Fallbacks : p \in Due(c) <=> sched[c][p] = "due"
    BY DEF Due
  <2>5. 0 \notin Due(c) BY Names DEF Due
  <2> HIDE DEF a, s
  <2>6. TypeOK' BY <1>0, <2>0, <2>1, Put DEF TypeOK
  <2>7. Others(c) BY <1>0, <2>1 DEF TypeOK, Others
  <2>8. /\ att'[c] = a /\ sched'[c] = s /\ starting'[c] = {}
        /\ phase'[c] \in {"racing", "done"} /\ closing' = closing
        /\ phase'[c] = "done" => over
        /\ ending'[c] = ending[c] /\ asked' = asked
    BY <1>0, <2>1 DEF TypeOK, CallOK, Beginning
  <2>9. Beginning(c)' BY <2>8 DEF Beginning
  <2>10. AskedInTurn(c)'
    <3>1. a[0] # "no"
      BY <1>0, <2>2, <2>5, Names DEF CallOK, AskedInTurn
    <3>2. ASSUME NEW p \in Fallbacks
          PROVE  /\ s[p] # "ended" => a[p] = "no"
                 /\ closing = "open" /\ s[p] = "ended" => a[p] # "no"
                 /\ closing = "open" => s[p] \in {"waiting", "due", "ended"}
      BY <1>0, <1>2, <2>2, <2>3, <2>4, Names DEF CallOK, AskedInTurn
    <3> QED BY <2>8, <3>1, <3>2 DEF AskedInTurn
  <2>11. EndAccounted(c)'
    BY <1>0, <1>1, <2>1, <2>8 DEF TypeOK, CallOK, EndAccounted
  <2>12. CancelledByClose(c)'
    BY <1>0, <2>2, <2>8 DEF CallOK, CancelledByClose
  <2>13. QuietWhenClosed(c)'
    BY <1>0, <1>2, <2>2, <2>8 DEF CallOK, Beginning, QuietWhenClosed, Pending
  <2>14. QuietWhenDone(c)'
    BY <2>8 DEF QuietWhenDone, Pending, SchedulePending, NothingActive
  <2>15. RefusedIsCancelled(c)' BY <2>8 DEF RefusedIsCancelled
  <2>16. CallOK(c)'
    BY <2>9, <2>10, <2>11, <2>12, <2>13, <2>14, <2>15 DEF CallOK
  <2> QED BY <2>6, <2>7, <2>16, Assemble
<1>3. CASE /\ closing # "open"
           /\ \E p \in Due(c) : Refuse(c, p, Captured(c))
           /\ sched' = [sched EXCEPT ![c] = s]
  <2>1. PICK p \in Due(c) : Refuse(c, p, Captured(c)) BY <1>3
  <2>2. p \in Fallbacks /\ sched[c][p] = "due" BY <2>1 DEF Due
  <2>3. \A q \in Providers : Captured(c)[q] =
            IF att[c][q] = "failed" THEN "lost" ELSE att[c][q]
    BY DEF Captured
  <2>4. \A q \in Fallbacks : s[q] # "ended" => sched[c][q] \notin {"due", "ended"}
    BY DEF SchedulesTaken
  <2>5. \A q \in Fallbacks : sched[c][q] # "ended" => att[c][q] = "no"
    BY <1>0 DEF CallOK, AskedInTurn
  <2>6. /\ Captured(c)[p] = "no"
        /\ \A q \in Fallbacks : s[q] # "ended" => Captured(c)[q] = "no" /\ q # p
    BY <2>2, <2>3, <2>4, <2>5, Names
  <2>7. Captured(c) \in [Providers -> Attempts] /\ s \in [Fallbacks -> Schedules]
    BY <1>0, CapturedType
  <2>8. \A q \in Providers :
            /\ att[c][q] = "answered" => Captured(c)[q] = "answered"
            /\ Captured(c)[q] \in {"running", "cancelling"} => Captured(c)[q] = att[c][q]
    BY <2>3
  <2>9. p \in Providers /\ phase[c] \in {"new", "racing"} BY <1>0, <2>2, Names
  <2> HIDE DEF s
  <2>10. TurnsTo(c, p, Captured(c), s) BY <2>6, <2>7, <2>8 DEF TurnsTo
  <2> QED BY <1>3, <2>1, <2>9, <2>10, RefuseKeeps
<1> QED BY <1>2, <1>3 DEF WakesWithoutWinner

\* close() concerns every call at once.
LEMMA CloseBeginsKeeps ==
    ASSUME IInv, CloseBegins
    PROVE  IInv'
<1>0. TypeOK /\ \A c \in Calls : CallOK(c) BY DEF IInv
<1>1. att' \in [Calls -> [Providers -> Attempts]]
  BY <1>0 DEF TypeOK, CloseBegins
<1>2. sched' \in [Calls -> [Fallbacks -> Schedules]]
  BY <1>0 DEF TypeOK, CloseBegins
<1>3. TypeOK' BY <1>0, <1>1, <1>2 DEF TypeOK, CloseBegins
<1>4. ASSUME NEW c \in Calls PROVE CallOK(c)'
  <2>1. \A p \in Providers :
            att'[c][p] = IF Pending(c, p) THEN "cancelling" ELSE att[c][p]
    BY DEF CloseBegins
  <2>2. \A p \in Fallbacks :
            sched'[c][p] = IF SchedulePending(c, p) THEN "cancelling" ELSE sched[c][p]
    BY DEF CloseBegins
  <2>3. /\ closing' = "closing"
        /\ UNCHANGED <<phase, starting, ending, outcome, asked, lock>>
    BY DEF CloseBegins
  <2>4. Beginning(c)'
    BY <1>0, <2>1, <2>3 DEF CallOK, Beginning, Pending
  <2>5. AskedInTurn(c)'
    BY <1>0, <2>1, <2>2, <2>3, Names DEF CallOK, AskedInTurn, Pending,
       SchedulePending
  <2>6. EndAccounted(c)'
    BY <1>0, <2>1, <2>3 DEF CallOK, EndAccounted, Pending
  <2>7. CancelledByClose(c)' /\ QuietWhenClosed(c)'
    BY <2>3 DEF CancelledByClose, QuietWhenClosed
  <2>8. QuietWhenDone(c)'
    BY <1>0, <2>1, <2>2, <2>3 DEF CallOK, QuietWhenDone, Pending,
       SchedulePending
  <2>9. RefusedIsCancelled(c)'
    BY <1>0, <2>1, <2>3 DEF TypeOK, CallOK, RefusedIsCancelled, Pending
  <2> QED BY <2>4, <2>5, <2>6, <2>7, <2>8, <2>9 DEF CallOK
<1> QED BY <1>3, <1>4 DEF IInv

LEMMA CloseEndsKeeps ==
    ASSUME IInv, CloseEnds
    PROVE  IInv'
<1>1. TypeOK' BY DEF IInv, TypeOK, CloseEnds
<1>2. ASSUME NEW c \in Calls PROVE CallOK(c)'
  BY DEF IInv, CloseEnds, CallOK, Beginning, AskedInTurn, EndAccounted,
         CancelledByClose, RefusedIsCancelled, QuietWhenClosed, QuietWhenDone, Pending,
         SchedulePending
<1> QED BY <1>1, <1>2 DEF IInv

LEMMA InitHolds == Init => IInv
<1> SUFFICES ASSUME Init PROVE IInv
  OBVIOUS
<1>1. TypeOK BY DEF Init, TypeOK
<1>2. ASSUME NEW c \in Calls PROVE CallOK(c)
  BY Names DEF Init, CallOK, Beginning, AskedInTurn, EndAccounted,
     CancelledByClose, RefusedIsCancelled, QuietWhenClosed, QuietWhenDone,
     Pending, SchedulePending
<1> QED BY <1>1, <1>2 DEF IInv

LEMMA StutterKeeps == ASSUME IInv, UNCHANGED vars PROVE IInv'
<1>1. TypeOK' BY DEF IInv, TypeOK, vars
<1>2. ASSUME NEW c \in Calls PROVE CallOK(c)'
  BY DEF vars, IInv, CallOK, Beginning, AskedInTurn, EndAccounted,
         CancelledByClose, RefusedIsCancelled, QuietWhenClosed, QuietWhenDone, Pending,
         SchedulePending
<1> QED BY <1>1, <1>2 DEF IInv

LEMMA NextKeeps == IInv /\ [Next]_vars => IInv'
<1> SUFFICES ASSUME IInv, [Next]_vars PROVE IInv'
  OBVIOUS
<1>1. CASE UNCHANGED vars BY <1>1, StutterKeeps
<1>2. CASE CloseBegins BY <1>2, CloseBeginsKeeps
<1>3. CASE CloseEnds BY <1>3, CloseEndsKeeps
<1>4. ASSUME NEW c \in Calls,
             \/ Translate(c) \/ QueuedGetsLock(c) \/ RefusedEnds(c)
             \/ WakesCancelled(c) \/ WakesWithWinner(c) \/ WakesWithoutWinner(c)
             \/ GraceEnds(c) \/ CancelAttempt(c) \/ CancelSchedule(c)
             \/ LosersDropped(c) \/ CallEnds(c) \/ CallerCancels(c)
      PROVE  IInv'
  BY <1>4, TranslateKeeps, QueuedGetsLockKeeps, RefusedEndsKeeps,
     WakesCancelledKeeps, WakesWithWinnerKeeps, WakesWithoutWinnerKeeps,
     GraceEndsKeeps, CancelAttemptKeeps, CancelScheduleKeeps,
     LosersDroppedKeeps,
     CallEndsKeeps, CallerCancelsKeeps
<1>5. ASSUME NEW c \in Calls, NEW p \in Providers, AttemptEnds(c, p) PROVE IInv'
  BY <1>5, AttemptEndsKeeps
<1>6. ASSUME NEW c \in Calls, NEW p \in Fallbacks, ScheduleEnds(c, p) PROVE IInv'
  BY <1>6, ScheduleEndsKeeps
<1> QED BY <1>1, <1>2, <1>3, <1>4, <1>5, <1>6 DEF Next

LEMMA Inductive == Spec => []IInv
BY InitHolds, NextKeeps, PTL DEF Spec

\* Every variable of a race stays in its type, for any calls and providers.
THEOREM TypeCorrect == Spec => []TypeOK
<1>1. IInv => TypeOK BY DEF IInv
<1> QED BY <1>1, Inductive, PTL

\* Once close has closed the providers (lines 211-230), nothing runs on them
\* but the attempts of calls that came too late and wait for the lock (314-315).
THEOREM OnlyRefusedAskedAfterClose == Spec => []OnlyRefusedAfterClose
<1>1. IInv => OnlyRefusedAfterClose
  BY DEF IInv, CallOK, QuietWhenClosed, RefusedIsCancelled, Pending,
         OnlyRefusedAfterClose
<1> QED BY <1>1, Inductive, PTL

\* translate returns when its attempts and schedules have ended (205-209), or
\* when its caller has cancelled it at the lock (315), its attempt untracked.
THEOREM CallsCleanUp == Spec => []OnlyAbandonedOutlives
<1>1. IInv => OnlyAbandonedOutlives
  BY DEF IInv, CallOK, QuietWhenDone, RefusedIsCancelled, Pending,
         OnlyAbandonedOutlives
<1> QED BY <1>1, Inductive, PTL

-----------------------------------------------------------------------------
(* The race implements TranslationCall.                                     *)

LEMMA StepStays ==
    ASSUME \A c \in Calls, p \in Providers : Answer(c, p)' = Answer(c, p),
           asked' = asked, (closing # "open") = (closing' # "open"),
           outcome' = outcome
    PROVE  UNCHANGED Promise!vars
BY DEF Promise!vars

\* Steps of call c that neither end it nor change what it was answered.
LEMMA QuietStep ==
    ASSUME IInv, NEW c \in Calls,
           \/ Translate(c) \/ QueuedGetsLock(c) \/ RefusedEnds(c)
           \/ WakesCancelled(c) \/ WakesWithWinner(c) \/ GraceEnds(c)
           \/ CancelAttempt(c) \/ CancelSchedule(c) \/ LosersDropped(c)
    PROVE  UNCHANGED Promise!vars
<1>0. att \in [Calls -> [Providers -> Attempts]] BY DEF IInv, TypeOK
<1>1. asked' = asked /\ closing' = closing /\ outcome' = outcome
  BY DEF Translate, Refuse, QueuedGetsLock, RefusedEnds, WakesCancelled,
         WakesWithWinner, GraceEnds, CancelAttempt, CancelSchedule,
         LosersDropped
<1>2. CASE Translate(c)
  <2>1. \A p \in Providers : att[c][p] = "no"
    BY <1>2 DEF IInv, CallOK, Beginning, Translate
  <2>2. ASSUME NEW d \in Calls, NEW p \in Providers
        PROVE  att'[d][p] = att[d][p]
                  \/ (att[d][p] = "no" /\ att'[d][p] \in {"running", "cancelling"})
    <3>1. PICK v \in {"running", "cancelling"} :
              att' = [att EXCEPT ![c] = [att[c] EXCEPT ![0] = v]]
      BY <1>2 DEF Translate, Refuse
    <3>2. att'[c] = [att[c] EXCEPT ![0] = v] BY <1>0, <3>1
    <3>3. d # c => att'[d] = att[d] BY <1>0, <3>1
    <3>4. att[c] \in [Providers -> Attempts] BY <1>0
    <3> QED BY <2>1, <3>1, <3>2, <3>3, <3>4
  <2>3. \A d \in Calls, p \in Providers : Answer(d, p)' = Answer(d, p)
    BY <2>2 DEF Answer
  <2> QED BY <1>1, <2>3, StepStays
<1>3. CASE QueuedGetsLock(c)
  <2>1. ASSUME NEW d \in Calls, NEW p \in Providers
        PROVE  att'[d][p] = att[d][p]
                  \/ (att[d][p] = "running" /\ att'[d][p] = "cancelling")
    <3>1. att' = [att EXCEPT ![c] = [q \in Providers |->
              IF q \in starting[c] /\ att[c][q] = "running" THEN "cancelling"
              ELSE att[c][q]]]
      BY <1>0, <1>3 DEF QueuedGetsLock
    <3>2. /\ \A q \in Providers : att'[c][q] =
                 IF q \in starting[c] /\ att[c][q] = "running" THEN "cancelling"
                 ELSE att[c][q]
          /\ d # c => att'[d] = att[d]
      BY <1>0, <3>1
    <3> QED BY <3>2
  <2>2. \A d \in Calls, p \in Providers : Answer(d, p)' = Answer(d, p)
    BY <2>1 DEF Answer
  <2> QED BY <1>1, <2>2, StepStays
<1>4. CASE CancelAttempt(c)
  <2>1. ASSUME NEW d \in Calls, NEW p \in Providers
        PROVE  att'[d][p] = att[d][p]
                  \/ (att[d][p] = "running" /\ att'[d][p] = "cancelling")
    <3>1. PICK q \in Providers : /\ att[c][q] = "running"
                                  /\ att' = [att EXCEPT ![c] =
                                         [att[c] EXCEPT ![q] = "cancelling"]]
      BY <1>4 DEF CancelAttempt, Pending
    <3>2. att'[c] = [att[c] EXCEPT ![q] = "cancelling"] BY <1>0, <3>1
    <3>3. d # c => att'[d] = att[d] BY <1>0, <3>1
    <3>4. att[c] \in [Providers -> Attempts] BY <1>0
    <3> QED BY <3>1, <3>2, <3>3, <3>4
  <2>2. \A d \in Calls, p \in Providers : Answer(d, p)' = Answer(d, p)
    BY <2>1 DEF Answer
  <2> QED BY <1>1, <2>2, StepStays
<1>5. CASE \/ RefusedEnds(c) \/ WakesCancelled(c) \/ WakesWithWinner(c)
           \/ GraceEnds(c) \/ CancelSchedule(c) \/ LosersDropped(c)
  <2>1. att' = att
    BY <1>5 DEF RefusedEnds, WakesCancelled, WakesWithWinner, GraceEnds,
                CancelSchedule, LosersDropped
  <2>2. \A d \in Calls, p \in Providers : Answer(d, p)' = Answer(d, p)
    BY <2>1 DEF Answer
  <2> QED BY <1>1, <2>2, StepStays
<1> QED BY <1>2, <1>3, <1>4, <1>5

LEMMA AnswerStep ==
    ASSUME IInv, NEW c \in Calls, NEW p \in Providers, AttemptEnds(c, p)
    PROVE  Promise!Next \/ UNCHANGED Promise!vars
<1>0. /\ asked' = asked /\ closing' = closing /\ outcome' = outcome
      /\ att \in [Calls -> [Providers -> Attempts]]
  BY DEF AttemptEnds, IInv, TypeOK
<1>1. CASE att[c][p] = "cancelling"
  <2>1. att' = [att EXCEPT ![c] = [att[c] EXCEPT ![p] = "cancelled"]]
    BY <1>1 DEF AttemptEnds
  <2>2. \A d \in Calls, q \in Providers : Answer(d, q)' = Answer(d, q)
    BY <1>0, <1>1, <2>1 DEF Answer
  <2> QED BY <1>0, <2>2, StepStays
<1>2. CASE att[c][p] = "running"
  <2>1. PICK a \in {"answered", "failed"} :
            att' = [att EXCEPT ![c] = [att[c] EXCEPT ![p] = a]]
    BY <1>2 DEF AttemptEnds
  <2> DEFINE said == IF a = "answered" THEN "ok" ELSE "failed"
  <2>2. Answer(c, p) = "none" /\ Answer(c, p)' = said
    BY <1>0, <1>2, <2>1 DEF Answer
  <2>3. \A d \in Calls, q \in Providers :
            d # c \/ q # p => Answer(d, q)' = Answer(d, q)
    BY <1>0, <2>1 DEF Answer
  <2>4. said \in {"ok", "failed"} OBVIOUS
  <2> HIDE DEF said
  <2>5. Promise!ProviderAnswers(c, p, said)
    BY <1>0, <2>2, <2>3 DEF Promise!ProviderAnswers
  <2> QED BY <2>4, <2>5 DEF Promise!Next
<1> QED BY <1>1, <1>2 DEF AttemptEnds

LEMMA EndStep ==
    ASSUME IInv, NEW c \in Calls, CallEnds(c)
    PROVE  Promise!Next
<1>0. TypeOK /\ EndAccounted(c) /\ phase[c] = "cleaning"
  BY DEF IInv, CallOK, CallEnds
<1> DEFINE o == ending[c]
<1>1. outcome[c] = "none" /\ o \in {"result", "cancelled"}
  BY <1>0 DEF TypeOK, EndAccounted
<1>2. /\ outcome' = [outcome EXCEPT ![c] = o]
      /\ UNCHANGED <<att, asked, closing>>
  BY DEF CallEnds
<1>3. \A d \in Calls, p \in Providers : Answer(d, p)' = Answer(d, p)
  BY <1>2 DEF Answer
<1>4. Promise!Accounted(c, o)
  BY <1>0, <1>1 DEF EndAccounted, Promise!Accounted, Answer
<1>5. Promise!CallEnds(c, o)
  BY <1>1, <1>2, <1>3, <1>4 DEF Promise!CallEnds
<1> QED BY <1>1, <1>5 DEF Promise!Next

\* The loop gives up only when every provider has failed, or close ran.
LEMMA WakeStep ==
    ASSUME IInv, NEW c \in Calls, WakesWithoutWinner(c)
    PROVE  Promise!Next \/ UNCHANGED Promise!vars
<1> DEFINE a == [p \in Providers |-> IF p \in Due(c) THEN "running"
                                     ELSE Captured(c)[p]]
           s == SchedulesTaken(c)
           over == NothingActive(a, s)
<1>0. /\ TypeOK /\ AskedInTurn(c) /\ EndAccounted(c) /\ phase[c] = "racing"
      /\ asked' = asked /\ closing' = closing
  BY DEF IInv, CallOK, WakesWithoutWinner, GoesOn, Refuse
<1>1. \A p \in Providers : att[c][p] \notin {"cancelled", "answered"}
  BY DEF WakesWithoutWinner, Some
<1>2. \A p \in Providers : Captured(c)[p] =
          IF att[c][p] = "failed" THEN "lost" ELSE att[c][p]
  BY DEF Captured
<1>3. \A p \in Providers : p \in Due(c) => att[c][p] = "no"
  BY <1>0 DEF Due, AskedInTurn
<1>4. CASE GoesOn(c)
  <2>1. att' = [att EXCEPT ![c] = a] BY <1>4 DEF GoesOn
  <2>2. \A p \in Providers : a[p] = IF p \in Due(c) THEN "running"
                             ELSE IF att[c][p] = "failed" THEN "lost" ELSE att[c][p]
    BY <1>2
  <2>3. outcome' = [outcome EXCEPT ![c] = IF over THEN "error" ELSE @]
    BY <1>4 DEF GoesOn
  <2>4. over /\ closing = "open" =>
            \A p \in Providers : att[c][p] \in {"failed", "lost"}
    <3> SUFFICES ASSUME over, closing = "open", NEW p \in Providers
                 PROVE  att[c][p] \in {"failed", "lost"}
      OBVIOUS
    <3>1. att[c][p] # "no"
      <4>1. CASE p = 0 BY <1>0, <4>1 DEF AskedInTurn
      <4>2. CASE p \in Fallbacks
        <5>1. s[p] \notin {"waiting", "cancelling"} /\ a[p] # "running"
          BY <4>2 DEF NothingActive
        <5>2. sched[c][p] # "due" BY <2>2, <4>2, <5>1 DEF Due
        <5>3. s[p] = IF sched[c][p] \in {"due", "cancelled"} THEN "ended"
                     ELSE sched[c][p]
          BY <4>2 DEF SchedulesTaken
        <5> HIDE DEF s, a
        <5>4. sched[c][p] = "ended"
          BY <1>0, <4>2, <5>1, <5>2, <5>3 DEF AskedInTurn
        <5> QED BY <1>0, <4>2, <5>4 DEF AskedInTurn
      <4> QED BY <4>1, <4>2, Names
    <3>2. a[p] \notin {"running", "cancelling"} BY DEF NothingActive
    <3> HIDE DEF a, over
    <3>3. att[c][p] \notin {"running", "cancelling"} BY <1>3, <2>2, <3>2
    <3> QED BY <1>0, <1>1, <3>1, <3>3 DEF TypeOK
  <2> HIDE DEF a, s, over
  <2>5. \A d \in Calls, p \in Providers : Answer(d, p)' = Answer(d, p)
    BY <1>0, <1>3, <2>1, <2>2 DEF TypeOK, Answer
  <2>6. CASE over
    <3>1. Promise!Accounted(c, "error")
      BY <2>4, <2>6 DEF Promise!Accounted, Answer
    <3>2. outcome[c] = "none" /\ outcome' = [outcome EXCEPT ![c] = "error"]
      BY <1>0, <2>3, <2>6 DEF EndAccounted
    <3>3. Promise!CallEnds(c, "error")
      BY <1>0, <2>5, <3>1, <3>2 DEF Promise!CallEnds
    <3> QED BY <3>3 DEF Promise!Next
  <2>7. CASE ~over
    <3>1. outcome' = outcome BY <1>0, <2>3, <2>7 DEF TypeOK
    <3> QED BY <1>0, <2>5, <3>1, StepStays
  <2> QED BY <2>6, <2>7
<1>5. CASE \E p \in Due(c) : Refuse(c, p, Captured(c))
  <2>1. PICK p \in Due(c) : Refuse(c, p, Captured(c)) BY <1>5
  <2>2. PICK v \in {"running", "cancelling"} :
            att' = [att EXCEPT ![c] = [Captured(c) EXCEPT ![p] = v]]
    BY <2>1 DEF Refuse
  <2>3. Captured(c) \in [Providers -> Attempts] BY <1>0, CapturedType
  <2>4. \A q \in Providers : att'[c][q] =
            IF q = p THEN v
            ELSE IF att[c][q] = "failed" THEN "lost" ELSE att[c][q]
    BY <1>0, <1>2, <2>2, <2>3 DEF TypeOK
  <2>5. \A d \in Calls : d # c => att'[d] = att[d] BY <1>0, <2>2 DEF TypeOK
  <2>6. \A d \in Calls, q \in Providers : Answer(d, q)' = Answer(d, q)
    BY <1>3, <2>1, <2>4, <2>5 DEF Answer
  <2>7. outcome' = outcome BY <2>1 DEF Refuse
  <2> QED BY <1>0, <2>6, <2>7, StepStays
<1> QED BY <1>4, <1>5 DEF WakesWithoutWinner

LEMMA CallerStep ==
    ASSUME NEW c \in Calls, CallerCancels(c)
    PROVE  Promise!Next
<1>1. /\ asked' = asked \cup {c}
      /\ UNCHANGED <<att, outcome, closing>>
  BY DEF CallerCancels
<1>2. \A d \in Calls, p \in Providers : Answer(d, p)' = Answer(d, p)
  BY <1>1 DEF Answer
<1>3. Promise!CallerCancels(c)
  BY <1>1, <1>2 DEF Promise!CallerCancels
<1> QED BY <1>3 DEF Promise!Next

LEMMA CloseStep ==
    ASSUME IInv, CloseBegins \/ CloseEnds
    PROVE  Promise!Next \/ UNCHANGED Promise!vars
<1>1. CASE CloseBegins
  <2>1. closing' = "closing" /\ UNCHANGED <<asked, outcome>>
    BY <1>1 DEF CloseBegins
  <2>2. \A c \in Calls, p \in Providers :
            att'[c][p] = IF Pending(c, p) THEN "cancelling" ELSE att[c][p]
    BY <1>1 DEF CloseBegins
  <2>3. \A c \in Calls, p \in Providers : Answer(c, p)' = Answer(c, p)
    BY <2>2 DEF Answer, Pending
  <2>4. Promise!Close BY <2>1, <2>3 DEF Promise!Close
  <2> QED BY <2>4 DEF Promise!Next
<1>2. CASE CloseEnds
  <2>1. /\ closing = "closing" /\ closing' = "closed"
        /\ UNCHANGED <<att, asked, outcome>>
    BY <1>2 DEF CloseEnds
  <2>2. \A c \in Calls, p \in Providers : Answer(c, p)' = Answer(c, p)
    BY <2>1 DEF Answer
  <2> QED BY <2>1, <2>2, StepStays
<1> QED BY <1>1, <1>2

LEMMA ScheduleStep ==
    ASSUME NEW c \in Calls, NEW p \in Fallbacks, ScheduleEnds(c, p)
    PROVE  UNCHANGED Promise!vars
<1>1. UNCHANGED <<att, asked, closing, outcome>> BY DEF ScheduleEnds
<1>2. \A d \in Calls, q \in Providers : Answer(d, q)' = Answer(d, q)
  BY <1>1 DEF Answer
<1> QED BY <1>1, <1>2, StepStays

LEMMA NextImplements ==
    IInv /\ [Next]_vars => [Promise!Next]_(Promise!vars)
<1> SUFFICES ASSUME IInv, [Next]_vars
             PROVE  Promise!Next \/ UNCHANGED Promise!vars
  OBVIOUS
<1>1. CASE UNCHANGED vars
  <2>1. UNCHANGED <<att, asked, closing, outcome>> BY <1>1 DEF vars
  <2>2. \A d \in Calls, q \in Providers : Answer(d, q)' = Answer(d, q)
    BY <2>1 DEF Answer
  <2> QED BY <2>1, <2>2, StepStays
<1>2. CASE CloseBegins \/ CloseEnds BY <1>2, CloseStep
<1>3. ASSUME NEW c \in Calls,
             \/ Translate(c) \/ QueuedGetsLock(c) \/ RefusedEnds(c)
             \/ WakesCancelled(c) \/ WakesWithWinner(c) \/ GraceEnds(c)
             \/ CancelAttempt(c) \/ CancelSchedule(c) \/ LosersDropped(c)
      PROVE  UNCHANGED Promise!vars
  BY <1>3, QuietStep
<1>4. ASSUME NEW c \in Calls,
             WakesWithoutWinner(c) \/ CallEnds(c) \/ CallerCancels(c)
      PROVE  Promise!Next \/ UNCHANGED Promise!vars
  BY <1>4, WakeStep, EndStep, CallerStep
<1>5. ASSUME NEW c \in Calls, NEW p \in Providers, AttemptEnds(c, p)
      PROVE  Promise!Next \/ UNCHANGED Promise!vars
  BY <1>5, AnswerStep
<1>6. ASSUME NEW c \in Calls, NEW p \in Fallbacks, ScheduleEnds(c, p)
      PROVE  UNCHANGED Promise!vars
  BY <1>6, ScheduleStep
<1> QED BY <1>1, <1>2, <1>3, <1>4, <1>5, <1>6 DEF Next

LEMMA InitImplements == Init => Promise!Init
<1> SUFFICES ASSUME Init PROVE Promise!Init
  OBVIOUS
<1>1. \A c \in Calls, p \in Providers : Answer(c, p) = "none"
  BY Names DEF Init, Answer
<1> QED BY <1>1 DEF Init, Promise!Init

\* The race keeps what translate promises (lines 100-209): a translation only
\* if a provider gave one, an error only if all have failed or close ran, a
\* cancellation only if the caller or close asked for it, and one end per call.
THEOREM RaceKeepsPromise == Spec => KeepsPromise
<1>1. Spec => []IInv BY Inductive
<1> QED BY <1>1, InitImplements, NextImplements, PTL
        DEF Spec, KeepsPromise, Promise!Spec
==============================================================================
