------------------------ MODULE LowLatencyMergeProofs ------------------------
(***************************************************************************)
(* What TLAPS proves of LowLatencyMerge, for any numbers of utterances,    *)
(* finals and buffers and any choice of events.                            *)
(***************************************************************************)
EXTENDS LowLatencyMerge, TLAPS

\* A buffer in its type whose fields fit each other: the resume state is set
\* as a whole, a translation belongs to specText, and the timer of a
\* confirmed resume is that of the utterance that resumed.
Good(x) ==
    /\ x \in Buffer
    /\ x.resume = "no" <=> x.resumeId = None
    /\ x.specDone # NoText => x.specDone = x.specText
    /\ x.endTimer # None => x.endTimer = x.resumeId

GoodBuffers == \A b \in Buffers : Good(buf[b])

\* The timer of a confirmed resume only runs once its utterance has ended.
TimersPast ==
    \A b \in Buffers :
        buf[b].endTimer # None =>
            /\ buf[b].endTimer <= started
            /\ speaking => buf[b].endTimer < started

\* The current buffer, and those to come, were never committed.
CurrentIsFresh ==
    /\ cur # None => cur <= made /\ commits[cur] = 0
    /\ \A b \in Buffers : b > made => commits[b] = 0

\* Somebody speaks an utterance.
SpeechIsSomeones == speaking => started # 0

IInv ==
    /\ TypeOK
    /\ SpeechIsSomeones
    /\ GoodBuffers
    /\ TimersPast
    /\ CurrentIsFresh
    /\ NothingSentTwice

-----------------------------------------------------------------------------
(* What the helpers do to a buffer.                                         *)

\* The ranges of the fields, by name.
Holders == Utts \cup {None}
Graces == {"off", "on"}
Resumes == {"no", "pending", "confirmed"}
Specs == {"no", "running", "showing"}
Outs == {"no", "translating", "sent", "cut"}

LEMMA Shape ==
    Buffer = [parts : Texts, wait : Holders, waitLast : BOOLEAN,
              grace : Graces, resume : Resumes, resumeId : Holders, endTimer : Holders,
              spec : Specs, specText : Texts, specDone : Texts, out : Outs]
BY DEF Buffer, Holders, Graces, Resumes, Specs, Outs

LEMMA Values ==
    /\ None \in Holders /\ \A u \in Utts : u \in Holders /\ u # None
    /\ "off" \in Graces /\ "on" \in Graces
    /\ "no" \in Resumes /\ "pending" \in Resumes /\ "confirmed" \in Resumes
    /\ "no" \in Specs /\ "running" \in Specs /\ "showing" \in Specs
    /\ Outs = {"no", "translating", "sent", "cut"}
BY DEF Holders, Graces, Resumes, Specs, Outs, Utts, None

LEMMA NoTextTyped == NoText \in Texts
BY MergeAssumption DEF NoText, Texts, Utts

LEMMA EmptyGood == Good(EmptyBuffer)
<1>1. EmptyBuffer \in Buffer
  BY Shape, Values, NoTextTyped DEF EmptyBuffer
<1>2. /\ EmptyBuffer.resume = "no" /\ EmptyBuffer.resumeId = None
      /\ EmptyBuffer.specDone = NoText /\ EmptyBuffer.endTimer = None
  BY DEF EmptyBuffer
<1> HIDE DEF EmptyBuffer
<1> QED
  BY <1>1, <1>2 DEF Good

\* Whatever keeps the fields that Good relates keeps it.
Keeps(y, x) ==
    /\ y.resume = x.resume /\ y.resumeId = x.resumeId
    /\ y.endTimer = x.endTimer
    /\ y.specDone = x.specDone /\ y.specText = x.specText

LEMMA KeepsGood ==
    ASSUME NEW x, Good(x), NEW y \in Buffer, Keeps(y, x)
    PROVE  Good(y) /\ y.endTimer = x.endTimer /\ y.resume = x.resume
BY DEF Good, Keeps

\* Clearing the resume state leaves a good buffer without a timer.
LEMMA ClearResumeGood ==
    ASSUME NEW x, Good(x)
    PROVE  /\ Good(ClearResume(x))
           /\ ClearResume(x).endTimer = None
           /\ ClearResume(x).resume = "no"
<1> DEFINE y == ClearResume(x)
<1>1. /\ y \in Buffer /\ y.resume = "no" /\ y.resumeId = None
      /\ y.endTimer = None
      /\ y.specDone = x.specDone /\ y.specText = x.specText
  <2>1. x \in Buffer
    BY DEF Good
  <2>2. y = [x EXCEPT !.resume = "no", !.resumeId = None, !.endTimer = None]
    BY DEF ClearResume
  <2> HIDE DEF y
  <2> QED
    BY <2>1, <2>2, Values, Shape
<1> HIDE DEF y
<1>2. Good(y)
  BY <1>1 DEF Good
<1> QED
  BY <1>1, <1>2 DEF y

LEMMA ClearSpecGood ==
    ASSUME NEW x, Good(x)
    PROVE  /\ Good(ClearSpec(x))
           /\ ClearSpec(x).endTimer = x.endTimer
           /\ ClearSpec(x).resume = x.resume
           /\ ClearSpec(x).resumeId = x.resumeId
           /\ ClearSpec(x).specDone = NoText
<1> DEFINE y == ClearSpec(x)
<1>1. /\ y \in Buffer /\ y.resume = x.resume /\ y.resumeId = x.resumeId
      /\ y.endTimer = x.endTimer
      /\ y.specDone = NoText
  <2>1. x \in Buffer
    BY DEF Good
  <2>2. y = [x EXCEPT !.spec = "no", !.specText = NoText, !.specDone = NoText]
    BY DEF ClearSpec
  <2> HIDE DEF y
  <2> QED
    BY <2>1, <2>2, Values, NoTextTyped, Shape
<1> HIDE DEF y
<1>2. Good(y)
  BY <1>1 DEF Good
<1> QED
  BY <1>1, <1>2 DEF y

LEMMA RestartSpecGood ==
    ASSUME NEW x, Good(x)
    PROVE  /\ Good(RestartSpec(x))
           /\ RestartSpec(x).endTimer = x.endTimer
<1> DEFINE y == ClearSpec(x)
           z == [y EXCEPT !.spec = "running", !.specText = x.parts]
<1>1. Good(y) /\ y.endTimer = x.endTimer /\ y.specDone = NoText
  BY ClearSpecGood
<1>2. x.parts \in Texts
  BY Shape DEF Good
<1>3. RestartSpec(x) = z \/ RestartSpec(x) = x
  BY DEF RestartSpec
<1> HIDE DEF y
<1>4. y \in Buffer
  BY <1>1 DEF Good
<1>5. /\ z \in Buffer /\ z.resume = y.resume /\ z.resumeId = y.resumeId
      /\ z.endTimer = y.endTimer
      /\ z.specDone = NoText
  BY <1>1, <1>2, <1>4, Values, NoTextTyped, Shape
<1> HIDE DEF z
<1>6. Good(z)
  BY <1>1, <1>5 DEF Good
<1> QED
  BY <1>1, <1>3, <1>5, <1>6

LEMMA ArmedGood ==
    ASSUME NEW x, Good(x), NEW u \in Utts
    PROVE  /\ Good(Armed(x, u))
           /\ Armed(x, u).endTimer = x.endTimer
<1> DEFINE w == IF x.wait = u THEN None ELSE x.wait
           y == [x EXCEPT !.wait = w, !.grace = "on"]
           l == x.endTimer # None
           z == [x EXCEPT !.wait = u, !.waitLast = l, !.grace = "off"]
<1>1. x \in Buffer
  BY DEF Good
<1>2. w \in Holders /\ l \in BOOLEAN
  BY <1>1, Shape, Values
<1>3. Armed(x, u) = RestartSpec(y) \/ Armed(x, u) = RestartSpec(z)
  BY DEF Armed
<1> HIDE DEF w, l
<1>4. y \in Buffer /\ Keeps(y, x)
  BY <1>1, <1>2, Values, Shape DEF Keeps
<1>5. z \in Buffer /\ Keeps(z, x)
  BY <1>1, <1>2, Values, Shape DEF Keeps
<1> HIDE DEF y, z
<1>6. /\ Good(RestartSpec(y)) /\ RestartSpec(y).endTimer = x.endTimer
      /\ Good(RestartSpec(z)) /\ RestartSpec(z).endTimer = x.endTimer
  BY <1>4, <1>5, KeepsGood, RestartSpecGood
<1> QED
  BY <1>3, <1>6

LEMMA EndAwaitedGood ==
    ASSUME NEW x, Good(x), NEW u \in Utts
    PROVE  /\ Good(EndAwaited(x, u))
           /\ EndAwaited(x, u).endTimer = x.endTimer
           /\ EndAwaited(x, u).resume = x.resume
           /\ EndAwaited(x, u).resumeId = x.resumeId
<1> DEFINE y == [x EXCEPT !.wait = None, !.grace = "on"]
<1>1. EndAwaited(x, u) = y \/ EndAwaited(x, u) = x
  BY DEF EndAwaited
<1>2. x \in Buffer
  BY DEF Good
<1>3. y \in Buffer /\ Keeps(y, x)
  BY <1>2, Values, Shape DEF Keeps
<1> HIDE DEF y
<1>4. Good(y) /\ Keeps(y, x)
  BY <1>3, KeepsGood
<1> QED
  BY <1>1, <1>4 DEF Keeps

LEMMA UpsertsGood ==
    ASSUME NEW x, Good(x), NEW u \in Utts, heard[u] + 1 \in 0..Finals,
           NEW y \in Upserts(x, u)
    PROVE  Good(y) /\ y.endTimer = x.endTimer
<1> DEFINE p == [x.parts EXCEPT ![u] = heard[u] + 1]
<1>1. CASE y = x
  BY <1>1
<1>2. CASE y = [x EXCEPT !.parts[u] = heard[u] + 1]
  <2>1. x \in Buffer /\ x.parts \in Texts
    BY Shape DEF Good
  <2>2. p \in Texts
    BY <2>1 DEF Texts
  <2>3. y = [x EXCEPT !.parts = p]
    BY <1>2
  <2> HIDE DEF p
  <2>4. y \in Buffer /\ Keeps(y, x)
    <3>1. x.endTimer \in Holders /\ x.resume \in Resumes
      BY <2>1, Shape
    <3> QED
      BY <2>1, <2>2, <2>3, <3>1, Shape DEF Keeps
  <2> QED
    BY <2>4, KeepsGood
<1> QED
  BY <1>1, <1>2 DEF Upserts

-----------------------------------------------------------------------------
(* What a step does to the buffers, and why that keeps the invariant.       *)

\* Only buffer b changes, to something good with the timer t.
Changes(b, t) ==
    /\ buf' \in [Buffers -> Buffer]
    /\ \A c \in Buffers : c # b => buf'[c] = buf[c]
    /\ Good(buf'[b])
    /\ buf'[b].endTimer = t

\* The four ways the current buffer and the count of commits move together.
Stays == cur' = cur /\ made' = made /\ commits' = commits
Ends == cur' = None /\ made' = made /\ commits' = commits
Opens ==
    /\ cur' = made + 1 /\ made + 1 \in Buffers
    /\ made' = made + 1
    /\ commits' = commits
Commits ==
    /\ cur # None
    /\ cur' = None
    /\ made' = made
    /\ commits' = [commits EXCEPT ![cur] = @ + 1]

LEMMA Changing ==
    ASSUME TypeOK, NEW b \in Buffers, NEW y, Good(y),
           buf' = [buf EXCEPT ![b] = y]
    PROVE  Changes(b, y.endTimer)
BY DEF TypeOK, Changes, Good

\* Becomes keeps x but for its spec and out.
LEMMA BecomesGood ==
    ASSUME TypeOK, NEW b \in Buffers, NEW x, Good(x), NEW leaves \in BOOLEAN,
           NEW by, NEW e \in SUBSET Utts, Becomes(b, x, leaves, by, e), cur = b,
           made' = made
    PROVE  /\ Changes(b, x.endTimer)
           /\ mic' \in Buffers \cup {None}
           /\ ended' \subseteq Utts
           /\ Stays \/ (leaves /\ Commits)
<1>1. CASE leaves
  <2>1. PICK o \in Outcomes(x, by) : 
             /\ buf' = [buf EXCEPT ![b] = [x EXCEPT !.spec = "no", !.out = o]]
             /\ mic' = IF by = "mic" /\ o = "translating" THEN b ELSE mic
             /\ ended' = e \ Spoken(x.parts)
             /\ commits' = [commits EXCEPT ![b] = @ + 1]
             /\ cur' = None
    BY <1>1 DEF Becomes, Commit
  <2>2. o \in Outs
    BY Values DEF Outcomes
  <2> DEFINE y == [x EXCEPT !.spec = "no", !.out = o]
  <2>3. x \in Buffer
    BY DEF Good
  <2>4. y \in Buffer /\ Keeps(y, x)
    BY <2>2, <2>3, Values, Shape DEF Keeps
  <2> HIDE DEF y
  <2>5. Good(y) /\ y.endTimer = x.endTimer
    BY <2>4, KeepsGood
  <2>6. Changes(b, y.endTimer)
    BY <2>1, <2>5, Changing DEF y
  <2>7. mic' \in Buffers \cup {None} /\ ended' \subseteq Utts
    BY <2>1 DEF TypeOK
  <2>8. Commits
    BY <2>1 DEF Commits, Buffers, None
  <2> QED
    BY <1>1, <2>5, <2>6, <2>7, <2>8
<1>2. CASE ~leaves
  <2>1. /\ buf' = [buf EXCEPT ![b] = x]
        /\ ended' = e /\ cur' = cur /\ mic' = mic /\ commits' = commits
    BY <1>2 DEF Becomes
  <2>2. Changes(b, x.endTimer)
    BY <2>1, Changing
  <2> QED
    BY <2>1, <2>2 DEF Stays, TypeOK
<1> QED
  BY <1>1, <1>2

\* A step that changes one buffer, and in it at most clears the timer or
\* sets it to the utterance that ends, keeps the parts about buffers.
LEMMA ChangesKeep ==
    ASSUME IInv, NEW b \in Buffers, NEW t, Changes(b, t),
           t \in {None, buf[b].endTimer} \/ (t = started /\ ~speaking'),
           \/ started' = started /\ (speaking' => speaking)
           \/ started' = started + 1
    PROVE  GoodBuffers' /\ TimersPast'
<1>1. GoodBuffers'
  <2> SUFFICES ASSUME NEW c \in Buffers PROVE Good(buf'[c])
    BY DEF GoodBuffers, Good
  <2> QED
    BY DEF IInv, GoodBuffers, Changes
<1>2. TimersPast'
  <2> SUFFICES ASSUME NEW c \in Buffers, buf'[c].endTimer # None
               PROVE  /\ buf'[c].endTimer <= started'
                      /\ speaking' => buf'[c].endTimer < started'
    BY DEF TimersPast
  <2>1. /\ started \in Nat /\ speaking \in BOOLEAN
        /\ buf[c].endTimer \in Nat
    BY MergeAssumption, Shape DEF IInv, TypeOK, Holders, Utts, None
  <2>2. buf[c].endTimer # None => /\ buf[c].endTimer <= started
                                  /\ speaking => buf[c].endTimer < started
    BY DEF IInv, TimersPast
  <2> QED
    BY <2>1, <2>2 DEF Changes
<1> QED
  BY <1>1, <1>2

\* A step that leaves the buffers alone.
LEMMA SameBuffers ==
    ASSUME IInv, buf' = buf,
           \/ started' = started /\ (speaking' => speaking)
           \/ started' = started + 1
    PROVE  GoodBuffers' /\ TimersPast' /\ buf' \in [Buffers -> Buffer]
<1>1. GoodBuffers' /\ buf' \in [Buffers -> Buffer]
  BY DEF IInv, TypeOK, GoodBuffers, Good
<1>2. TimersPast'
  <2> SUFFICES ASSUME NEW c \in Buffers, buf[c].endTimer # None
               PROVE  /\ buf[c].endTimer <= started'
                      /\ speaking' => buf[c].endTimer < started'
    BY DEF TimersPast
  <2>1. /\ started \in Nat /\ speaking \in BOOLEAN
        /\ buf[c].endTimer \in Nat
    BY MergeAssumption, Shape DEF IInv, TypeOK, Holders, Utts, None
  <2>2. /\ buf[c].endTimer <= started
        /\ speaking => buf[c].endTimer < started
    BY DEF IInv, TimersPast
  <2> QED
    BY <2>1, <2>2
<1> QED
  BY <1>1, <1>2

\* However the current buffer moves, it is fresh and nothing is sent twice.
LEMMA MovesKeep ==
    ASSUME IInv, Stays \/ Ends \/ Opens \/ Commits
    PROVE  /\ CurrentIsFresh' /\ NothingSentTwice'
           /\ cur' \in Buffers \cup {None}
           /\ made' \in 0..MaxBuffers
           /\ commits' \in [Buffers -> Nat]
<1>1. /\ cur \in Buffers \cup {None} /\ made \in 0..MaxBuffers
      /\ commits \in [Buffers -> Nat]
      /\ cur # None => cur <= made /\ commits[cur] = 0
      /\ \A b \in Buffers : b > made => commits[b] = 0
      /\ \A b \in Buffers : commits[b] <= 1
  BY DEF IInv, TypeOK, CurrentIsFresh, NothingSentTwice
<1>2. CASE Stays
  BY <1>1, <1>2 DEF Stays, CurrentIsFresh, NothingSentTwice
<1>3. CASE Ends
  BY <1>1, <1>3 DEF Ends, CurrentIsFresh, NothingSentTwice
<1>4. CASE Commits
  <2>1. cur \in Buffers /\ cur <= made /\ commits[cur] = 0
    BY <1>1, <1>4 DEF Commits
  <2>2. /\ cur' = None /\ made' = made
        /\ \A b \in Buffers : commits'[b] = IF b = cur THEN 1 ELSE commits[b]
        /\ commits' \in [Buffers -> Nat]
    BY <1>1, <1>4, <2>1 DEF Commits
  <2>3. made \in Nat /\ cur \in Nat
    BY <1>1, <2>1, MergeAssumption DEF Buffers
  <2>4. CurrentIsFresh'
    BY <1>1, <2>1, <2>2, <2>3, MergeAssumption DEF CurrentIsFresh, Buffers
  <2>5. NothingSentTwice'
    BY <1>1, <2>2 DEF NothingSentTwice
  <2> QED
    BY <1>1, <2>2, <2>4, <2>5
<1>5. CASE Opens
  <2>1. made \in Nat
    BY <1>1, MergeAssumption
  <2>2. cur' \in Buffers /\ made' \in 0..MaxBuffers
    BY <1>1, <1>5, MergeAssumption DEF Opens, Buffers
  <2>3. CurrentIsFresh'
    <3> SUFFICES ASSUME NEW b \in Buffers, b > made
                 PROVE  commits[b] = 0
      BY <1>5, <2>1, <2>2 DEF CurrentIsFresh, Opens, Buffers
    <3> QED
      BY <1>1
  <2> QED
    BY <1>1, <1>5, <2>2, <2>3 DEF Opens, NothingSentTwice
<1> QED
  BY <1>2, <1>3, <1>4, <1>5

\* What the lemmas above do not speak of.
OthersTyped ==
    /\ started \in 0..Utterances
    /\ speaking \in BOOLEAN
    /\ ended \subseteq Utts
    /\ heard \in [Utts -> 0..Finals]
    /\ handled \in [buf : Buffers, utt : Utts] \cup {Idle}
    /\ mic \in Buffers \cup {None}
    /\ resetting \in Buffers \cup {None}
    /\ translating \in BOOLEAN
    /\ dropped \subseteq Buffers
    /\ hit \subseteq Buffers
    /\ SpeechIsSomeones

LEMMA Assemble ==
    ASSUME IInv, GoodBuffers', TimersPast', buf' \in [Buffers -> Buffer],
           OthersTyped', Stays \/ Ends \/ Opens \/ Commits
    PROVE  IInv'
<1>1. /\ CurrentIsFresh' /\ NothingSentTwice'
      /\ cur' \in Buffers \cup {None}
      /\ made' \in 0..MaxBuffers
      /\ commits' \in [Buffers -> Nat]
  BY MovesKeep
<1>2. \A b \in Buffers : buf'[b].resume = "no" <=> buf'[b].resumeId = None
  BY DEF GoodBuffers, Good
<1>3. TypeOK'
  BY <1>1, <1>2 DEF TypeOK, OthersTyped
<1> QED
  BY <1>1, <1>3 DEF IInv, OthersTyped

\* What every step may start from.
LEMMA Before ==
    ASSUME IInv
    PROVE  /\ OthersTyped
           /\ TypeOK
           /\ \A b \in Buffers : Good(buf[b])
           /\ cur # None => cur \in Buffers
BY DEF IInv, TypeOK, OthersTyped, GoodBuffers

-----------------------------------------------------------------------------
(* The microphone loop.                                                     *)

LEMMA SpeechStartKeeps == ASSUME IInv, SpeechStart PROVE IInv'
<1>1. OthersTyped'
  BY Before, MergeAssumption DEF SpeechStart, OthersTyped, SpeechIsSomeones,
     history
<1>2. Stays
  BY DEF SpeechStart, Stays, history
<1>3. started' = started + 1
  BY DEF SpeechStart
<1>4. CASE cur = None
  <2>1. buf' = buf
    BY <1>4 DEF SpeechStart
  <2> QED
    BY <1>1, <1>2, <1>3, <2>1, SameBuffers, Assemble
<1>5. CASE cur # None
  <2> DEFINE x == buf[cur]
             y == Resumed(x, started + 1)
  <2>1. cur \in Buffers /\ Good(x) /\ x \in Buffer
    BY <1>5, Before DEF Good
  <2>2. buf' = [buf EXCEPT ![cur] = y]
    BY <1>5 DEF SpeechStart
  <2>3. started + 1 \in Utts
    BY MergeAssumption, Before DEF SpeechStart, OthersTyped, Utts
  <2> HIDE DEF x
  <2>4. y = [x EXCEPT !.resume = "pending", !.resumeId = started + 1,
                      !.endTimer = None]
    BY DEF Resumed
  <2> HIDE DEF y
  <2>5. /\ y \in Buffer /\ y.resume = "pending" /\ y.resumeId = started + 1
        /\ y.endTimer = None
        /\ y.specDone = x.specDone /\ y.specText = x.specText
    BY <2>1, <2>3, <2>4, Values, Shape
  <2>6. started + 1 # None
    BY <2>3, Values
  <2>7. Good(y)
    BY <2>1, <2>5, <2>6 DEF Good
  <2>8. Changes(cur, None)
    BY <2>1, <2>2, <2>5, <2>7, Changing, Before
  <2>9. GoodBuffers' /\ TimersPast' /\ buf' \in [Buffers -> Buffer]
    BY <1>3, <2>1, <2>8, ChangesKeep DEF Changes
  <2> QED
    BY <1>1, <1>2, <2>9, Assemble
<1> QED
  BY <1>4, <1>5

LEMMA ThirdChunkKeeps == ASSUME IInv, ThirdChunk PROVE IInv'
<1> DEFINE x == ClearSpec(buf[cur])
           y == [x EXCEPT !.resume = "confirmed"]
<1>1. OthersTyped' /\ Stays /\ started' = started /\ speaking' = speaking
  BY Before DEF ThirdChunk, OthersTyped, SpeechIsSomeones, Stays, history,
     speech
<1>2. /\ cur \in Buffers /\ Good(buf[cur])
      /\ buf[cur].resume = "pending"
      /\ buf' = [buf EXCEPT ![cur] = y]
  BY Before DEF ThirdChunk
<1>3. /\ Good(x) /\ x.resume = "pending" /\ x.endTimer = buf[cur].endTimer
  BY <1>2, ClearSpecGood
<1> HIDE DEF x
<1>4. x \in Buffer /\ x.resumeId # None
  BY <1>3 DEF Good
<1>5. /\ y \in Buffer /\ y.resume = "confirmed" /\ y.resumeId = x.resumeId
      /\ y.endTimer = x.endTimer
      /\ y.specDone = x.specDone /\ y.specText = x.specText
  BY <1>4, Values, Shape
<1> HIDE DEF y
<1>6. Good(y)
  BY <1>3, <1>4, <1>5 DEF Good
<1>7. Changes(cur, buf[cur].endTimer)
  BY <1>2, <1>3, <1>5, <1>6, Changing, Before
<1>8. GoodBuffers' /\ TimersPast' /\ buf' \in [Buffers -> Buffer]
  BY <1>1, <1>2, <1>7, ChangesKeep DEF Changes
<1> QED
  BY <1>1, <1>8, Assemble

\* What the end of utterance u makes of a good buffer x of number b.
LEMMA ResumeEndsGood ==
    ASSUME TypeOK, NEW b \in Buffers, NEW x, Good(x), NEW u \in Utts,
           NEW e \in SUBSET Utts, ResumeEnds(b, x, u, e), cur = b, made' = made
    PROVE  /\ \E t \in {None, x.endTimer, u} : Changes(b, t)
           /\ mic' \in Buffers \cup {None}
           /\ ended' \subseteq Utts
           /\ Stays \/ Commits
<1> DEFINE falseStart == x.resumeId = u /\ x.resume = "pending"
           z == [x EXCEPT !.endTimer = u, !.waitLast = FALSE]
           y == IF falseStart THEN ClearResume(x)
                ELSE IF x.resumeId = u THEN z
                ELSE x
           leaves == falseStart /\ Leaves(y, TRUE)
<1>1. Becomes(b, y, leaves, "mic", e)
  BY DEF ResumeEnds
<1>2. leaves \in BOOLEAN
  BY DEF Leaves
<1>3. Good(y) /\ y.endTimer \in {None, x.endTimer, u}
  <2>1. CASE falseStart
    BY <2>1, ClearResumeGood
  <2>2. CASE x.resumeId = u /\ ~falseStart
    <3>1. x \in Buffer
      BY DEF Good
    <3>2. /\ z \in Buffer /\ z.resume = x.resume /\ z.resumeId = u
          /\ z.endTimer = u
          /\ z.specDone = x.specDone /\ z.specText = x.specText
      BY <3>1, <2>2, Values, Shape
    <3>3. y = z
      BY <2>2
    <3> HIDE DEF z
    <3>4. Good(z)
      BY <2>2, <3>2 DEF Good
    <3> QED
      BY <3>2, <3>3, <3>4
  <2>3. CASE x.resumeId # u
    BY <2>3
  <2> QED
    BY <2>1, <2>2, <2>3
<1> HIDE DEF y, leaves
<1>4. /\ Changes(b, y.endTimer)
      /\ mic' \in Buffers \cup {None}
      /\ ended' \subseteq Utts
      /\ Stays \/ (leaves /\ Commits)
  BY <1>1, <1>2, <1>3, BecomesGood
<1> QED
  BY <1>3, <1>4

LEMMA SpeechEndKeeps == ASSUME IInv, SpeechEnd PROVE IInv'
<1>1. /\ made' = made /\ started' = started /\ speaking' = FALSE
      /\ UNCHANGED <<heard, handled, resetting, translating, dropped>>
  BY DEF SpeechEnd
<1>2. started \in Utts /\ ended \cup {started} \in SUBSET Utts
  BY MergeAssumption, Before DEF OthersTyped, SpeechIsSomeones, Utts, SpeechEnd
<1>3. CASE cur = None
  <2>1. buf' = buf /\ Stays /\ OthersTyped'
    BY <1>1, <1>2, <1>3, Before DEF SpeechEnd, Stays, OthersTyped,
       SpeechIsSomeones
  <2> QED
    BY <1>1, <2>1, SameBuffers, Assemble
<1>4. CASE cur # None
  <2> DEFINE x == EndAwaited(buf[cur], started)
  <2>1. cur \in Buffers /\ Good(x) /\ x.endTimer = buf[cur].endTimer
    BY <1>2, <1>4, Before, EndAwaitedGood
  <2>2. ResumeEnds(cur, x, started, ended \cup {started})
    BY <1>4 DEF SpeechEnd
  <2> HIDE DEF x
  <2>3. /\ \E t \in {None, x.endTimer, started} : Changes(cur, t)
        /\ mic' \in Buffers \cup {None}
        /\ ended' \subseteq Utts
        /\ Stays \/ Commits
    BY <1>1, <1>2, <2>1, <2>2, ResumeEndsGood, Before
  <2>4. PICK t \in {None, buf[cur].endTimer, started} : Changes(cur, t)
    BY <2>1, <2>3
  <2>5. GoodBuffers' /\ TimersPast' /\ buf' \in [Buffers -> Buffer]
    BY <1>1, <2>1, <2>4, ChangesKeep DEF Changes
  <2>6. hit' \subseteq Buffers
    <3>1. cur' \in {None, cur} /\ hit' \in {hit, hit \cup ({cur'} \ {None})}
      BY <1>4, <2>3 DEF SpeechEnd, Stays, Commits
    <3> QED
      BY <2>1, <3>1, Before DEF OthersTyped
  <2>7. OthersTyped'
    BY <1>1, <2>3, <2>6, Before DEF OthersTyped, SpeechIsSomeones
  <2> QED
    BY <2>3, <2>5, <2>7, Assemble
<1> QED
  BY <1>3, <1>4

-----------------------------------------------------------------------------
(* The finals.                                                              *)

LEMMA FinalArrivesKeeps ==
    ASSUME IInv, NEW u \in Utts, FinalArrives(u)
    PROVE  IInv'
<1> DEFINE b == IF cur = None THEN made + 1 ELSE cur
           y == ClearResume(buf[b])
<1>1. /\ b \in Buffers /\ cur' = b
      /\ made' = IF cur = None THEN b ELSE made
      /\ heard[u] < Finals
      /\ heard' = [heard EXCEPT ![u] = @ + 1]
      /\ UNCHANGED <<started, speaking, ended, mic, resetting, translating,
                     commits, dropped, hit>>
  BY DEF FinalArrives, speech, history
<1>2. PICK x \in Upserts(y, u) :
        \/ /\ buf' = [buf EXCEPT ![b] = Armed(x, u)]
           /\ UNCHANGED handled
        \/ /\ buf' = [buf EXCEPT ![b] = x]
           /\ handled' = [buf |-> b, utt |-> u]
  BY DEF FinalArrives
<1>3. Stays \/ Opens
  BY <1>1 DEF Stays, Opens
<1> HIDE DEF b
<1>4. Good(y) /\ y.endTimer = None
  BY <1>1, Before, ClearResumeGood
<1> HIDE DEF y
<1>5. heard[u] + 1 \in 0..Finals
  BY <1>1, Before, MergeAssumption DEF OthersTyped
<1>6. OthersTyped'
  <2>1. heard' \in [Utts -> 0..Finals]
    BY <1>1, <1>5, Before DEF OthersTyped
  <2>2. handled' \in [buf : Buffers, utt : Utts] \cup {Idle}
    BY <1>1, <1>2, Before DEF OthersTyped
  <2> QED
    BY <1>1, <2>1, <2>2, Before DEF OthersTyped, SpeechIsSomeones
<1>7. Good(x) /\ x.endTimer = None
  BY <1>2, <1>4, <1>5, UpsertsGood
<1>8. Good(Armed(x, u)) /\ Armed(x, u).endTimer = None
  BY <1>7, ArmedGood
<1>9. Changes(b, None)
  BY <1>1, <1>2, <1>7, <1>8, Changing, Before
<1>10. GoodBuffers' /\ TimersPast' /\ buf' \in [Buffers -> Buffer]
  BY <1>1, <1>9, ChangesKeep DEF Changes
<1> QED
  BY <1>3, <1>6, <1>10, Assemble

LEMMA FinalContinuesKeeps == ASSUME IInv, FinalContinues PROVE IInv'
<1> DEFINE b == handled.buf
           x == buf[b]
           y == Armed(x, handled.utt)
<1>1. b \in Buffers /\ handled.utt \in Utts
  BY Before DEF FinalContinues, OthersTyped
<1>2. buf' = [buf EXCEPT ![b] = y]
  BY DEF FinalContinues
<1>3. /\ OthersTyped' /\ Stays
      /\ started' = started /\ speaking' = speaking
  BY Before DEF FinalContinues, OthersTyped, SpeechIsSomeones, Stays, speech,
                history
<1>4. Good(y) /\ y.endTimer = buf[b].endTimer
  BY <1>1, Before, ArmedGood
<1> HIDE DEF b, y
<1>5. Changes(b, buf[b].endTimer)
  BY <1>1, <1>2, <1>4, Changing, Before
<1>6. GoodBuffers' /\ TimersPast' /\ buf' \in [Buffers -> Buffer]
  BY <1>1, <1>3, <1>5, ChangesKeep DEF Changes
<1> QED
  BY <1>3, <1>6, Assemble

-----------------------------------------------------------------------------
(* The speculative translation and the timers: buffer b becomes y.          *)

\* What these steps leave alone.
Apart == UNCHANGED <<made, started, speaking, heard, handled, resetting,
                     translating, dropped>>

LEMMA BecomesKeeps ==
    ASSUME IInv, NEW b \in Buffers, cur = b, NEW y, Good(y),
           y.endTimer \in {None, buf[b].endTimer}, NEW leaves \in BOOLEAN,
           NEW by, Becomes(b, y, leaves, by, ended), Apart,
           hit' \in {hit, hit \cup {b}}
    PROVE  IInv'
<1>1. ended \in SUBSET Utts /\ made' = made
  BY Before DEF OthersTyped, Apart
<1>2. /\ Changes(b, y.endTimer)
      /\ mic' \in Buffers \cup {None}
      /\ ended' \subseteq Utts
      /\ Stays \/ Commits
  BY <1>1, BecomesGood, Before
<1>3. GoodBuffers' /\ TimersPast' /\ buf' \in [Buffers -> Buffer]
  BY <1>2, ChangesKeep DEF Changes, Apart
<1>4. OthersTyped'
  BY <1>2, Before DEF OthersTyped, SpeechIsSomeones, Apart
<1> QED
  BY <1>2, <1>3, <1>4, Assemble

\* One buffer changes to something good with its timer, and nothing else.
LEMMA UpdateKeeps ==
    ASSUME IInv, NEW b \in Buffers, NEW y, Good(y),
           y.endTimer = buf[b].endTimer, buf' = [buf EXCEPT ![b] = y],
           Stays, OthersTyped', started' = started, speaking' = speaking
    PROVE  IInv'
<1>1. Changes(b, buf[b].endTimer)
  BY Changing, Before
<1>2. GoodBuffers' /\ TimersPast' /\ buf' \in [Buffers -> Buffer]
  BY <1>1, ChangesKeep DEF Changes
<1> QED
  BY <1>2, Assemble

LEMMA SpecAnswersKeeps ==
    ASSUME IInv, NEW b \in Buffers, SpecAnswers(b)
    PROVE  IInv'
<1> DEFINE x == buf[b]
           y == [x EXCEPT !.specDone = x.specText, !.spec = "no"]
           z == [y EXCEPT !.spec = "showing"]
<1>1. /\ cur = b /\ Apart /\ hit' = hit
      /\ \/ Becomes(b, y, Leaves(y, FALSE), "spec", ended)
         \/ /\ buf' = [buf EXCEPT ![b] = z]
            /\ UNCHANGED <<cur, ended, mic, commits>>
  BY DEF SpecAnswers, Lives, Apart, speech
<1>2. Good(x) /\ x \in Buffer /\ x.specText \in Texts
  BY Before, Shape DEF Good
<1> HIDE DEF x
<1>3. /\ y \in Buffer /\ y.resume = x.resume /\ y.resumeId = x.resumeId
      /\ y.endTimer = x.endTimer
      /\ y.specDone = x.specText /\ y.specText = x.specText
  BY <1>2, Values, Shape
<1>4. Leaves(y, FALSE) \in BOOLEAN
  BY DEF Leaves
<1> HIDE DEF y
<1>5. Good(y)
  BY <1>2, <1>3 DEF Good
<1>6. z \in Buffer /\ Keeps(z, y)
  BY <1>3, Values, Shape DEF Keeps
<1> HIDE DEF z
<1>7. Good(z) /\ z.endTimer = x.endTimer
  BY <1>3, <1>5, <1>6, KeepsGood
<1>8. CASE Becomes(b, y, Leaves(y, FALSE), "spec", ended)
  BY <1>1, <1>3, <1>4, <1>5, <1>8, BecomesKeeps DEF x
<1>9. CASE /\ buf' = [buf EXCEPT ![b] = z]
           /\ UNCHANGED <<cur, ended, mic, commits>>
  <2>1. Stays /\ OthersTyped'
    BY <1>1, <1>9, Before DEF Stays, Apart, OthersTyped, SpeechIsSomeones
  <2> QED
    BY <1>1, <1>7, <1>9, <2>1, UpdateKeeps DEF x, Apart
<1> QED
  BY <1>1, <1>8, <1>9

LEMMA SpecEndsKeeps ==
    ASSUME IInv, NEW b \in Buffers, SpecShown(b) \/ SpecFails(b)
    PROVE  IInv'
<1> DEFINE x == buf[b]
           y == [x EXCEPT !.spec = "no"]
<1>1. /\ cur = b /\ Apart /\ hit' \in {hit, hit \cup {b}}
      /\ \/ Becomes(b, y, Leaves(y, FALSE), "spec", ended)
         \/ Becomes(b, y, Leaves(y, TRUE), "spec", ended)
  BY DEF SpecShown, SpecFails, Lives, Apart, speech
<1>2. Good(x) /\ x \in Buffer
  BY Before DEF Good
<1> HIDE DEF x
<1>3. y \in Buffer /\ Keeps(y, x)
  BY <1>2, Values, Shape DEF Keeps
<1>4. Leaves(y, FALSE) \in BOOLEAN /\ Leaves(y, TRUE) \in BOOLEAN
  BY DEF Leaves
<1> HIDE DEF y
<1>5. Good(y) /\ y.endTimer = buf[b].endTimer
  BY <1>2, <1>3, KeepsGood DEF x
<1> QED
  BY <1>1, <1>4, <1>5, BecomesKeeps

LEMMA GraceTimerKeeps ==
    ASSUME IInv, NEW b \in Buffers, GraceTimer(b)
    PROVE  IInv'
<1> DEFINE x == buf[b]
           y == [x EXCEPT !.grace = "off"]
           leaves == IF translating THEN Leaves(y, FALSE) ELSE MayLeave(y)
<1>1. /\ cur = b /\ Apart /\ hit' = hit
      /\ Becomes(b, y, leaves, "timer", ended)
  BY DEF GraceTimer, Lives, Apart, speech
<1>2. Good(x) /\ x \in Buffer
  BY Before DEF Good
<1> HIDE DEF x
<1>3. y \in Buffer /\ Keeps(y, x)
  BY <1>2, Values, Shape DEF Keeps
<1>4. leaves \in BOOLEAN
  BY DEF Leaves, MayLeave
<1> HIDE DEF y, leaves
<1>5. Good(y) /\ y.endTimer = buf[b].endTimer
  BY <1>2, <1>3, KeepsGood DEF x
<1> QED
  BY <1>1, <1>4, <1>5, BecomesKeeps

LEMMA WaitTimerKeeps ==
    ASSUME IInv, NEW b \in Buffers, WaitTimer(b)
    PROVE  IInv'
<1> DEFINE x == buf[b]
           y == [x EXCEPT !.wait = None, !.grace = "on"]
<1>1. /\ buf' = [buf EXCEPT ![b] = y] /\ Stays /\ OthersTyped'
      /\ started' = started /\ speaking' = speaking
  BY Before DEF WaitTimer, Stays, OthersTyped, SpeechIsSomeones, speech, history
<1>2. Good(x) /\ x \in Buffer
  BY Before DEF Good
<1> HIDE DEF x
<1>3. y \in Buffer /\ Keeps(y, x)
  BY <1>2, Values, Shape DEF Keeps
<1> HIDE DEF y
<1>4. Good(y) /\ y.endTimer = buf[b].endTimer
  BY <1>2, <1>3, KeepsGood DEF x
<1> QED
  BY <1>1, <1>4, UpdateKeeps

LEMMA EndTimerKeeps ==
    ASSUME IInv, NEW b \in Buffers, EndTimer(b)
    PROVE  IInv'
<1> DEFINE x == ClearResume(buf[b])
           y == [x EXCEPT !.grace = "off"]
<1>1. /\ cur = b /\ Apart /\ hit' = hit
      /\ Becomes(b, y, Leaves(y, TRUE), "timer", ended)
  BY DEF EndTimer, Lives, Apart, speech
<1>2. Good(x) /\ x.endTimer = None
  BY Before, ClearResumeGood
<1> HIDE DEF x
<1>3. x \in Buffer
  BY <1>2 DEF Good
<1>4. y \in Buffer /\ Keeps(y, x)
  BY <1>3, Values, Shape DEF Keeps
<1>5. Leaves(y, TRUE) \in BOOLEAN
  BY DEF Leaves
<1> HIDE DEF y
<1>6. Good(y) /\ y.endTimer = None
  BY <1>2, <1>4, KeepsGood
<1> QED
  BY <1>1, <1>5, <1>6, BecomesKeeps

-----------------------------------------------------------------------------
(* The other steps.                                                         *)

LEMMA TranslationEndsKeeps ==
    ASSUME IInv, NEW b \in Buffers, TranslationEnds(b)
    PROVE  IInv'
<1> DEFINE x == buf[b]
           y == [x EXCEPT !.out = "sent"]
<1>1. buf' = [buf EXCEPT ![b] = y]
  BY DEF TranslationEnds
<1>2. /\ Stays /\ OthersTyped' /\ started' = started /\ speaking' = speaking
  BY Before DEF TranslationEnds, Stays, OthersTyped, SpeechIsSomeones, speech,
                history
<1>3. Good(x) /\ x \in Buffer
  BY Before DEF Good
<1> HIDE DEF x
<1>4. y \in Buffer /\ Keeps(y, x)
  BY <1>3, Values, Shape DEF Keeps
<1> HIDE DEF y
<1>5. Good(y) /\ y.endTimer = buf[b].endTimer
  BY <1>3, <1>4, KeepsGood DEF x
<1> QED
  BY <1>1, <1>2, <1>5, UpdateKeeps

LEMMA OthersKeep ==
    ASSUME IInv, Switches \/ ResetBegins \/ ResetEnds \/ UNCHANGED vars
    PROVE  IInv'
<1>1. buf' = buf /\ started' = started /\ speaking' = speaking
  BY DEF Switches, ResetBegins, ResetEnds, vars, speech
<1>2. Stays \/ Ends
  BY DEF Switches, ResetBegins, ResetEnds, vars, history, Stays, Ends
<1>3. OthersTyped'
  <2>1. CASE Switches
    BY <2>1, Before DEF Switches, OthersTyped, SpeechIsSomeones, speech
  <2>2. CASE ResetBegins
    BY <2>2, Before DEF ResetBegins, OthersTyped, SpeechIsSomeones, speech,
       history
  <2>3. CASE ResetEnds
    BY <2>3, Before DEF ResetEnds, OthersTyped, SpeechIsSomeones, speech, None
  <2>4. CASE UNCHANGED vars
    BY <2>4, Before DEF vars, OthersTyped, SpeechIsSomeones, speech, history
  <2> QED
    BY <2>1, <2>2, <2>3, <2>4
<1> QED
  BY <1>1, <1>2, <1>3, SameBuffers, Assemble

-----------------------------------------------------------------------------
(* The theorems.                                                            *)

LEMMA InitHolds == Init => IInv
<1> SUFFICES ASSUME Init PROVE IInv
  OBVIOUS
<1>1. \A b \in Buffers : Good(buf[b]) /\ buf[b].endTimer = None
  BY EmptyGood DEF Init, EmptyBuffer
<1>2. \A b \in Buffers : buf[b] \in Buffer
  BY <1>1 DEF Good
<1>3. TypeOK
  <2>1. buf \in [Buffers -> Buffer]
    BY <1>2 DEF Init
  <2>2. \A b \in Buffers : buf[b].resume = "no" <=> buf[b].resumeId = None
    BY <1>1 DEF Good
  <2>3. /\ cur = None /\ made = 0 /\ started = 0 /\ speaking = FALSE
        /\ ended = {} /\ heard \in [Utts -> 0..Finals] /\ handled = Idle
        /\ mic = None /\ resetting = None /\ translating = TRUE
        /\ commits \in [Buffers -> Nat] /\ dropped = {} /\ hit = {}
    BY MergeAssumption DEF Init
  <2>4. 0 \in 0..MaxBuffers /\ 0 \in 0..Utterances
    BY MergeAssumption
  <2> QED
    BY <2>1, <2>2, <2>3, <2>4, Zenon DEF TypeOK
<1>4. GoodBuffers /\ TimersPast /\ SpeechIsSomeones
  BY <1>1 DEF GoodBuffers, TimersPast, SpeechIsSomeones, Init
<1>5. CurrentIsFresh /\ NothingSentTwice
  BY DEF Init, CurrentIsFresh, NothingSentTwice
<1> QED
  BY <1>3, <1>4, <1>5 DEF IInv

LEMMA NextKeeps == IInv /\ [Next]_vars => IInv'
<1> SUFFICES ASSUME IInv, [Next]_vars PROVE IInv'
  OBVIOUS
<1>1. CASE SpeechStart
  BY <1>1, SpeechStartKeeps
<1>2. CASE ThirdChunk
  BY <1>2, ThirdChunkKeeps
<1>3. CASE SpeechEnd
  BY <1>3, SpeechEndKeeps
<1>4. CASE \E u \in Utts : FinalArrives(u)
  BY <1>4, FinalArrivesKeeps
<1>5. CASE FinalContinues
  BY <1>5, FinalContinuesKeeps
<1>6. CASE \E b \in Buffers : SpecAnswers(b)
  BY <1>6, SpecAnswersKeeps
<1>7. CASE \E b \in Buffers : SpecShown(b) \/ SpecFails(b)
  BY <1>7, SpecEndsKeeps
<1>8. CASE \E b \in Buffers : GraceTimer(b)
  BY <1>8, GraceTimerKeeps
<1>9. CASE \E b \in Buffers : WaitTimer(b)
  BY <1>9, WaitTimerKeeps
<1>10. CASE \E b \in Buffers : EndTimer(b)
  BY <1>10, EndTimerKeeps
<1>11. CASE \E b \in Buffers : TranslationEnds(b)
  BY <1>11, TranslationEndsKeeps
<1>12. CASE Switches \/ ResetBegins \/ ResetEnds \/ UNCHANGED vars
  BY <1>12, OthersKeep
<1> QED
  BY <1>1, <1>2, <1>3, <1>4, <1>5, <1>6, <1>7, <1>8, <1>9, <1>10, <1>11, <1>12
     DEF Next

LEMMA Inductive == Spec => []IInv
BY InitHolds, NextKeeps, PTL DEF Spec

\* Every variable keeps its type and the resume state is set as a whole, for
\* any numbers of utterances, finals and buffers and any choice of events.
THEOREM TypeCorrect == Spec => []TypeOK
<1>1. IInv => TypeOK
  BY DEF IInv
<1> QED
  BY <1>1, Inductive, PTL

\* Whoever commits a buffer finds it current, and it is not any more when it
\* was committed: no text is handed over twice.
THEOREM SentOnce == Spec => []NothingSentTwice
<1>1. IInv => NothingSentTwice
  BY DEF IInv
<1> QED
  BY <1>1, Inductive, PTL

\* Clearing the speculative state with every new attempt keeps the
\* translation with the text it was made of.
THEOREM TranslationFits == Spec => []TranslatesWhatItSends
<1>1. IInv => TranslatesWhatItSends
  BY DEF IInv, GoodBuffers, Good, TranslatesWhatItSends
<1> QED
  BY <1>1, Inductive, PTL

-----------------------------------------------------------------------------
(* Speech that resumed holds the buffer.                                    *)

\* A buffer that speech has resumed, which goes on.
Resuming(b) ==
    /\ buf[b].resume = "confirmed"
    /\ speaking
    /\ buf[b].resumeId = started

\* A buffer committed by Becomes may leave.
LEMMA CommitNeedsLeave ==
    ASSUME IInv, NEW b \in Buffers, cur = b, NEW y, NEW leaves \in BOOLEAN, NEW by,
           Becomes(b, y, leaves, by, ended), leaves => y.resume = "no",
           y.resume = buf[b].resume, NEW c \in Buffers, Resuming(c)
    PROVE  commits'[c] = commits[c]
<1>1. commits \in [Buffers -> Nat]
  BY Before DEF TypeOK
<1>2. CASE leaves
  BY <1>1, <1>2 DEF Becomes, Commit, Resuming
<1>3. CASE ~leaves
  BY <1>1, <1>3 DEF Becomes
<1> QED
  BY <1>2, <1>3

LEMMA LeavesNeedsNoResume ==
    ASSUME NEW x, NEW f
    PROVE  Leaves(x, f) => MayLeave(x) /\ x.resume = "no"
BY DEF Leaves, MayLeave

LEMMA HeldStep ==
    ASSUME IInv, Next, NEW c \in Buffers, Resuming(c), speaking'
    PROVE  commits'[c] = commits[c]
<1>1. CASE SpeechStart \/ ThirdChunk
  BY <1>1 DEF SpeechStart, ThirdChunk, history
<1>2. CASE SpeechEnd
  BY <1>2 DEF SpeechEnd
<1>3. CASE (\E u \in Utts : FinalArrives(u)) \/ FinalContinues
  BY <1>3 DEF FinalArrives, FinalContinues, history
<1>4. CASE \E b \in Buffers : SpecAnswers(b)
  <2>1. PICK b \in Buffers : SpecAnswers(b)
    BY <1>4
  <2> DEFINE x == buf[b]
             y == [x EXCEPT !.specDone = x.specText, !.spec = "no"]
  <2>2. /\ cur = b
        /\ Becomes(b, y, Leaves(y, FALSE), "spec", ended) \/ commits' = commits
    BY <2>1 DEF SpecAnswers, Lives
  <2>3. x \in Buffer
    BY Before DEF Good
  <2> HIDE DEF x
  <2>4. y.resume = x.resume
    BY <2>3, Shape
  <2> HIDE DEF y
  <2>5. Leaves(y, FALSE) \in BOOLEAN /\ (Leaves(y, FALSE) => y.resume = "no")
    BY LeavesNeedsNoResume DEF Leaves
  <2> QED
    BY <2>2, <2>4, <2>5, CommitNeedsLeave DEF x
<1>5. CASE \E b \in Buffers : SpecShown(b) \/ SpecFails(b)
  <2>1. PICK b \in Buffers : SpecShown(b) \/ SpecFails(b)
    BY <1>5
  <2> DEFINE x == buf[b]
             y == [x EXCEPT !.spec = "no"]
  <2>2. /\ cur = b
        /\ \/ Becomes(b, y, Leaves(y, FALSE), "spec", ended)
           \/ Becomes(b, y, Leaves(y, TRUE), "spec", ended)
    BY <2>1 DEF SpecShown, SpecFails, Lives
  <2>3. x \in Buffer
    BY Before DEF Good
  <2> HIDE DEF x
  <2>4. y.resume = x.resume
    BY <2>3, Shape
  <2> HIDE DEF y
  <2>5. /\ Leaves(y, FALSE) \in BOOLEAN /\ (Leaves(y, FALSE) => y.resume = "no")
        /\ Leaves(y, TRUE) \in BOOLEAN /\ (Leaves(y, TRUE) => y.resume = "no")
    BY LeavesNeedsNoResume DEF Leaves
  <2> QED
    BY <2>2, <2>4, <2>5, CommitNeedsLeave DEF x
<1>6. CASE \E b \in Buffers : GraceTimer(b)
  <2>1. PICK b \in Buffers : GraceTimer(b)
    BY <1>6
  <2> DEFINE x == buf[b]
             y == [x EXCEPT !.grace = "off"]
             leaves == IF translating THEN Leaves(y, FALSE) ELSE MayLeave(y)
  <2>2. cur = b /\ Becomes(b, y, leaves, "timer", ended)
    BY <2>1 DEF GraceTimer, Lives
  <2>3. x \in Buffer
    BY Before DEF Good
  <2> HIDE DEF x
  <2>4. y.resume = x.resume
    BY <2>3, Shape
  <2> HIDE DEF y
  <2>5. leaves \in BOOLEAN /\ (leaves => y.resume = "no")
    BY LeavesNeedsNoResume DEF Leaves, MayLeave
  <2> HIDE DEF leaves
  <2> QED
    BY <2>2, <2>4, <2>5, CommitNeedsLeave DEF x
<1>7. CASE \E b \in Buffers : WaitTimer(b) \/ TranslationEnds(b)
  BY <1>7 DEF WaitTimer, TranslationEnds, history
<1>8. CASE \E b \in Buffers : EndTimer(b)
  <2>1. PICK b \in Buffers : EndTimer(b)
    BY <1>8
  <2>2. /\ cur = b /\ buf[b].endTimer # None
        /\ commits' = commits \/ commits' = [commits EXCEPT ![b] = @ + 1]
    BY <2>1 DEF EndTimer, Lives, Becomes, Commit
  <2>3. buf[b].endTimer < started /\ buf[b].endTimer = buf[b].resumeId
    BY <2>2, Before DEF IInv, TimersPast, Resuming, Good
  <2>4. started \in Nat /\ commits \in [Buffers -> Nat]
    BY Before, MergeAssumption DEF TypeOK
  <2>5. buf[b].resumeId # started
    BY <2>3, <2>4
  <2>6. c # b
    BY <2>5 DEF Resuming
  <2> QED
    BY <2>2, <2>4, <2>6
<1>9. CASE Switches \/ ResetBegins \/ ResetEnds
  BY <1>9 DEF Switches, ResetBegins, ResetEnds, history
<1> QED
  BY <1>1, <1>2, <1>3, <1>4, <1>5, <1>6, <1>7, <1>8, <1>9 DEF Next

\* While speech that resumed goes on, none of the tasks that may commit the
\* buffer does: all but one look at the resume state, and the timer that
\* clears it only runs after the speech.
THEOREM SentenceHeld == Spec => HeldWhileResumed
<1> DEFINE Held ==
      \A b \in Buffers :
          /\ buf[b].resume = "confirmed"
          /\ speaking /\ speaking'
          /\ buf[b].resumeId = started
          => commits'[b] = commits[b]
<1>1. IInv /\ [Next]_vars => [Held]_vars
  BY HeldStep DEF Resuming
<1> QED
  BY <1>1, Inductive, PTL DEF Spec, HeldWhileResumed

-----------------------------------------------------------------------------
(* No text waits for nobody.                                                *)

\* A translation that runs or has come back is that of the whole text.
TranslatesText(x) == x.spec # "no" \/ x.specDone # NoText => x.specText = x.parts

\* The speech that resumed buffer x goes on, or its timer runs.
Resumer(x) ==
    \/ speaking /\ x.resumeId = started
    \/ x.resume = "confirmed" /\ x.endTimer # None

\* What buffer b has to be like so that whatever happens next leaves somebody
\* who commits it.  A suspended final handler will start a new translation.
\* Else a text that nobody translates, and that has not been translated, can
\* only be one whose translation the confirmed speech dropped; a wait that began
\* after that came with a translation of its own.
KeptBy(b) ==
    LET x == buf[b]
    IN  /\ x.parts # NoText
        /\ x.resume # "no" => Resumer(x)
        /\ ~translating => x.spec = "no" /\ x.specDone = NoText
        /\ x.spec # "no" => x.specText # NoText
        /\ x.spec = "showing" => x.specDone = x.specText
        /\ handled.buf # b =>
              /\ TranslatesText(x)
              /\ translating =>
                    \/ x.spec # "no" \/ Reusable(x)
                    \/ /\ x.resume # "no"
                       /\ x.endTimer # None => ~x.waitLast
        /\ WillBeCommitted(b)

\* Nothing is known of a buffer that is hit, or whose tasks a reset cancels.
Carries == cur # None /\ cur \notin hit /\ resetting = None

CurrentKept == Carries => KeptBy(cur)

\* Buffers to come are empty, and a handler has a final that was spoken.
OnlyMade ==
    /\ \A b \in Buffers : b > made => buf[b] = EmptyBuffer
    /\ handled # Idle => handled.buf <= made /\ handled.utt <= started

Kept == OnlyMade /\ CurrentKept

LEMMA InitKept == Init => Kept
BY DEF Init, Kept, OnlyMade, CurrentKept, Carries, Idle, None

-----------------------------------------------------------------------------
(* Buffers to come, and the suspended handler.                              *)

\* A step that changes one buffer that was made.
LEMMA MadeChanges ==
    ASSUME IInv, OnlyMade, NEW b \in Buffers, b <= made, NEW y,
           buf' = [buf EXCEPT ![b] = y], made' = made,
           started' \in {started, started + 1}, handled' \in {handled, Idle}
    PROVE  OnlyMade'
<1>1. made \in Nat /\ started \in Nat /\ buf \in [Buffers -> Buffer]
  BY Before, MergeAssumption DEF TypeOK
<1>2. \A c \in Buffers : c > made => buf'[c] = EmptyBuffer
  <2> SUFFICES ASSUME NEW c \in Buffers, c > made PROVE buf'[c] = EmptyBuffer
    OBVIOUS
  <2>1. c # b
    BY <1>1 DEF Buffers
  <2> QED
    BY <1>1, <2>1 DEF OnlyMade
<1>3. handled' # Idle => handled'.buf <= made /\ handled'.utt <= started'
  <2> SUFFICES ASSUME handled # Idle, handled' = handled
               PROVE  handled.buf <= made /\ handled.utt <= started'
    OBVIOUS
  <2>1. handled.utt \in Nat
    BY Before DEF TypeOK, Utts
  <2> QED
    BY <1>1, <2>1 DEF OnlyMade
<1> QED
  BY <1>2, <1>3 DEF OnlyMade

\* A step that changes no buffer.
LEMMA MadeSame ==
    ASSUME IInv, OnlyMade, buf' = buf, made' = made,
           started' \in {started, started + 1}, handled' = handled
    PROVE  OnlyMade'
<1>1. started \in Nat /\ (handled # Idle => handled.utt \in Nat)
  BY Before, MergeAssumption DEF TypeOK, Utts
<1> QED
  BY <1>1 DEF OnlyMade

LEMMA CurrentMade ==
    ASSUME IInv, cur # None
    PROVE  cur \in Buffers /\ cur <= made
BY Before DEF IInv, CurrentIsFresh

\* What Becomes changes.
LEMMA BecomesChanges ==
    ASSUME NEW b, NEW x, NEW leaves \in BOOLEAN, NEW by, NEW e,
           Becomes(b, x, leaves, by, e)
    PROVE  \/ leaves /\ cur' = None /\ \E y : buf' = [buf EXCEPT ![b] = y]
           \/ ~leaves /\ cur' = cur /\ buf' = [buf EXCEPT ![b] = x]
BY DEF Becomes, Commit

LEMMA OnlyMadeKeeps == ASSUME IInv, OnlyMade, [Next]_vars PROVE OnlyMade'
<1>1. CASE SpeechStart
  <2>1. /\ made' = made /\ started' = started + 1 /\ handled' = handled
        /\ \/ buf' = buf
           \/ cur # None /\ \E y : buf' = [buf EXCEPT ![cur] = y]
    BY <1>1 DEF SpeechStart
  <2> QED
    BY <2>1, MadeSame, MadeChanges, CurrentMade
<1>2. CASE ThirdChunk
  <2>1. /\ made' = made /\ started' = started /\ handled' = handled
        /\ cur # None /\ \E y : buf' = [buf EXCEPT ![cur] = y]
    BY <1>2 DEF ThirdChunk, speech
  <2> QED
    BY <2>1, MadeChanges, CurrentMade
<1>3. CASE SpeechEnd
  <2>1. /\ made' = made /\ started' = started /\ handled' = handled
        /\ \/ buf' = buf
           \/ cur # None /\ \E y : buf' = [buf EXCEPT ![cur] = y]
    BY <1>3 DEF SpeechEnd, ResumeEnds, Becomes, Commit
  <2> QED
    BY <2>1, MadeSame, MadeChanges, CurrentMade
<1>4. CASE \E u \in Utts : FinalArrives(u)
  <2>1. PICK u \in Utts : FinalArrives(u)
    BY <1>4
  <2> DEFINE b == IF cur = None THEN made + 1 ELSE cur
  <2>2. /\ b \in Buffers /\ u <= started /\ started' = started
        /\ handled = Idle
        /\ made' = IF cur = None THEN b ELSE made
        /\ \E y : buf' = [buf EXCEPT ![b] = y]
        /\ handled' \in {Idle, [buf |-> b, utt |-> u]}
    BY <2>1 DEF FinalArrives, speech
  <2>3. made \in Nat /\ buf \in [Buffers -> Buffer]
    BY Before, MergeAssumption DEF TypeOK
  <2>4. b <= made' /\ made <= made'
    BY <2>2, <2>3, CurrentMade DEF Buffers
  <2> HIDE DEF b
  <2>5. made' \in Nat
    BY <2>2, <2>3 DEF Buffers
  <2>6. ASSUME NEW c \in Buffers, c > made' PROVE buf'[c] = EmptyBuffer
    <3>1. c # b /\ c > made
      BY <2>2, <2>3, <2>4, <2>5, <2>6 DEF Buffers
    <3> QED
      BY <2>2, <2>3, <3>1 DEF OnlyMade
  <2> QED
    BY <2>2, <2>4, <2>6 DEF OnlyMade
<1>5. CASE FinalContinues
  <2>1. /\ made' = made /\ started' = started /\ handled' = Idle
        /\ handled # Idle
        /\ \E y : buf' = [buf EXCEPT ![handled.buf] = y]
    BY <1>5 DEF FinalContinues, speech
  <2>2. handled.buf \in Buffers /\ handled.buf <= made
    BY <2>1, Before DEF TypeOK, OnlyMade
  <2> QED
    BY <2>1, <2>2, MadeChanges
<1>6. CASE \E b \in Buffers : \/ SpecAnswers(b) \/ SpecShown(b) \/ SpecFails(b)
                              \/ GraceTimer(b) \/ WaitTimer(b) \/ EndTimer(b)
  <2>1. PICK b \in Buffers : \/ SpecAnswers(b) \/ SpecShown(b) \/ SpecFails(b)
                             \/ GraceTimer(b) \/ WaitTimer(b) \/ EndTimer(b)
    BY <1>6
  <2>2. /\ made' = made /\ started' = started /\ handled' = handled
        /\ cur = b /\ \E y : buf' = [buf EXCEPT ![b] = y]
    BY <2>1 DEF SpecAnswers, SpecShown, SpecFails, GraceTimer, WaitTimer,
                EndTimer, Lives, Becomes, Commit, speech
  <2>3. b <= made
    BY <2>2, CurrentMade DEF Buffers, None
  <2> QED
    BY <2>2, <2>3, MadeChanges
<1>7. CASE \E b \in Buffers : TranslationEnds(b)
  <2>1. PICK b \in Buffers : TranslationEnds(b)
    BY <1>7
  <2>2. /\ made' = made /\ started' = started /\ handled' = handled
        /\ buf[b].out = "translating"
        /\ \E y : buf' = [buf EXCEPT ![b] = y]
    BY <2>1 DEF TranslationEnds, speech
  <2>3. EmptyBuffer.out = "no"
    BY DEF EmptyBuffer
  <2>4. ~(b > made)
    BY <2>2, <2>3 DEF OnlyMade
  <2>5. b <= made
    BY <2>4, Before, MergeAssumption DEF TypeOK, Buffers
  <2> QED
    BY <2>2, <2>5, MadeChanges
<1>8. CASE Switches \/ ResetBegins \/ ResetEnds \/ UNCHANGED vars
  <2>1. buf' = buf /\ made' = made /\ started' = started /\ handled' = handled
    BY <1>8 DEF Switches, ResetBegins, ResetEnds, vars, speech
  <2> QED
    BY <2>1, MadeSame
<1> QED
  BY <1>1, <1>2, <1>3, <1>4, <1>5, <1>6, <1>7, <1>8 DEF Next

-----------------------------------------------------------------------------
(* The current buffer: the microphone loop.                                 *)

\* Where the lemmas about the current buffer start from.
LEMMA KeptBefore ==
    ASSUME IInv, Kept, Carries
    PROVE  /\ cur \in Buffers /\ Good(buf[cur]) /\ buf[cur] \in Buffer
           /\ buf \in [Buffers -> Buffer]
           /\ KeptBy(cur)
           /\ started \in Nat /\ speaking \in BOOLEAN
           /\ handled \in [buf : Buffers, utt : Utts] \cup {Idle}
           /\ handled.buf = cur =>
                handled.utt \in Utts /\ handled.utt <= started
<1>1. cur \in Buffers /\ Good(buf[cur]) /\ buf[cur] \in Buffer
  BY Before DEF Carries, Good
<1>2. handled.buf = cur => handled # Idle
  BY <1>1 DEF Idle, None, Buffers
<1> QED
  BY <1>1, <1>2, Before, MergeAssumption
     DEF TypeOK, Kept, CurrentKept, OnlyMade

LEMMA SpeechStartForgetsNone ==
    ASSUME IInv, Kept, SpeechStart PROVE CurrentKept'
<1> SUFFICES ASSUME Carries' PROVE KeptBy(cur)'
  BY DEF CurrentKept
<1> DEFINE x == buf[cur]
           y == Resumed(x, started + 1)
<1>1. /\ cur' = cur /\ handled' = handled /\ translating' = translating
      /\ started' = started + 1 /\ speaking' /\ ~speaking
      /\ Carries
  BY DEF SpeechStart, history, Carries
<1>2. buf' = [buf EXCEPT ![cur] = y]
  BY <1>1 DEF SpeechStart, Carries
<1>3. buf'[cur'] = y
  BY <1>1, <1>2, KeptBefore
<1>4. /\ y.parts = x.parts /\ y.wait = x.wait /\ y.resume = "pending"
      /\ y.resumeId = started + 1 /\ y.spec = x.spec
      /\ y.specText = x.specText /\ y.specDone = x.specDone
      /\ y.endTimer = None
  BY <1>1, KeptBefore, Shape DEF Resumed
<1>5. KeptBy(cur)
  BY <1>1, KeptBefore
<1> HIDE DEF y
<1> QED
  BY <1>1, <1>3, <1>4, <1>5
     DEF KeptBy, WillBeCommitted, TranslatesText, Reusable, Resumer, x

LEMMA ThirdChunkForgetsNone ==
    ASSUME IInv, Kept, ThirdChunk PROVE CurrentKept'
<1> SUFFICES ASSUME Carries' PROVE KeptBy(cur)'
  BY DEF CurrentKept
<1> DEFINE x == buf[cur]
           y == [ClearSpec(x) EXCEPT !.resume = "confirmed"]
<1>1. /\ cur' = cur /\ handled' = handled /\ translating' = translating
      /\ started' = started /\ speaking' = speaking
      /\ speaking /\ x.resume = "pending" /\ x.resumeId = started
      /\ Carries
  BY DEF ThirdChunk, speech, history, Carries
<1>2. buf' = [buf EXCEPT ![cur] = y]
  BY DEF ThirdChunk
<1>3. buf'[cur'] = y
  BY <1>1, <1>2, KeptBefore
<1>4. /\ y.parts = x.parts /\ y.wait = x.wait /\ y.resume = "confirmed"
      /\ y.resumeId = x.resumeId /\ y.spec = "no"
      /\ y.specDone = NoText /\ y.endTimer = x.endTimer
  BY <1>1, KeptBefore, Shape DEF ClearSpec
<1>5. KeptBy(cur) /\ x.endTimer = None
  BY <1>1, KeptBefore, Before DEF IInv, TimersPast, Good
<1> HIDE DEF y
<1> QED
  BY <1>1, <1>3, <1>4, <1>5
     DEF KeptBy, WillBeCommitted, TranslatesText, Reusable, Resumer, x

LEMMA SpeechEndForgetsNone ==
    ASSUME IInv, Kept, SpeechEnd PROVE CurrentKept'
<1> SUFFICES ASSUME Carries' PROVE KeptBy(cur)'
  BY DEF CurrentKept
<1> DEFINE u == started
           x == buf[cur]
           z == EndAwaited(x, u)
           falseStart == z.resumeId = u /\ z.resume = "pending"
           y == IF falseStart THEN ClearResume(z)
                ELSE IF z.resumeId = u
                THEN [z EXCEPT !.endTimer = u, !.waitLast = FALSE]
                ELSE z
           leaves == falseStart /\ Leaves(y, TRUE)
<1>1. /\ handled' = handled /\ translating' = translating
      /\ started' = started /\ ~speaking' /\ speaking
      /\ resetting' = resetting
  BY DEF SpeechEnd
<1>2. cur # None
  BY DEF SpeechEnd, Carries
<1>3. /\ Becomes(cur, y, leaves, "mic", ended \cup {started})
      /\ hit' = IF Strands(x) THEN hit \cup ({cur'} \ {None}) ELSE hit
  BY <1>2 DEF SpeechEnd, ResumeEnds
<1>4. leaves \in BOOLEAN
  BY DEF Leaves
<1>5. ~leaves /\ cur' = cur /\ buf' = [buf EXCEPT ![cur] = y]
  <2> HIDE DEF y, leaves
  <2> QED
    BY <1>3, <1>4, BecomesChanges DEF Carries
<1>6. Carries /\ ~Strands(x)
  BY <1>1, <1>2, <1>3, <1>5 DEF Carries
<1>7. buf'[cur'] = y
  BY <1>5, <1>6, KeptBefore
<1>8. KeptBy(cur) /\ x \in Buffer /\ started # None
  BY <1>1, <1>6, KeptBefore, Before DEF OthersTyped, SpeechIsSomeones, None
\* The end the text has waited for starts a grace period.
<1>9. /\ z \in Buffer
      /\ z.parts = x.parts /\ z.resume = x.resume /\ z.resumeId = x.resumeId
      /\ z.endTimer = x.endTimer /\ z.waitLast = x.waitLast
      /\ z.spec = x.spec /\ z.specText = x.specText /\ z.specDone = x.specDone
      /\ MayLeave(z) => MayLeave(x)
  <2> DEFINE v == [x EXCEPT !.wait = None, !.grace = "on"]
  <2>1. /\ v \in Buffer
        /\ v.parts = x.parts /\ v.resume = x.resume /\ v.resumeId = x.resumeId
        /\ v.endTimer = x.endTimer /\ v.waitLast = x.waitLast
        /\ v.spec = x.spec /\ v.specText = x.specText
        /\ v.specDone = x.specDone /\ v.grace = "on"
    BY <1>8, Shape, Values
  <2>2. z = v \/ z = x
    BY DEF EndAwaited
  <2> HIDE DEF v, z, x
  <2> QED
    BY <1>8, <2>1, <2>2 DEF MayLeave
<1> HIDE DEF z
<1>10. CASE falseStart
  <2>1. y = ClearResume(z)
    BY <1>10
  <2>2. /\ y.wait = z.wait /\ y.grace = z.grace /\ y.resume = "no"
        /\ y.parts = x.parts /\ y.spec = x.spec
        /\ y.specText = x.specText /\ y.specDone = x.specDone
    BY <1>9, <2>1, Shape DEF ClearResume
  <2>3. ~Leaves(y, TRUE)
    BY <1>5, <1>10
  <2> HIDE DEF y
  <2>4. ~MayLeave(y) \/ (y.specDone # NoText /\ ~Reusable(y))
    BY <2>3 DEF Leaves
  <2>5. handled.buf # cur => ~MayLeave(y)
    BY <1>8, <2>2, <2>4 DEF KeptBy, TranslatesText, Reusable, x
  <2>6. handled.buf # cur /\ translating => x.spec # "no" \/ Reusable(x)
    BY <1>6, <1>9, <1>10 DEF Strands
  <2> QED
    BY <1>1, <1>5, <1>7, <1>8, <2>2, <2>5, <2>6
       DEF KeptBy, WillBeCommitted, TranslatesText, Reusable, x
<1>11. CASE ~falseStart /\ x.resumeId = u
  <2>1. /\ y.grace = z.grace /\ y.resume = x.resume
        /\ y.parts = x.parts /\ y.spec = x.spec /\ y.resumeId = x.resumeId
        /\ y.specText = x.specText /\ y.specDone = x.specDone
        /\ y.endTimer = u /\ y.waitLast = FALSE
    BY <1>8, <1>9, <1>11, Shape
  <2>2. x.resume = "confirmed"
    <3>1. x.resume # "pending"
      BY <1>9, <1>11
    <3>2. x.resume # "no"
      BY <1>6, <1>8, <1>11, KeptBefore DEF Good
    <3> QED
      BY <1>8, <3>1, <3>2, Shape DEF Resumes
  <2> HIDE DEF y
  <2> QED
    BY <1>1, <1>5, <1>7, <1>8, <2>1, <2>2
       DEF KeptBy, WillBeCommitted, TranslatesText, Reusable, Resumer, x
<1>12. CASE x.resumeId # u
  <2>1. y = z
    BY <1>9, <1>12
  <2> HIDE DEF y
  <2> QED
    BY <1>1, <1>5, <1>7, <1>8, <1>9, <1>12, <2>1
       DEF KeptBy, WillBeCommitted, TranslatesText, Reusable, Resumer, x
<1> QED
  BY <1>9, <1>10, <1>11, <1>12

-----------------------------------------------------------------------------
(* The current buffer: the finals.                                          *)

\* A final leaves a text that is being translated and that a timer or the end
\* of its utterance will commit.
LEMMA ArmedKept ==
    ASSUME NEW x \in Buffer, NEW u \in Utts,
           ~translating => x.spec = "no" /\ x.specDone = NoText
    PROVE  LET y == Armed(x, u)
           IN  /\ y.parts = x.parts
               /\ y.resume = x.resume /\ y.resumeId = x.resumeId
               /\ y.endTimer = x.endTimer
               /\ ~translating => y.spec = "no" /\ y.specDone = NoText
               /\ translating => y.spec = "running" /\ y.specText = x.parts
               /\ ~MayLeave(y)
<1> DEFINE w == IF x.wait = u THEN None ELSE x.wait
           l == x.endTimer # None
           p == IF u \in ended THEN [x EXCEPT !.wait = w, !.grace = "on"]
                ELSE [x EXCEPT !.wait = u, !.waitLast = l, !.grace = "off"]
           y == RestartSpec(p)
<1>1. Armed(x, u) = y
  BY DEF Armed
<1>2. w \in Holders /\ l \in BOOLEAN
  BY Shape, Values
<1>3. /\ p \in Buffer
      /\ p.parts = x.parts /\ p.resume = x.resume /\ p.resumeId = x.resumeId
      /\ p.endTimer = x.endTimer /\ p.spec = x.spec
      /\ p.specText = x.specText /\ p.specDone = x.specDone
      /\ IF u \in ended THEN p.wait = w /\ p.grace = "on"
         ELSE p.wait = u
  <2> HIDE DEF w, l
  <2> QED
    BY <1>2, Shape, Values
<1>4. ~MayLeave(p)
  BY <1>3, Values DEF MayLeave
<1> HIDE DEF p, w
<1>5. CASE translating
  <2>1. /\ y.parts = p.parts /\ y.wait = p.wait /\ y.grace = p.grace
        /\ y.resume = p.resume /\ y.resumeId = p.resumeId
        /\ y.endTimer = p.endTimer
        /\ y.spec = "running" /\ y.specText = p.parts
    BY <1>3, <1>5, Shape DEF RestartSpec, ClearSpec
  <2> HIDE DEF y
  <2> QED
    BY <1>1, <1>3, <1>4, <1>5, <2>1 DEF MayLeave
<1>6. CASE ~translating
  <2>1. y = p
    BY <1>6 DEF RestartSpec
  <2> HIDE DEF y
  <2> QED
    BY <1>1, <1>3, <1>4, <1>6, <2>1 DEF MayLeave
<1> QED
  BY <1>5, <1>6

LEMMA FinalArrivesForgetsNone ==
    ASSUME IInv, Kept, NEW u \in Utts, FinalArrives(u) PROVE CurrentKept'
<1> SUFFICES ASSUME Carries' PROVE KeptBy(cur)'
  BY DEF CurrentKept
<1> DEFINE b == IF cur = None THEN made + 1 ELSE cur
           o == buf[b]
           r == ClearResume(o)
<1>1. /\ b \in Buffers /\ cur' = b /\ handled = Idle
      /\ translating' = translating /\ started' = started
      /\ speaking' = speaking /\ ended' = ended
      /\ resetting' = resetting /\ hit' = hit
      /\ heard[u] \in Nat
  BY Before DEF FinalArrives, OthersTyped, speech, history
<1>2. PICK x \in Upserts(r, u) :
        \/ /\ buf' = [buf EXCEPT ![b] = Armed(x, u)]
           /\ handled' = handled
        \/ /\ buf' = [buf EXCEPT ![b] = x]
           /\ handled' = [buf |-> b, utt |-> u]
  BY DEF FinalArrives
<1>3. /\ o \in Buffer
      /\ ~translating => o.spec = "no" /\ o.specDone = NoText
      /\ o.spec # "no" => o.specText # NoText
      /\ o.spec = "showing" => o.specDone = o.specText
  <2>1. o \in Buffer
    BY <1>1, Before DEF Good
  <2>2. CASE cur = None
    <3>1. o = EmptyBuffer
      BY <1>1, <2>2, Before, MergeAssumption DEF Kept, OnlyMade, TypeOK
    <3> QED
      BY <2>1, <3>1 DEF EmptyBuffer
  <2>3. CASE cur # None
    <3>1. Carries /\ b = cur
      BY <1>1, <2>3 DEF Carries
    <3>2. KeptBy(b)
      BY <3>1, KeptBefore
    <3> HIDE DEF b
    <3> QED
      BY <2>1, <3>2 DEF KeptBy
  <2> QED
    BY <2>2, <2>3
<1> HIDE DEF b
<1> HIDE DEF o
<1>4. /\ r \in Buffer /\ r.resume = "no"
      /\ r.parts = o.parts /\ r.wait = o.wait /\ r.spec = o.spec
      /\ r.specText = o.specText /\ r.specDone = o.specDone
  BY <1>3, Shape, Values DEF ClearResume
<1> HIDE DEF r
<1>5. /\ x \in Buffer /\ x.resume = "no" /\ x.parts # NoText
      /\ x.wait = o.wait /\ x.spec = o.spec
      /\ x.specText = o.specText /\ x.specDone = o.specDone
  <2> DEFINE q == [r.parts EXCEPT ![u] = heard[u] + 1]
  <2>1. CASE x = r /\ r.parts[u] # 0
    BY <1>4, <2>1 DEF NoText
  <2>2. CASE x = [r EXCEPT !.parts[u] = heard[u] + 1]
    <3>1. r.parts \in Texts
      BY <1>4, Shape
    <3>2. heard[u] + 1 \in 0..Finals
      BY <1>1, MergeAssumption, Before DEF FinalArrives, OthersTyped
    <3>3. q \in Texts /\ q[u] # 0
      BY <1>1, <3>1, <3>2 DEF Texts
    <3>4. x = [r EXCEPT !.parts = q]
      BY <2>2
    <3> HIDE DEF q
    <3>5. q # NoText
      BY <3>3 DEF NoText
    <3> QED
      BY <1>4, <3>3, <3>4, <3>5, Shape
  <2> QED
    BY <1>2, <2>1, <2>2 DEF Upserts
<1>6. CASE /\ buf' = [buf EXCEPT ![b] = Armed(x, u)]
           /\ handled' = handled
  <2> DEFINE y == Armed(x, u)
  <2>1. /\ y.parts = x.parts
        /\ y.resume = "no"
        /\ ~translating => y.spec = "no" /\ y.specDone = NoText
        /\ translating => y.spec = "running" /\ y.specText = x.parts
        /\ ~MayLeave(y)
    BY <1>3, <1>5, ArmedKept
  <2>2. buf'[cur'] = y
    BY <1>1, <1>6, Before DEF TypeOK
  <2> HIDE DEF y
  <2> QED
    BY <1>1, <1>5, <2>1, <2>2
       DEF KeptBy, WillBeCommitted, TranslatesText, Reusable
<1>7. CASE /\ buf' = [buf EXCEPT ![b] = x]
           /\ handled' = [buf |-> b, utt |-> u]
  <2>1. buf'[cur'] = x /\ handled'.buf = cur'
    BY <1>1, <1>7, Before DEF TypeOK
  <2> QED
    BY <1>1, <1>3, <1>5, <2>1 DEF KeptBy, WillBeCommitted
<1> QED
  BY <1>2, <1>6, <1>7

LEMMA FinalContinuesForgetsNone ==
    ASSUME IInv, Kept, FinalContinues PROVE CurrentKept'
<1> SUFFICES ASSUME Carries' PROVE KeptBy(cur)'
  BY DEF CurrentKept
<1> DEFINE b == handled.buf
           u == handled.utt
           x == buf[b]
           y == Armed(x, u)
<1>1. /\ cur' = cur /\ handled' = Idle /\ translating' = translating
      /\ started' = started /\ speaking' = speaking
      /\ hit' = hit /\ resetting' = resetting
      /\ buf' = [buf EXCEPT ![b] = y]
  BY DEF FinalContinues, speech, history
<1>2. Carries
  BY <1>1 DEF Carries
<1>3. handled'.buf # cur /\ KeptBy(cur) /\ cur \in Buffers
  BY <1>1, <1>2, KeptBefore DEF Idle, None, Buffers
<1>4. CASE b # cur
  <2>1. buf'[cur'] = buf[cur]
    BY <1>1, <1>2, <1>4, KeptBefore
  <2> HIDE DEF b
  <2> QED
    BY <1>1, <1>3, <1>4, <2>1
       DEF KeptBy, WillBeCommitted, TranslatesText, Reusable, Resumer, b
<1>5. CASE b = cur
  <2>1. u \in Utts /\ x \in Buffer
    BY <1>2, <1>5, KeptBefore
  <2>2. KeptBy(b) /\ handled.buf = b
    BY <1>3, <1>5
  <2>3. buf'[cur'] = y
    BY <1>1, <1>2, <1>5, KeptBefore
  <2> HIDE DEF b, u
  <2>4. /\ x.parts # NoText
        /\ x.resume # "no" => Resumer(x)
        /\ ~translating => x.spec = "no" /\ x.specDone = NoText
    BY <2>2 DEF KeptBy
  <2> HIDE DEF x
  <2>5. /\ y.parts = x.parts
        /\ y.resume = x.resume /\ y.resumeId = x.resumeId
        /\ y.endTimer = x.endTimer
        /\ ~translating => y.spec = "no" /\ y.specDone = NoText
        /\ translating => y.spec = "running" /\ y.specText = x.parts
        /\ ~MayLeave(y)
    BY <2>1, <2>4, ArmedKept
  <2> HIDE DEF y
  <2> QED
    BY <1>1, <1>3, <2>3, <2>4, <2>5
       DEF KeptBy, WillBeCommitted, TranslatesText, Reusable, Resumer
<1> QED
  BY <1>4, <1>5

-----------------------------------------------------------------------------
(* The current buffer: the speculative translation and the timers.          *)

LEMMA SpecAnswersForgetsNone ==
    ASSUME IInv, Kept, NEW b \in Buffers, SpecAnswers(b) PROVE CurrentKept'
<1> SUFFICES ASSUME Carries' PROVE KeptBy(cur)'
  BY DEF CurrentKept
<1> DEFINE x == buf[b]
           y == [x EXCEPT !.specDone = x.specText, !.spec = "no"]
           z == [y EXCEPT !.spec = "showing"]
           leaves == Leaves(y, FALSE)
<1>1. /\ cur = b /\ cur' \in {None, cur} /\ handled' = handled
      /\ translating' = translating
      /\ started' = started /\ speaking' = speaking
      /\ hit' = hit /\ resetting' = resetting /\ x.spec = "running"
      /\ \/ Becomes(b, y, leaves, "spec", ended)
         \/ cur' = cur /\ buf' = [buf EXCEPT ![b] = z]
  BY DEF SpecAnswers, Lives, Becomes, Commit, speech
<1>2. Carries
  BY <1>1 DEF Carries
<1>3. x \in Buffer /\ KeptBy(b) /\ buf \in [Buffers -> Buffer]
  BY <1>1, <1>2, KeptBefore
<1>4. /\ y.parts = x.parts /\ y.wait = x.wait /\ y.grace = x.grace
      /\ y.resume = x.resume /\ y.resumeId = x.resumeId
      /\ y.endTimer = x.endTimer /\ y.waitLast = x.waitLast
      /\ y.spec = "no"
      /\ y.specText = x.specText /\ y.specDone = x.specText
  BY <1>3, Shape
<1>5. /\ z.parts = x.parts /\ z.wait = x.wait /\ z.grace = x.grace
      /\ z.resume = x.resume /\ z.resumeId = x.resumeId
      /\ z.endTimer = x.endTimer /\ z.waitLast = x.waitLast
      /\ z.spec = "showing"
      /\ z.specText = x.specText /\ z.specDone = x.specText
  BY <1>3, Shape
<1>6. leaves \in BOOLEAN
  BY DEF Leaves
<1> HIDE DEF y, z
<1>7. CASE cur' = cur /\ buf' = [buf EXCEPT ![b] = z]
  <2>1. buf'[cur'] = z
    BY <1>1, <1>3, <1>7
  <2> QED
    BY <1>1, <1>3, <1>5, <1>7, <2>1
       DEF KeptBy, WillBeCommitted, TranslatesText, Reusable, Resumer, x
<1>8. CASE Becomes(b, y, leaves, "spec", ended)
  <2>1. ~leaves /\ cur' = cur /\ buf' = [buf EXCEPT ![b] = y]
    <3> HIDE DEF leaves
    <3> QED
      BY <1>6, <1>8, BecomesChanges DEF Carries
  <2>2. buf'[cur'] = y
    BY <1>1, <1>3, <2>1
  <2>3. ~Leaves(y, FALSE)
    BY <2>1
  <2> QED
    BY <1>1, <1>3, <1>4, <2>1, <2>2, <2>3
       DEF KeptBy, WillBeCommitted, TranslatesText, Reusable, Resumer, Leaves,
           MayLeave, x
<1> QED
  BY <1>1, <1>7, <1>8

LEMMA SpecShownForgetsNone ==
    ASSUME IInv, Kept, NEW b \in Buffers, SpecShown(b) PROVE CurrentKept'
<1> SUFFICES ASSUME Carries' PROVE KeptBy(cur)'
  BY DEF CurrentKept
<1> DEFINE x == buf[b]
           y == [x EXCEPT !.spec = "no"]
           leaves == Leaves(y, FALSE)
<1>1. /\ cur = b /\ cur' \in {None, cur} /\ handled' = handled
      /\ translating' = translating
      /\ started' = started /\ speaking' = speaking
      /\ hit' = hit /\ resetting' = resetting /\ x.spec = "showing"
      /\ Becomes(b, y, leaves, "spec", ended)
  BY DEF SpecShown, Lives, Becomes, Commit, speech
<1>2. Carries
  BY <1>1 DEF Carries
<1>3. x \in Buffer /\ KeptBy(b) /\ buf \in [Buffers -> Buffer]
  BY <1>1, <1>2, KeptBefore
<1>4. /\ y.parts = x.parts /\ y.wait = x.wait /\ y.grace = x.grace
      /\ y.resume = x.resume /\ y.resumeId = x.resumeId
      /\ y.endTimer = x.endTimer /\ y.waitLast = x.waitLast
      /\ y.spec = "no"
      /\ y.specText = x.specText /\ y.specDone = x.specDone
  BY <1>3, Shape
<1>5. leaves \in BOOLEAN
  BY DEF Leaves
<1> HIDE DEF y
<1>6. ~leaves /\ cur' = cur /\ buf' = [buf EXCEPT ![b] = y]
  <2> HIDE DEF leaves
  <2> QED
    BY <1>1, <1>5, BecomesChanges DEF Carries
<1>7. buf'[cur'] = y /\ ~Leaves(y, FALSE)
  BY <1>1, <1>3, <1>6
<1> QED
  BY <1>1, <1>3, <1>4, <1>6, <1>7
     DEF KeptBy, WillBeCommitted, TranslatesText, Reusable, Resumer, Leaves,
         MayLeave, x

LEMMA GraceTimerForgetsNone ==
    ASSUME IInv, Kept, NEW b \in Buffers, GraceTimer(b) PROVE CurrentKept'
<1> SUFFICES ASSUME Carries' PROVE KeptBy(cur)'
  BY DEF CurrentKept
<1> DEFINE x == buf[b]
           y == [x EXCEPT !.grace = "off"]
           leaves == IF translating THEN Leaves(y, FALSE) ELSE MayLeave(y)
<1>1. /\ cur = b /\ cur' \in {None, cur} /\ handled' = handled
      /\ translating' = translating
      /\ started' = started /\ speaking' = speaking
      /\ hit' = hit /\ resetting' = resetting
      /\ Becomes(b, y, leaves, "timer", ended)
  BY DEF GraceTimer, Lives, Becomes, Commit, speech
<1>2. Carries
  BY <1>1 DEF Carries
<1>3. x \in Buffer /\ KeptBy(b) /\ buf \in [Buffers -> Buffer]
  BY <1>1, <1>2, KeptBefore
<1>4. /\ y.parts = x.parts /\ y.wait = x.wait /\ y.grace = "off"
      /\ y.resume = x.resume /\ y.resumeId = x.resumeId
      /\ y.endTimer = x.endTimer /\ y.waitLast = x.waitLast
      /\ y.spec = x.spec
      /\ y.specText = x.specText /\ y.specDone = x.specDone
  BY <1>3, Shape
<1>5. leaves \in BOOLEAN
  BY DEF Leaves, MayLeave
<1> HIDE DEF y
<1>6. ~leaves /\ cur' = cur /\ buf' = [buf EXCEPT ![b] = y]
  <2> HIDE DEF leaves
  <2> QED
    BY <1>1, <1>5, BecomesChanges DEF Carries
<1>7. /\ buf'[cur'] = y
      /\ IF translating THEN ~Leaves(y, FALSE) ELSE ~MayLeave(y)
  BY <1>1, <1>3, <1>6
<1> QED
  BY <1>1, <1>3, <1>4, <1>6, <1>7
     DEF KeptBy, WillBeCommitted, TranslatesText, Reusable, Resumer, Leaves,
         MayLeave, x

LEMMA WaitTimerForgetsNone ==
    ASSUME IInv, Kept, NEW b \in Buffers, WaitTimer(b) PROVE CurrentKept'
<1> SUFFICES ASSUME Carries' PROVE KeptBy(cur)'
  BY DEF CurrentKept
<1> DEFINE x == buf[b]
           y == [x EXCEPT !.wait = None, !.grace = "on"]
<1>1. /\ cur = b /\ cur' = cur /\ handled' = handled
      /\ translating' = translating
      /\ started' = started /\ speaking' = speaking
      /\ x.wait # None /\ buf' = [buf EXCEPT ![b] = y]
      /\ Carries
  BY DEF WaitTimer, Lives, speech, history, Carries
<1>2. x \in Buffer /\ KeptBy(b) /\ buf \in [Buffers -> Buffer]
  BY <1>1, KeptBefore
<1>3. /\ y.parts = x.parts /\ y.wait = None /\ y.grace = "on"
      /\ y.resume = x.resume /\ y.resumeId = x.resumeId
      /\ y.endTimer = x.endTimer /\ y.waitLast = x.waitLast
      /\ y.spec = x.spec
      /\ y.specText = x.specText /\ y.specDone = x.specDone
  BY <1>2, Shape
<1> HIDE DEF y
<1>4. buf'[cur'] = y
  BY <1>1, <1>2
<1> QED
  BY <1>1, <1>2, <1>3, <1>4
     DEF KeptBy, WillBeCommitted, TranslatesText, Reusable, Resumer, MayLeave, x

LEMMA EndTimerForgetsNone ==
    ASSUME IInv, Kept, NEW b \in Buffers, EndTimer(b) PROVE CurrentKept'
<1> SUFFICES ASSUME Carries' PROVE KeptBy(cur)'
  BY DEF CurrentKept
<1> DEFINE x == buf[b]
           y == [ClearResume(x) EXCEPT !.grace = "off"]
           leaves == Leaves(y, TRUE)
<1>1. /\ cur = b /\ cur' \in {None, cur} /\ handled' = handled
      /\ translating' = translating
      /\ started' = started /\ speaking' = speaking
      /\ hit' = hit /\ resetting' = resetting
      /\ x.resume = "confirmed" /\ x.endTimer # None
      /\ x.wait = None \/ x.waitLast
      /\ Becomes(b, y, leaves, "timer", ended)
  BY DEF EndTimer, Lives, Becomes, Commit, speech
<1>2. Carries
  BY <1>1 DEF Carries
<1>3. x \in Buffer /\ KeptBy(b) /\ buf \in [Buffers -> Buffer]
  BY <1>1, <1>2, KeptBefore
<1>4. /\ y.parts = x.parts /\ y.wait = x.wait /\ y.grace = "off"
      /\ y.resume = "no" /\ y.spec = x.spec
      /\ y.specText = x.specText /\ y.specDone = x.specDone
  BY <1>3, Shape DEF ClearResume
<1>5. leaves \in BOOLEAN
  BY DEF Leaves
<1> HIDE DEF y
<1>6. ~leaves /\ cur' = cur /\ buf' = [buf EXCEPT ![b] = y]
  <2> HIDE DEF leaves
  <2> QED
    BY <1>1, <1>5, BecomesChanges DEF Carries
<1>7. buf'[cur'] = y /\ ~Leaves(y, TRUE)
  BY <1>1, <1>3, <1>6
<1> QED
  BY <1>1, <1>3, <1>4, <1>6, <1>7
     DEF KeptBy, WillBeCommitted, TranslatesText, Reusable, Leaves, MayLeave, x

-----------------------------------------------------------------------------
(* The current buffer: the other steps.                                     *)

LEMMA TranslationEndsForgetsNone ==
    ASSUME IInv, Kept, NEW b \in Buffers, TranslationEnds(b) PROVE CurrentKept'
<1> SUFFICES ASSUME Carries' PROVE KeptBy(cur)'
  BY DEF CurrentKept
<1> DEFINE x == buf[cur]
<1>1. /\ cur' = cur /\ handled' = handled /\ translating' = translating
      /\ started' = started /\ speaking' = speaking
      /\ buf' = [buf EXCEPT ![b] = [buf[b] EXCEPT !.out = "sent"]]
      /\ Carries
  BY DEF TranslationEnds, speech, history, Carries
<1>2. x \in Buffer /\ KeptBy(cur) /\ cur \in Buffers
      /\ buf \in [Buffers -> Buffer]
  BY <1>1, KeptBefore
<1> DEFINE y == buf'[cur']
<1>3. y = x \/ y = [x EXCEPT !.out = "sent"]
  BY <1>1, <1>2
<1> HIDE DEF x
<1> HIDE DEF y
<1>4. /\ y.parts = x.parts /\ y.wait = x.wait /\ y.grace = x.grace
      /\ y.resume = x.resume /\ y.resumeId = x.resumeId
      /\ y.endTimer = x.endTimer /\ y.waitLast = x.waitLast
      /\ y.spec = x.spec
      /\ y.specText = x.specText /\ y.specDone = x.specDone
  <2>1. x \in Buffer /\ "sent" \in Outs
    BY <1>2, Values
  <2>2. CASE y = x
    BY <2>2
  <2>3. CASE y = [x EXCEPT !.out = "sent"]
    BY <2>1, <2>3, Shape
  <2> QED
    BY <1>3, <2>2, <2>3
<1> QED
  BY <1>1, <1>2, <1>4
     DEF KeptBy, WillBeCommitted, TranslatesText, Reusable, Resumer, MayLeave,
         x, y

\* A failed translation or the switch marks the buffer, a reset begins with
\* it or ends without it.
LEMMA OthersForgetNone ==
    ASSUME IInv, Kept,
           \/ \E b \in Buffers : SpecFails(b)
           \/ Switches \/ ResetBegins \/ ResetEnds \/ UNCHANGED vars
    PROVE  CurrentKept'
<1> SUFFICES ASSUME Carries' PROVE KeptBy(cur)'
  BY DEF CurrentKept
<1>1. CASE \E b \in Buffers : SpecFails(b)
  BY <1>1 DEF SpecFails, Lives, Becomes, Commit, Carries
<1>2. CASE Switches \/ ResetBegins \/ ResetEnds
  BY <1>2 DEF Switches, ResetBegins, ResetEnds, Carries
<1>3. CASE UNCHANGED vars
  <2>1. Carries
    BY <1>3 DEF Carries, vars, history
  <2>2. KeptBy(cur)
    BY <2>1 DEF Kept, CurrentKept
  <2> QED
    BY <1>3, <2>2 DEF vars, speech, KeptBy, WillBeCommitted, TranslatesText,
                      Reusable, Resumer
<1> QED
  BY <1>1, <1>2, <1>3

LEMMA NextForgetsNone == IInv /\ Kept /\ [Next]_vars => Kept'
<1> SUFFICES ASSUME IInv, Kept, [Next]_vars PROVE CurrentKept'
  BY OnlyMadeKeeps DEF Kept
<1>1. CASE SpeechStart \/ ThirdChunk \/ SpeechEnd
  BY <1>1, SpeechStartForgetsNone, ThirdChunkForgetsNone, SpeechEndForgetsNone
<1>2. CASE (\E u \in Utts : FinalArrives(u)) \/ FinalContinues
  BY <1>2, FinalArrivesForgetsNone, FinalContinuesForgetsNone
<1>3. CASE \E b \in Buffers : SpecAnswers(b) \/ SpecShown(b)
  BY <1>3, SpecAnswersForgetsNone, SpecShownForgetsNone
<1>4. CASE \E b \in Buffers : GraceTimer(b) \/ WaitTimer(b) \/ EndTimer(b)
  BY <1>4, GraceTimerForgetsNone, WaitTimerForgetsNone, EndTimerForgetsNone
<1>5. CASE \E b \in Buffers : TranslationEnds(b)
  BY <1>5, TranslationEndsForgetsNone
<1>6. CASE \/ \E b \in Buffers : SpecFails(b)
           \/ Switches \/ ResetBegins \/ ResetEnds \/ UNCHANGED vars
  BY <1>6, OthersForgetNone
<1> QED
  BY <1>1, <1>2, <1>3, <1>4, <1>5, <1>6 DEF Next

\* Somebody will still commit the current text: its final handler, the end of
\* the speech that resumed, a timer, or the translation that somebody waits
\* for.  The only texts this is not said of are those a reset is about to
\* drop and those that are hit.
THEOREM NothingForgotten == Spec => []NoTextForgotten
<1>1. Kept => NoTextForgotten
  BY DEF Kept, CurrentKept, Carries, KeptBy, NoTextForgotten
<1>2. IInv /\ Kept /\ [Next]_vars => Kept'
  BY NextForgetsNone
<1> QED
  BY <1>1, <1>2, InitKept, Inductive, PTL DEF Spec

-----------------------------------------------------------------------------
(* The channel keeps its promise.                                           *)

\* The current text has not left, only texts that were opened have been reset,
\* and nobody resets where nobody may.
OpenFits ==
    /\ cur # None => buf[cur].out = "no"
    /\ \A b \in dropped : b <= made
    /\ resetting # None => "resets" \in Happens

\* What TextDelivery sees of a buffer.
SameText(y, x) == y.parts = x.parts /\ y.out = x.out

LEMMA FateOf ==
    ASSUME NEW b \in Buffers, NEW o, buf[b].out = o
    PROVE  /\ o = "translating" => Fate(b) = "leaving"
           /\ o = "sent" => Fate(b) = "arrived"
           /\ o = "cut" => Fate(b) = "lost"
           /\ o = "no" /\ b = cur => Fate(b) = "open"
           /\ o = "no" /\ b # cur /\ b \in dropped => Fate(b) = "reset"
           /\ o = "no" /\ b # cur /\ b \notin dropped => Fate(b) = "unopened"
BY DEF Fate

LEMMA InitOpens == Init => OpenFits /\ Promise!Init
<1> SUFFICES ASSUME Init PROVE OpenFits /\ Promise!Init
  OBVIOUS
<1>1. \A b \in Buffers : buf[b].parts = NoText /\ buf[b].out = "no"
  BY DEF Init, EmptyBuffer
<1>2. \A b \in Buffers : Fate(b) = "unopened"
  BY <1>1, FateOf DEF Init, Buffers, None
<1> QED
  BY <1>1, <1>2
     DEF Init, OpenFits, Promise!Init, Buffers, Utts, None, NoText

\* A step that changes neither a text nor what became of it.
LEMMA TextsStay ==
    ASSUME \A b \in Buffers : SameText(buf'[b], buf[b]),
           cur' = cur, made' = made, heard' = heard, dropped' = dropped
    PROVE  UNCHANGED Promise!vars
<1>1. \A b \in Buffers : Fate(b)' = Fate(b)
  BY DEF SameText, Fate
<1> QED
  BY <1>1 DEF SameText, Promise!vars

LEMMA TextStays ==
    ASSUME IInv, NEW b \in Buffers, NEW y, SameText(y, buf[b]),
           buf' = [buf EXCEPT ![b] = y],
           cur' = cur, made' = made, heard' = heard, dropped' = dropped,
           OpenFits, resetting' = resetting
    PROVE  UNCHANGED Promise!vars /\ OpenFits'
<1>1. \A c \in Buffers : SameText(buf'[c], buf[c])
  BY Before DEF TypeOK, SameText
<1>2. OpenFits'
  BY <1>1, Before DEF OpenFits, SameText
<1> QED
  BY <1>1, <1>2, TextsStay

\* The current text closes and meets fate f.
LEMMA TextCloses ==
    ASSUME IInv, OpenFits, NEW b \in Buffers, cur = b, cur' = None,
           made' = made, heard' = heard, NEW f, Fate(b)' = f,
           \A c \in Buffers : /\ buf'[c].parts = buf[c].parts
                              /\ c # b => Fate(c)' = Fate(c)
    PROVE  Promise!Closes(f)
<1>1. cur # None
  BY DEF Buffers, None
<1>2. Fate(b) = "open"
  BY <1>1, FateOf DEF OpenFits
<1>3. [c \in Buffers |-> Fate(c)'] = [[c \in Buffers |-> Fate(c)] EXCEPT ![b] = f]
  BY <1>2
<1>4. [c \in Buffers |-> buf'[c].parts] = [c \in Buffers |-> buf[c].parts]
  OBVIOUS
<1> QED
  BY <1>1, <1>2, <1>3, <1>4 DEF Promise!Closes, None

\* Where a text may be lost: the speculative translation commits it, and the
\* overlay suspends that or it was the failed one.
LEMMA CommitCloses ==
    ASSUME IInv, OpenFits, NEW b \in Buffers, cur = b, NEW x \in Buffer,
           SameText(x, buf[b]), NEW by, NEW e, Commit(b, x, by, e),
           by = "spec" => Reusable(x) \/ "spec_fails" \in Happens,
           made' = made, heard' = heard, dropped' = dropped,
           resetting' = resetting
    PROVE  (Promise!Leaves \/ Promise!Loses) /\ OpenFits'
<1>1. PICK o \in Outcomes(x, by) :
           /\ buf' = [buf EXCEPT ![b] = [x EXCEPT !.spec = "no", !.out = o]]
           /\ cur' = None
  BY DEF Commit
<1>2. \/ o \in {"sent", "translating"}
      \/ o = "cut" /\ Happens \cap {"spec_fails", "overlay_waits"} # {}
  BY DEF Outcomes
<1> DEFINE y == [x EXCEPT !.spec = "no", !.out = o]
<1>3. y.parts = buf[b].parts /\ y.out = o
  BY Shape DEF SameText
<1> HIDE DEF y
<1>4. buf' = [buf EXCEPT ![b] = y] /\ buf \in [Buffers -> Buffer]
  BY <1>1, Before DEF y, TypeOK
<1>5. \A c \in Buffers : /\ buf'[c].parts = buf[c].parts
                         /\ c # b => Fate(c)' = Fate(c)
  <2> SUFFICES ASSUME NEW c \in Buffers
               PROVE  /\ buf'[c].parts = buf[c].parts
                      /\ c # b => Fate(c)' = Fate(c)
    OBVIOUS
  <2>1. buf'[c] = IF c = b THEN y ELSE buf[c]
    BY <1>4
  <2>2. ASSUME c # b PROVE Fate(c)' = Fate(c)
    <3>1. buf'[c] = buf[c] /\ c # cur /\ c # cur'
      BY <1>1, <2>1, <2>2 DEF Buffers, None
    <3> QED
      BY <3>1 DEF Fate
  <2> QED
    BY <1>3, <2>1, <2>2
<1>6. /\ o = "sent" => Fate(b)' = "arrived"
      /\ o = "translating" => Fate(b)' = "leaving"
      /\ o = "cut" => Fate(b)' = "lost"
  <2>1. buf'[b].out = o
    BY <1>3, <1>4
  <2> QED
    BY <2>1 DEF Fate
<1>7. Promise!Leaves \/ Promise!Loses
  <2>1. CASE o = "sent"
    BY <1>1, <1>5, <1>6, <2>1, TextCloses DEF Promise!Leaves
  <2>2. CASE o = "translating"
    BY <1>1, <1>5, <1>6, <2>2, TextCloses DEF Promise!Leaves
  <2>3. CASE o = "cut" /\ Happens \cap {"spec_fails", "overlay_waits"} # {}
    BY <1>1, <1>5, <1>6, <2>3, TextCloses DEF Promise!Loses
  <2> QED
    BY <1>2, <2>1, <2>2, <2>3
<1>8. OpenFits'
  BY <1>1 DEF OpenFits
<1> QED
  BY <1>7, <1>8

\* A step of the promise, or none.
Fulfils == (Promise!Next \/ UNCHANGED Promise!vars) /\ OpenFits'

\* What the steps that may commit leave alone.
Besides == UNCHANGED <<made, heard, dropped, resetting>>

LEMMA BecomesFulfils ==
    ASSUME IInv, OpenFits, NEW b \in Buffers, cur = b, NEW x \in Buffer,
           SameText(x, buf[b]), NEW leaves \in BOOLEAN, NEW by, NEW e,
           Becomes(b, x, leaves, by, e),
           leaves /\ by = "spec" => Reusable(x) \/ "spec_fails" \in Happens,
           Besides
    PROVE  Fulfils
<1>1. CASE leaves
  <2>1. Commit(b, x, by, e)
    BY <1>1 DEF Becomes
  <2>2. (Promise!Leaves \/ Promise!Loses) /\ OpenFits'
    BY <1>1, <2>1, CommitCloses DEF Besides
  <2> QED
    BY <2>2 DEF Fulfils, Promise!Next
<1>2. CASE ~leaves
  <2>1. buf' = [buf EXCEPT ![b] = x] /\ cur' = cur
    BY <1>2 DEF Becomes
  <2> QED
    BY <2>1, TextStays DEF Besides, Fulfils
<1> QED
  BY <1>1, <1>2

\* The helpers leave the text alone.
LEMMA HelpersKeepText ==
    ASSUME NEW x, Good(x), NEW u \in Utts
    PROVE  /\ SameText(ClearResume(x), x) /\ SameText(ClearSpec(x), x)
           /\ SameText(RestartSpec(x), x)
           /\ SameText(EndAwaited(x, u), x)
           /\ SameText(Armed(x, u), x)
<1>1. ASSUME NEW z \in Buffer
      PROVE  /\ SameText(ClearResume(z), z) /\ SameText(ClearSpec(z), z)
             /\ SameText(RestartSpec(z), z) /\ SameText(EndAwaited(z, u), z)
  <2>1. SameText(ClearResume(z), z)
    BY <1>1, Shape DEF ClearResume, SameText
  <2>2. SameText(ClearSpec(z), z)
    BY <1>1, Shape DEF ClearSpec, SameText
  <2>3. SameText(RestartSpec(z), z)
    BY <1>1, Shape DEF RestartSpec, ClearSpec, SameText
  <2>4. SameText(EndAwaited(z, u), z)
    BY <1>1, Shape DEF EndAwaited, SameText
  <2> QED
    BY <2>1, <2>2, <2>3, <2>4
<1>2. x \in Buffer
  BY DEF Good
<1>3. SameText(Armed(x, u), x)
  <2> DEFINE w == IF x.wait = u THEN None ELSE x.wait
             y == [x EXCEPT !.wait = w, !.grace = "on"]
             l == x.endTimer # None
             z == [x EXCEPT !.wait = u, !.waitLast = l, !.grace = "off"]
  <2>1. w \in Holders /\ l \in BOOLEAN
    BY <1>2, Shape, Values
  <2>2. Armed(x, u) = RestartSpec(y) \/ Armed(x, u) = RestartSpec(z)
    BY DEF Armed
  <2> HIDE DEF w, l
  <2>3. y \in Buffer /\ SameText(y, x)
    BY <1>2, <2>1, Values, Shape DEF SameText
  <2>4. z \in Buffer /\ SameText(z, x)
    BY <1>2, <2>1, Values, Shape DEF SameText
  <2> HIDE DEF y, z
  <2> QED
    BY <1>1, <2>2, <2>3, <2>4 DEF SameText
<1> QED
  BY <1>1, <1>2, <1>3

LEMMA SpeechStartFulfils == ASSUME IInv, OpenFits, SpeechStart PROVE Fulfils
<1>1. cur' = cur /\ Besides
  BY DEF SpeechStart, Besides, history
<1>2. CASE cur = None
  <2>1. buf' = buf
    BY <1>2 DEF SpeechStart
  <2>2. OpenFits'
    BY <1>1, <2>1 DEF OpenFits, Besides
  <2> QED
    BY <1>1, <2>1, <2>2, TextsStay DEF SameText, Besides, Fulfils
<1>3. CASE cur # None
  <2> DEFINE y == Resumed(buf[cur], started + 1)
  <2>1. cur \in Buffers /\ buf[cur] \in Buffer
    BY <1>3, Before DEF Good
  <2>2. SameText(y, buf[cur])
    BY <2>1, Shape DEF SameText, Resumed
  <2>3. buf' = [buf EXCEPT ![cur] = y]
    BY <1>3 DEF SpeechStart
  <2> HIDE DEF y
  <2> QED
    BY <1>1, <2>1, <2>2, <2>3, TextStays DEF Besides, Fulfils
<1> QED
  BY <1>2, <1>3

LEMMA ThirdChunkFulfils == ASSUME IInv, OpenFits, ThirdChunk PROVE Fulfils
<1> DEFINE x == ClearSpec(buf[cur])
           y == [x EXCEPT !.resume = "confirmed"]
<1>1. /\ cur' = cur /\ Besides /\ cur \in Buffers /\ Good(buf[cur])
      /\ buf' = [buf EXCEPT ![cur] = y]
      /\ started \in Utts
  BY Before, MergeAssumption
     DEF ThirdChunk, Besides, history, OthersTyped, SpeechIsSomeones, Utts
<1>2. Good(x) /\ SameText(x, buf[cur])
  BY <1>1, ClearSpecGood, HelpersKeepText
<1> HIDE DEF x
<1>3. SameText(y, buf[cur])
  BY <1>2, Shape DEF SameText, Good
<1> HIDE DEF y
<1> QED
  BY <1>1, <1>3, TextStays DEF Besides, Fulfils

LEMMA SpeechEndFulfils == ASSUME IInv, OpenFits, SpeechEnd PROVE Fulfils
<1>1. Besides /\ started \in Utts
  BY Before, MergeAssumption
     DEF SpeechEnd, Besides, OthersTyped, SpeechIsSomeones, Utts
<1>2. CASE cur = None
  <2>1. buf' = buf /\ cur' = cur
    BY <1>2 DEF SpeechEnd
  <2>2. OpenFits'
    BY <1>1, <2>1 DEF OpenFits, Besides
  <2> QED
    BY <1>1, <2>1, <2>2, TextsStay DEF SameText, Besides, Fulfils
<1>3. CASE cur # None
  <2> DEFINE u == started
             x == EndAwaited(buf[cur], u)
             falseStart == x.resumeId = u /\ x.resume = "pending"
             z == [x EXCEPT !.endTimer = u, !.waitLast = FALSE]
             y == IF falseStart THEN ClearResume(x)
                  ELSE IF x.resumeId = u THEN z
                  ELSE x
             leaves == falseStart /\ Leaves(y, TRUE)
  <2>1. cur \in Buffers /\ Good(x) /\ SameText(x, buf[cur])
    BY <1>1, <1>3, Before, EndAwaitedGood, HelpersKeepText
  <2>2. Becomes(cur, y, leaves, "mic", ended \cup {started})
    BY <1>3 DEF SpeechEnd, ResumeEnds
  <2> HIDE DEF x
  <2>3. /\ ClearResume(x) \in Buffer /\ SameText(ClearResume(x), x)
    BY <1>1, <2>1, ClearResumeGood, HelpersKeepText DEF Good
  <2>4. z \in Buffer /\ SameText(z, x) /\ x \in Buffer
    BY <1>1, <2>1, Values, Shape DEF Good, SameText
  <2>5. leaves \in BOOLEAN
    BY DEF Leaves
  <2> HIDE DEF z
  <2>6. y \in Buffer /\ SameText(y, buf[cur])
    BY <2>1, <2>3, <2>4 DEF SameText
  <2> HIDE DEF y, leaves
  <2> QED
    BY <1>1, <2>1, <2>2, <2>5, <2>6, BecomesFulfils
<1> QED
  BY <1>2, <1>3

\* A final joins the current text or the next one.
LEMMA FinalArrivesFulfils ==
    ASSUME IInv, OnlyMade, OpenFits, NEW u \in Utts, FinalArrives(u)
    PROVE  Fulfils
<1>0. PICK b \in Buffers : b = IF cur = None THEN made + 1 ELSE cur
  BY DEF FinalArrives
<1> DEFINE o == buf[b]
           r == ClearResume(o)
<1>1. /\ cur' = b
      /\ made' = IF cur = None THEN b ELSE made
      /\ heard' = [heard EXCEPT ![u] = @ + 1]
      /\ heard[u] + 1 \in 0..Finals
      /\ dropped' = dropped /\ resetting' = resetting
  BY <1>0, Before, MergeAssumption DEF FinalArrives, OthersTyped, history
<1>2. PICK x \in Upserts(r, u) :
        buf' = [buf EXCEPT ![b] = Armed(x, u)] \/ buf' = [buf EXCEPT ![b] = x]
  BY <1>0 DEF FinalArrives
<1>3. made \in Nat /\ buf \in [Buffers -> Buffer]
  BY Before, MergeAssumption DEF TypeOK
<1>4. o.out = "no"
  <2>1. CASE cur = None
    <3>1. o = EmptyBuffer
      BY <1>0, <1>3, <2>1 DEF OnlyMade
    <3> QED
      BY <3>1 DEF EmptyBuffer
  <2>2. CASE cur # None
    BY <1>0, <2>2 DEF OpenFits
  <2> QED
    BY <2>1, <2>2
<1>5. Fate(b) = IF cur = None THEN "unopened" ELSE "open"
  <2>1. CASE cur = None
    <3>1. b \notin dropped /\ b # cur
      BY <1>0, <1>3, <2>1 DEF OpenFits, Buffers, None
    <3> QED
      BY <1>1, <1>4, <2>1, <3>1, FateOf
  <2>2. CASE cur # None
    BY <1>0, <1>4, <2>2, FateOf
  <2> QED
    BY <2>1, <2>2
<1>6. \A c \in Buffers : c # b => c # cur /\ c # cur'
  BY <1>0, <1>1 DEF Buffers, None
<1>7. Good(o) /\ b # None
  BY <1>1, Before DEF Buffers, None
<1>8. (b = cur /\ cur # None) \/ (b = made + 1 /\ cur = None)
  BY <1>0
<1> HIDE DEF o
<1>9. Good(r) /\ SameText(r, o)
  BY <1>7, ClearResumeGood, HelpersKeepText
<1> HIDE DEF r
<1>10. /\ Good(x) /\ x.out = "no"
       /\ \/ x.parts = [o.parts EXCEPT ![u] = heard[u] + 1]
          \/ o.parts[u] # 0 /\ x.parts = o.parts
  <2>1. Good(x)
    BY <1>1, <1>2, <1>9, UpsertsGood
  <2>2. r \in Buffer
    BY <1>9 DEF Good
  <2>3. CASE x = r /\ r.parts[u] # 0
    BY <1>4, <1>9, <2>1, <2>3 DEF SameText
  <2>4. CASE x = [r EXCEPT !.parts[u] = heard[u] + 1]
    BY <1>4, <1>9, <2>1, <2>2, <2>4, Shape DEF SameText
  <2> QED
    BY <1>2, <2>3, <2>4 DEF Upserts
<1>11. SameText(Armed(x, u), x)
  BY <1>10, HelpersKeepText
<1>12. /\ buf'[b].out = "no"
       /\ \/ buf'[b].parts = [o.parts EXCEPT ![u] = heard[u] + 1]
          \/ o.parts[u] # 0 /\ buf'[b].parts = o.parts
       /\ \A c \in Buffers : c # b => buf'[c] = buf[c]
  BY <1>1, <1>2, <1>3, <1>10, <1>11 DEF SameText
<1>13. /\ Fate(b)' = "open"
       /\ \A c \in Buffers : c # b => Fate(c)' = Fate(c)
  <2>1. Fate(b)' = "open"
    BY <1>1, <1>12 DEF Fate
  <2>2. ASSUME NEW c \in Buffers, c # b PROVE Fate(c)' = Fate(c)
    BY <1>1, <1>6, <1>12, <2>2 DEF Fate
  <2> QED
    BY <2>1, <2>2
<1>14. [c \in Buffers |-> Fate(c)']
           = [[c \in Buffers |-> Fate(c)] EXCEPT ![b] = "open"]
  BY <1>13
<1> DEFINE text == [c \in Buffers |-> buf[c].parts]
<1>15. \/ text' = [text EXCEPT ![b][u] = heard[u] + 1]
       \/ text[b][u] # 0 /\ text' = text
  BY <1>1, <1>12 DEF o
<1>16. Promise!Says(u)
  <2> HIDE DEF text
  <2>1. b = IF cur = 0 THEN made + 1 ELSE cur
    BY <1>8 DEF None
  <2> QED
    BY <1>1, <1>5, <1>14, <1>15, <2>1 DEF Promise!Says, text, None, Buffers
<1>17. OpenFits'
  <2>1. made <= made' /\ made' \in Nat
    BY <1>1, <1>3, <1>8 DEF Buffers
  <2>2. dropped \subseteq Buffers
    BY Before DEF OthersTyped
  <2>3. \A c \in dropped : c <= made'
    BY <1>3, <2>1, <2>2 DEF OpenFits, Buffers
  <2> QED
    BY <1>1, <1>12, <2>3 DEF OpenFits
<1> QED
  BY <1>16, <1>17 DEF Fulfils, Promise!Next

LEMMA FinalContinuesFulfils == ASSUME IInv, OpenFits, FinalContinues PROVE Fulfils
<1> DEFINE b == handled.buf
           y == Armed(buf[b], handled.utt)
<1>1. b \in Buffers /\ handled.utt \in Utts
  BY Before DEF FinalContinues, OthersTyped
<1>2. buf' = [buf EXCEPT ![b] = y] /\ cur' = cur /\ Besides
  BY DEF FinalContinues, Besides, history
<1>3. SameText(y, buf[b])
  BY <1>1, Before, HelpersKeepText
<1> HIDE DEF b, y
<1> QED
  BY <1>1, <1>2, <1>3, TextStays DEF Besides, Fulfils

LEMMA SpecFulfils ==
    ASSUME IInv, OpenFits, NEW b \in Buffers,
           SpecAnswers(b) \/ SpecShown(b) \/ SpecFails(b)
    PROVE  Fulfils
<1> DEFINE x == buf[b]
           y == [x EXCEPT !.specDone = x.specText, !.spec = "no"]
           z == [y EXCEPT !.spec = "showing"]
           v == [x EXCEPT !.spec = "no"]
<1>1. /\ cur = b /\ Besides
      /\ \/ Becomes(b, y, Leaves(y, FALSE), "spec", ended)
         \/ buf' = [buf EXCEPT ![b] = z] /\ cur' = cur
         \/ Becomes(b, v, Leaves(v, FALSE), "spec", ended)
         \/ /\ Becomes(b, v, Leaves(v, TRUE), "spec", ended)
            /\ "spec_fails" \in Happens
  BY DEF SpecAnswers, SpecShown, SpecFails, Lives, Besides
<1>2. x \in Buffer /\ x.specText \in Texts
  BY Before, Shape DEF Good
<1>3. y \in Buffer /\ SameText(y, x)
  BY <1>2, Values, Shape DEF SameText
<1>4. z \in Buffer /\ SameText(z, x)
  BY <1>2, Values, Shape DEF SameText
<1>5. v \in Buffer /\ SameText(v, x)
  BY <1>2, Values, Shape DEF SameText
<1> HIDE DEF y, z, v
<1>6. ASSUME NEW w, NEW f
      PROVE  /\ Leaves(w, f) \in BOOLEAN
             /\ Leaves(w, FALSE) => Reusable(w)
  BY DEF Leaves
<1>7. CASE Becomes(b, y, Leaves(y, FALSE), "spec", ended)
  BY <1>1, <1>3, <1>6, <1>7, BecomesFulfils
<1>8. CASE buf' = [buf EXCEPT ![b] = z] /\ cur' = cur
  BY <1>1, <1>4, <1>8, TextStays DEF Besides, Fulfils
<1>9. CASE Becomes(b, v, Leaves(v, FALSE), "spec", ended)
  BY <1>1, <1>5, <1>6, <1>9, BecomesFulfils
<1>10. CASE /\ Becomes(b, v, Leaves(v, TRUE), "spec", ended)
            /\ "spec_fails" \in Happens
  BY <1>1, <1>5, <1>6, <1>10, BecomesFulfils
<1> QED
  BY <1>1, <1>7, <1>8, <1>9, <1>10

LEMMA TimersFulfil ==
    ASSUME IInv, OpenFits, NEW b \in Buffers,
           GraceTimer(b) \/ WaitTimer(b) \/ EndTimer(b)
    PROVE  Fulfils
<1> DEFINE x == buf[b]
<1>1. x \in Buffer /\ Good(x)
  BY Before DEF Good
<1>2. CASE GraceTimer(b)
  <2> DEFINE y == [x EXCEPT !.grace = "off"]
             leaves == IF translating THEN Leaves(y, FALSE) ELSE MayLeave(y)
  <2>1. cur = b /\ Besides /\ Becomes(b, y, leaves, "timer", ended)
    BY <1>2 DEF GraceTimer, Lives, Besides
  <2>2. y \in Buffer /\ SameText(y, x)
    BY <1>1, Values, Shape DEF SameText
  <2>3. leaves \in BOOLEAN
    BY DEF Leaves, MayLeave
  <2> HIDE DEF y, leaves
  <2> QED
    BY <2>1, <2>2, <2>3, BecomesFulfils
<1>3. CASE WaitTimer(b)
  <2> DEFINE y == [x EXCEPT !.wait = None, !.grace = "on"]
  <2>1. cur' = cur /\ Besides /\ buf' = [buf EXCEPT ![b] = y]
    BY <1>3 DEF WaitTimer, Besides, history
  <2>2. SameText(y, x)
    BY <1>1, Values, Shape DEF SameText
  <2> HIDE DEF y
  <2> QED
    BY <2>1, <2>2, TextStays DEF Besides, Fulfils
<1>4. CASE EndTimer(b)
  <2> DEFINE r == ClearResume(x)
             y == [r EXCEPT !.grace = "off"]
  <2>1. cur = b /\ Besides /\ Becomes(b, y, Leaves(y, TRUE), "timer", ended)
    BY <1>4 DEF EndTimer, Lives, Besides
  <2>2. r \in Buffer /\ SameText(r, x)
    <3>1. r \in Buffer
      BY <1>1, ClearResumeGood DEF Good
    <3>2. SameText(r, x)
      BY <1>1, Shape DEF ClearResume, SameText
    <3> QED
      BY <3>1, <3>2
  <2> HIDE DEF r
  <2>3. y \in Buffer /\ SameText(y, x)
    BY <2>2, Values, Shape DEF SameText
  <2>4. Leaves(y, TRUE) \in BOOLEAN
    BY DEF Leaves
  <2> HIDE DEF y
  <2> QED
    BY <2>1, <2>3, <2>4, BecomesFulfils
<1> QED
  BY <1>2, <1>3, <1>4

LEMMA TranslationEndsFulfils ==
    ASSUME IInv, OpenFits, NEW b \in Buffers, TranslationEnds(b)
    PROVE  Fulfils
<1> DEFINE x == buf[b]
           y == [x EXCEPT !.out = "sent"]
<1>1. cur' = cur /\ Besides /\ buf' = [buf EXCEPT ![b] = y]
      /\ x.out = "translating"
  BY DEF TranslationEnds, Besides, history
<1>2. y.parts = x.parts /\ y.out = "sent"
  BY Before, Shape DEF Good
<1> HIDE DEF y
<1>3. \A c \in Buffers : buf'[c] = IF c = b THEN y ELSE buf[c]
  BY <1>1, Before DEF TypeOK
<1>4. Fate(b) = "leaving" /\ Fate(b)' = "arrived"
  BY <1>1, <1>2, <1>3 DEF Fate
<1>5. \A c \in Buffers : /\ buf'[c].parts = buf[c].parts
                         /\ c # b => Fate(c)' = Fate(c)
  BY <1>1, <1>2, <1>3 DEF Fate, Besides
<1>6. [c \in Buffers |-> Fate(c)']
           = [[c \in Buffers |-> Fate(c)] EXCEPT ![b] = "arrived"]
  BY <1>4, <1>5
<1>7. [c \in Buffers |-> buf'[c].parts] = [c \in Buffers |-> buf[c].parts]
  BY <1>5
<1>8. Promise!Arrives(b)
  BY <1>1, <1>4, <1>6, <1>7 DEF Promise!Arrives, Besides
<1>9. OpenFits'
  BY <1>1, <1>3, Before DEF OpenFits, Besides
<1> QED
  BY <1>8, <1>9 DEF Fulfils, Promise!Next, Buffers

LEMMA OthersFulfil ==
    ASSUME IInv, OpenFits, Switches \/ ResetBegins \/ ResetEnds \/ UNCHANGED vars
    PROVE  Fulfils
<1>1. CASE Switches \/ ResetBegins \/ UNCHANGED vars
  <2>1. /\ buf' = buf /\ cur' = cur
        /\ UNCHANGED <<made, heard, dropped>>
        /\ resetting' = resetting \/ "resets" \in Happens
    BY <1>1 DEF Switches, ResetBegins, vars, history
  <2>2. OpenFits'
    BY <2>1 DEF OpenFits
  <2> QED
    BY <2>1, <2>2, TextsStay DEF SameText, Fulfils
<1>2. CASE ResetEnds
  <2>1. /\ buf' = buf /\ cur' = None /\ resetting' = None
        /\ made' = made /\ heard' = heard
        /\ dropped' = dropped \cup ({cur} \ {None})
        /\ "resets" \in Happens
    BY <1>2 DEF ResetEnds, OpenFits
  <2>2. OpenFits'
    BY <2>1, CurrentMade DEF OpenFits
  <2>3. CASE cur = None
    <3>1. dropped' = dropped /\ cur' = cur
      BY <2>1, <2>3
    <3> QED
      BY <2>1, <2>2, <3>1, TextsStay DEF SameText, Fulfils
  <2>4. CASE cur # None
    <3>1. PICK b \in Buffers : cur = b
      BY <2>4, Before
    <3>2. /\ buf[b].out = "no" /\ b # cur' /\ b \in dropped'
      BY <2>1, <2>4, <3>1 DEF OpenFits
    <3>3. Fate(b)' = "reset"
      BY <2>1, <3>2 DEF Fate
    <3>4. ASSUME NEW c \in Buffers, c # b PROVE Fate(c)' = Fate(c)
      <4>1. c # cur /\ c # cur' /\ (c \in dropped' <=> c \in dropped)
        BY <2>1, <3>1, <3>4 DEF Buffers, None
      <4> QED
        BY <2>1, <4>1 DEF Fate
    <3>5. Promise!Closes("reset")
      BY <2>1, <3>1, <3>3, <3>4, TextCloses
    <3> QED
      BY <2>1, <2>2, <3>5 DEF Fulfils, Promise!Next, Promise!Resets
  <2> QED
    BY <2>3, <2>4
<1> QED
  BY <1>1, <1>2

LEMMA NextFulfils ==
    IInv /\ Kept /\ OpenFits /\ [Next]_vars
        => [Promise!Next]_(Promise!vars) /\ OpenFits'
<1> SUFFICES ASSUME IInv, Kept, OpenFits, [Next]_vars PROVE Fulfils
  BY DEF Fulfils
<1>1. CASE SpeechStart \/ ThirdChunk \/ SpeechEnd
  BY <1>1, SpeechStartFulfils, ThirdChunkFulfils, SpeechEndFulfils
<1>2. CASE (\E u \in Utts : FinalArrives(u)) \/ FinalContinues
  BY <1>2, FinalArrivesFulfils, FinalContinuesFulfils DEF Kept
<1>3. CASE \E b \in Buffers : SpecAnswers(b) \/ SpecShown(b) \/ SpecFails(b)
  BY <1>3, SpecFulfils
<1>4. CASE \E b \in Buffers : GraceTimer(b) \/ WaitTimer(b) \/ EndTimer(b)
  BY <1>4, TimersFulfil
<1>5. CASE \E b \in Buffers : TranslationEnds(b)
  BY <1>5, TranslationEndsFulfils
<1>6. CASE Switches \/ ResetBegins \/ ResetEnds \/ UNCHANGED vars
  BY <1>6, OthersFulfil
<1> QED
  BY <1>1, <1>2, <1>3, <1>4, <1>5, <1>6 DEF Next

\* The merge implements TextDelivery: one text is open at a time, it leaves
\* once and as it is then, no late handler touches it after that, and it ends
\* without arriving only by a reset or in a commit that cancels itself.
THEOREM ChannelDelivers == Spec => Delivers
<1>1. Init => Kept /\ OpenFits /\ Promise!Init
  BY InitKept, InitOpens
<1>2. IInv /\ Kept /\ OpenFits /\ [Next]_vars
          => Kept' /\ OpenFits' /\ [Promise!Next]_(Promise!vars)
  BY NextForgetsNone, NextFulfils
<1> QED
  BY <1>1, <1>2, Inductive, PTL DEF Spec, Delivers, Promise!Spec

\* The fates of a text that has closed.
Closed == {"leaving", "arrived", "lost", "reset"}

\* A text that has closed stays as it is, and all it can still do is arrive:
\* the handlers, timers and translations that still hold on to its buffer
\* neither change it nor commit it again.
THEOREM ClosedForGood ==
    Spec => [][\A b \in Buffers : Fate(b) \in Closed =>
                  /\ buf'[b].parts = buf[b].parts
                  /\ Fate(b)' # Fate(b) =>
                        Fate(b) = "leaving" /\ Fate(b)' = "arrived"]_vars
<1> DEFINE Rests ==
      \A b \in Buffers : Fate(b) \in Closed =>
          /\ buf'[b].parts = buf[b].parts
          /\ Fate(b)' # Fate(b) => Fate(b) = "leaving" /\ Fate(b)' = "arrived"
           text == [b \in Buffers |-> buf[b].parts]
           fate == [b \in Buffers |-> Fate(b)]
<1>1. ASSUME Promise!Next \/ UNCHANGED Promise!vars
      PROVE  Rests
  <2> SUFFICES ASSUME NEW b \in Buffers, Fate(b) \in Closed
               PROVE  /\ text'[b] = text[b]
                      /\ fate'[b] # fate[b] =>
                            fate[b] = "leaving" /\ fate'[b] = "arrived"
    OBVIOUS
  <2>1. fate[b] \notin {"open", "unopened"} /\ b \in 1..MaxBuffers
    BY DEF Closed, Buffers
  <2>2. CASE \E u \in Utts : Promise!Says(u)
    <3>0. PICK u \in Utts : Promise!Says(u)
      BY <2>2
    <3> DEFINE t == IF cur = 0 THEN made + 1 ELSE cur
    <3>1. /\ t \in 1..MaxBuffers /\ fate[t] \in {"open", "unopened"}
          /\ text' = [text EXCEPT ![t][u] = heard[u] + 1] \/ text' = text
          /\ fate' = [fate EXCEPT ![t] = "open"]
      BY <3>0, Zenon DEF Promise!Says
    <3> HIDE DEF t
    <3>2. t # b
      BY <2>1, <3>1
    <3> HIDE DEF fate
    <3>3. text'[b] = text[b]
      BY <3>1, <3>2
    <3> HIDE DEF text
    <3> QED
      BY <3>1, <3>2, <3>3 DEF fate
  <2>3. ASSUME NEW f, Promise!Closes(f)
        PROVE  text'[b] = text[b] /\ fate'[b] = fate[b]
    BY <2>1, <2>3 DEF Promise!Closes
  <2>4. CASE Promise!Leaves \/ Promise!Loses \/ Promise!Resets
    BY <2>3, <2>4 DEF Promise!Leaves, Promise!Loses, Promise!Resets
  <2>5. CASE \E t \in 1..MaxBuffers : Promise!Arrives(t)
    BY <2>1, <2>5 DEF Promise!Arrives
  <2>6. CASE UNCHANGED Promise!vars
    BY <2>6 DEF Promise!vars
  <2> QED
    BY <1>1, <2>2, <2>4, <2>5, <2>6 DEF Promise!Next
<1>2. IInv /\ Kept /\ OpenFits /\ [Next]_vars => [Rests]_vars
  BY <1>1, NextFulfils
<1>3. Init => Kept /\ OpenFits
  BY InitKept, InitOpens
<1>4. IInv /\ Kept /\ OpenFits /\ [Next]_vars => Kept' /\ OpenFits'
  BY NextForgetsNone, NextFulfils
<1> HIDE DEF Rests
<1>5. Spec => [][Rests]_vars
  BY <1>2, <1>3, <1>4, Inductive, PTL DEF Spec
<1> QED
  BY <1>5 DEF Rests

=============================================================================
