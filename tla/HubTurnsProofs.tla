---------------------------- MODULE HubTurnsProofs ----------------------------
(***************************************************************************)
(* Proofs about HubTurns, for any number of utterances, finals, switches   *)
(* and resets: the state has its types, a text the overlay holds is        *)
(* released in every way its translation may end, the typing indicator     *)
(* goes off again, and the turns of the other people stay booked for as    *)
(* long as they should.                                                    *)
(***************************************************************************)
EXTENDS HubTurns, TLAPS

-----------------------------------------------------------------------------
(* Texts.                                                                   *)

SpokenTexts == Spoken \X (1..MaxFinals)
TypedTexts == Typed \X {1}

LEMMA TextFacts ==
    /\ Texts = SpokenTexts \cup TypedTexts \cup PeerTurns
    /\ \A t \in SpokenTexts : t[1] \in Spoken /\ t[1] \notin Typed /\ t[1] \notin Peers
    /\ \A t \in TypedTexts : t[1] \in Typed /\ t[1] \notin Spoken /\ t[1] \notin Peers
    /\ \A t \in PeerTurns : t[1] \in Peers /\ t[1] \notin Spoken /\ t[1] \notin Typed
    /\ \A t, x \in TypedTexts : t[1] = x[1] => t = x
    BY HubAssumption DEF Texts, SpokenTexts, TypedTexts, PeerTurns

LEMMA StageFacts ==
    /\ Cancelling \subseteq Stages
    /\ {"none", "emitting", "releasing", "sourceonly", "done", "cut"} \subseteq Stages
    BY DEF Stages

\* Which texts the guards of the actions leave.
LEMMA WhoseText ==
    ASSUME NEW t \in Texts
    PROVE  /\ t[1] \in Spoken => t \in SpokenTexts
           /\ t[1] \in Typed => t \in TypedTexts
           /\ t[1] \in Peers => t \in PeerTurns
           /\ ChannelOf(t) = "peer" <=> t \in PeerTurns
           /\ ChannelOf(t) \in Channels
    BY TextFacts DEF ChannelOf, Channels

LEMMA StartsOf ==
    ASSUME NEW t \in Texts
    PROVE  /\ SpokenDropped(t) \/ SpokenFinal(t) => t \in SpokenTexts
           /\ Submitted(t) => t \in TypedTexts
           /\ PeerFinal(t) => t \in PeerTurns
    BY DEF SpokenDropped, SpokenFinal, Submitted, PeerFinal, SpokenTexts, TypedTexts, PeerTurns

-----------------------------------------------------------------------------
(* Types.                                                                   *)

LEMMA GoesTypes ==
    ASSUME TypeOK, NEW t \in Texts, NEW s \in Stages, Goes(t, s)
    PROVE  at' \in [Texts -> Stages]
    BY DEF TypeOK, Goes

LEMMA MeetsTypes ==
    ASSUME TypeOK, NEW t \in Texts, NEW f \in Fates, Meets(t, f)
    PROVE  fate' \in [Texts -> Fates]
    BY DEF TypeOK, Meets

\* at, tasks and fate after a text has been handed to _ensure_translation.
LEMMA TranslateTypes ==
    ASSUME TypeOK, NEW t \in Texts, Translate(t)
    PROVE  at' \in [Texts -> Stages] /\ tasks' \subseteq Texts /\ fate' \in [Texts -> Fates]
<1>1. {"swallowed", "open"} \subseteq Fates /\ {"done", "created"} \subseteq Stages
    BY DEF Fates, Stages, Cancelling
<1>2. CASE \E x \in tasks : SameId(x, t)
    BY <1>1, <1>2, GoesTypes, MeetsTypes DEF Translate, TypeOK
<1>3. CASE ~ \E x \in tasks : SameId(x, t)
    BY <1>1, <1>3, GoesTypes, MeetsTypes DEF Translate, TypeOK
<1> QED BY <1>2, <1>3

LEMMA ReleaseTypes ==
    ASSUME TypeOK, NEW t \in Texts, Release(t) \/ Releases(t)
    PROVE  held' \subseteq Texts \ PeerTurns
    BY DEF TypeOK, Release, Releases

LEMMA ForgetTypes ==
    ASSUME NEW b \in Books, NEW p \in Peers, NEW k \in BOOLEAN
    PROVE  ForgetParent(b, p, k) \in Books
    BY DEF ForgetParent, Books

LEMMA MaybeForgetTypes ==
    ASSUME NEW b \in Books, NEW p \in Peers, NEW k \in BOOLEAN
    PROVE  MaybeForget(b, p, k) \in Books
    BY ForgetTypes DEF MaybeForget

LEMMA CompleteTypes ==
    ASSUME NEW b \in Books, NEW t \in PeerTurns, NEW k \in BOOLEAN
    PROVE  Complete(b, t, k) \in Books
<1>1. [b EXCEPT !.completed = @ \cup {t}] \in Books
    BY DEF Books
<1> QED BY <1>1, MaybeForgetTypes, TextFacts DEF Complete

LEMMA RegisteredTypes ==
    ASSUME TypeOK, NEW t \in PeerTurns
    PROVE  Registered(t) \in Books
    BY DEF TypeOK, Registered, Books

LEMMA InitTypes == Init => TypeOK
<1> SUFFICES ASSUME Init PROVE TypeOK
    OBVIOUS
<1>1. book \in Books
    BY DEF Init, Books
<1>2. at \in [Texts -> Stages] /\ fate \in [Texts -> Fates]
    BY StageFacts DEF Init, Fates
<1>3. clearing \in [Channels -> {"no"} \cup Resets] /\ switched \in 0..MaxSwitch
    BY HubAssumption DEF Init
<1> QED BY <1>1, <1>2, <1>3 DEF Init, TypeOK

LEMMA DecidesTypes ==
    ASSUME TypeOK, NEW t \in SpokenTexts, SpokenDecides(t)
    PROVE  /\ at' \in [Texts -> Stages] /\ tasks' \subseteq Texts /\ fate' \in [Texts -> Fates]
           /\ typing' \in BOOLEAN /\ said' \subseteq Texts \ PeerTurns
<1>1. t \in Texts /\ t \notin PeerTurns
    BY TextFacts
<1>2. CASE translating /\ Translate(t) /\ UNCHANGED <<typing, said>>
    BY <1>1, <1>2, TranslateTypes DEF TypeOK
<1>3. CASE Goes(t, "done") /\ Meets(t, "answered") /\ Say(t) /\ UNCHANGED tasks
    BY <1>1, <1>3, StageFacts, GoesTypes, MeetsTypes DEF Fates, Say, TypeOK
<1> QED BY <1>2, <1>3 DEF SpokenDecides

LEMMA ArrivesTypes ==
    ASSUME TypeOK, NEW t \in Texts, Arrives(t)
    PROVE  TypeOK'
<1>a. {"dropped", "open"} \subseteq Fates
      /\ {"done", "emitting", "sourceonly"} \subseteq Stages
    BY StageFacts DEF Fates
<1>1. CASE SpokenDropped(t)
    BY <1>a, <1>1, GoesTypes, MeetsTypes DEF SpokenDropped, TypeOK
<1>2. CASE SpokenFinal(t)
  <2>1. t \in SpokenTexts /\ t \notin PeerTurns
    BY <1>2, StartsOf, TextFacts
  <2>2. CASE sink /\ ~translating
    <3>1. Goes(t, "emitting") /\ Meets(t, "open") /\ UNCHANGED <<tasks, held, typing, said>>
      BY <1>2, <2>2 DEF SpokenFinal
    <3> QED BY <1>a, <1>2, <3>1, GoesTypes, MeetsTypes DEF SpokenFinal, TypeOK
  <2>3. CASE ~(sink /\ ~translating)
    <3>1. SpokenDecides(t)
      BY <1>2, <2>3 DEF SpokenFinal
    <3>2. held' \subseteq Texts \ PeerTurns
      BY <1>2, <2>1, <2>3 DEF SpokenFinal, TypeOK
    <3> QED BY <1>2, <2>1, <3>1, <3>2, DecidesTypes DEF SpokenFinal, TypeOK
  <2> QED BY <2>2, <2>3
<1>3. CASE Submitted(t)
  <2>1. t \notin PeerTurns
    BY <1>3, StartsOf, TextFacts
  <2> QED BY <1>a, <1>3, <2>1, GoesTypes, MeetsTypes DEF Submitted, TypeOK
<1>4. CASE PeerDropped(t) \/ PeerSkipped(t) \/ PeerTranslated(t)
  <2>1. PeerFinal(t)
    BY <1>4 DEF PeerDropped, PeerSkipped, PeerTranslated
  <2>2. book' \in Books
    BY <2>1, StartsOf, RegisteredTypes DEF PeerFinal
  <2>3. at' \in [Texts -> Stages] /\ tasks' \subseteq Texts /\ fate' \in [Texts -> Fates]
    BY <1>a, <1>4, GoesTypes, MeetsTypes, TranslateTypes
    DEF PeerDropped, PeerSkipped, PeerTranslated, TypeOK
  <2> QED BY <2>1, <2>2, <2>3 DEF PeerFinal, TypeOK
<1> QED BY <1>1, <1>2, <1>3, <1>4 DEF Arrives

LEMMA HandledTypes ==
    ASSUME TypeOK, NEW t \in Texts, Handled(t)
    PROVE  TypeOK'
<1>a. "answered" \in Fates /\ {"done", "releasing"} \subseteq Stages
    BY StageFacts DEF Fates
<1>1. CASE SpokenEmitted(t)
    BY <1>1, WhoseText, DecidesTypes DEF SpokenEmitted, TypeOK
<1>2. CASE TypedTranslated(t)
    BY <1>2, TranslateTypes DEF TypedTranslated, TypeOK
<1>3. CASE TypedSkipped(t)
    BY <1>a, <1>3, GoesTypes, ReleaseTypes DEF TypedSkipped, TypeOK, history
<1>4. CASE TypedSaid(t)
  <2>1. t \notin PeerTurns
    BY <1>4, TextFacts, WhoseText DEF TypedSaid
  <2> QED BY <1>a, <1>4, <2>1, GoesTypes, MeetsTypes DEF TypedSaid, Say, TypeOK
<1>5. CASE PeerShown(t)
  <2>1. book' \in Books
    BY <1>5, WhoseText, CompleteTypes DEF PeerShown, TypeOK
  <2> QED BY <1>a, <1>5, <2>1, GoesTypes, MeetsTypes DEF PeerShown, TypeOK
<1> QED BY <1>1, <1>2, <1>3, <1>4, <1>5 DEF Handled

LEMMA RunsTypes ==
    ASSUME TypeOK, NEW t \in Texts, Runs(t)
    PROVE  TypeOK'
<1> USE DEF Translation
<1>a. /\ {"answered", "failed", "cancelled", "cut"} \subseteq Fates
      /\ {"asking", "extra", "out", "failing", "done"} \subseteq Stages
    BY DEF Fates, Stages, Cancelling
<1>b. ASSUME TaskDone(t) PROVE at' \in [Texts -> Stages] /\ tasks' \subseteq Texts
    BY <1>a, <1>b, GoesTypes DEF TaskDone, TypeOK
<1>1. CASE TaskRuns(t)
    BY <1>a, <1>1, GoesTypes DEF TaskRuns, TypeOK
<1>2. CASE Answered(t)
  <2>1. at' \in [Texts -> Stages] /\ held' \subseteq Texts \ PeerTurns
    BY <1>a, <1>2, GoesTypes, ReleaseTypes DEF Answered, TypeOK
  <2> QED BY <1>2, <2>1 DEF Answered, TypeOK
<1>3. CASE TranslationFails(t)
    BY <1>a, <1>3, GoesTypes, ReleaseTypes DEF TranslationFails, TypeOK
<1>4. CASE ExtrasEnd(t)
    BY <1>a, <1>4, GoesTypes, ReleaseTypes DEF ExtrasEnd, TypeOK
<1>5. CASE SelfOut(t)
  <2>1. t \notin PeerTurns
    BY <1>5, WhoseText DEF SelfOut
  <2> QED BY <1>a, <1>b, <1>5, <2>1, MeetsTypes DEF SelfOut, Say, TypeOK
<1>6. CASE SelfFailed(t)
  <2>1. t \notin PeerTurns
    BY <1>6, WhoseText DEF SelfFailed
  <2>2. typing' \in BOOLEAN /\ said' \subseteq Texts \ PeerTurns
    BY <1>6, <2>1 DEF SelfFailed, Say, TypeOK
  <2> QED BY <1>a, <1>b, <1>6, <2>2, MeetsTypes DEF SelfFailed, TypeOK
<1>7. CASE PeerOut(t)
  <2>1. book' \in Books
    BY <1>7, WhoseText, CompleteTypes DEF PeerOut, TypeOK
  <2>2. fate' \in [Texts -> Fates]
    BY <1>a, <1>7, MeetsTypes DEF PeerOut
  <2> QED BY <1>b, <1>7, <2>1, <2>2 DEF PeerOut, TypeOK
<1>8. CASE Cancelled(t)
  <2>1. book' \in Books
    BY <1>8, WhoseText, CompleteTypes DEF Cancelled, TypeOK
  <2> QED BY <1>a, <1>b, <1>8, <2>1, MeetsTypes, ReleaseTypes DEF Cancelled, TypeOK
<1>9. CASE CutOff(t)
    BY <1>a, <1>b, <1>9, MeetsTypes DEF CutOff, TypeOK
<1> QED BY <1>1, <1>2, <1>3, <1>4, <1>5, <1>6, <1>7, <1>8, <1>9 DEF Runs

LEMMA OtherTypes ==
    ASSUME TypeOK,
           \/ \E u \in Spoken : SpokenEnds(u)
           \/ \E p \in Peers : PeerEnds(p)
           \/ \E c \in Channels, kind \in Resets : ResetBegins(c, kind)
           \/ \E c \in Channels : ResetEnds(c)
           \/ SwitchTranslation \/ SwitchSink
    PROVE  TypeOK'
<1>1. ASSUME NEW u \in Spoken, SpokenEnds(u) PROVE TypeOK'
    BY <1>1 DEF SpokenEnds, TypeOK
<1>2. ASSUME NEW p \in Peers, PeerEnds(p) PROVE TypeOK'
  <2> DEFINE b == [book EXCEPT !.ended = @ \cup {p}, !.times = @ \cup {p}]
  <2>1. b \in Books
    BY DEF TypeOK, Books
  <2>2. book' \in {b, MaybeForget(b, p, FALSE)}
    BY <1>2 DEF PeerEnds
  <2>3. book' \in Books
    BY <2>1, <2>2, MaybeForgetTypes
  <2> QED BY <1>2, <2>3 DEF PeerEnds, TypeOK, history
<1>3. ASSUME NEW c \in Channels, NEW kind \in Resets, ResetBegins(c, kind) PROVE TypeOK'
  <2>1. \A t \in Texts : AfterCancel(t, c, kind) \in Stages
    BY StageFacts DEF AfterCancel, TypeOK, Cancelling
  <2>2. at' \in [Texts -> Stages]
    BY <1>3, <2>1 DEF ResetBegins
  <2>3. fate' \in [Texts -> Fates]
    BY <1>3 DEF ResetBegins, TypeOK, Fates
  <2>4. switched' \in 0..MaxSwitch
    BY <1>3, HubAssumption DEF ResetBegins, TypeOK
  <2> QED BY <1>3, <2>2, <2>3, <2>4 DEF ResetBegins, TypeOK
<1>4. ASSUME NEW c \in Channels, ResetEnds(c) PROVE TypeOK'
  <2>1. book' \in Books
    BY <1>4 DEF ResetEnds, TypeOK, Books
  <2> QED BY <1>4, <2>1 DEF ResetEnds, TypeOK, history
<1>5. CASE SwitchTranslation \/ SwitchSink
  <2>1. switched' \in 0..MaxSwitch
    BY <1>5, HubAssumption DEF SwitchTranslation, SwitchSink, TypeOK
  <2>2. translating' \in BOOLEAN /\ sink' \in BOOLEAN
    BY <1>5, Zenon DEF SwitchTranslation, SwitchSink, TypeOK
  <2> QED BY <1>5, <2>1, <2>2, Zenon DEF SwitchTranslation, SwitchSink, TypeOK
<1> QED BY <1>1, <1>2, <1>3, <1>4, <1>5

LEMMA NextTypes == TypeOK /\ [Next]_vars => TypeOK'
<1> SUFFICES ASSUME TypeOK, [Next]_vars PROVE TypeOK'
    OBVIOUS
<1>1. CASE UNCHANGED vars
    BY <1>1 DEF vars, history, TypeOK
<1>2. CASE Next
    BY <1>2, ArrivesTypes, HandledTypes, RunsTypes, OtherTypes DEF Next
<1> QED BY <1>1, <1>2

\* The state keeps its types: what is translated, held and booked are texts of the right channel.
THEOREM TypeCorrect == Spec => []TypeOK
    BY InitTypes, NextTypes, PTL DEF Spec

-----------------------------------------------------------------------------
(* What the overlay holds.  A text carries what is held under its id if a   *)
(* translation of it may yet release it, or it met one of the two ends that *)
(* release nothing.  No text ceases to carry without releasing, which is    *)
(* what CaptionsLeave needs; that a spoken text does not carry while its    *)
(* handler awaits the overlay makes it inductive.                           *)

Carries(t) ==
    \/ at[t] \in {"created", "asking", "extra", "cancelled", "cut"}
    \/ at[t] = "emitting" /\ t[1] \in Typed
    \/ fate[t] \in {"cut", "swallowed"}

EndsAreDone == \A t \in Texts : fate[t] \in {"cut", "swallowed"} => at[t] = "done"

AllCarried == \A h \in held : \E t \in Texts : SameId(t, h) /\ Carries(t)

Captions == EndsAreDone /\ AllCarried

\* Nobody stops to carry what goes on being held.
LEMMA CarriedStill ==
    ASSUME AllCarried, held' \subseteq held,
           \A t \in Texts : Carries(t) /\ ~Carries(t)' => \A h \in held' : ~SameId(t, h)
    PROVE  AllCarried'
    BY DEF AllCarried

\* A step of text t alone, which goes on, releases, or was no carrier.
LEMMA OneTextStep ==
    ASSUME TypeOK, Captions, NEW t \in Texts, at[t] # "done",
           \A x \in Texts : x # t => at'[x] = at[x] /\ fate'[x] = fate[x],
           fate'[t] \in {"cut", "swallowed"} => at'[t] = "done",
           held' \subseteq held,
           Carries(t) => Carries(t)' \/ \A h \in held' : ~SameId(t, h)
    PROVE  Captions'
<1>1. EndsAreDone'
    BY DEF Captions, EndsAreDone
<1>2. \A x \in Texts : x # t => (Carries(x) <=> Carries(x)')
    BY DEF Carries
<1>3. AllCarried'
    BY <1>2, CarriedStill DEF Captions
<1> QED BY <1>1, <1>3 DEF Captions

LEMMA GoesOne ==
    ASSUME TypeOK, NEW t \in Texts, NEW s, Goes(t, s)
    PROVE  at'[t] = s /\ \A x \in Texts : x # t => at'[x] = at[x]
    BY DEF TypeOK, Goes

LEMMA MeetsOne ==
    ASSUME TypeOK, NEW t \in Texts, NEW f, Meets(t, f)
    PROVE  fate'[t] = f /\ \A x \in Texts : x # t => fate'[x] = fate[x]
    BY DEF TypeOK, Meets

LEMMA TranslateOne ==
    ASSUME TypeOK, NEW t \in Texts, Translate(t)
    PROVE  /\ \A x \in Texts : x # t => at'[x] = at[x] /\ fate'[x] = fate[x]
           /\ \/ at'[t] = "done" /\ fate'[t] = "swallowed"
              \/ at'[t] = "created" /\ fate'[t] = "open"
<1>1. CASE \E x \in tasks : SameId(x, t)
    BY <1>1, GoesOne, MeetsOne DEF Translate
<1>2. CASE ~ \E x \in tasks : SameId(x, t)
    BY <1>2, GoesOne, MeetsOne DEF Translate
<1> QED BY <1>1, <1>2

\* What is released is what goes by the id of t; a turn of the other people goes by its own.
LEMMA ReleasesOwn ==
    ASSUME TypeOK, NEW t \in Texts, Release(t) \/ Releases(t)
    PROVE  held' \subseteq held /\ \A h \in held' : ~SameId(t, h)
<1>1. CASE Release(t)
    BY <1>1 DEF Release, SameId
<1>2. CASE Releases(t) /\ ~Release(t)
  <2>1. t \in PeerTurns /\ held' = held
    BY <1>2, WhoseText DEF Releases, ChannelOf
  <2> QED BY <2>1, TextFacts DEF SameId, TypeOK
<1> QED BY <1>1, <1>2

\* No text that is not done has met an end that releases nothing.
LEMMA NotYet ==
    ASSUME Captions, NEW t \in Texts, at[t] # "done"
    PROVE  fate[t] \notin {"cut", "swallowed"}
    BY DEF Captions, EndsAreDone

LEMMA DecidesCaptions ==
    ASSUME TypeOK, Captions, NEW t \in SpokenTexts, SpokenDecides(t), held' \subseteq held,
           at[t] \in {"none", "emitting"}
    PROVE  Captions'
<1>1. t \in Texts /\ ~Carries(t)
    BY NotYet, TextFacts DEF Carries
<1>2. CASE Translate(t)
    BY <1>1, <1>2, TranslateOne, OneTextStep
<1>3. CASE Goes(t, "done") /\ Meets(t, "answered")
    BY <1>1, <1>3, GoesOne, MeetsOne, OneTextStep
<1> QED BY <1>2, <1>3 DEF SpokenDecides

LEMMA ArrivesCaptions ==
    ASSUME Same \cap Spoken = {}, TypeOK, Captions, NEW t \in Texts, Arrives(t)
    PROVE  Captions'
<1>a. at[t] = "none"
    BY DEF Arrives, SpokenDropped, SpokenFinal, Submitted, PeerDropped, PeerSkipped,
           PeerTranslated, PeerFinal, IsNext
<1>b. ~Carries(t)
    BY <1>a, NotYet DEF Carries
<1>1. CASE SpokenDropped(t)
    BY <1>a, <1>b, <1>1, GoesOne, MeetsOne, OneTextStep DEF SpokenDropped
<1>2. CASE SpokenFinal(t)
  <2>1. t \in SpokenTexts /\ t[1] \notin Same
    BY <1>2, StartsOf, TextFacts
  <2>2. CASE sink /\ ~translating
    <3>1. Goes(t, "emitting") /\ Meets(t, "open") /\ UNCHANGED held
      BY <1>2, <2>2 DEF SpokenFinal
    <3> QED BY <1>a, <1>b, <3>1, GoesOne, MeetsOne, OneTextStep
  <2>3. CASE ~sink
    <3>1. SpokenDecides(t) /\ UNCHANGED held
      BY <1>2, <2>3 DEF SpokenFinal
    <3> QED BY <1>a, <2>1, <3>1, DecidesCaptions
  <2>4. CASE sink /\ translating
    <3>1. Translate(t) /\ held' \subseteq held \cup {t}
      BY <1>2, <2>1, <2>4 DEF SpokenFinal, SpokenDecides
    <3>2. Carries(t)' /\ \A x \in Texts : x # t => (Carries(x) <=> Carries(x)')
      BY <3>1, TranslateOne DEF Carries
    <3>3. SameId(t, t)
      BY DEF SameId
    <3>4. AllCarried'
      BY <1>b, <3>1, <3>2, <3>3 DEF AllCarried, Captions
    <3>5. EndsAreDone'
      BY <3>1, TranslateOne DEF EndsAreDone, Captions
    <3> QED BY <3>4, <3>5 DEF Captions
  <2> QED BY <2>2, <2>3, <2>4
<1>3. CASE Submitted(t)
  <2>1. Goes(t, "emitting") /\ Meets(t, "open") /\ held' \subseteq held \cup {t}
    BY <1>3 DEF Submitted
  <2>2. t[1] \in Typed
    BY <1>3, StartsOf, TextFacts
  <2>3. Carries(t)' /\ \A x \in Texts : x # t => (Carries(x) <=> Carries(x)')
    BY <2>1, <2>2, GoesOne, MeetsOne DEF Carries
  <2>4. SameId(t, t)
    BY DEF SameId
  <2>5. AllCarried'
    BY <1>b, <2>1, <2>3, <2>4 DEF AllCarried, Captions
  <2>6. EndsAreDone'
    BY <2>1, GoesOne, MeetsOne DEF EndsAreDone, Captions
  <2> QED BY <2>5, <2>6 DEF Captions
<1>4. CASE PeerDropped(t) \/ PeerSkipped(t)
    BY <1>a, <1>b, <1>4, GoesOne, MeetsOne, OneTextStep
    DEF PeerDropped, PeerSkipped, PeerFinal
<1>5. CASE PeerTranslated(t)
    BY <1>a, <1>b, <1>5, TranslateOne, OneTextStep DEF PeerTranslated, PeerFinal
<1> QED BY <1>1, <1>2, <1>3, <1>4, <1>5 DEF Arrives

LEMMA HandledCaptions ==
    ASSUME TypeOK, Captions, NEW t \in Texts, Handled(t)
    PROVE  Captions'
<1>1. CASE SpokenEmitted(t)
    BY <1>1, WhoseText, DecidesCaptions DEF SpokenEmitted
<1>2. CASE TypedTranslated(t)
  <2>1. Carries(t)'
    BY <1>2, TranslateOne DEF TypedTranslated, Carries
  <2> QED BY <1>2, <2>1, TranslateOne, OneTextStep DEF TypedTranslated
<1>3. CASE TypedSkipped(t)
  <2>1. at[t] # "done" /\ fate' = fate
    BY <1>3 DEF TypedSkipped, history
  <2>2. Goes(t, "releasing") /\ Release(t)
    BY <1>3 DEF TypedSkipped
  <2> QED BY <2>1, <2>2, NotYet, GoesOne, ReleasesOwn, OneTextStep
<1>4. CASE TypedSaid(t) \/ PeerShown(t)
  <2>1. ~Carries(t) /\ at[t] # "done"
    BY <1>4, NotYet DEF TypedSaid, PeerShown, Carries
  <2> QED BY <1>4, <2>1, GoesOne, MeetsOne, OneTextStep DEF TypedSaid, PeerShown
<1> QED BY <1>1, <1>2, <1>3, <1>4 DEF Handled

LEMMA RunsCaptions ==
    ASSUME TypeOK, Captions, NEW t \in Texts, Runs(t)
    PROVE  Captions'
<1>a. at[t] # "done"
    BY DEF Runs, TaskRuns, Answered, TranslationFails, ExtrasEnd, SelfOut, SelfFailed,
           PeerOut, Cancelled, CutOff
<1>b. fate[t] \notin {"cut", "swallowed"}
    BY <1>a, NotYet
<1>1. CASE TaskRuns(t)
  <2>1. Carries(t)' /\ fate' = fate
    BY <1>1, GoesOne DEF TaskRuns, Carries
  <2> QED BY <1>a, <1>b, <1>1, <2>1, GoesOne, OneTextStep DEF TaskRuns
<1>2. CASE Answered(t)
  <2>1. fate' = fate
    BY <1>2 DEF Answered
  <2>2. CASE Goes(t, "extra") /\ UNCHANGED held
    <3>1. Carries(t)'
      BY <2>2, GoesOne DEF Carries
    <3> QED BY <1>a, <1>b, <2>1, <2>2, <3>1, GoesOne, OneTextStep
  <2>3. CASE Goes(t, "out") /\ Releases(t)
    BY <1>a, <1>b, <2>1, <2>3, GoesOne, ReleasesOwn, OneTextStep
  <2> QED BY <1>2, <2>2, <2>3 DEF Answered
<1>3. CASE TranslationFails(t) \/ ExtrasEnd(t)
    BY <1>a, <1>b, <1>3, GoesOne, ReleasesOwn, OneTextStep DEF TranslationFails, ExtrasEnd
<1>4. CASE SelfOut(t) \/ SelfFailed(t) \/ PeerOut(t)
  <2>1. ~Carries(t)
    BY <1>b, <1>4 DEF SelfOut, SelfFailed, PeerOut, Carries
  <2>2. /\ Goes(t, "done") /\ UNCHANGED held
        /\ Meets(t, "answered") \/ Meets(t, "failed")
    BY <1>4 DEF SelfOut, SelfFailed, PeerOut, TaskDone
  <2> QED BY <1>a, <2>1, <2>2, GoesOne, MeetsOne, OneTextStep
<1>5. CASE Cancelled(t)
    BY <1>a, <1>5, GoesOne, MeetsOne, ReleasesOwn, OneTextStep DEF Cancelled, TaskDone
<1>6. CASE CutOff(t)
  <2>1. Goes(t, "done") /\ Meets(t, "cut") /\ UNCHANGED held
    BY <1>6 DEF CutOff, TaskDone
  <2>2. Carries(t)'
    BY <2>1, MeetsOne DEF Carries
  <2> QED BY <1>a, <2>1, <2>2, GoesOne, MeetsOne, OneTextStep
<1> QED BY <1>1, <1>2, <1>3, <1>4, <1>5, <1>6 DEF Runs

LEMMA OtherCaptions ==
    ASSUME TypeOK, Captions,
           \/ \E u \in Spoken : SpokenEnds(u)
           \/ \E p \in Peers : PeerEnds(p)
           \/ \E c \in Channels, kind \in Resets : ResetBegins(c, kind)
           \/ \E c \in Channels : ResetEnds(c)
           \/ SwitchTranslation \/ SwitchSink \/ UNCHANGED vars
    PROVE  Captions'
<1>1. ASSUME UNCHANGED <<at, fate, held>> PROVE Captions'
    BY <1>1 DEF Captions, EndsAreDone, AllCarried, Carries
<1>2. ASSUME NEW c \in Channels, NEW kind \in Resets, ResetBegins(c, kind) PROVE Captions'
  <2>1. \A t \in Texts :
          /\ at'[t] = AfterCancel(t, c, kind)
          /\ fate'[t] = IF at'[t] = "done" /\ at[t] # "done" THEN "cut" ELSE fate[t]
    BY <1>2 DEF ResetBegins
  <2>2. EndsAreDone'
    BY <2>1 DEF Captions, EndsAreDone, AfterCancel, Cancelling
  <2>3. ASSUME NEW t \in Texts, Carries(t) PROVE Carries(t)'
    BY <2>1, <2>3 DEF Captions, EndsAreDone, Carries, AfterCancel, Cancelling
  <2>4. held' = held
    BY <1>2 DEF ResetBegins
  <2> QED BY <2>2, <2>3, <2>4, CarriedStill DEF Captions
<1> QED
    BY <1>1, <1>2 DEF SpokenEnds, PeerEnds, ResetEnds, SwitchTranslation, SwitchSink, vars,
                      history

LEMMA NextCaptions ==
    ASSUME Same \cap Spoken = {}
    PROVE  TypeOK /\ Captions /\ [Next]_vars => Captions'
<1> SUFFICES ASSUME TypeOK, Captions, [Next]_vars PROVE Captions'
    OBVIOUS
<1> QED BY ArrivesCaptions, HandledCaptions, RunsCaptions, OtherCaptions DEF Next

\* Whatever becomes of a translation - it comes, fails, is skipped, cancelled or reset - a text
\* held for it is released, unless it was cut before it could or came while the translation of
\* its utterance was out already.  Sentences that may be in the target language already are
\* excluded: for them the code keeps the text (CaptionsReleased).
THEOREM CaptionsGo ==
    ASSUME Same \cap Spoken = {}
    PROVE  Spec => []CaptionsLeave
<1>1. Init => Captions
    BY DEF Init, Captions, EndsAreDone, AllCarried
<1>2. Captions => CaptionsLeave
    BY DEF Captions, AllCarried, Carries, CaptionsLeave
<1>3. TypeOK /\ Captions /\ [Next]_vars => Captions'
    BY NextCaptions
<1> QED BY <1>1, <1>2, <1>3, TypeCorrect, PTL DEF Spec

-----------------------------------------------------------------------------
(* The typing indicator.  A spoken text owes a message from the moment it   *)
(* comes, and after an end that says nothing it owes it for ever: so the    *)
(* indicator is on only while some utterance of those that have ended owes  *)
(* one, or waits for a text.  TypingReleased alone is about rest and not    *)
(* inductive.                                                               *)

Owes(t) ==
    \/ Working(t)
    \/ fate[t] \in {"cut", "cancelled", "swallowed"}
    \/ ~Fallback /\ fate[t] = "failed"

TypingOwed == typing => due # {} \/ \E t \in Texts : t[1] \in Spoken \cap over /\ Owes(t)

\* Whoever met his fate is done, and stays so.
FatesAreDone ==
    \A t \in Texts : fate[t] \in {"cut", "cancelled", "swallowed", "failed"} => at[t] = "done"

Indicator == TypingOwed /\ FatesAreDone /\ due \subseteq over

\* A step of text t alone: it goes on owing, unless the indicator is taken back.
LEMMA OneTextOwes ==
    ASSUME TypeOK, Indicator, NEW t \in Texts, at[t] # "done",
           \A x \in Texts : x # t => at'[x] = at[x] /\ fate'[x] = fate[x],
           fate'[t] \in {"cut", "cancelled", "swallowed", "failed"} => at'[t] = "done",
           over' = over, typing' => typing,
           due' = due \/ (t[1] \in Spoken /\ due' = due \ {t[1]}),
           typing' /\ t[1] \in Spoken /\ (Working(t) \/ due' # due) => Owes(t)'
    PROVE  Indicator'
<1>1. FatesAreDone' /\ (due \subseteq over)'
    BY DEF Indicator, FatesAreDone
<1>2. \A x \in Texts : x # t => (Owes(x) <=> Owes(x)')
    BY DEF Owes, Working
<1>3. Owes(t) => Working(t)
    BY DEF Indicator, FatesAreDone, Owes
<1>4. ASSUME typing' PROVE due' # {} \/ \E x \in Texts : x[1] \in Spoken \cap over' /\ Owes(x)'
  <2>1. CASE due' # due
    <3>1. t[1] \in Spoken \cap over
      BY <2>1 DEF Indicator
    <3> QED BY <1>4, <2>1, <3>1
  <2>2. CASE due' = due
    BY <1>2, <1>3, <1>4, <2>2 DEF Indicator, TypingOwed
  <2> QED BY <2>1, <2>2
<1> QED BY <1>1, <1>4 DEF Indicator, TypingOwed

LEMMA SayStops ==
    ASSUME NEW t, Say(t)
    PROVE  typing' = FALSE
    BY DEF Say

LEMMA DecidesTyping ==
    ASSUME TypeOK, Indicator, NEW t \in SpokenTexts, SpokenDecides(t), over' = over,
           due' = due \/ due' = due \ {t[1]}, at[t] \in {"none", "emitting"}
    PROVE  Indicator'
<1>1. t \in Texts /\ t[1] \in Spoken
    BY TextFacts
<1>2. CASE Translate(t) /\ UNCHANGED typing
  <2>1. Owes(t)' /\ (fate'[t] \in {"cut", "cancelled", "swallowed", "failed"} => at'[t] = "done")
    BY <1>1, <1>2, TranslateOne DEF Owes, Working
  <2> QED BY <1>1, <1>2, <2>1, TranslateOne, OneTextOwes
<1>3. CASE Goes(t, "done") /\ Meets(t, "answered") /\ Say(t)
    BY <1>1, <1>3, GoesOne, MeetsOne, SayStops, OneTextOwes
<1> QED BY <1>2, <1>3 DEF SpokenDecides

LEMMA ArrivesTyping ==
    ASSUME TypeOK, Indicator, NEW t \in Texts, Arrives(t)
    PROVE  Indicator'
<1>a. at[t] = "none" /\ ~Working(t)
    BY DEF Arrives, SpokenDropped, SpokenFinal, Submitted, PeerDropped, PeerSkipped,
           PeerTranslated, PeerFinal, IsNext, Working
<1>1. CASE SpokenDropped(t)
  <2>1. t[1] \in Spoken
    BY <1>1, StartsOf, TextFacts
  <2> QED BY <1>a, <1>1, <2>1, GoesOne, MeetsOne, OneTextOwes DEF SpokenDropped
<1>2. CASE SpokenFinal(t)
  <2>1. t \in SpokenTexts /\ t[1] \in Spoken
    BY <1>2, StartsOf, TextFacts
  <2>2. CASE sink /\ ~translating
    <3>1. Goes(t, "emitting") /\ Meets(t, "open") /\ UNCHANGED <<typing, over>>
          /\ due' = due \ {t[1]}
      BY <1>2, <2>2 DEF SpokenFinal
    <3>2. Owes(t)'
      BY <3>1, GoesOne DEF Owes, Working
    <3> QED BY <1>a, <2>1, <3>1, <3>2, GoesOne, MeetsOne, OneTextOwes
  <2>3. CASE ~(sink /\ ~translating)
    <3>1. SpokenDecides(t) /\ due' = due \ {t[1]} /\ over' = over
      BY <1>2, <2>3 DEF SpokenFinal
    <3> QED BY <1>a, <2>1, <3>1, DecidesTyping
  <2> QED BY <2>2, <2>3
<1>3. CASE Submitted(t)
    BY <1>a, <1>3, GoesOne, MeetsOne, OneTextOwes DEF Submitted
<1>4. CASE PeerDropped(t) \/ PeerSkipped(t)
    BY <1>a, <1>4, GoesOne, MeetsOne, OneTextOwes DEF PeerDropped, PeerSkipped, PeerFinal
<1>5. CASE PeerTranslated(t)
    BY <1>a, <1>5, TranslateOne, OneTextOwes DEF PeerTranslated, PeerFinal
<1> QED BY <1>1, <1>2, <1>3, <1>4, <1>5 DEF Arrives

LEMMA HandledTyping ==
    ASSUME TypeOK, Indicator, NEW t \in Texts, Handled(t)
    PROVE  Indicator'
<1>1. CASE SpokenEmitted(t)
    BY <1>1, WhoseText, DecidesTyping DEF SpokenEmitted
<1>2. CASE TypedTranslated(t)
  <2>1. t[1] \notin Spoken
    BY <1>2, HubAssumption DEF TypedTranslated
  <2> QED BY <1>2, <2>1, TranslateOne, OneTextOwes DEF TypedTranslated
<1>3. CASE TypedSkipped(t)
  <2>1. t[1] \notin Spoken
    BY <1>3, HubAssumption DEF TypedSkipped
  <2>2. fate[t] \notin {"cut", "cancelled", "swallowed", "failed"}
    BY <1>3 DEF TypedSkipped, Indicator, FatesAreDone
  <2> QED BY <1>3, <2>1, <2>2, GoesOne, OneTextOwes DEF TypedSkipped, history
<1>4. CASE TypedSaid(t)
    BY <1>4, GoesOne, MeetsOne, SayStops, OneTextOwes DEF TypedSaid
<1>5. CASE PeerShown(t)
  <2>1. t[1] \notin Spoken
    BY <1>5, HubAssumption DEF PeerShown
  <2> QED BY <1>5, <2>1, GoesOne, MeetsOne, OneTextOwes DEF PeerShown
<1> QED BY <1>1, <1>2, <1>3, <1>4, <1>5 DEF Handled

LEMMA RunsTyping ==
    ASSUME TypeOK, Indicator, NEW t \in Texts, Runs(t)
    PROVE  Indicator'
<1>a. at[t] # "done" /\ over' = over /\ due' = due
    BY DEF Runs, TaskRuns, Answered, TranslationFails, ExtrasEnd, SelfOut, SelfFailed,
           PeerOut, Cancelled, CutOff, Translation
<1>b. fate[t] \notin {"cut", "cancelled", "swallowed", "failed"}
    BY <1>a DEF Indicator, FatesAreDone
<1>1. CASE TaskRuns(t) \/ Answered(t) \/ TranslationFails(t) \/ ExtrasEnd(t)
  <2>1. PICK s \in {"asking", "extra", "out", "failing"} : Goes(t, s)
    BY <1>1 DEF TaskRuns, Answered, TranslationFails, ExtrasEnd
  <2>2. UNCHANGED <<typing, fate>>
    BY <1>1 DEF TaskRuns, Answered, TranslationFails, ExtrasEnd
  <2>3. Owes(t)'
    BY <2>1, GoesOne DEF Owes, Working
  <2> QED BY <1>a, <1>b, <2>1, <2>2, <2>3, GoesOne, OneTextOwes
<1>2. CASE SelfOut(t)
    BY <1>a, <1>2, GoesOne, MeetsOne, SayStops, OneTextOwes DEF SelfOut, TaskDone
<1>3. CASE SelfFailed(t)
  <2>1. Goes(t, "done") /\ Meets(t, "failed") /\ (typing' = FALSE \/ (~Fallback /\ typing' = typing))
    BY <1>3, SayStops DEF SelfFailed, TaskDone
  <2>2. typing' => typing /\ Owes(t)'
    BY <2>1, MeetsOne DEF Owes
  <2> QED BY <1>a, <2>1, <2>2, GoesOne, MeetsOne, OneTextOwes
<1>4. CASE PeerOut(t)
  <2>1. t[1] \notin Spoken
    BY <1>4, WhoseText, TextFacts DEF PeerOut
  <2>2. Goes(t, "done") /\ UNCHANGED typing /\ (Meets(t, "answered") \/ Meets(t, "failed"))
    BY <1>4 DEF PeerOut, TaskDone
  <2> QED BY <1>a, <2>1, <2>2, GoesOne, MeetsOne, OneTextOwes
<1>5. CASE Cancelled(t) \/ CutOff(t)
  <2>1. Goes(t, "done") /\ UNCHANGED typing /\ (Meets(t, "cancelled") \/ Meets(t, "cut"))
    BY <1>5 DEF Cancelled, CutOff, TaskDone
  <2>2. Owes(t)'
    BY <2>1, MeetsOne DEF Owes
  <2> QED BY <1>a, <2>1, <2>2, GoesOne, MeetsOne, OneTextOwes
<1> QED BY <1>1, <1>2, <1>3, <1>4, <1>5 DEF Runs

LEMMA OtherTyping ==
    ASSUME TypeOK, Indicator,
           \/ \E u \in Spoken : SpokenEnds(u)
           \/ \E p \in Peers : PeerEnds(p)
           \/ \E c \in Channels, kind \in Resets : ResetBegins(c, kind)
           \/ \E c \in Channels : ResetEnds(c)
           \/ SwitchTranslation \/ SwitchSink \/ UNCHANGED vars
    PROVE  Indicator'
<1>1. ASSUME NEW u \in Spoken, SpokenEnds(u) PROVE Indicator'
    BY <1>1 DEF SpokenEnds, Indicator, TypingOwed, FatesAreDone
<1>2. ASSUME UNCHANGED <<at, fate, typing, due>>, over \subseteq over' PROVE Indicator'
    BY <1>2 DEF Indicator, TypingOwed, FatesAreDone, Owes, Working
<1>3. ASSUME NEW c \in Channels, NEW kind \in Resets, ResetBegins(c, kind) PROVE Indicator'
  <2>1. \A t \in Texts :
          /\ at'[t] = AfterCancel(t, c, kind)
          /\ fate'[t] = IF at'[t] = "done" /\ at[t] # "done" THEN "cut" ELSE fate[t]
    BY <1>3 DEF ResetBegins
  <2>2. FatesAreDone'
    BY <2>1 DEF Indicator, FatesAreDone, AfterCancel, Cancelling
  <2>3. ASSUME NEW t \in Texts, Owes(t) PROVE Owes(t)'
    BY <2>1, <2>3 DEF Indicator, FatesAreDone, Owes, Working, AfterCancel, Cancelling
  <2>4. UNCHANGED <<typing, due, over>>
    BY <1>3 DEF ResetBegins
  <2> QED BY <2>2, <2>3, <2>4 DEF Indicator, TypingOwed
<1> QED
    BY <1>1, <1>2, <1>3 DEF PeerEnds, ResetEnds, SwitchTranslation, SwitchSink, vars, history

\* At rest the typing indicator is off, unless an utterance that has ended got no text or its
\* text got no message: no other way through the hub leaves it on.
THEOREM IndicatorReleased == Spec => []TypingReleased
<1>1. Init => Indicator
    BY DEF Init, Indicator, TypingOwed, FatesAreDone
<1>2. Indicator => TypingReleased
    BY DEF Indicator, TypingOwed, Owes, TypingReleased, AtRest
<1>3. TypeOK /\ Indicator /\ [Next]_vars => Indicator'
    BY ArrivesTyping, HandledTyping, RunsTyping, OtherTyping DEF Next
<1> QED BY <1>1, <1>2, <1>3, TypeCorrect, PTL DEF Spec

-----------------------------------------------------------------------------
(* The turns of the other people.  A turn leaves the book only together     *)
(* with its parent's others, when all of them are completed, or in a reset; *)
(* so a turn in progress is booked (InProgress), and a parent whose speech  *)
(* is over has a turn that is not completed yet (Awaited), which is then in *)
(* progress, was dropped, or waits for the reset that cut it (Uncompleted). *)

TurnsOf(b, p) == {t \in b.known : t[1] = p}

InProgress == \A t \in PeerTurns : Working(t) => t \in book.known \cup book.cleared

\* A turn that is completed, dropped or has left the book is done; one in the book has come.
Ended ==
    \A t \in PeerTurns :
       /\ t \in book.completed => at[t] = "done"
       /\ fate[t] = "dropped" => at[t] = "done"
       /\ t \in book.known => at[t] # "none"

Uncompleted ==
    \A t \in book.known \ book.completed :
       Working(t) \/ fate[t] = "dropped" \/ clearing["peer"] # "no"

\* Translations run for texts in progress; only a reset cuts them.
Tasks ==
    /\ \A t \in tasks : at[t] \in Cancelling \cup {"cut"}
    /\ \A t \in Texts : at[t] \in {"cancelled", "cut"} => clearing[ChannelOf(t)] # "no"

\* The end of a parent's speech is remembered as long as its turns, unless they came late.
Remembered == \A t \in book.known : t[1] \in over => SpeechOver(book, t[1]) \/ t \in book.late

Awaited(b) ==
    \A t \in b.known : SpeechOver(b, t[1]) => ~(TurnsOf(b, t[1]) \subseteq b.completed)

Booked == InProgress /\ Ended /\ Uncompleted /\ Tasks /\ Remembered /\ Awaited(book)

LEMMA BookTypes ==
    ASSUME TypeOK
    PROVE  /\ book.known \subseteq PeerTurns /\ book.completed \subseteq PeerTurns
           /\ PeerTurns \subseteq Texts
           /\ \A t \in PeerTurns : ChannelOf(t) = "peer" /\ t[1] \in Peers
           /\ "peer" \in Channels
    BY TextFacts DEF TypeOK, Books, ChannelOf, Channels

\* What MaybeForget does: nothing, or it forgets a parent whose turns are all completed.
LEMMA Forgets ==
    ASSUME NEW b \in Books, NEW p \in Peers, NEW keep \in BOOLEAN
    PROVE  LET m == MaybeForget(b, p, keep) IN
           /\ m \in Books
           /\ m.late = b.late /\ m.cleared = b.cleared
           /\ \A t \in b.known : t[1] # p => t \in m.known
           /\ \A t \in m.known : t \in b.known /\ (t \in m.completed <=> t \in b.completed)
           /\ m.completed \subseteq b.completed
           /\ \A t \in b.known \ m.known : t \in b.completed
           /\ \A q \in Peers : q # p => (SpeechOver(m, q) <=> SpeechOver(b, q))
           /\ \A t \in m.known : t[1] = p => m = b /\ (SpeechOver(b, p) => ~(TurnsOf(b, p) \subseteq b.completed))
<1> DEFINE m == MaybeForget(b, p, keep)
<1> DEFINE turns == {t \in b.known : t[1] = p}
<1> DEFINE f == ForgetParent(b, p, keep)
<1>1. CASE turns = {} \/ (SpeechOver(b, p) /\ turns \subseteq b.completed)
  <2>1. m = f
    BY <1>1 DEF MaybeForget
  <2>2. /\ f.known = {t \in b.known : t[1] # p}
        /\ f.completed = {t \in b.completed : t[1] # p}
        /\ f.ended = b.ended \ {p}
        /\ f.times = IF keep THEN b.times ELSE b.times \ {p}
        /\ f.late = b.late /\ f.cleared = b.cleared
        /\ f \in Books
    BY DEF ForgetParent, Books
  <2> HIDE DEF f, m
  <2>3. \A t \in b.known \ f.known : t \in b.completed
    BY <1>1, <2>2
  <2>4. \A q \in Peers : q # p => (SpeechOver(f, q) <=> SpeechOver(b, q))
    BY <2>2 DEF SpeechOver
  <2> QED BY <2>1, <2>2, <2>3, <2>4 DEF m
<1>2. CASE ~(turns = {} \/ (SpeechOver(b, p) /\ turns \subseteq b.completed))
  <2>1. m = b
    BY <1>2 DEF MaybeForget
  <2>2. SpeechOver(b, p) => ~(TurnsOf(b, p) \subseteq b.completed)
    BY <1>2 DEF TurnsOf
  <2> QED BY <2>1, <2>2 DEF m
<1> QED BY <1>1, <1>2

LEMMA CompletesOne ==
    ASSUME TypeOK, NEW t \in PeerTurns, NEW keep \in BOOLEAN, Awaited(book)
    PROVE  LET c == Complete(book, t, keep) IN
           /\ c.late = book.late /\ c.cleared = book.cleared
           /\ c.completed \subseteq book.completed \cup {t}
           /\ \A x \in book.known \ c.known : x \in book.completed \cup {t}
           /\ \A x \in c.known : /\ x \in book.known
                                 /\ x \in c.completed <=> x \in book.completed \cup {t}
                                 /\ SpeechOver(c, x[1]) <=> SpeechOver(book, x[1])
           /\ Awaited(c)
<1> DEFINE b == [book EXCEPT !.completed = @ \cup {t}]
<1> DEFINE c == Complete(book, t, keep)
<1>1. CASE t \notin book.known
  <2>1. c = book
    BY <1>1 DEF Complete
  <2> QED BY <1>1, <2>1
<1>2. CASE t \in book.known
  <2>1. c = MaybeForget(b, t[1], keep)
    BY <1>2 DEF Complete
  <2>2. /\ b \in Books /\ t[1] \in Peers
        /\ b.known = book.known /\ b.completed = book.completed \cup {t}
        /\ b.late = book.late /\ b.cleared = book.cleared
        /\ \A p : SpeechOver(b, p) <=> SpeechOver(book, p)
    BY BookTypes DEF TypeOK, Books, SpeechOver
  <2>3. \A x \in book.known : x[1] \in Peers
    BY BookTypes
  <2> HIDE DEF b, c
  <2>4. \A x \in c.known : /\ x \in book.known
                           /\ x \in c.completed <=> x \in book.completed \cup {t}
                           /\ SpeechOver(c, x[1]) <=> SpeechOver(book, x[1])
    BY <2>1, <2>2, <2>3, Forgets
  <2>5. /\ c.late = book.late /\ c.cleared = book.cleared
        /\ c.completed \subseteq book.completed \cup {t}
        /\ \A x \in book.known \ c.known : x \in book.completed \cup {t}
    BY <2>1, <2>2, Forgets
  <2>6. ASSUME NEW x \in c.known, SpeechOver(c, x[1])
        PROVE  ~(TurnsOf(c, x[1]) \subseteq c.completed)
    <3>1. CASE x[1] = t[1]
      <4>1. c = b /\ (SpeechOver(b, t[1]) => ~(TurnsOf(b, t[1]) \subseteq b.completed))
        BY <2>1, <2>2, <3>1, Forgets
      <4> QED BY <2>6, <3>1, <4>1
    <3>2. CASE x[1] # t[1]
      <4>1. SpeechOver(book, x[1]) /\ x \in book.known
        BY <2>4, <2>6
      <4>2. PICK y \in TurnsOf(book, x[1]) : y \notin book.completed
        BY <4>1 DEF Awaited
      <4>3. y \in book.known /\ y[1] = x[1] /\ y # t
        BY <3>2, <4>2 DEF TurnsOf
      <4>4. y \in c.known /\ y \notin c.completed
        BY <2>1, <2>2, <3>2, <4>2, <4>3, Forgets
      <4> QED BY <4>3, <4>4 DEF TurnsOf
    <3> QED BY <3>1, <3>2
  <2> QED BY <2>4, <2>5, <2>6 DEF c, Awaited
<1> QED BY <1>1, <1>2

\* A step that leaves the book alone, and takes no turn out of progress but for a reset.
LEMMA BookStays ==
    ASSUME TypeOK, Booked, book' = book, over' = over \/ over' \cap Peers = over \cap Peers,
           clearing' = clearing,
           \A x \in PeerTurns : /\ at'[x] = "none" <=> at[x] = "none"
                                /\ at'[x] = "done" <=> at[x] = "done"
                                /\ fate'[x] = "dropped" <=> fate[x] = "dropped",
           \A x \in Texts : at'[x] \in {"cancelled", "cut"} => at[x] = at'[x],
           \A x \in tasks' : at'[x] \in Cancelling \cup {"cut"}
    PROVE  Booked'
<1>1. \A x \in PeerTurns : Working(x)' <=> Working(x)
    BY DEF Working
<1>2. InProgress' /\ Ended' /\ Uncompleted'
    BY <1>1, BookTypes DEF Booked, InProgress, Ended, Uncompleted
<1>3. Tasks'
    BY DEF Booked, Tasks
<1>4. Remembered'
    BY BookTypes DEF Booked, Remembered
<1> QED BY <1>2, <1>3, <1>4 DEF Booked

\* A step of a text that is no turn.
LEMMA OthersTurn ==
    ASSUME TypeOK, Booked, NEW t \in Texts \ PeerTurns, at[t] # "done",
           \A x \in Texts : x # t => at'[x] = at[x] /\ fate'[x] = fate[x],
           at'[t] \notin {"cancelled", "cut"}, UNCHANGED <<book, over, clearing>>,
           tasks' \subseteq tasks \cup {t},
           t \in tasks' => at'[t] \in Cancelling
    PROVE  Booked'
<1>1. \A x \in PeerTurns : x \in Texts /\ x # t
    BY BookTypes
<1>2. \A x \in tasks' : at'[x] \in Cancelling \cup {"cut"}
    BY DEF Booked, Tasks, TypeOK
<1> QED BY <1>1, <1>2, BookStays

\* The turn t comes, or one that has come goes on or is completed.
LEMMA TurnGoesOn ==
    ASSUME TypeOK, Booked, NEW t \in PeerTurns, at[t] \notin {"none", "done"},
           \A x \in Texts : x # t => at'[x] = at[x] /\ fate'[x] = fate[x],
           at'[t] \notin {"none", "done", "cancelled", "cut"},
           t \in tasks => at'[t] \in Cancelling,
           fate'[t] = fate[t], UNCHANGED <<book, over, clearing, tasks>>
    PROVE  Booked'
<1>1. \A x \in tasks' : at'[x] \in Cancelling \cup {"cut"}
    BY DEF Booked, Tasks, TypeOK
<1> QED BY <1>1, BookTypes, BookStays

LEMMA TurnCompleted ==
    ASSUME TypeOK, Booked, NEW t \in PeerTurns, at[t] \notin {"none", "done"}, Goes(t, "done"),
           NEW keep \in BOOLEAN, book' = Complete(book, t, keep),
           NEW f \in Fates, f # "dropped", Meets(t, f),
           tasks' \subseteq tasks \ {t},
           UNCHANGED <<over, clearing>>
    PROVE  Booked'
<1>0. t \in Texts
    BY BookTypes
<1>1. /\ at'[t] = "done" /\ fate'[t] # "dropped"
      /\ \A x \in Texts : x # t => at'[x] = at[x] /\ fate'[x] = fate[x]
    BY <1>0, GoesOne, MeetsOne
<1>2. /\ book'.late = book.late /\ book'.cleared = book.cleared
      /\ book'.completed \subseteq book.completed \cup {t}
      /\ \A x \in book.known \ book'.known : x \in book.completed \cup {t}
      /\ \A x \in book'.known : /\ x \in book.known
                                /\ x \in book'.completed <=> x \in book.completed \cup {t}
                                /\ SpeechOver(book', x[1]) <=> SpeechOver(book, x[1])
      /\ Awaited(book')
    BY CompletesOne DEF Booked
<1>3. InProgress'
  <2> SUFFICES ASSUME NEW x \in PeerTurns, Working(x)' PROVE x \in book'.known \cup book'.cleared
    BY DEF InProgress
  <2>1. x # t /\ x \in Texts /\ Working(x)
    BY <1>1, BookTypes DEF Working
  <2>2. x \notin book.completed
    BY <2>1 DEF Booked, Ended, Working
  <2> QED BY <1>2, <2>1, <2>2 DEF Booked, InProgress
<1>4. Ended'
    BY <1>1, <1>2, BookTypes DEF Booked, Ended
<1>5. Uncompleted'
  <2> SUFFICES ASSUME NEW x \in book'.known \ book'.completed
               PROVE  Working(x)' \/ fate'[x] = "dropped" \/ clearing'["peer"] # "no"
    BY DEF Uncompleted
  <2>1. x # t /\ x \in book.known \ book.completed
    BY <1>2
  <2> QED BY <1>1, <2>1, BookTypes DEF Booked, Uncompleted, Working
<1>6. Tasks'
  <2>1. \A x \in tasks' : x # t /\ x \in tasks
    OBVIOUS
  <2> QED BY <1>1, <2>1 DEF Booked, Tasks, TypeOK, Working
<1>7. Remembered'
    BY <1>2, BookTypes DEF Booked, Remembered
<1>8. Awaited(book)'
    BY <1>2 DEF Awaited, TurnsOf, SpeechOver
<1> QED BY <1>3, <1>4, <1>5, <1>6, <1>7, <1>8 DEF Booked

LEMMA OtherStages ==
    /\ "done" \notin Cancelling /\ "none" \notin Cancelling /\ "sourceonly" \notin Cancelling
    /\ {"created", "asking", "extra", "out", "failing"} \subseteq Cancelling
    BY DEF Cancelling

\* A turn comes: it is booked, and was not before.
LEMMA TurnComes ==
    ASSUME TypeOK, Booked, NEW t \in PeerTurns, PeerFinal(t), at'[t] # "none",
           \A x \in Texts : x # t => at'[x] = at[x] /\ fate'[x] = fate[x],
           \/ at'[t] = "done" /\ fate'[t] = "dropped" /\ tasks' = tasks
           \/ at'[t] = "sourceonly" /\ fate'[t] = "open" /\ tasks' = tasks
           \/ at'[t] = "created" /\ fate'[t] = "open" /\ tasks' = tasks \cup {t}
    PROVE  Booked'
<1>1. t \in Texts /\ t[1] \in Peers
    BY BookTypes
<1>2. at[t] = "none" /\ book' = Registered(t) /\ over' = over /\ clearing' = clearing
    BY DEF PeerFinal, IsNext
<1>3. t \notin book.known /\ t \notin book.completed /\ t \notin tasks
    BY <1>2, OtherStages DEF Booked, Ended, Tasks
<1>4. /\ book'.known = book.known \cup {t}
      /\ book'.completed = book.completed /\ book'.cleared = book.cleared
      /\ \A p : SpeechOver(book', p) <=> SpeechOver(book, p)
      /\ book.late \subseteq book'.late
      /\ t[1] \in over => SpeechOver(book, t[1]) \/ t \in book'.late
    BY <1>2 DEF Registered, SpeechOver, TypeOK, Books
<1>5. InProgress'
    BY <1>1, <1>4, BookTypes DEF Booked, InProgress, Working
<1>6. Ended'
    BY <1>3, <1>4, BookTypes DEF Booked, Ended
<1>7. Uncompleted'
    BY <1>2, <1>4, BookTypes DEF Booked, Uncompleted, Working
<1>8. Tasks'
  <2>1. \A x \in tasks' : at'[x] \in Cancelling \cup {"cut"}
    BY <1>3, OtherStages DEF Booked, Tasks, TypeOK
  <2>2. at'[t] \notin {"cancelled", "cut"}
    OBVIOUS
  <2> QED BY <1>2, <2>1, <2>2 DEF Booked, Tasks
<1>9. Remembered'
    BY <1>2, <1>4 DEF Booked, Remembered
<1>10. Awaited(book)'
  <2> SUFFICES ASSUME NEW x \in book'.known, SpeechOver(book', x[1])
               PROVE  ~(TurnsOf(book', x[1]) \subseteq book'.completed)
    BY DEF Awaited
  <2>1. CASE x = t
    BY <1>3, <1>4, <2>1 DEF TurnsOf
  <2>2. CASE x # t
    BY <1>4, <2>2 DEF TurnsOf, Booked, Awaited
  <2> QED BY <2>1, <2>2
<1> QED BY <1>5, <1>6, <1>7, <1>8, <1>9, <1>10 DEF Booked

LEMMA TranslateTasks ==
    ASSUME TypeOK, NEW t \in Texts, Translate(t)
    PROVE  \/ at'[t] = "done" /\ tasks' = tasks /\ \E x \in tasks : SameId(x, t)
           \/ at'[t] = "created" /\ fate'[t] = "open" /\ tasks' = tasks \cup {t}
<1>1. CASE \E x \in tasks : SameId(x, t)
    BY <1>1, GoesOne DEF Translate
<1>2. CASE ~ \E x \in tasks : SameId(x, t)
    BY <1>2, GoesOne, MeetsOne DEF Translate
<1> QED BY <1>1, <1>2

LEMMA ArrivesBooked ==
    ASSUME TypeOK, Booked, NEW t \in Texts, Arrives(t)
    PROVE  Booked'
<1>a. at[t] = "none" /\ t \notin tasks
    BY OtherStages DEF Arrives, SpokenDropped, SpokenFinal, Submitted, PeerDropped, PeerSkipped,
           PeerTranslated, PeerFinal, IsNext, Booked, Tasks
<1>1. CASE SpokenDropped(t) \/ SpokenFinal(t) \/ Submitted(t)
  <2>1. t \in Texts \ PeerTurns
    BY <1>1, StartsOf, TextFacts
  <2>2. UNCHANGED <<book, over, clearing>>
    BY <1>1 DEF SpokenDropped, SpokenFinal, Submitted
  <2>3. \/ Translate(t)
        \/ \E s \in {"done", "emitting"}, f \in Fates : Goes(t, s) /\ Meets(t, f) /\ tasks' = tasks
    BY <1>1 DEF SpokenDropped, SpokenFinal, SpokenDecides, Submitted, Fates
  <2>4. CASE Translate(t)
    BY <1>a, <2>1, <2>2, <2>4, TranslateOne, TranslateTasks, OthersTurn, OtherStages
  <2>5. ASSUME NEW s \in {"done", "emitting"}, NEW f \in Fates,
               Goes(t, s), Meets(t, f), tasks' = tasks
        PROVE  Booked'
    BY <1>a, <2>1, <2>2, <2>5, GoesOne, MeetsOne, OthersTurn
  <2> QED BY <2>3, <2>4, <2>5
<1>2. CASE PeerDropped(t)
  <2>1. PeerFinal(t) /\ Goes(t, "done") /\ Meets(t, "dropped") /\ tasks' = tasks
    BY <1>2 DEF PeerDropped
  <2> QED BY <2>1, StartsOf, GoesOne, MeetsOne, TurnComes
<1>3. CASE PeerSkipped(t)
  <2>1. PeerFinal(t) /\ Goes(t, "sourceonly") /\ Meets(t, "open") /\ tasks' = tasks
    BY <1>3 DEF PeerSkipped
  <2> QED BY <2>1, StartsOf, GoesOne, MeetsOne, TurnComes
<1>4. CASE PeerTranslated(t)
  <2>1. PeerFinal(t) /\ Translate(t) /\ t \in PeerTurns
    BY <1>4, StartsOf DEF PeerTranslated
  <2>2. ~ \E x \in tasks : SameId(x, t)
    BY <1>a, <2>1, TextFacts DEF SameId
  <2> QED BY <2>1, <2>2, TranslateOne, TranslateTasks, TurnComes
<1> QED BY <1>1, <1>2, <1>3, <1>4 DEF Arrives

LEMMA HandledBooked ==
    ASSUME TypeOK, Booked, NEW t \in Texts, Handled(t)
    PROVE  Booked'
<1>1. CASE SpokenEmitted(t) \/ TypedTranslated(t) \/ TypedSkipped(t) \/ TypedSaid(t)
  <2>1. t \in Texts \ PeerTurns /\ UNCHANGED <<book, over, clearing>>
    BY <1>1, TextFacts, WhoseText
    DEF SpokenEmitted, TypedTranslated, TypedSkipped, TypedSaid, history
  <2>2. at[t] \in {"emitting", "releasing"}
    BY <1>1 DEF SpokenEmitted, TypedTranslated, TypedSkipped, TypedSaid
  <2>3. t \notin tasks
    BY <2>2 DEF Booked, Tasks, Cancelling
  <2>4. \/ Translate(t)
        \/ Goes(t, "done") /\ Meets(t, "answered") /\ tasks' = tasks
        \/ Goes(t, "releasing") /\ fate' = fate /\ tasks' = tasks
    BY <1>1 DEF SpokenEmitted, SpokenDecides, TypedTranslated, TypedSkipped, TypedSaid, history
  <2>5. CASE Translate(t)
    BY <2>1, <2>2, <2>3, <2>5, TranslateOne, TranslateTasks, OthersTurn, OtherStages
  <2>6. CASE Goes(t, "done") /\ Meets(t, "answered") /\ tasks' = tasks
    BY <2>1, <2>2, <2>3, <2>6, GoesOne, MeetsOne, OthersTurn
  <2>7. CASE Goes(t, "releasing") /\ fate' = fate /\ tasks' = tasks
    BY <2>1, <2>2, <2>3, <2>7, GoesOne, OthersTurn
  <2> QED BY <2>4, <2>5, <2>6, <2>7
<1>2. CASE PeerShown(t)
  <2>1. /\ t \in PeerTurns /\ at[t] = "sourceonly" /\ Goes(t, "done")
        /\ book' = Complete(book, t, TRUE) /\ Meets(t, "answered")
        /\ UNCHANGED <<over, clearing, tasks>>
    BY <1>2, WhoseText DEF PeerShown
  <2>2. tasks' \subseteq tasks \ {t}
    BY <2>1 DEF Booked, Tasks, Cancelling
  <2> QED BY <2>1, <2>2, TurnCompleted DEF Fates
<1> QED BY <1>1, <1>2 DEF Handled

LEMMA RunsBooked ==
    ASSUME TypeOK, Booked, NEW t \in Texts, Runs(t)
    PROVE  Booked'
<1>a. UNCHANGED <<over, clearing>>
    BY DEF Runs, TaskRuns, Answered, TranslationFails, ExtrasEnd, SelfOut, SelfFailed, PeerOut,
           Cancelled, CutOff, Translation
<1>b. at[t] \in Cancelling \cup {"cut"}
    BY DEF Runs, TaskRuns, Answered, TranslationFails, ExtrasEnd, SelfOut, SelfFailed, PeerOut,
           Cancelled, CutOff, Cancelling
<1>1. CASE TaskRuns(t) \/ Answered(t) \/ TranslationFails(t) \/ ExtrasEnd(t)
  <2>1. /\ \E s \in {"asking", "extra", "out", "failing"} : Goes(t, s)
        /\ UNCHANGED <<book, tasks, fate>>
    BY <1>1 DEF TaskRuns, Answered, TranslationFails, ExtrasEnd
  <2>2. at'[t] \in {"asking", "extra", "out", "failing"} /\ \A x \in Texts : x # t => at'[x] = at[x]
    BY <2>1, GoesOne
  <2>3. CASE t \in PeerTurns
    BY <1>a, <1>b, <2>1, <2>2, <2>3, OtherStages, TurnGoesOn
  <2>4. CASE t \notin PeerTurns
    BY <1>a, <1>b, <2>1, <2>2, <2>4, OtherStages, OthersTurn
  <2> QED BY <2>3, <2>4
<1>2. CASE \/ SelfOut(t) \/ SelfFailed(t)
           \/ (Cancelled(t) \/ CutOff(t)) /\ t \notin PeerTurns
  <2>1. /\ t \in Texts \ PeerTurns /\ book' = book /\ Goes(t, "done") /\ tasks' \subseteq tasks \ {t}
        /\ \E f \in Fates : Meets(t, f)
    BY <1>2, WhoseText DEF SelfOut, SelfFailed, Cancelled, CutOff, TaskDone, SameId, Fates, ChannelOf
  <2> QED BY <1>a, <1>b, <2>1, GoesOne, MeetsOne, OthersTurn, OtherStages
<1>3. CASE t \in PeerTurns /\ (PeerOut(t) \/ Cancelled(t))
  <2>1. /\ t \in PeerTurns /\ book' = Complete(book, t, FALSE)
        /\ Goes(t, "done") /\ tasks' \subseteq tasks \ {t}
        /\ \E f \in Fates \ {"dropped"} : Meets(t, f)
    BY <1>3, WhoseText DEF PeerOut, Cancelled, TaskDone, SameId, Fates
  <2> QED BY <1>a, <1>b, <2>1, TurnCompleted, OtherStages
<1>4. CASE CutOff(t) /\ t \in PeerTurns
  <2>0. t \in PeerTurns
    BY <1>4
  <2>1. /\ at[t] = "cut" /\ book' = book /\ Goes(t, "done") /\ tasks' \subseteq tasks \ {t}
        /\ Meets(t, "cut")
    BY <1>4 DEF CutOff, TaskDone, SameId
  <2>2. /\ at'[t] = "done" /\ fate'[t] = "cut"
        /\ \A x \in Texts : x # t => at'[x] = at[x] /\ fate'[x] = fate[x]
    BY <2>1, GoesOne, MeetsOne
  <2>3. clearing'["peer"] # "no"
    BY <1>4, <1>a, <2>1, BookTypes DEF Booked, Tasks
  <2>4. InProgress' /\ Ended'
    BY <2>1, <2>2, BookTypes DEF Booked, InProgress, Ended, Working
  <2>5. Uncompleted'
    BY <2>3 DEF Uncompleted
  <2>6. Tasks'
    BY <1>a, <2>1, <2>2 DEF Booked, Tasks, TypeOK
  <2> QED BY <1>a, <2>1, <2>4, <2>5, <2>6 DEF Booked, Remembered
<1> QED BY <1>1, <1>2, <1>3, <1>4, WhoseText DEF Runs, PeerOut

LEMMA OthersBooked ==
    ASSUME TypeOK, Booked,
           \/ \E u \in Spoken : SpokenEnds(u)
           \/ \E p \in Peers : PeerEnds(p)
           \/ \E c \in Channels, kind \in Resets : ResetBegins(c, kind)
           \/ \E c \in Channels : ResetEnds(c)
           \/ SwitchTranslation \/ SwitchSink
    PROVE  Booked'
<1>1. CASE (\E u \in Spoken : SpokenEnds(u)) \/ SwitchTranslation \/ SwitchSink
  <2>1. UNCHANGED <<at, tasks, fate, book, clearing>>
    BY <1>1 DEF SpokenEnds, SwitchTranslation, SwitchSink
  <2>2. over' \cap Peers = over \cap Peers
    BY <1>1, HubAssumption DEF SpokenEnds, SwitchTranslation, SwitchSink
  <2> QED BY <2>1, <2>2, BookStays DEF Booked, Tasks
<1>2. ASSUME NEW p \in Peers, PeerEnds(p) PROVE Booked'
  <2> DEFINE b == [book EXCEPT !.ended = @ \cup {p}, !.times = @ \cup {p}]
  <2> DEFINE no == FALSE
  <2> DEFINE m == MaybeForget(b, p, no)
  <2>1. /\ b \in Books
        /\ b.known = book.known /\ b.completed = book.completed
        /\ b.late = book.late /\ b.cleared = book.cleared
        /\ SpeechOver(b, p)
        /\ \A q \in Peers : q # p => (SpeechOver(b, q) <=> SpeechOver(book, q))
    BY DEF TypeOK, Books, SpeechOver
  <2>2. /\ book' = IF \E t \in b.known : t[1] = p THEN m ELSE b
        /\ over' = over \cup {p}
        /\ UNCHANGED <<at, tasks, fate, clearing>>
    BY <1>2 DEF PeerEnds, history
  <2>a. no \in BOOLEAN
    OBVIOUS
  <2> HIDE DEF b, m, no
  <2>3. /\ m.late = b.late /\ m.cleared = b.cleared
        /\ \A t \in b.known : t[1] # p => t \in m.known
        /\ \A t \in m.known : t \in b.known /\ (t \in m.completed <=> t \in b.completed)
        /\ m.completed \subseteq b.completed
        /\ \A t \in b.known \ m.known : t \in b.completed
        /\ \A q \in Peers : q # p => (SpeechOver(m, q) <=> SpeechOver(b, q))
        /\ \A t \in m.known : t[1] = p => m = b /\ ~(TurnsOf(b, p) \subseteq b.completed)
    BY <2>a, <2>1, Forgets DEF m
  <2>4. /\ book'.late = book.late /\ book'.cleared = book.cleared
        /\ book'.known \subseteq book.known /\ book'.completed \subseteq book.completed
        /\ \A t \in book'.known : t \in book'.completed <=> t \in book.completed
        /\ \A t \in book.known \ book'.known : t \in book.completed
        /\ \A t \in book.known : t[1] # p => t \in book'.known
        /\ \A q \in Peers : q # p => (SpeechOver(book', q) <=> SpeechOver(book, q))
        /\ \A t \in book'.known : t[1] = p => /\ SpeechOver(book', p)
                                             /\ ~(TurnsOf(book', p) \subseteq book'.completed)
    BY <2>1, <2>2, <2>3
  <2>5. InProgress'
    BY <2>2, <2>4 DEF Booked, InProgress, Ended, Working
  <2>6. Ended' /\ Uncompleted' /\ Tasks'
    BY <2>2, <2>4 DEF Booked, Ended, Uncompleted, Tasks, Working
  <2>7. Remembered'
    BY <2>2, <2>4, BookTypes DEF Booked, Remembered
  <2>8. Awaited(book)'
    <3> SUFFICES ASSUME NEW t \in book'.known, SpeechOver(book', t[1])
                 PROVE  ~(TurnsOf(book', t[1]) \subseteq book'.completed)
      BY DEF Awaited
    <3>1. CASE t[1] = p
      BY <2>4, <3>1
    <3>2. CASE t[1] # p
      <4>1. t \in book.known /\ SpeechOver(book, t[1])
        BY <2>4, <3>2, BookTypes
      <4>2. PICK y \in TurnsOf(book, t[1]) : y \notin book.completed
        BY <4>1 DEF Booked, Awaited
      <4> QED BY <2>4, <3>2, <4>2 DEF TurnsOf
    <3> QED BY <3>1, <3>2
  <2> QED BY <2>5, <2>6, <2>7, <2>8 DEF Booked
<1>3. ASSUME NEW c \in Channels, NEW kind \in Resets, ResetBegins(c, kind) PROVE Booked'
  <2>1. /\ UNCHANGED <<over, book, tasks>>
        /\ clearing' = [clearing EXCEPT ![c] = kind]
        /\ at' = [t \in Texts |-> AfterCancel(t, c, kind)]
        /\ fate' = [t \in Texts |-> IF at'[t] = "done" /\ at[t] # "done" THEN "cut" ELSE fate[t]]
    BY <1>3 DEF ResetBegins
  <2>2. clearing'[c] # "no" /\ \A d \in Channels : clearing[d] # "no" => clearing'[d] # "no"
    BY <2>1 DEF TypeOK, Resets
  <2>3. \A t \in Texts :
          /\ at'[t] = "none" <=> at[t] = "none"
          /\ at[t] = "done" => at'[t] = "done"
          /\ t \in tasks => at'[t] \in Cancelling \cup {"cut"}
          /\ at'[t] \in {"cancelled", "cut"} => at[t] = at'[t] \/ ChannelOf(t) = c
          /\ fate'[t] = "dropped" => fate[t] = "dropped"
          /\ ChannelOf(t) # c => at'[t] = at[t] /\ fate'[t] = fate[t]
    BY <2>1 DEF AfterCancel, Booked, Tasks, Cancelling, TypeOK
  <2>4. InProgress' /\ Ended'
    BY <2>1, <2>3, BookTypes DEF Booked, InProgress, Ended, Working
  <2>5. Uncompleted'
    BY <2>1, <2>2, <2>3, BookTypes DEF Booked, Uncompleted, Working
  <2>6. Tasks'
    <3>1. \A t \in tasks' : at'[t] \in Cancelling \cup {"cut"}
      BY <2>1, <2>3 DEF TypeOK
    <3>2. ASSUME NEW t \in Texts, at'[t] \in {"cancelled", "cut"}
          PROVE  clearing'[ChannelOf(t)] # "no"
      <4>1. at[t] \in {"cancelled", "cut"} => clearing[ChannelOf(t)] # "no"
        BY DEF Booked, Tasks
      <4> QED BY <2>2, <2>3, <3>2, <4>1, WhoseText
    <3> QED BY <3>1, <3>2 DEF Tasks
  <2> QED BY <2>1, <2>4, <2>5, <2>6 DEF Booked, Remembered
<1>4. ASSUME NEW c \in Channels, ResetEnds(c) PROVE Booked'
  <2>1. /\ UNCHANGED <<over, at, fate>>
        /\ clearing' = [clearing EXCEPT ![c] = "no"]
        /\ tasks' \subseteq tasks
        /\ \A t \in Texts : ChannelOf(t) = c => at[t] \notin {"cancelled", "cut"}
    BY <1>4 DEF ResetEnds, history
  <2>2. Tasks'
    BY <2>1, WhoseText DEF Booked, Tasks, TypeOK
  <2>3. CASE c = "self"
    <3>1. book' = book
      BY <1>4, <2>3 DEF ResetEnds
    <3>2. clearing'["peer"] = clearing["peer"]
      BY <2>1, <2>3, BookTypes DEF TypeOK
    <3> QED BY <2>1, <2>2, <3>1, <3>2
        DEF Booked, InProgress, Ended, Uncompleted, Remembered, Working
  <2>4. CASE c # "self"
    <3>1. book'.known = {} /\ book'.completed = {} /\ book'.cleared = book.cleared \cup book.known
      BY <1>4, <2>4 DEF ResetEnds, TypeOK, Books
    <3> QED BY <2>1, <2>2, <3>1
        DEF Booked, InProgress, Ended, Uncompleted, Remembered, Awaited, Working
  <2> QED BY <2>3, <2>4
<1> QED BY <1>1, <1>2, <1>3, <1>4

LEMMA InitBooked == Init => Booked
    BY TextFacts DEF Init, Booked, InProgress, Ended, Uncompleted, Tasks, Remembered, Awaited, Working

LEMMA NextBooked == TypeOK /\ Booked /\ [Next]_vars => Booked'
<1> SUFFICES ASSUME TypeOK, Booked, [Next]_vars PROVE Booked'
    OBVIOUS
<1>1. CASE UNCHANGED vars
    BY <1>1, BookStays DEF vars, history, Booked, Tasks
<1>2. CASE Next
    BY <1>2, ArrivesBooked, HandledBooked, RunsBooked, OthersBooked DEF Next
<1> QED BY <1>1, <1>2

LEMMA BookedTurns ==
    ASSUME TypeOK, Booked
    PROVE  TurnsBooked
<1> SUFFICES ASSUME NEW t \in PeerTurns, t \in book.known, t[1] \in over, clearing["peer"] = "no"
             PROVE  \E x \in book.known : /\ x[1] = t[1]
                                          /\ Working(x) \/ fate[x] = "dropped" \/ x \in book.late
    BY DEF TurnsBooked, Booked, InProgress
<1>1. CASE t \in book.late
    BY <1>1
<1>2. CASE t \notin book.late
  <2>1. PICK y \in TurnsOf(book, t[1]) : y \notin book.completed
    BY <1>2 DEF Booked, Remembered, Awaited
  <2> QED BY <2>1 DEF Booked, Uncompleted, TurnsOf
<1> QED BY <1>1, <1>2

\* A turn of the other people is booked while it is in progress; once its parent's speech is
\* over some turn of that parent is still awaited, was dropped or came late, but for a reset.
THEOREM TurnsForgotten == Spec => []TurnsBooked
    BY InitTypes, NextTypes, InitBooked, NextBooked, BookedTurns, PTL DEF Spec

=============================================================================
