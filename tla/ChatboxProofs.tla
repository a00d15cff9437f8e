---------------------------- MODULE ChatboxProofs ----------------------------
(***************************************************************************)
(* Proofs about Chatbox and ChatboxPreview, for every set of messages and  *)
(* utterances, page counts, page interval, preview gap, number of previews *)
(* kept and interval between them: first the queue alone, then that the    *)
(* queue the previews use is that queue, and that no preview outlives its  *)
(* utterance.                                                              *)
(***************************************************************************)
EXTENDS ChatboxPreview, SequenceTheorems, TLAPS

\* The parts of the invariant that speak of a wire w, as operators of w.
Whole(w) ==
    \A i \in DOMAIN w :
        \/ /\ w[i] = FirstPage(w[i].msg)
           /\ i > 1 => w[i - 1].no = PageCount[w[i - 1].msg]
        \/ /\ i > 1
           /\ w[i] = [msg |-> w[i - 1].msg, no |-> w[i - 1].no + 1]

Ended(w) == w # <<>> => w[Len(w)].no = PageCount[w[Len(w)].msg]

\* When no page waits, the last message on the wire is complete.
WireEnded == pendingPages = <<>> => Ended(wire)

\* A preview can never be fresh while pages wait: this is why the page branch
\* of process_due need not check the hold.
NoHoldBehindPages == pendingPages # <<>> => previewAge = PreviewGap

\* The inductive invariant.
Inv ==
    /\ TypeOK
    /\ PendingPagesContinueWire
    /\ WholeMessagesOnWire
    /\ WireEnded
    /\ NoHoldBehindPages

\* The first page of a message is a page.
LEMMA FirstPageType ==
    ASSUME NEW m \in Messages
    PROVE  /\ FirstPage(m) \in Page
           /\ FirstPage(m).msg = m
           /\ FirstPage(m).no = IF PageCount[m] = 0 THEN 0 ELSE 1
BY ChatboxAssumption DEF FirstPage, Page

\* The tail pages of a message number it from its second page to its last.
LEMMA TailPagesType ==
    ASSUME NEW m \in Messages, PageCount[m] > 1
    PROVE  /\ TailPages(m) \in Seq(Page)
           /\ Len(TailPages(m)) = PageCount[m] - 1
           /\ TailPages(m) # <<>>
           /\ \A i \in DOMAIN TailPages(m) :
                 TailPages(m)[i] = [msg |-> m, no |-> i + 1]
<1> DEFINE k == PageCount[m] - 1
<1>1. k \in Nat \ {0}
  BY ChatboxAssumption
<1>2. \A i \in 1..k : [msg |-> m, no |-> i + 1] \in Page
  BY <1>1 DEF Page
<1>3. TailPages(m) \in [1..k -> Page]
  BY <1>2 DEF TailPages
<1>4. TailPages(m) \in Seq(Page) /\ Len(TailPages(m)) = k
  BY <1>1, <1>3
<1> QED
  BY <1>1, <1>4 DEF TailPages

\* Appending one page to a whole wire keeps it whole if the page is the next
\* one of the last message, or a first page after a complete one.
LEMMA WholeAppend ==
    ASSUME NEW w \in Seq(Page), NEW p \in Page, Whole(w),
           \/ p = FirstPage(p.msg) /\ Ended(w)
           \/ /\ w # <<>>
              /\ p = [msg |-> w[Len(w)].msg, no |-> w[Len(w)].no + 1]
    PROVE  Append(w, p) \in Seq(Page) /\ Whole(Append(w, p))
<1> DEFINE v == Append(w, p)
<1>1. /\ v \in Seq(Page)
      /\ Len(v) = Len(w) + 1
      /\ \A i \in 1..Len(w) : v[i] = w[i]
      /\ v[Len(w) + 1] = p
  BY AppendProperties
<1>2. Len(w) \in Nat /\ DOMAIN w = 1..Len(w) /\ DOMAIN v = 1..(Len(w) + 1)
  BY <1>1, LenProperties
<1>3. w # <<>> <=> Len(w) > 0
  BY <1>2, EmptySeq
<1> HIDE DEF v
<1>4. ASSUME NEW i \in DOMAIN v
      PROVE  \/ /\ v[i] = FirstPage(v[i].msg)
                /\ i > 1 => v[i - 1].no = PageCount[v[i - 1].msg]
             \/ /\ i > 1
                /\ v[i] = [msg |-> v[i - 1].msg, no |-> v[i - 1].no + 1]
  <2>1. CASE i \in 1..Len(w)
    <3>1. i \in DOMAIN w /\ v[i] = w[i]
      BY <1>1, <1>2, <2>1
    <3>2. i > 1 => v[i - 1] = w[i - 1]
      BY <1>1, <1>2, <2>1
    <3> QED
      BY <3>1, <3>2 DEF Whole
  <2>2. CASE i = Len(w) + 1
    <3>1. v[i] = p
      BY <1>1, <2>2
    <3>2. i > 1 => w # <<>> /\ i - 1 = Len(w) /\ v[i - 1] = w[Len(w)]
      BY <1>1, <1>2, <1>3, <2>2
    <3>3. w # <<>> => i > 1
      BY <1>2, <1>3, <2>2
    <3>4. CASE p = FirstPage(p.msg) /\ Ended(w)
      BY <3>1, <3>2, <3>4 DEF Ended
    <3>5. CASE /\ w # <<>>
               /\ p = [msg |-> w[Len(w)].msg, no |-> w[Len(w)].no + 1]
      BY <3>1, <3>2, <3>3, <3>5
    <3> QED
      BY <3>4, <3>5
  <2> QED
    BY <1>2, <2>1, <2>2
<1>5. Whole(v)
  BY <1>4 DEF Whole
<1> QED
  BY <1>1, <1>5 DEF v

\* Starting n messages in a row, of which only the last may be long, keeps the
\* wire whole, and ended if that last one is short.
LEMMA WholeStarts ==
    ASSUME NEW w \in Seq(Page), Whole(w), Ended(w),
           NEW ms \in Seq(Messages), NEW n \in 0..Len(ms),
           \A i \in 1..n : PageCount[ms[i]] > 1 => i = n
    PROVE  LET v == w \o [i \in 1..n |-> FirstPage(ms[i])]
           IN  /\ v \in Seq(Page)
               /\ Whole(v)
               /\ n > 0 => v # <<>> /\ v[Len(v)] = FirstPage(ms[n])
               /\ ~(n > 0 /\ PageCount[ms[n]] > 1) => Ended(v)
<1> DEFINE f == [i \in 1..n |-> FirstPage(ms[i])]
           v == w \o f
<1>1. n \in Nat /\ Len(ms) \in Nat /\ Len(w) \in Nat
  BY LenProperties
<1>2. \A i \in 1..n : ms[i] \in Messages
  BY <1>1, ElementOfSeq
<1>3. \A i \in 1..n : /\ f[i] \in Page
                      /\ f[i] = FirstPage(ms[i])
                      /\ f[i].msg = ms[i]
                      /\ f[i].no = IF PageCount[ms[i]] = 0 THEN 0 ELSE 1
  BY <1>2, FirstPageType
<1>4. f \in [1..n -> Page]
  BY <1>3
<1>5. f \in Seq(Page) /\ Len(f) = n
  BY <1>1, <1>4
<1>6. /\ v \in Seq(Page)
      /\ Len(v) = Len(w) + n
      /\ \A i \in 1..(Len(w) + n) :
            v[i] = IF i <= Len(w) THEN w[i] ELSE f[i - Len(w)]
  <2> HIDE DEF f
  <2> QED BY <1>5, ConcatProperties
<1>7. DOMAIN w = 1..Len(w) /\ DOMAIN v = 1..(Len(w) + n)
  BY <1>6, LenProperties
<1>8. w # <<>> => Len(w) > 0
  BY EmptySeq
<1>9. \A i \in 1..n : i < n => f[i].no = PageCount[f[i].msg]
  BY <1>1, <1>2, <1>3, ChatboxAssumption
<1>10. ASSUME NEW i \in DOMAIN v
       PROVE  \/ /\ v[i] = FirstPage(v[i].msg)
                 /\ i > 1 => v[i - 1].no = PageCount[v[i - 1].msg]
              \/ /\ i > 1
                 /\ v[i] = [msg |-> v[i - 1].msg, no |-> v[i - 1].no + 1]
  <2> HIDE DEF f, v
  <2>1. CASE i <= Len(w)
    <3>1. i \in DOMAIN w /\ v[i] = w[i]
      BY <1>1, <1>6, <1>7, <2>1
    <3>2. i > 1 => v[i - 1] = w[i - 1]
      BY <1>1, <1>6, <1>7, <2>1
    <3> QED
      BY <3>1, <3>2 DEF Whole
  <2>2. CASE i = Len(w) + 1
    <3>1. v[i] = f[1] /\ 1 \in 1..n
      BY <1>1, <1>6, <1>7, <2>2
    <3>2. v[i] = FirstPage(v[i].msg)
      BY <1>3, <3>1
    <3>3. i > 1 => w # <<>> /\ v[i - 1] = w[Len(w)]
      BY <1>1, <1>6, <1>7, <2>2, EmptySeq
    <3> QED
      BY <3>2, <3>3 DEF Ended
  <2>3. CASE i > Len(w) + 1
    <3> DEFINE j == i - Len(w)
    <3>1. j \in 1..n /\ j - 1 \in 1..n /\ v[i] = f[j] /\ v[i - 1] = f[j - 1]
      BY <1>1, <1>6, <1>7, <2>3
    <3>2. v[i] = FirstPage(v[i].msg)
      BY <1>3, <3>1
    <3>3. v[i - 1].no = PageCount[v[i - 1].msg]
      BY <1>1, <1>9, <3>1
    <3> QED
      BY <3>2, <3>3
  <2> QED
    BY <1>1, <1>7, <2>1, <2>2, <2>3
<1>11. Whole(v)
  <2> HIDE DEF f, v
  <2> QED BY <1>10 DEF Whole
<1>12. n > 0 => v # <<>> /\ v[Len(v)] = FirstPage(ms[n])
  <2> HIDE DEF f, v
  <2> QED BY <1>1, <1>3, <1>6, EmptySeq
<1>13. ASSUME ~(n > 0 /\ PageCount[ms[n]] > 1)
       PROVE  Ended(v)
  <2> HIDE DEF f, v
  <2>1. CASE n = 0
    <3>1. Len(v) = Len(w) /\ (v # <<>> => v[Len(v)] = w[Len(w)] /\ w # <<>>)
      BY <1>1, <1>6, <2>1, EmptySeq
    <3> QED BY <3>1 DEF Ended
  <2>2. CASE n > 0
    <3>1. PageCount[ms[n]] \in {0, 1} /\ n \in 1..n /\ ms[n] \in Messages
      BY <1>1, <1>2, <1>13, <2>2, ChatboxAssumption
    <3>2. v[Len(v)] = FirstPage(ms[n])
      BY <1>12, <2>2
    <3> QED
      BY <3>1, <3>2, FirstPageType DEF Ended
  <2> QED BY <1>1, <2>1, <2>2
<1> QED
  BY <1>6, <1>11, <1>12, <1>13

-----------------------------------------------------------------------------
\* One run of the start loop re-establishes every part of the invariant that
\* speaks of pages, whatever was sent just before it.
LEMMA StartMessagesInv ==
    ASSUME NEW ms \in Seq(Messages), NEW n \in 0..Len(ms), NEW sent,
           \A i \in 1..n : PageCount[ms[i]] > 1 => i = n,
           wire \o sent \in Seq(Page), Whole(wire \o sent), Ended(wire \o sent),
           StartMessages(ms, n, sent)
    PROVE  /\ pendingPages' \in Seq(Page)
           /\ pageWait' \in 0..PageInterval
           /\ wire' \in Seq(Page)
           /\ Whole(wire')
           /\ PendingPagesContinueWire'
           /\ WireEnded'
<1>1. n \in Nat /\ PageInterval \in Nat
  BY ChatboxAssumption, LenProperties
<1>2. wire' = (wire \o sent) \o [i \in 1..n |-> FirstPage(ms[i])]
  BY DEF StartMessages
<1>3. /\ wire' \in Seq(Page)
      /\ Whole(wire')
      /\ n > 0 => wire' # <<>> /\ wire'[Len(wire')] = FirstPage(ms[n])
      /\ ~(n > 0 /\ PageCount[ms[n]] > 1) => Ended(wire')
  BY <1>2, WholeStarts
<1>4. CASE n > 0 /\ PageCount[ms[n]] > 1
  <2>1. ms[n] \in Messages
    BY <1>1, <1>4, ElementOfSeq
  <2>2. pendingPages' = TailPages(ms[n]) /\ pageWait' = PageInterval
    BY <1>4 DEF StartMessages
  <2>3. /\ pendingPages' \in Seq(Page)
        /\ pendingPages' # <<>>
        /\ Len(pendingPages') = PageCount[ms[n]] - 1
        /\ \A i \in DOMAIN pendingPages' :
              pendingPages'[i] = [msg |-> ms[n], no |-> i + 1]
    BY <1>4, <2>1, <2>2, TailPagesType
  <2>4. wire' # <<>> /\ wire'[Len(wire')].msg = ms[n] /\ wire'[Len(wire')].no = 1
    BY <1>3, <1>4, <2>1, FirstPageType, ChatboxAssumption
  <2>5. PageCount[ms[n]] \in Nat
    BY <2>1, ChatboxAssumption
  <2>6. DOMAIN pendingPages' = 1..Len(pendingPages')
    BY <2>3, LenProperties
  <2>7. PendingPagesContinueWire'
    <3>1. \A i \in DOMAIN pendingPages' :
             /\ i \in Nat
             /\ pendingPages'[i].msg = ms[n]
             /\ pendingPages'[i].no = i + 1
      <4> TAKE i \in DOMAIN pendingPages'
      <4>1. pendingPages'[i] = [msg |-> ms[n], no |-> i + 1]
        BY <2>3
      <4>2. i \in 1..Len(pendingPages') /\ Len(pendingPages') \in Nat
        BY <2>3, <2>5, <2>6
      <4> QED BY <4>1, <4>2
    <3>2. \A i \in DOMAIN pendingPages' :
             /\ wire' # <<>>
             /\ pendingPages'[i].msg = wire'[Len(wire')].msg
             /\ pendingPages'[i].no = wire'[Len(wire')].no + i
             /\ PageCount[pendingPages'[i].msg]
                  = wire'[Len(wire')].no + Len(pendingPages')
      BY <2>3, <2>4, <2>5, <3>1
    <3> QED BY <3>2 DEF PendingPagesContinueWire
  <2>8. WireEnded'
    BY <2>3 DEF WireEnded
  <2> QED
    BY <1>1, <1>3, <2>2, <2>3, <2>7, <2>8
<1>5. CASE ~(n > 0 /\ PageCount[ms[n]] > 1)
  <2>1. pendingPages' = <<>> /\ pageWait' = 0
    BY <1>5 DEF StartMessages
  <2>2. PendingPagesContinueWire'
    BY <2>1 DEF PendingPagesContinueWire
  <2>3. WireEnded'
    BY <1>3, <1>5 DEF WireEnded, Ended
  <2> QED
    BY <1>1, <1>3, <2>1, <2>2, <2>3, EmptySeq
<1> QED
  BY <1>4, <1>5

\* The same for the drain loop.
LEMMA DrainInv ==
    ASSUME pendingMessages \in Seq(Messages), NEW sent,
           wire \o sent \in Seq(Page), Whole(wire \o sent), Ended(wire \o sent),
           Drain(sent)
    PROVE  /\ pendingPages' \in Seq(Page)
           /\ pendingMessages' \in Seq(Messages)
           /\ pageWait' \in 0..PageInterval
           /\ wire' \in Seq(Page)
           /\ Whole(wire')
           /\ PendingPagesContinueWire'
           /\ WireEnded'
<1>1. PICK n \in 0..Len(pendingMessages) :
        /\ Drains(pendingMessages, n)
        /\ StartMessages(pendingMessages, n, sent)
        /\ pendingMessages' = SubSeq(pendingMessages, n + 1, Len(pendingMessages))
  BY DEF Drain
<1>2. \A i \in 1..n : PageCount[pendingMessages[i]] > 1 => i = n
  BY <1>1 DEF Drains
<1>3. Len(pendingMessages) \in Nat
  BY LenProperties
<1>4. \A i \in (n + 1)..Len(pendingMessages) : pendingMessages[i] \in Messages
  BY <1>3, ElementOfSeq
<1>5. pendingMessages' \in Seq(Messages)
  BY <1>1, <1>3, <1>4, SubSeqProperties
<1> QED
  BY <1>1, <1>2, <1>5, StartMessagesInv

\* The invariant holds initially.
LEMMA InitInv == Init => Inv
<1> SUFFICES ASSUME Init PROVE Inv
  OBVIOUS
<1>1. TypeOK
  BY ChatboxAssumption, EmptySeq DEF Init, TypeOK
<1>2. PendingPagesContinueWire /\ WholeMessagesOnWire
  BY DEF Init, PendingPagesContinueWire, WholeMessagesOnWire
<1>3. WireEnded /\ NoHoldBehindPages
  BY DEF Init, WireEnded, Ended, NoHoldBehindPages
<1> QED
  BY <1>1, <1>2, <1>3 DEF Inv

\* Every step keeps it.
LEMMA NextInv == Inv /\ [Next]_vars => Inv'
<1> SUFFICES ASSUME Inv, [Next]_vars PROVE Inv'
  OBVIOUS
<1>0. TypeOK /\ PendingPagesContinueWire /\ Whole(wire) /\ WireEnded /\ NoHoldBehindPages
  BY DEF Inv, Whole, WholeMessagesOnWire
<1>a. Whole(wire') => WholeMessagesOnWire'
  BY DEF Whole, WholeMessagesOnWire
<1>b. wire \o <<>> = wire
  BY <1>0, ConcatEmptySeq DEF TypeOK
<1>1. ASSUME NEW m \in Messages, Enqueue(m) PROVE Inv'
  <2>1. /\ arrived' \in Seq(Messages) /\ behindPages' \in SUBSET Messages
        /\ previewAge' = previewAge
    BY <1>0, <1>1, AppendProperties DEF Enqueue, TypeOK
  <2>2. CASE /\ pendingMessages' = Append(pendingMessages, m)
             /\ UNCHANGED <<pendingPages, pageWait, wire>>
    <3>1. TypeOK'
      BY <1>0, <2>1, <2>2, AppendProperties DEF TypeOK
    <3>2. PendingPagesContinueWire'
      BY <1>0, <2>2 DEF PendingPagesContinueWire
    <3>3. WholeMessagesOnWire' /\ WireEnded' /\ NoHoldBehindPages'
      BY <1>0, <1>a, <2>1, <2>2 DEF WireEnded, NoHoldBehindPages
    <3> QED BY <3>1, <3>2, <3>3 DEF Inv
  <2>3. CASE /\ ~IsPaginating /\ ~PreviewHoldActive
             /\ StartMessages(<<m>>, 1, <<>>)
             /\ UNCHANGED pendingMessages
    <3>1. Ended(wire)
      BY <1>0, <2>3 DEF WireEnded, IsPaginating
    <3>2. <<m>> \in Seq(Messages) /\ 1 \in 0..Len(<<m>>)
      OBVIOUS
    <3>3. \A i \in 1..1 : PageCount[<<m>>[i]] > 1 => i = 1
      OBVIOUS
    <3>4. /\ pendingPages' \in Seq(Page) /\ pageWait' \in 0..PageInterval
          /\ wire' \in Seq(Page) /\ Whole(wire')
          /\ PendingPagesContinueWire' /\ WireEnded'
      BY <1>0, <1>b, <2>3, <3>1, <3>2, <3>3, StartMessagesInv DEF TypeOK
    <3>5. NoHoldBehindPages'
      BY <1>0, <2>1, <2>3, ChatboxAssumption
      DEF NoHoldBehindPages, PreviewHoldActive, TypeOK
    <3>6. TypeOK'
      BY <1>0, <2>1, <2>3, <3>4 DEF TypeOK
    <3> QED BY <1>a, <3>4, <3>5, <3>6 DEF Inv
  <2> QED BY <1>1, <2>2, <2>3 DEF Enqueue
<1>2. CASE SendPreview
  <2>1. TypeOK'
    BY <1>0, <1>2, ChatboxAssumption DEF SendPreview, TypeOK, history
  <2>2. PendingPagesContinueWire' /\ WholeMessagesOnWire' /\ WireEnded'
    BY <1>0, <1>2, <1>a DEF SendPreview, history, PendingPagesContinueWire,
       WireEnded
  <2>3. NoHoldBehindPages'
    BY <1>2 DEF SendPreview, NoHoldBehindPages, IsBusy, IsPaginating
  <2> QED BY <2>1, <2>2, <2>3 DEF Inv
<1>3. CASE DrainIdle
  <2>1. Ended(wire)
    BY <1>0, <1>3 DEF DrainIdle, WireEnded, IsPaginating
  <2>2. /\ pendingPages' \in Seq(Page) /\ pageWait' \in 0..PageInterval
        /\ pendingMessages' \in Seq(Messages)
        /\ wire' \in Seq(Page) /\ Whole(wire')
        /\ PendingPagesContinueWire' /\ WireEnded'
    BY <1>0, <1>3, <1>b, <2>1, DrainInv DEF DrainIdle, TypeOK
  <2>3. NoHoldBehindPages'
    BY <1>0, <1>3, ChatboxAssumption
    DEF DrainIdle, NoHoldBehindPages, PreviewHoldActive, TypeOK
  <2>4. TypeOK'
    BY <1>0, <1>3, <2>2 DEF DrainIdle, TypeOK
  <2> QED BY <1>a, <2>2, <2>3, <2>4 DEF Inv
<1>4. CASE SendDuePage
  <2> DEFINE p == Head(pendingPages)
             last == wire[Len(wire)]
  <2>1. /\ pendingPages # <<>> /\ Len(pendingPages) \in Nat \ {0}
        /\ DOMAIN pendingPages = 1..Len(pendingPages)
        /\ p = pendingPages[1] /\ p \in Page
    BY <1>0, <1>4, EmptySeq, LenProperties, HeadTailProperties
    DEF SendDuePage, IsPaginating, TypeOK
  <2>2. /\ wire # <<>> /\ p.msg = last.msg /\ p.no = last.no + 1
        /\ PageCount[p.msg] = last.no + Len(pendingPages)
    BY <1>0, <2>1 DEF PendingPagesContinueWire
  <2>3. p = [msg |-> last.msg, no |-> last.no + 1]
    BY <2>1, <2>2 DEF Page
  <2>4. /\ Append(wire, p) \in Seq(Page) /\ Whole(Append(wire, p))
    BY <1>0, <2>1, <2>2, <2>3, WholeAppend DEF TypeOK
  <2>5. /\ Len(Append(wire, p)) = Len(wire) + 1
        /\ Append(wire, p)[Len(wire) + 1] = p
        /\ Append(wire, p) # <<>>
        /\ Len(wire) \in Nat \ {0}
        /\ last \in Page
    BY <1>0, <2>1, <2>2, AppendProperties, EmptySeq, ElementOfSeq DEF TypeOK
  <2>6. previewAge' = previewAge /\ arrived' = arrived /\ behindPages' = behindPages
        /\ previewAge = PreviewGap
    BY <1>0, <1>4, <2>1 DEF SendDuePage, NoHoldBehindPages
  <2>7. CASE /\ Len(pendingPages) > 1
             /\ pendingPages' = Tail(pendingPages)
             /\ pageWait' = PageInterval
             /\ wire' = Append(wire, p)
             /\ UNCHANGED pendingMessages
    <3>1. /\ pendingPages' \in Seq(Page)
          /\ Len(pendingPages') = Len(pendingPages) - 1
          /\ \A i \in 1..Len(pendingPages') : pendingPages'[i] = pendingPages[i + 1]
      BY <1>0, <2>1, <2>7, HeadTailProperties DEF TypeOK
    <3>2. DOMAIN pendingPages' = 1..Len(pendingPages')
      BY <3>1, LenProperties
    <3>3. pendingPages' # <<>>
      BY <2>7, <3>1, EmptySeq, <2>1
    <3>4. wire'[Len(wire')] = p /\ wire' # <<>>
      BY <2>5, <2>7
    <3>5. PendingPagesContinueWire'
      <4> SUFFICES ASSUME NEW i \in DOMAIN pendingPages'
                   PROVE  /\ pendingPages'[i].msg = p.msg
                          /\ pendingPages'[i].no = p.no + i
                          /\ PageCount[pendingPages'[i].msg] = p.no + Len(pendingPages')
        BY <3>4 DEF PendingPagesContinueWire
      <4>1. i \in Nat /\ i + 1 \in DOMAIN pendingPages /\ pendingPages'[i] = pendingPages[i + 1]
        BY <2>1, <3>1, <3>2
      <4>2. /\ pendingPages[i + 1].msg = last.msg
            /\ pendingPages[i + 1].no = last.no + (i + 1)
            /\ PageCount[pendingPages[i + 1].msg] = last.no + Len(pendingPages)
        BY <1>0, <4>1 DEF PendingPagesContinueWire
      <4>3. last.no \in Nat
        BY <2>5 DEF Page
      <4> HIDE DEF p, last
      <4>4. p.no = last.no + 1 /\ p.msg = last.msg
        BY <2>2
      <4>5. pendingPages'[i].msg = p.msg /\ pendingPages'[i].no = p.no + i
        BY <4>1, <4>2, <4>3, <4>4
      <4>6. PageCount[pendingPages'[i].msg] = p.no + Len(pendingPages')
        <5>1. Len(pendingPages) \in Nat /\ Len(pendingPages') = Len(pendingPages) - 1
          BY <2>1, <3>1
        <5>2. p.no + Len(pendingPages') = last.no + Len(pendingPages)
          BY <4>3, <4>4, <5>1
        <5>3. PageCount[pendingPages'[i].msg] = last.no + Len(pendingPages)
          BY <4>1, <4>2
        <5> QED BY <5>2, <5>3
      <4> QED BY <4>5, <4>6
    <3>6. TypeOK'
      BY <1>0, <2>4, <2>6, <2>7, <3>1, ChatboxAssumption DEF TypeOK
    <3>7. WireEnded' /\ NoHoldBehindPages'
      BY <2>6, <3>3 DEF WireEnded, NoHoldBehindPages
    <3> QED BY <1>a, <2>4, <2>7, <3>5, <3>6, <3>7 DEF Inv
  <2>8. CASE Len(pendingPages) = 1 /\ Drain(pendingPages)
    <3>1. pendingPages = <<p>>
      BY <1>0, <2>1, <2>8 DEF TypeOK
    <3>2. wire \o pendingPages = Append(wire, p)
      BY <1>0, <2>1, <3>1, AppendIsConcat DEF TypeOK
    <3>3. Ended(Append(wire, p))
      <4>1. PageCount[p.msg] = p.no
        BY <2>2, <2>5, <2>8 DEF Page
      <4> QED BY <2>5, <4>1 DEF Ended
    <3>4. /\ pendingPages' \in Seq(Page) /\ pageWait' \in 0..PageInterval
          /\ pendingMessages' \in Seq(Messages)
          /\ wire' \in Seq(Page) /\ Whole(wire')
          /\ PendingPagesContinueWire' /\ WireEnded'
      BY <1>0, <2>4, <2>8, <3>2, <3>3, DrainInv DEF TypeOK
    <3>5. TypeOK'
      BY <1>0, <2>6, <3>4 DEF TypeOK
    <3>6. NoHoldBehindPages'
      BY <2>6 DEF NoHoldBehindPages
    <3> QED BY <1>a, <3>4, <3>5, <3>6 DEF Inv
  <2> QED BY <1>4, <2>7, <2>8 DEF SendDuePage
<1>5. CASE Tick
  <2>1. TypeOK'
    BY <1>0, <1>5, ChatboxAssumption DEF Tick, TypeOK, history,
       PreviewHoldActive
  <2>2. PendingPagesContinueWire' /\ WholeMessagesOnWire' /\ WireEnded'
    BY <1>0, <1>5, <1>a DEF Tick, history, PendingPagesContinueWire, WireEnded
  <2>3. NoHoldBehindPages'
    BY <1>0, <1>5, ChatboxAssumption
    DEF Tick, TypeOK, NoHoldBehindPages, PreviewHoldActive
  <2> QED BY <2>1, <2>2, <2>3 DEF Inv
<1>6. CASE UNCHANGED vars
  <2>1. TypeOK'
    BY <1>0, <1>6 DEF TypeOK, vars, queue, history
  <2>2. PendingPagesContinueWire' /\ WholeMessagesOnWire'
    BY <1>0, <1>6, <1>a DEF PendingPagesContinueWire, vars, queue, history
  <2>3. WireEnded' /\ NoHoldBehindPages'
    BY <1>0, <1>6 DEF WireEnded, NoHoldBehindPages, vars, queue, history
  <2> QED BY <2>1, <2>2, <2>3 DEF Inv
<1> QED
  BY <1>1, <1>2, <1>3, <1>4, <1>5, <1>6 DEF Next, ProcessDue

-----------------------------------------------------------------------------
\* The inductive invariant holds throughout every behaviour of the queue.
THEOREM InvHolds == Spec => []Inv
BY InitInv, NextInv, PTL DEF Spec

\* Every variable of the queue stays in its type.
THEOREM TypeCorrect == Spec => []TypeOK
<1>1. Inv => TypeOK
  BY DEF Inv
<1> QED BY <1>1, InvHolds, PTL

\* The waiting pages always continue what was sent last (pagination never mixes
\* two messages).
THEOREM PagesContinue == Spec => []PendingPagesContinueWire
<1>1. Inv => PendingPagesContinueWire
  BY DEF Inv
<1> QED BY <1>1, InvHolds, PTL

\* VRChat is shown whole messages, one at a time, whatever the page counts.
THEOREM MessagesWhole == Spec => []WholeMessagesOnWire
<1>1. Inv => WholeMessagesOnWire
  BY DEF Inv
<1> QED BY <1>1, InvHolds, PTL

\* No queued page follows a preview before the gap is over, although only the
\* drain and enqueue look at the preview.
THEOREM GapKept == Spec => PreviewGapKept
<1>1. Inv /\ [Next]_vars => [wire' # wire => previewAge = PreviewGap]_vars
  <2> SUFFICES ASSUME Inv, Next, wire' # wire PROVE previewAge = PreviewGap
    OBVIOUS
  <2>0. TypeOK /\ NoHoldBehindPages
    BY DEF Inv
  <2>1. ASSUME NEW m \in Messages, Enqueue(m) PROVE previewAge = PreviewGap
    BY <2>0, <2>1, ChatboxAssumption DEF Enqueue, PreviewHoldActive, TypeOK
  <2>2. CASE DrainIdle
    BY <2>0, <2>2, ChatboxAssumption DEF DrainIdle, PreviewHoldActive, TypeOK
  <2>3. CASE SendDuePage
    BY <2>0, <2>3 DEF SendDuePage, IsPaginating, NoHoldBehindPages
  <2>4. CASE SendPreview \/ Tick
    BY <2>4 DEF SendPreview, Tick, history
  <2> QED
    BY <2>1, <2>2, <2>3, <2>4 DEF Next, ProcessDue
<1> QED
  BY <1>1, InvHolds, PTL DEF Spec, PreviewGapKept

-----------------------------------------------------------------------------
(***************************************************************************)
(* The order of messages.  Messages wait in the order they came, and each  *)
(* one that has come waits or was started; one that waits behind pages is  *)
(* started before the pages are all gone, which is what a message held by  *)
(* a preview lacks.                                                        *)
(***************************************************************************)
Came(m) == \E i \in DOMAIN arrived : arrived[i] = m
Waits(m) == \E i \in DOMAIN pendingMessages : pendingMessages[i] = m
Started(m) == PositionOnWire(m) # {}

ComesOnce == \A i, j \in DOMAIN arrived : arrived[i] = arrived[j] => i = j

WaitOrStart ==
    /\ \A m \in Messages : Came(m) <=> Waits(m) \/ Started(m)
    /\ behindPages \subseteq {m \in Messages : Came(m)}

WaitInOrder ==
    \A i, j \in DOMAIN pendingMessages :
        i < j => ArrivedBefore(pendingMessages[i], pendingMessages[j])

PagesHold == \A m \in behindPages : Waits(m) => pendingPages # <<>>

Order == ComesOnce /\ WaitOrStart /\ WaitInOrder /\ PagesHold /\ PaginationKeepsArrivalOrder

FirstsOf(w, m) == {i \in DOMAIN w : w[i] = FirstPage(m)}

LEMMA SamePosition ==
    ASSUME wire' = wire
    PROVE  \A m : PositionOnWire(m)' = PositionOnWire(m)
BY DEF PositionOnWire

\* A step that starts nothing and enqueues nothing.
LEMMA OrderStays ==
    ASSUME Order, UNCHANGED <<arrived, behindPages, pendingMessages>>,
           \A m \in Messages : PositionOnWire(m)' = PositionOnWire(m),
           pendingPages # <<>> => pendingPages' # <<>>
    PROVE  Order'
<1>1. \A m, n : ArrivedBefore(m, n)' <=> ArrivedBefore(m, n)
  BY DEF ArrivedBefore
<1>2. ComesOnce' /\ WaitInOrder' /\ PagesHold'
  BY <1>1 DEF Order, ComesOnce, WaitInOrder, PagesHold, Waits
<1>3. WaitOrStart'
  BY DEF Order, WaitOrStart, Came, Waits, Started
<1>4. \A m \in behindPages : m \in Messages
  BY DEF Order, WaitOrStart
<1>5. PaginationKeepsArrivalOrder'
  BY <1>1, <1>4 DEF Order, PaginationKeepsArrivalOrder
<1> QED BY <1>2, <1>3, <1>5 DEF Order

\* What is on the wire once the first n messages of ms have been started after sent.
LEMMA StartedPositions ==
    ASSUME NEW sent, wire \o sent \in Seq(Page),
           \A m \in Messages : FirstsOf(wire \o sent, m) = PositionOnWire(m),
           NEW ms \in Seq(Messages), NEW n \in 0..Len(ms), StartMessages(ms, n, sent)
    PROVE  \A m \in Messages :
             /\ PositionOnWire(m) \subseteq 1..Len(wire \o sent)
             /\ PositionOnWire(m) \subseteq PositionOnWire(m)'
             /\ \A k \in 1..n : ms[k] = m => Len(wire \o sent) + k \in PositionOnWire(m)'
             /\ PositionOnWire(m)' # {} => PositionOnWire(m) # {} \/ \E k \in 1..n : ms[k] = m
<1> DEFINE w == wire \o sent
           f == [i \in 1..n |-> FirstPage(ms[i])]
           v == w \o f
<1>1. n \in Nat /\ Len(ms) \in Nat /\ Len(w) \in Nat /\ DOMAIN w = 1..Len(w)
  BY LenProperties
<1>2. \A i \in 1..n : ms[i] \in Messages /\ f[i] \in Page /\ f[i] = FirstPage(ms[i])
  BY <1>1, ElementOfSeq, FirstPageType
<1>3. f \in Seq(Page) /\ Len(f) = n
  BY <1>1, <1>2
<1> HIDE DEF f
<1>4. wire' = v
  BY DEF StartMessages, f
<1>5. /\ v \in Seq(Page) /\ Len(v) = Len(w) + n
      /\ \A i \in 1..(Len(w) + n) : v[i] = IF i <= Len(w) THEN w[i] ELSE f[i - Len(w)]
  BY <1>3, ConcatProperties
<1>6. DOMAIN v = 1..(Len(w) + n)
  BY <1>5, LenProperties
<1> HIDE DEF v, w
<1>7. ASSUME NEW m \in Messages
      PROVE  /\ PositionOnWire(m) \subseteq 1..Len(w)
             /\ PositionOnWire(m) \subseteq PositionOnWire(m)'
             /\ \A k \in 1..n : ms[k] = m => Len(w) + k \in PositionOnWire(m)'
             /\ PositionOnWire(m)' # {} => PositionOnWire(m) # {} \/ \E k \in 1..n : ms[k] = m
  <2>1. PositionOnWire(m) = {i \in 1..Len(w) : w[i] = FirstPage(m)}
    BY <1>1 DEF w, FirstsOf
  <2>2. PositionOnWire(m)' = {i \in 1..(Len(w) + n) : v[i] = FirstPage(m)}
    BY <1>4, <1>6 DEF PositionOnWire, FirstPage
  <2>3. \A k \in 1..n : f[k] = FirstPage(m) <=> ms[k] = m
    BY <1>2, FirstPageType
  <2>4. ASSUME NEW i \in PositionOnWire(m)', PositionOnWire(m) = {}
        PROVE  \E k \in 1..n : ms[k] = m
    <3>1. ~(i <= Len(w))
      BY <1>1, <1>5, <2>1, <2>2, <2>4
    <3>2. i - Len(w) \in 1..n /\ v[i] = f[i - Len(w)]
      BY <1>1, <1>5, <2>2, <3>1
    <3> QED BY <2>2, <2>3, <3>2
  <2>5. PositionOnWire(m) \subseteq PositionOnWire(m)'
    BY <1>1, <1>5, <2>1, <2>2
  <2>6. ASSUME NEW k \in 1..n, ms[k] = m
        PROVE  Len(w) + k \in PositionOnWire(m)'
    <3>1. Len(w) + k \in 1..(Len(w) + n) /\ ~(Len(w) + k <= Len(w)) /\ (Len(w) + k) - Len(w) = k
      BY <1>1
    <3>2. v[Len(w) + k] = f[k]
      BY <1>5, <3>1
    <3> QED BY <2>2, <2>3, <2>6, <3>1, <3>2
  <2> QED BY <2>1, <2>4, <2>5, <2>6
<1> QED BY <1>7 DEF w

\* No message comes before itself, nor two before each other.
LEMMA BeforeIsOrder ==
    ASSUME ComesOnce, arrived \in Seq(Messages), NEW m, NEW n, ArrivedBefore(m, n)
    PROVE  m # n /\ ~ArrivedBefore(n, m)
<1>1. DOMAIN arrived = 1..Len(arrived) /\ Len(arrived) \in Nat
  BY LenProperties
<1> QED BY <1>1 DEF ComesOnce, ArrivedBefore

\* Starting the first n waiting messages, all of them or with pages left.
LEMMA StartKeepsOrder ==
    ASSUME Order, TypeOK, NEW sent, wire \o sent \in Seq(Page),
           \A m \in Messages : FirstsOf(wire \o sent, m) = PositionOnWire(m),
           Drain(sent), UNCHANGED <<arrived, behindPages>>
    PROVE  Order'
<1> DEFINE pm == pendingMessages
           b == Len(wire \o sent)
<1>1. PICK n \in 0..Len(pm) :
        /\ Drains(pm, n) /\ StartMessages(pm, n, sent)
        /\ pm' = SubSeq(pm, n + 1, Len(pm))
  BY DEF Drain
<1>2. /\ pm \in Seq(Messages) /\ Len(pm) \in Nat /\ DOMAIN pm = 1..Len(pm) /\ b \in Nat
      /\ \A i \in DOMAIN pm : pm[i] \in Messages
  BY LenProperties, ElementOfSeq DEF TypeOK
<1>3. \A m \in Messages :
        /\ PositionOnWire(m) \subseteq 1..b
        /\ PositionOnWire(m) \subseteq PositionOnWire(m)'
        /\ \A k \in 1..n : pm[k] = m => b + k \in PositionOnWire(m)'
        /\ PositionOnWire(m)' # {} => PositionOnWire(m) # {} \/ \E k \in 1..n : pm[k] = m
  <2>1. /\ pm \in Seq(Messages) /\ n \in 0..Len(pm) /\ StartMessages(pm, n, sent)
        /\ \A m \in Messages : FirstsOf(wire \o sent, m) = PositionOnWire(m)
    BY <1>1, <1>2
  <2> HIDE DEF pm
  <2> QED BY <2>1, StartedPositions
<1>4. /\ pm' \in Seq(Messages) /\ Len(pm') = Len(pm) - n
      /\ DOMAIN pm' = 1..(Len(pm) - n)
      /\ \A i \in 1..(Len(pm) - n) : pm'[i] = pm[n + i]
  <2>1. \A i \in (n + 1)..Len(pm) : pm[i] \in Messages
    BY <1>2
  <2>2. /\ pm' \in Seq(Messages)
        /\ Len(pm') = IF n + 1 <= Len(pm) THEN Len(pm) - (n + 1) + 1 ELSE 0
        /\ \A i \in 1..(Len(pm) - (n + 1) + 1) : pm'[i] = pm[n + 1 + i - 1]
    BY <1>1, <1>2, <2>1, SubSeqProperties
  <2>3. Len(pm') = Len(pm) - n
    <3>1. n \in Nat /\ n <= Len(pm) /\ Len(pm) \in Nat
      BY <1>1, <1>2
    <3>2. CASE n + 1 <= Len(pm)
      <4>1. Len(pm') = Len(pm) - (n + 1) + 1
        BY <2>2, <3>2
      <4> QED BY <1>2, <3>1, <4>1
    <3>3. CASE ~(n + 1 <= Len(pm))
      <4>1. Len(pm') = 0
        BY <2>2, <3>3
      <4>2. Len(pm) = n
        BY <3>1, <3>3
      <4> QED BY <3>1, <4>1, <4>2
    <3> QED BY <3>2, <3>3
  <2>4. \A i \in 1..(Len(pm) - n) : pm'[i] = pm[n + i]
    BY <1>1, <1>2, <2>2
  <2> QED BY <2>2, <2>3, <2>4, LenProperties
<1> HIDE DEF b
<1>5. \A m, k : ArrivedBefore(m, k)' <=> ArrivedBefore(m, k)
  BY DEF ArrivedBefore
<1>6. ComesOnce' /\ \A m : Came(m)' <=> Came(m)
  BY DEF Order, ComesOnce, Came
<1>7. WaitInOrder'
  <2> SUFFICES ASSUME NEW i \in DOMAIN pm', NEW j \in DOMAIN pm', i < j
               PROVE  ArrivedBefore(pm'[i], pm'[j])
    BY <1>5 DEF WaitInOrder
  <2>1. n + i \in DOMAIN pm /\ n + j \in DOMAIN pm /\ n + i < n + j
    BY <1>2, <1>4
  <2> QED BY <1>4, <2>1 DEF Order, WaitInOrder
<1>8. \A m \in Messages : Waits(m)' => Waits(m)
  <2> SUFFICES ASSUME NEW m \in Messages, NEW i \in DOMAIN pm', pm'[i] = m PROVE Waits(m)
    BY DEF Waits
  <2>1. n + i \in DOMAIN pm /\ pm[n + i] = m
    BY <1>2, <1>4
  <2> QED BY <2>1 DEF Waits
<1>9. \A m \in Messages : Waits(m) => Waits(m)' \/ \E k \in 1..n : pm[k] = m
  <2> SUFFICES ASSUME NEW m \in Messages, NEW i \in 1..Len(pm), pm[i] = m,
                      ~(i \in 1..n)
               PROVE  Waits(m)'
    BY <1>2 DEF Waits
  <2>1. i - n \in 1..(Len(pm) - n) /\ n + (i - n) = i
    BY <1>2
  <2> QED BY <1>4, <2>1 DEF Waits
<1>10. \A m \in Messages : Started(m)' <=> Started(m) \/ \E k \in 1..n : pm[k] = m
  BY <1>3 DEF Started
<1>11. \A k \in 1..n : Waits(pm[k]) /\ pm[k] \in Messages
  BY <1>2 DEF Waits
<1>12. WaitOrStart'
  BY <1>6, <1>8, <1>9, <1>10, <1>11 DEF Order, WaitOrStart
<1>13. PagesHold'
  <2>1. CASE n = Len(pm)
    <3>1. \A m : ~Waits(m)'
      BY <1>2, <1>4, <2>1 DEF Waits
    <3> QED BY <3>1 DEF PagesHold
  <2>2. CASE n # Len(pm)
    <3>1. n > 0 /\ PageCount[pm[n]] > 1
      BY <1>1, <2>2 DEF Drains
    <3>a. pm[n] \in Messages
      BY <1>2, <3>1
    <3>2. pendingPages' = TailPages(pm[n])
      BY <1>1, <3>1 DEF StartMessages
    <3> QED BY <3>1, <3>a, <3>2, TailPagesType DEF PagesHold
  <2> QED BY <2>1, <2>2
<1>14. PaginationKeepsArrivalOrder'
  <2> SUFFICES ASSUME NEW m \in behindPages, NEW k \in Messages, ArrivedBefore(m, k),
                      PositionOnWire(k)' # {}
               PROVE  \E i \in PositionOnWire(m)', j \in PositionOnWire(k)' : i < j
    BY <1>5 DEF PaginationKeepsArrivalOrder
  <2>0. m \in Messages /\ Came(m)
    BY DEF Order, WaitOrStart
  <2>1. CASE PositionOnWire(k) # {}
    <3>1. \E i \in PositionOnWire(m), j \in PositionOnWire(k) : i < j
      BY <2>1 DEF Order, PaginationKeepsArrivalOrder
    <3> QED BY <1>3, <2>0, <3>1
  <2>2. CASE PositionOnWire(k) = {}
    <3>1. PICK j \in 1..n : pm[j] = k
      BY <1>3, <2>2
    <3>2. b + j \in PositionOnWire(k)' /\ j \in 1..Len(pm)
      BY <1>2, <1>3, <3>1
    <3>3. CASE Waits(m)
      <4>1. PICK i \in DOMAIN pm : pm[i] = m
        BY <3>3 DEF Waits
      <4>2. i < j
        <5>1. m # k /\ ~ArrivedBefore(k, m)
          BY BeforeIsOrder DEF Order, TypeOK
        <5>2. ~(j < i)
          BY <1>2, <3>1, <3>2, <4>1, <5>1 DEF Order, WaitInOrder
        <5> QED BY <1>2, <3>1, <3>2, <4>1, <5>1, <5>2
      <4>3. i \in 1..n
        BY <1>2, <4>2
      <4>4. b + i \in PositionOnWire(m)'
        BY <1>3, <2>0, <4>1, <4>3
      <4>5. b + i < b + j
        BY <1>2, <4>2, <4>3
      <4> QED BY <3>2, <4>4, <4>5
    <3>4. CASE ~Waits(m)
      <4>1. PICK i \in PositionOnWire(m) : TRUE
        BY <2>0, <3>4 DEF Order, WaitOrStart, Started
      <4>2. i \in 1..b /\ i < b + j /\ i \in PositionOnWire(m)'
        BY <1>2, <1>3, <2>0, <4>1
      <4> QED BY <3>2, <4>2
    <3> QED BY <3>3, <3>4
  <2> QED BY <2>1, <2>2
<1> QED BY <1>6, <1>7, <1>12, <1>13, <1>14 DEF Order

\* A message is handed over.
LEMMA EnqueueKeepsOrder ==
    ASSUME Order, TypeOK, NEW m \in Messages, Enqueue(m)
    PROVE  Order'
<1>0. /\ arrived \in Seq(Messages) /\ Len(arrived) \in Nat /\ DOMAIN arrived = 1..Len(arrived)
      /\ pendingMessages \in Seq(Messages) /\ Len(pendingMessages) \in Nat
      /\ DOMAIN pendingMessages = 1..Len(pendingMessages)
      /\ wire \in Seq(Page)
  BY LenProperties DEF TypeOK
<1>1. /\ ~Came(m)
      /\ arrived' = Append(arrived, m)
      /\ behindPages' = IF IsPaginating THEN behindPages \cup {m} ELSE behindPages
  BY DEF Enqueue, Came
<1>2. /\ arrived' \in Seq(Messages) /\ Len(arrived') = Len(arrived) + 1
      /\ DOMAIN arrived' = 1..(Len(arrived) + 1)
      /\ \A i \in 1..Len(arrived) : arrived'[i] = arrived[i]
      /\ arrived'[Len(arrived) + 1] = m
  BY <1>0, <1>1, AppendProperties, LenProperties
<1>3. ComesOnce' /\ Came(m)' /\ \A k \in Messages : k # m => (Came(k)' <=> Came(k))
  BY <1>0, <1>1, <1>2 DEF Order, ComesOnce, Came
<1>4. \A k, l : ArrivedBefore(k, l) => ArrivedBefore(k, l)'
  BY <1>0, <1>2 DEF ArrivedBefore
<1>5. \A k, l : ArrivedBefore(k, l)' => k # m /\ (l # m => ArrivedBefore(k, l))
  BY <1>0, <1>2, <1>3 DEF ArrivedBefore, ComesOnce
<1>6. \A k \in Messages : Came(k) => ArrivedBefore(k, m)'
  BY <1>0, <1>2 DEF ArrivedBefore, Came
<1>7. ~Waits(m) /\ ~Started(m) /\ \A k \in Messages : Came(k) <=> Waits(k) \/ Started(k)
  BY <1>1 DEF Order, WaitOrStart
<1>8. behindPages \subseteq {k \in Messages : Came(k)}
  BY DEF Order, WaitOrStart
<1>9. CASE /\ IsPaginating \/ PreviewHoldActive
           /\ pendingMessages' = Append(pendingMessages, m)
           /\ UNCHANGED <<pendingPages, pageWait, wire>>
  <2>1. /\ DOMAIN pendingMessages' = 1..(Len(pendingMessages) + 1)
        /\ \A i \in 1..Len(pendingMessages) : pendingMessages'[i] = pendingMessages[i]
        /\ pendingMessages'[Len(pendingMessages) + 1] = m
    BY <1>0, <1>9, AppendProperties, LenProperties
  <2>2. \A k \in Messages : Waits(k)' <=> Waits(k) \/ k = m
    BY <1>0, <2>1 DEF Waits
  <2>3. \A k : PositionOnWire(k)' = PositionOnWire(k)
    BY <1>9, SamePosition
  <2>4. \A k \in Messages : Started(k)' <=> Started(k)
    BY <2>3 DEF Started
  <2>5. WaitOrStart'
    BY <1>1, <1>3, <1>7, <1>8, <2>2, <2>4 DEF WaitOrStart
  <2>6. WaitInOrder'
    <3> SUFFICES ASSUME NEW i \in 1..(Len(pendingMessages) + 1),
                        NEW j \in 1..(Len(pendingMessages) + 1), i < j,
                        NEW k, NEW l, k = pendingMessages'[i], l = pendingMessages'[j]
                 PROVE  ArrivedBefore(k, l)'
      BY <2>1 DEF WaitInOrder, ArrivedBefore
    <3>1. i \in 1..Len(pendingMessages) /\ pendingMessages'[i] = pendingMessages[i]
      BY <1>0, <2>1
    <3>2. CASE j \in 1..Len(pendingMessages)
      BY <1>0, <1>4, <2>1, <3>1, <3>2 DEF Order, WaitInOrder
    <3>3. CASE j = Len(pendingMessages) + 1
      <4>1. pendingMessages[i] \in Messages /\ Waits(pendingMessages[i])
        BY <1>0, <3>1, ElementOfSeq DEF Waits
      <4> QED BY <1>6, <1>7, <2>1, <3>1, <3>3, <4>1
    <3> QED BY <1>0, <3>2, <3>3
  <2>7. PagesHold'
    BY <1>1, <1>8, <1>9, <2>2 DEF Order, PagesHold, IsPaginating
  <2>8. PaginationKeepsArrivalOrder'
    <3> SUFFICES ASSUME NEW k \in behindPages', NEW l \in Messages, ArrivedBefore(k, l)',
                        PositionOnWire(l) # {}
                 PROVE  \E i \in PositionOnWire(k), j \in PositionOnWire(l) : i < j
      BY <2>3 DEF PaginationKeepsArrivalOrder
    <3>1. l # m /\ k # m
      BY <1>5, <1>7 DEF Started
    <3> QED BY <1>1, <1>5, <3>1 DEF Order, PaginationKeepsArrivalOrder
  <2> QED BY <1>3, <2>5, <2>6, <2>7, <2>8 DEF Order
<1>10. CASE /\ ~IsPaginating /\ ~PreviewHoldActive
            /\ StartMessages(<<m>>, 1, <<>>)
            /\ UNCHANGED pendingMessages
  <2>1. wire \o <<>> = wire
    BY <1>0, ConcatEmptySeq
  <2>2. \A k \in Messages :
          /\ PositionOnWire(k) \subseteq 1..Len(wire)
          /\ PositionOnWire(k) \subseteq PositionOnWire(k)'
          /\ k = m => Len(wire) + 1 \in PositionOnWire(k)'
          /\ PositionOnWire(k)' # {} => PositionOnWire(k) # {} \/ k = m
    <3> DEFINE ms == <<m>>
    <3>1. ms \in Seq(Messages) /\ 1 \in 0..Len(ms) /\ \A i \in 1..1 : ms[i] = m
      OBVIOUS
    <3>2. StartMessages(ms, 1, <<>>)
      BY <1>10
    <3>3. \A k \in Messages : FirstsOf(wire \o <<>>, k) = PositionOnWire(k)
      BY <2>1 DEF FirstsOf, PositionOnWire
    <3> HIDE DEF ms
    <3>4. \A k \in Messages :
            /\ PositionOnWire(k) \subseteq 1..Len(wire \o <<>>)
            /\ PositionOnWire(k) \subseteq PositionOnWire(k)'
            /\ \A i \in 1..1 : ms[i] = k => Len(wire \o <<>>) + i \in PositionOnWire(k)'
            /\ PositionOnWire(k)' # {} => PositionOnWire(k) # {} \/ \E i \in 1..1 : ms[i] = k
      BY <1>0, <2>1, <3>1, <3>2, <3>3, StartedPositions
    <3> QED BY <2>1, <3>1, <3>4
  <2>3. behindPages' = behindPages /\ \A k \in behindPages : ~Waits(k)
    BY <1>1, <1>10 DEF Order, PagesHold, IsPaginating
  <2>4. \A k \in Messages : (Waits(k)' <=> Waits(k)) /\ (Started(k)' <=> Started(k) \/ k = m)
    BY <1>10, <2>2 DEF Waits, Started
  <2>5. WaitOrStart'
    BY <1>3, <1>7, <1>8, <2>3, <2>4 DEF WaitOrStart
  <2>6. WaitInOrder'
    BY <1>4, <1>10 DEF Order, WaitInOrder
  <2>7. PagesHold'
    BY <1>8, <2>3, <2>4 DEF PagesHold
  <2>8. PaginationKeepsArrivalOrder'
    <3> SUFFICES ASSUME NEW k \in behindPages, NEW l \in Messages, ArrivedBefore(k, l)',
                        PositionOnWire(l)' # {}
                 PROVE  \E i \in PositionOnWire(k)', j \in PositionOnWire(l)' : i < j
      BY <2>3 DEF PaginationKeepsArrivalOrder
    <3>0. k \in Messages /\ k # m /\ Len(wire) \in Nat
      BY <1>0, <1>1, <1>8, LenProperties
    <3>1. CASE l = m
      <4>1. PICK i \in PositionOnWire(k) : TRUE
        BY <1>7, <1>8, <2>3 DEF Started
      <4>2. i < Len(wire) + 1 /\ i \in PositionOnWire(k)'
        BY <2>2, <3>0, <4>1
      <4>3. Len(wire) + 1 \in PositionOnWire(l)'
        BY <2>2, <3>1
      <4> QED BY <4>2, <4>3
    <3>2. CASE l # m
      <4>1. PICK i \in PositionOnWire(k), j \in PositionOnWire(l) : i < j
        BY <1>5, <2>2, <3>2 DEF Order, PaginationKeepsArrivalOrder
      <4> QED BY <2>2, <3>0, <4>1
    <3> QED BY <3>1, <3>2
  <2> QED BY <1>3, <2>5, <2>6, <2>7, <2>8 DEF Order
<1> QED BY <1>9, <1>10 DEF Enqueue

\* A page that waits is no first page: it is sent without starting a message.
LEMMA WaitingIsTail ==
    ASSUME Inv, pendingPages # <<>>
    PROVE  /\ Append(wire, Head(pendingPages)) \in Seq(Page)
           /\ \A m \in Messages :
                FirstsOf(Append(wire, Head(pendingPages)), m) = PositionOnWire(m)
<1> DEFINE p == Head(pendingPages)
           n == Len(wire)
           v == Append(wire, p)
<1>0. /\ pendingPages \in Seq(Page) /\ wire \in Seq(Page)
      /\ PendingPagesContinueWire /\ WholeMessagesOnWire
  BY DEF Inv, TypeOK
<1>1. /\ Len(pendingPages) \in Nat \ {0} /\ DOMAIN pendingPages = 1..Len(pendingPages)
      /\ p = pendingPages[1] /\ p \in Page
  BY <1>0, EmptySeq, LenProperties, HeadTailProperties
<1>2. /\ wire # <<>> /\ p.msg = wire[n].msg /\ p.no = wire[n].no + 1
      /\ PageCount[p.msg] = wire[n].no + Len(pendingPages)
  BY <1>0, <1>1 DEF PendingPagesContinueWire
<1>3. n \in Nat \ {0} /\ DOMAIN wire = 1..n /\ \A i \in 1..n : wire[i] \in Page
  BY <1>0, <1>2, EmptySeq, LenProperties, ElementOfSeq
<1>4. p.no \in Nat /\ p.no > 1
  <2>1. wire[n].no \in Nat /\ wire[n].msg \in Messages
    BY <1>3 DEF Page
  <2>2. CASE wire[n] = FirstPage(wire[n].msg)
    <3>1. wire[n].no = IF PageCount[p.msg] = 0 THEN 0 ELSE 1
      BY <1>2, <2>1, <2>2, FirstPageType
    <3> QED BY <1>1, <1>2, <2>1, <3>1
  <2>3. CASE n > 1 /\ wire[n].no = wire[n - 1].no + 1
    <3>1. wire[n - 1].no \in Nat
      BY <1>3, <2>3 DEF Page
    <3> QED BY <1>2, <2>3, <3>1
  <2>4. \/ wire[n] = FirstPage(wire[n].msg)
        \/ n > 1 /\ wire[n] = [msg |-> wire[n - 1].msg, no |-> wire[n - 1].no + 1]
    BY <1>0, <1>3 DEF WholeMessagesOnWire
  <2> QED BY <2>2, <2>3, <2>4
<1>5. \A m \in Messages : p # FirstPage(m)
  <2> TAKE m \in Messages
  <2>1. FirstPage(m).no \in {0, 1}
    BY FirstPageType
  <2> QED BY <1>4, <2>1
<1>6. /\ v \in Seq(Page) /\ DOMAIN v = 1..(n + 1)
      /\ \A i \in 1..n : v[i] = wire[i]
      /\ v[n + 1] = p
  BY <1>0, <1>1, AppendProperties, LenProperties
<1> HIDE DEF p, v, n
<1>7. ASSUME NEW m \in Messages PROVE FirstsOf(v, m) = FirstsOf(wire, m)
  <2>1. \A i : i \in FirstsOf(v, m) <=> i \in 1..n /\ wire[i] = FirstPage(m)
    BY <1>3, <1>5, <1>6 DEF FirstsOf
  <2>2. \A i : i \in FirstsOf(wire, m) <=> i \in 1..n /\ wire[i] = FirstPage(m)
    BY <1>3 DEF FirstsOf
  <2> QED BY <2>1, <2>2
<1> QED BY <1>6, <1>7 DEF PositionOnWire, FirstsOf, p, v

LEMMA NextOrder == Inv /\ Order /\ [Next]_vars => Order'
<1> SUFFICES ASSUME Inv, Order, [Next]_vars PROVE Order'
  OBVIOUS
<1>0. /\ TypeOK /\ wire \in Seq(Page) /\ wire \o <<>> = wire
      /\ \A m \in Messages : FirstsOf(wire, m) = PositionOnWire(m)
  BY ConcatEmptySeq DEF Inv, TypeOK, FirstsOf, PositionOnWire
<1>1. ASSUME NEW m \in Messages, Enqueue(m) PROVE Order'
  BY <1>0, <1>1, EnqueueKeepsOrder
<1>2. CASE SendPreview \/ Tick \/ UNCHANGED vars
  BY <1>2, SamePosition, OrderStays DEF SendPreview, Tick, vars, queue, history
<1>3. CASE DrainIdle
  BY <1>0, <1>3, StartKeepsOrder DEF DrainIdle
<1>4. CASE SendDuePage
  <2> DEFINE p == Head(pendingPages)
  <2>1. /\ pendingPages # <<>> /\ pendingPages \in Seq(Page)
        /\ UNCHANGED <<arrived, behindPages>>
    BY <1>0, <1>4 DEF SendDuePage, IsPaginating, TypeOK
  <2>2. /\ p \in Page /\ Append(wire, p) \in Seq(Page)
        /\ \A m \in Messages : FirstsOf(Append(wire, p), m) = PositionOnWire(m)
    BY <2>1, WaitingIsTail, HeadTailProperties
  <2>3. CASE /\ Len(pendingPages) > 1 /\ pendingPages' = Tail(pendingPages)
             /\ wire' = Append(wire, p) /\ UNCHANGED pendingMessages
    <3>1. pendingPages' # <<>>
      <4>1. Len(Tail(pendingPages)) = Len(pendingPages) - 1 /\ Len(pendingPages) \in Nat
        BY <2>1, HeadTailProperties, LenProperties
      <4>2. Len(Tail(pendingPages)) # 0
        BY <2>3, <4>1
      <4> QED BY <2>3, <4>2, EmptySeq
    <3>2. \A m : PositionOnWire(m)' = FirstsOf(Append(wire, p), m)
      BY <2>3 DEF PositionOnWire, FirstsOf, FirstPage
    <3> QED BY <2>1, <2>2, <2>3, <3>1, <3>2, OrderStays
  <2>4. CASE Len(pendingPages) = 1 /\ Drain(pendingPages)
    <3>1. pendingPages = <<p>>
      BY <2>1, <2>4
    <3>2. wire \o pendingPages = Append(wire, p)
      BY <1>0, <2>2, <3>1, AppendIsConcat
    <3> QED BY <1>0, <2>1, <2>2, <2>4, <3>2, StartKeepsOrder
  <2> QED BY <1>4, <2>3, <2>4 DEF SendDuePage
<1> QED BY <1>1, <1>2, <1>3, <1>4 DEF Next, ProcessDue

LEMMA InitOrder == Init => Order
BY DEF Init, Order, ComesOnce, WaitOrStart, WaitInOrder, PagesHold, PaginationKeepsArrivalOrder,
       Came, Waits, Started, PositionOnWire, ArrivedBefore

\* A message that came while pages were waiting is never overtaken by one that came later,
\* whatever previews and drains come between.
THEOREM ArrivalOrderKept == Spec => []PaginationKeepsArrivalOrder
<1>1. Order => PaginationKeepsArrivalOrder
  BY DEF Order
<1> QED BY <1>1, InvHolds, InitOrder, NextOrder, PTL DEF Spec

-----------------------------------------------------------------------------
(***************************************************************************)
(* The queue beside the live previews.                                     *)
(***************************************************************************)
\* What a step of the hub does to the queue is a step of the queue, or nothing.
LEMMA StepOfQueue == [PreviewNext]_allVars => [Next]_vars
<1> SUFFICES ASSUME [PreviewNext]_allVars PROVE [Next]_vars
  OBVIOUS
<1>1. ASSUME NEW u \in Utterances, Partial(u) \/ Final(u) PROVE UNCHANGED vars
  BY <1>1 DEF Partial, Final
<1>2. ASSUME NEW m \in Messages, Finished(m) PROVE Next
  BY <1>2 DEF Finished, Next
<1>3. ASSUME NEW u \in Utterances, Asks(u) \/ NotShown(u) \/ Fails(u) PROVE UNCHANGED vars
  BY <1>3 DEF Asks, NotShown, Fails
<1>4. ASSUME NEW u \in Utterances, Shows(u) PROVE Next
  BY <1>4 DEF Shows, Next
<1>5. CASE Flush
  BY <1>5 DEF Flush, Next
<1>6. CASE TimePasses
  BY <1>6 DEF TimePasses, Next
<1>7. CASE UNCHANGED allVars
  BY <1>7 DEF allVars, vars
<1> QED
  BY <1>1, <1>2, <1>3, <1>4, <1>5, <1>6, <1>7 DEF PreviewNext

\* So every behaviour of the hub is one of the queue, whose theorems hold of it.
LEMMA QueueAlone == PreviewSpec => Spec
<1>1. PreviewInit => Init
  BY DEF PreviewInit
<1> QED
  BY <1>1, StepOfQueue, PTL DEF PreviewSpec, Spec

\* Whatever is previewed meanwhile, finished messages reach VRChat whole.
THEOREM MessagesWholeBesidePreviews == PreviewSpec => []WholeMessagesOnWire
BY QueueAlone, MessagesWhole

\* And in the order they came, those that pages held up.
THEOREM ArrivalOrderBesidePreviews == PreviewSpec => []PaginationKeepsArrivalOrder
BY QueueAlone, ArrivalOrderKept

\* And after the gap that a preview needs.
THEOREM GapKeptBesidePreviews == PreviewSpec => PreviewGapKept
BY QueueAlone, GapKept

-----------------------------------------------------------------------------
\* No utterance has two entries: else an evicted or closed one would leave another behind.
OpenOnce == \A i, j \in DOMAIN open : open[i] = open[j] => i = j

\* The newest text of a task that runs has had no final since: it would have been closed.
LatestNew == \A u \in Utterances : Running(u) => ~preview[u].latestOld

PreviewInv == PreviewTypeOK /\ OpenOnce /\ PreviewTasks /\ NothingStale /\ LatestNew

Previews == [behind : BOOLEAN, task : Tasks, latestOld : BOOLEAN, askedOld : BOOLEAN]

\* Leaving out the element at i leaves the others, in their order.
LEMMA WithoutProperties ==
  ASSUME NEW S, NEW s \in Seq(S), NEW i \in 1..Len(s)
  PROVE  /\ Without(s, i) \in Seq(S)
         /\ DOMAIN Without(s, i) = 1..(Len(s) - 1)
         /\ \A j \in 1..(Len(s) - 1) : Without(s, i)[j] = IF j < i THEN s[j] ELSE s[j + 1]
<1> DEFINE n == Len(s) - 1
           f == [j \in 1..n |-> IF j < i THEN s[j] ELSE s[j + 1]]
<1>1. n \in Nat
  BY LenProperties
<1>2. \A j \in 1..n : f[j] \in S
  BY <1>1, ElementOfSeq
<1>3. f \in Seq(S)
  BY <1>1, <1>2, IsASeq
<1> QED
  BY <1>3 DEF Without

\* What the three ways to change an entry make of it.
LEMMA EntryTypes ==
  ASSUME NEW p \in Previews
  PROVE  /\ Closed(p) \in Previews /\ Closed(p).task = "none"
         /\ WithText(p) \in Previews /\ WithText(p).task \in {"waiting", "asking"}
         /\ WithText(p).latestOld = FALSE /\ WithText(p).askedOld = p.askedOld
         /\ p.task # "asking" => WithText(p).task = "waiting"
         /\ WithText(p).task = "asking" => p.task = "asking"
         /\ Translated(p) \in Previews
         /\ Translated(p).behind = p.behind /\ Translated(p).latestOld = p.latestOld
         /\ Translated(p).task = IF p.behind THEN "waiting" ELSE "done"
BY DEF Previews, Tasks, Closed, WithText, Translated

LEMMA FreshType == Fresh \in Previews
BY DEF Fresh, Previews, Tasks

\* An entry changed in place: what has to be known of it.
LEMMA PutEntry ==
  ASSUME NEW f \in [Utterances -> Previews], NEW u \in Utterances, NEW p \in Previews
  PROVE  /\ [f EXCEPT ![u] = p] \in [Utterances -> Previews]
         /\ \A v \in Utterances : [f EXCEPT ![u] = p][v] = IF v = u THEN p ELSE f[v]
OBVIOUS

\* The invariant holds at first.
LEMMA PreviewInitInv == PreviewInit => PreviewInv
<1> SUFFICES ASSUME PreviewInit PROVE PreviewInv
  OBVIOUS
<1>1. PreviewTypeOK
  <2>1. preview \in [Utterances -> Previews]
    BY FreshType DEF PreviewInit
  <2>2. open \in Seq(Utterances) /\ sinceSent \in 0..MinInterval /\ final \subseteq Utterances
    BY PreviewAssumption, EmptySeq DEF PreviewInit
  <2> QED BY <2>1, <2>2 DEF PreviewTypeOK, Previews
<1>2. OpenOnce
  BY DEF PreviewInit, OpenOnce
<1>3. PreviewTasks /\ NothingStale /\ LatestNew
  BY DEF PreviewInit, PreviewTasks, NothingStale, LatestNew, Fresh, Running, IsOpen
<1> QED BY <1>1, <1>2, <1>3 DEF PreviewInv

LEMMA PartialInv == ASSUME PreviewInv, NEW u \in Utterances, Partial(u) PROVE PreviewInv'
<1>0. /\ open \in Seq(Utterances) /\ preview \in [Utterances -> Previews]
      /\ sinceSent \in 0..MinInterval /\ final \subseteq Utterances
  BY DEF PreviewInv, PreviewTypeOK, Previews
<1>1. UNCHANGED <<sinceSent, final>>
  BY DEF Partial
<1>2. CASE IsOpen(u)
  <2> DEFINE q == WithText(preview[u])
  <2>1. preview' = [preview EXCEPT ![u] = q] /\ open' = open
    BY <1>2 DEF Partial
  <2>2. preview[u] \in Previews
    BY <1>0
  <2>3. /\ q \in Previews /\ q.task \in {"waiting", "asking"} /\ q.latestOld = FALSE
        /\ q.askedOld = preview[u].askedOld
        /\ q.task = "asking" => preview[u].task = "asking"
    BY <2>2, EntryTypes
  <2> HIDE DEF q
  <2>4. /\ preview' \in [Utterances -> Previews]
        /\ \A v \in Utterances : preview'[v] = IF v = u THEN q ELSE preview[v]
    BY <1>0, <2>1, <2>3, PutEntry
  <2>5. PreviewTypeOK' /\ OpenOnce'
    BY <1>0, <1>1, <2>1, <2>4 DEF PreviewTypeOK, Previews, PreviewInv, OpenOnce
  <2>6. PreviewTasks'
    BY <1>2, <2>1, <2>3, <2>4 DEF PreviewInv, PreviewTasks, Running, IsOpen
  <2>7. NothingStale' /\ LatestNew'
    BY <2>3, <2>4 DEF PreviewInv, NothingStale, LatestNew, Running
  <2> QED BY <2>5, <2>6, <2>7 DEF PreviewInv
<1>3. CASE ~IsOpen(u)
  <2> DEFINE all == Append(open, u)
             full == Len(all) > Keep
             q == WithText(Fresh)
  <2>1. /\ open' = IF full THEN Tail(all) ELSE all
        /\ preview' = [v \in Utterances |->
                         IF v = u THEN q
                         ELSE IF full /\ v = Head(all) THEN Closed(preview[v]) ELSE preview[v]]
    BY <1>3 DEF Partial
  <2>2. /\ q \in Previews /\ q.task = "waiting" /\ q.latestOld = FALSE
    BY FreshType, EntryTypes DEF Fresh
  <2>3. \A v \in Utterances : Closed(preview[v]) \in Previews /\ Closed(preview[v]).task = "none"
    BY <1>0, EntryTypes
  <2>4. /\ all \in Seq(Utterances) /\ Len(all) = Len(open) + 1 /\ Len(open) \in Nat
        /\ \A i \in 1..Len(open) : all[i] = open[i]
        /\ all[Len(all)] = u
        /\ DOMAIN open = 1..Len(open) /\ DOMAIN all = 1..Len(all)
    BY <1>0, AppendProperties, LenProperties
  <2>5. \A i, j \in 1..Len(all) : all[i] = all[j] => i = j
    BY <1>3, <2>4 DEF PreviewInv, OpenOnce, IsOpen
  <2> HIDE DEF q, all
  <2>6. CASE full
    <3>1. /\ open' = Tail(all) /\ open' \in Seq(Utterances) /\ Len(open') = Len(all) - 1
          /\ \A i \in 1..(Len(all) - 1) : open'[i] = all[i + 1]
          /\ DOMAIN open' = 1..(Len(all) - 1) /\ Head(all) = all[1]
      BY <2>1, <2>4, <2>6, HeadTailProperties, EmptySeq, LenProperties
    <3>2. OpenOnce'
      BY <2>4, <2>5, <3>1 DEF OpenOnce
    <3>3. preview' \in [Utterances -> Previews]
      BY <1>0, <2>1, <2>2, <2>3
    <3>4. PreviewTypeOK'
      BY <1>0, <1>1, <3>1, <3>3 DEF PreviewTypeOK, Previews
    <3>5. \A v \in Utterances : IsOpen(v) /\ v # Head(all) => IsOpen(v)'
      <4> TAKE v \in Utterances
      <4> HAVE IsOpen(v) /\ v # Head(all)
      <4>1. PICK i \in 1..Len(open) : open[i] = v
        BY <2>4 DEF IsOpen
      <4>2. all[i] = v /\ i # 1 /\ i - 1 \in 1..(Len(all) - 1)
        BY <2>4, <3>1, <4>1
      <4>3. open'[i - 1] = all[i]
        BY <2>4, <3>1, <4>2
      <4> QED BY <3>1, <4>2, <4>3 DEF IsOpen
    <3>6. \A v \in Utterances : IsOpen(v)' => (v = u \/ (IsOpen(v) /\ v # Head(all)))
      <4> SUFFICES ASSUME NEW v \in Utterances, IsOpen(v)', v # u
                   PROVE  IsOpen(v) /\ v # Head(all)
        OBVIOUS
      <4>1. PICK i \in 1..(Len(all) - 1) : open'[i] = v
        BY <3>1 DEF IsOpen
      <4>2. all[i + 1] = v /\ i + 1 \in 1..Len(all) /\ i + 1 # Len(all) /\ i + 1 # 1
        BY <2>4, <3>1, <4>1
      <4>3. i + 1 \in 1..Len(open) /\ open[i + 1] = v
        BY <2>4, <4>2
      <4>4. v # Head(all)
        BY <2>4, <2>5, <3>1, <4>2
      <4> QED BY <2>4, <4>3, <4>4 DEF IsOpen
    <3>6a. IsOpen(u)' \/ Head(all) = u
      <4>1. CASE Len(all) = 1
        BY <2>4, <3>1, <4>1
      <4>2. CASE Len(all) # 1
        <5>1. Len(all) - 1 \in 1..(Len(all) - 1) /\ open'[Len(all) - 1] = all[Len(all)]
          BY <2>4, <3>1, <4>2
        <5> QED BY <2>4, <3>1, <5>1 DEF IsOpen
      <4> QED BY <4>1, <4>2
    <3>6b. Head(all) # u
      BY <2>4, <2>5, <2>6, <3>1, PreviewAssumption
    <3>7. PreviewTasks'
      BY <1>0, <2>1, <2>2, <2>3, <2>6, <3>5, <3>6, <3>6a, <3>6b
         DEF PreviewInv, PreviewTasks, Running
    <3>8. NothingStale' /\ LatestNew'
      BY <1>0, <2>1, <2>2, <2>3 DEF PreviewInv, NothingStale, LatestNew, Running
    <3> QED BY <3>2, <3>4, <3>7, <3>8 DEF PreviewInv
  <2>7. CASE ~full
    <3>1. open' = all
      BY <2>1, <2>7
    <3>2. PreviewTypeOK' /\ OpenOnce'
      <4>1. preview' \in [Utterances -> Previews]
        BY <1>0, <2>1, <2>2, <2>7
      <4> QED BY <1>0, <1>1, <2>4, <2>5, <3>1, <4>1 DEF PreviewTypeOK, Previews, OpenOnce
    <3>3. \A v \in Utterances : IsOpen(v)' <=> (IsOpen(v) \/ v = u)
      <4> TAKE v \in Utterances
      <4>1. IsOpen(v) => IsOpen(v)'
        BY <2>4, <3>1 DEF IsOpen
      <4>2. v = u => IsOpen(v)'
        BY <2>4, <3>1 DEF IsOpen
      <4>3. IsOpen(v)' => (IsOpen(v) \/ v = u)
        BY <2>4, <3>1 DEF IsOpen
      <4> QED BY <4>1, <4>2, <4>3
    <3>4. PreviewTasks'
      BY <1>0, <2>1, <2>2, <2>7, <3>3 DEF PreviewInv, PreviewTasks, Running
    <3>5. NothingStale' /\ LatestNew'
      BY <1>0, <2>1, <2>2, <2>7 DEF PreviewInv, NothingStale, LatestNew, Running
    <3> QED BY <3>2, <3>4, <3>5 DEF PreviewInv
  <2> QED BY <2>6, <2>7
<1> QED BY <1>2, <1>3

-----------------------------------------------------------------------------

LEMMA FinalInv == ASSUME PreviewInv, NEW u \in Utterances, Final(u) PROVE PreviewInv'
<1>0. /\ open \in Seq(Utterances) /\ preview \in [Utterances -> Previews]
      /\ sinceSent \in 0..MinInterval /\ final \subseteq Utterances
  BY DEF PreviewInv, PreviewTypeOK, Previews
<1> DEFINE p == IF IsOpen(u) THEN Closed(preview[u]) ELSE preview[u]
           q == [p EXCEPT !.latestOld = TRUE, !.askedOld = TRUE]
<1>1. preview' = [preview EXCEPT ![u] = q] /\ final' = final \cup {u} /\ sinceSent' = sinceSent
  BY DEF Final
<1>2. p \in Previews /\ (IsOpen(u) => p.task = "none") /\ (~IsOpen(u) => p = preview[u])
  BY <1>0, EntryTypes
<1> HIDE DEF p
<1>3. q \in Previews /\ q.task = p.task
  BY <1>2 DEF Previews
<1>4. q.task \notin {"waiting", "asking"}
  <2>1. ~IsOpen(u) => ~Running(u)
    BY DEF PreviewInv, PreviewTasks
  <2> QED BY <1>2, <1>3, <2>1 DEF Running
<1> HIDE DEF q
<1>5. /\ preview' \in [Utterances -> Previews]
      /\ \A v \in Utterances : preview'[v] = IF v = u THEN q ELSE preview[v]
  BY <1>0, <1>1, <1>3, PutEntry
<1>6. NothingStale' /\ LatestNew'
  BY <1>4, <1>5 DEF PreviewInv, NothingStale, LatestNew, Running
<1>7. /\ open' \in Seq(Utterances) /\ OpenOnce' /\ ~IsOpen(u)'
      /\ \A v \in Utterances : v # u => (IsOpen(v)' <=> IsOpen(v))
  <2>1. CASE ~IsOpen(u)
    <3>1. open' = open
      BY <2>1 DEF Final
    <3> QED BY <1>0, <2>1, <3>1 DEF PreviewInv, OpenOnce, IsOpen
  <2>2. CASE IsOpen(u)
    <3>1. PICK i \in DOMAIN open : open[i] = u /\ open' = Without(open, i)
      BY <2>2 DEF Final
    <3>2. DOMAIN open = 1..Len(open) /\ Len(open) \in Nat
      BY <1>0, LenProperties
    <3>3. /\ open' \in Seq(Utterances) /\ DOMAIN open' = 1..(Len(open) - 1)
          /\ \A j \in 1..(Len(open) - 1) : open'[j] = IF j < i THEN open[j] ELSE open[j + 1]
      BY <1>0, <3>1, <3>2, WithoutProperties
    <3>4. \A j, k \in 1..Len(open) : open[j] = open[k] => j = k
      BY <3>2 DEF PreviewInv, OpenOnce
    <3>5. OpenOnce'
      BY <3>2, <3>3, <3>4 DEF OpenOnce
    <3>6. ~IsOpen(u)'
      BY <3>1, <3>2, <3>3, <3>4 DEF IsOpen
    <3>7. ASSUME NEW v \in Utterances, v # u PROVE IsOpen(v)' <=> IsOpen(v)
      <4>1. ASSUME IsOpen(v) PROVE IsOpen(v)'
        <5>1. PICK j \in 1..Len(open) : open[j] = v
          BY <3>2, <4>1 DEF IsOpen
        <5>2. CASE j < i
          <6>1. j \in 1..(Len(open) - 1) /\ open'[j] = v
            BY <3>1, <3>2, <3>3, <5>1, <5>2
          <6> QED BY <3>3, <6>1 DEF IsOpen
        <5>3. CASE ~(j < i)
          <6>1. j # i /\ j - 1 \in 1..(Len(open) - 1)
            BY <3>1, <3>2, <3>7, <5>1, <5>3
          <6>2. open'[j - 1] = open[j]
            BY <3>1, <3>2, <3>3, <5>1, <5>3, <6>1
          <6> QED BY <3>3, <5>1, <6>1, <6>2 DEF IsOpen
        <5> QED BY <5>2, <5>3
      <4>2. ASSUME IsOpen(v)' PROVE IsOpen(v)
        <5>1. PICK j \in 1..(Len(open) - 1) : open'[j] = v
          BY <3>3, <4>2 DEF IsOpen
        <5>2. j \in 1..Len(open) /\ j + 1 \in 1..Len(open)
          BY <3>2, <5>1
        <5>3. open[j] = v \/ open[j + 1] = v
          BY <3>3, <5>1
        <5> QED BY <3>2, <5>2, <5>3 DEF IsOpen
      <4> QED BY <4>1, <4>2
    <3> QED BY <3>3, <3>5, <3>6, <3>7
  <2> QED BY <2>1, <2>2
<1>8. PreviewTypeOK'
  BY <1>0, <1>1, <1>5, <1>7 DEF PreviewTypeOK, Previews
<1>9. PreviewTasks'
  BY <1>4, <1>5, <1>7 DEF PreviewInv, PreviewTasks, Running
<1> QED BY <1>6, <1>7, <1>8, <1>9 DEF PreviewInv

\* A task's step changes its own entry.
LEMMA TaskInv ==
  ASSUME PreviewInv, NEW u \in Utterances, NEW q \in Previews,
         preview' = [preview EXCEPT ![u] = q],
         open' = open, final' = final, sinceSent' \in 0..MinInterval,
         Running(u),
         q.task \in {"waiting", "asking", "done", "failed"},
         q.task = "waiting" => ~q.latestOld,
         q.task = "asking" => ~q.askedOld /\ ~q.latestOld,
         q.task = "done" => ~q.behind
  PROVE  PreviewInv'
<1>0. /\ open \in Seq(Utterances) /\ preview \in [Utterances -> Previews]
      /\ final \subseteq Utterances
  BY DEF PreviewInv, PreviewTypeOK, Previews
<1>1. /\ preview' \in [Utterances -> Previews]
      /\ \A v \in Utterances : preview'[v] = IF v = u THEN q ELSE preview[v]
  BY <1>0, PutEntry
<1>2. PreviewTypeOK' /\ OpenOnce'
  BY <1>0, <1>1 DEF PreviewTypeOK, Previews, PreviewInv, OpenOnce
<1>3. IsOpen(u) /\ \A v \in Utterances : IsOpen(v)' <=> IsOpen(v)
  BY DEF PreviewInv, PreviewTasks, IsOpen
<1>4. PreviewTasks'
  BY <1>1, <1>3 DEF PreviewInv, PreviewTasks, Running
<1>5. NothingStale' /\ LatestNew'
  BY <1>1 DEF PreviewInv, NothingStale, LatestNew, Running
<1> QED BY <1>2, <1>4, <1>5 DEF PreviewInv

LEMMA PreviewNextInv == PreviewInv /\ [PreviewNext]_allVars => PreviewInv'
<1> SUFFICES ASSUME PreviewInv, [PreviewNext]_allVars PROVE PreviewInv'
  OBVIOUS
<1>0. /\ preview \in [Utterances -> Previews] /\ sinceSent \in 0..MinInterval
      /\ MinInterval \in Nat
  BY PreviewAssumption DEF PreviewInv, PreviewTypeOK, Previews
<1>u. ASSUME UNCHANGED <<open, preview, final>>, sinceSent' \in 0..MinInterval
      PROVE  PreviewInv'
  BY <1>u DEF PreviewInv, PreviewTypeOK, OpenOnce, PreviewTasks, NothingStale, LatestNew, Running,
              IsOpen
<1>1. ASSUME NEW u \in Utterances, Partial(u) \/ Final(u) PROVE PreviewInv'
  BY <1>1, PartialInv, FinalInv
<1>2. ASSUME NEW m \in Messages, Finished(m) PROVE PreviewInv'
  BY <1>0, <1>2, <1>u DEF Finished
<1>3. ASSUME NEW u \in Utterances, Asks(u) PROVE PreviewInv'
  <2> DEFINE q == [preview[u] EXCEPT !.task = "asking", !.behind = FALSE,
                                     !.askedOld = preview[u].latestOld]
  <2>1. q \in Previews /\ q.task = "asking" /\ q.askedOld = preview[u].latestOld
        /\ q.latestOld = preview[u].latestOld
    BY <1>0 DEF Previews, Tasks
  <2>2. preview' = [preview EXCEPT ![u] = q] /\ UNCHANGED <<open, sinceSent, final>>
    BY <1>0, <1>3 DEF Asks
  <2>3. Running(u) /\ ~preview[u].latestOld
    BY <1>3 DEF Asks, Running, PreviewInv, LatestNew
  <2> HIDE DEF q
  <2> QED BY <1>0, <2>1, <2>2, <2>3, TaskInv
<1>4. ASSUME NEW u \in Utterances, NotShown(u) \/ Shows(u) PROVE PreviewInv'
  <2> DEFINE q == Translated(preview[u])
  <2>1. preview[u] \in Previews
    BY <1>0
  <2>2. /\ q \in Previews /\ q.latestOld = preview[u].latestOld
        /\ q.task = IF preview[u].behind THEN "waiting" ELSE "done"
        /\ q.behind = preview[u].behind
    BY <2>1, EntryTypes
  <2>3. preview[u].task = "asking" /\ preview' = [preview EXCEPT ![u] = q]
        /\ UNCHANGED <<open, final>>
    BY <1>4 DEF NotShown, Shows
  <2>4. sinceSent' \in 0..MinInterval
    BY <1>0, <1>4 DEF NotShown, Shows
  <2>5. Running(u) /\ ~preview[u].latestOld
    BY <2>3 DEF Running, PreviewInv, LatestNew
  <2> HIDE DEF q
  <2> QED BY <2>2, <2>3, <2>4, <2>5, TaskInv
<1>5. ASSUME NEW u \in Utterances, Fails(u) PROVE PreviewInv'
  <2> DEFINE q == [preview[u] EXCEPT !.task = "failed"]
  <2>1. q \in Previews /\ q.task = "failed"
    BY <1>0 DEF Previews, Tasks
  <2>2. preview' = [preview EXCEPT ![u] = q] /\ UNCHANGED <<open, sinceSent, final>>
    BY <1>0, <1>5 DEF Fails
  <2>3. Running(u)
    BY <1>5 DEF Fails, Running
  <2> HIDE DEF q
  <2> QED BY <1>0, <2>1, <2>2, <2>3, TaskInv
<1>6. CASE Flush
  BY <1>0, <1>6, <1>u DEF Flush
<1>7. CASE TimePasses
  <2>1. sinceSent' \in 0..MinInterval
    BY <1>0, <1>7 DEF TimePasses
  <2> QED BY <1>7, <2>1, <1>u DEF TimePasses
<1>8. CASE UNCHANGED allVars
  BY <1>0, <1>8, <1>u DEF allVars
<1> QED
  BY <1>1, <1>2, <1>3, <1>4, <1>5, <1>6, <1>7, <1>8 DEF PreviewNext

\* The inductive invariant holds throughout.
THEOREM PreviewInvHolds == PreviewSpec => []PreviewInv
BY PreviewInitInv, PreviewNextInv, PTL DEF PreviewSpec

\* Every variable of the preview stays in its type.
THEOREM PreviewTypeCorrect == PreviewSpec => []PreviewTypeOK
<1>1. PreviewInv => PreviewTypeOK
  BY DEF PreviewInv
<1> QED BY <1>1, PreviewInvHolds, PTL

\* For any number of utterances and previews, no task outlives its entry and no text that is
\* newer than the last translated one is left without a task.
THEOREM TasksFollow == PreviewSpec => []PreviewTasks
<1>1. PreviewInv => PreviewTasks
  BY DEF PreviewInv
<1> QED BY <1>1, PreviewInvHolds, PTL

\* No preview of what was heard before a final follows that final.
THEOREM NoneStale == PreviewSpec => []NothingStale
<1>1. PreviewInv => NothingStale
  BY DEF PreviewInv
<1> QED BY <1>1, PreviewInvHolds, PTL

\* Previews follow speech: they run for what is being said, to the newest of it, and end
\* with it.
THEOREM SpeechFollowed == PreviewSpec => []PreviewsFollow
<1>1. PreviewTasks /\ NothingStale => PreviewsFollow
  BY DEF PreviewsFollow
<1> QED BY <1>1, TasksFollow, NoneStale, PTL
=============================================================================
