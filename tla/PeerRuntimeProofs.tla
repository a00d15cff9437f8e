-------------------------- MODULE PeerRuntimeProofs --------------------------
(***************************************************************************)
(* Proofs about PeerRuntime: for any configurations, any number of         *)
(* generations and any of the events, the types hold, no capture is left   *)
(* running without an owner, a channel that is off really is, and policies *)
(* that wait for the earlier ones leave what they asked for.               *)
(***************************************************************************)
EXTENDS PeerRuntime, TLAPS

\* Nothing belongs to a generation that has not been opened.
Fresh ==
    \A g \in Gens : g > gen =>
        /\ flow[Start(g)].at = "idle" /\ flow[LoopTask(g)].at = "idle"
        /\ srcOf[g] # "open"
        /\ loopOf[g] \notin {"running", "failing"}

\* Only a flow that is about to stop a loop and a source holds one.
Holds ==
    \A f \in Flows : flow[f].at \notin {"stopping", "tearing"} =>
        flow[f].loop = None /\ flow[f].src = None

\* A current start that has taken over finds the slots empty when it attaches.
SlotsFree ==
    \A g \in Gens : ~Superseded(g) /\ flow[Start(g)].at \in {"stopping", "detach", "attach"}
        => loop = None /\ src = None

BeforeLoop == {"factory", "source", "failed", "stopping", "detach", "attach"}
WithoutSource == {"factory", "source", "failed", "undetach", "tearing", "closing"}

\* A start runs its loop at its end, and holds its source in between.
StartStages ==
    \A g \in Gens :
        /\ flow[Start(g)].at \in BeforeLoop =>
              loopOf[g] \notin {"running", "failing"} /\ flow[LoopTask(g)].at = "idle"
        /\ flow[Start(g)].at \in WithoutSource => srcOf[g] # "open"

\* A loop that runs is not handling its failure.
LoopIdle == \A g \in Gens : loopOf[g] = "running" => flow[LoopTask(g)].at = "idle"

IInv ==
    /\ TypeOK
    /\ NoOrphanCapture
    /\ Fresh
    /\ Holds
    /\ SlotsFree
    /\ StartStages
    /\ LoopIdle

-----------------------------------------------------------------------------
(***************************************************************************)
(* Facts about the values the variables take.                              *)
(***************************************************************************)
\* Generations are positive numbers; the flows of generations are distinct.
LEMMA Names ==
    /\ None \notin Gens /\ None \in Slots /\ Gens \subseteq Slots
    /\ \A g \in Gens : /\ Start(g) \in Flows /\ LoopTask(g) \in Flows
                       /\ Consumer(g) \in Flows
    /\ \A g, h : /\ Start(g) # LoopTask(h) /\ Start(g) # Consumer(h)
                 /\ LoopTask(g) # Consumer(h)
                 /\ Start(g) = Start(h) => g = h
                 /\ LoopTask(g) = LoopTask(h) => g = h
BY DEF Gens, None, Slots, Flows, Start, LoopTask, Consumer

LEMMA NextGeneration ==
    ASSUME gen \in 0..MaxGen, gen < MaxGen
    PROVE  /\ gen + 1 \in Gens /\ gen + 1 \in 0..MaxGen /\ gen + 1 > gen
           /\ gen \notin Gens \/ gen # gen + 1
           /\ \A g \in Gens : g > gen + 1 => g > gen /\ g # gen + 1
BY PeerAssumption DEF Gens

Targets == {"STOPPED", "FAULTED"}

\* The stages a flow goes through, and what it holds in each.
LEMMA Values ==
    /\ Idle \in FlowStates
    /\ Idle.at = "idle" /\ Idle.loop = None /\ Idle.src = None
    /\ \A x \in FlowStates :
          /\ x.at \in Stages /\ x.loop \in Slots /\ x.src \in Slots
          /\ x.stt \in Slots /\ x.old \in Slots /\ x.target \in Targets
    /\ \A a \in Stages :
          /\ At(a) \in FlowStates
          /\ At(a).at = a /\ At(a).loop = None /\ At(a).src = None
BY DEF Idle, At, FlowStates, Stages, Slots, Gens, None, Targets

\* Flow f goes to stage a, holding loop l and source s.
Moves(f, a, l, s) ==
    /\ flow' \in [Flows -> FlowStates]
    /\ flow'[f].at = a /\ flow'[f].loop = l /\ flow'[f].src = s
    /\ \A e \in Flows : e # f => flow'[e] = flow[e]

LEMMA Moving ==
    ASSUME flow \in [Flows -> FlowStates], NEW f \in Flows, NEW x \in FlowStates,
           flow' = [flow EXCEPT ![f] = x]
    PROVE  Moves(f, x.at, x.loop, x.src)
BY DEF Moves

LEMMA MovesIdle ==
    ASSUME flow \in [Flows -> FlowStates], NEW f \in Flows,
           flow' = [flow EXCEPT ![f] = Idle]
    PROVE  Moves(f, "idle", None, None)
BY Moving, Values

LEMMA MovesTo ==
    ASSUME flow \in [Flows -> FlowStates], NEW f \in Flows, NEW a \in Stages,
           flow' = [flow EXCEPT ![f] = At(a)]
    PROVE  Moves(f, a, None, None)
BY Moving, Values

LEMMA MovesReplacing ==
    ASSUME flow \in [Flows -> FlowStates], NEW f \in Flows, NEW a \in Stages, NEW o \in Slots,
           flow' = [flow EXCEPT ![f] = [At(a) EXCEPT !.old = o]]
    PROVE  Moves(f, a, None, None)
<1> DEFINE x == [At(a) EXCEPT !.old = o]
<1>1. x \in FlowStates /\ x.at = a /\ x.loop = None /\ x.src = None
  BY DEF Idle, At, FlowStates, Stages, Slots, Gens, None
<1> QED  BY <1>1, Moving

LEMMA MovesStopping ==
    ASSUME flow \in [Flows -> FlowStates], NEW f \in Flows,
           NEW l \in Slots, NEW s \in Slots, NEW p \in Slots,
           flow' = [flow EXCEPT ![f] = [At("stopping") EXCEPT !.loop = l, !.src = s, !.stt = p]]
    PROVE  Moves(f, "stopping", l, s)
<1> DEFINE x == [At("stopping") EXCEPT !.loop = l, !.src = s, !.stt = p]
<1>1. x \in FlowStates /\ x.at = "stopping" /\ x.loop = l /\ x.src = s
  BY DEF Idle, At, FlowStates, Stages, Slots, Gens, None
<1> QED  BY <1>1, Moving

LEMMA MovesTearing ==
    ASSUME flow \in [Flows -> FlowStates], NEW f \in Flows,
           NEW l \in Slots, NEW s \in Slots, NEW p \in Slots, NEW t \in Targets,
           flow' = [flow EXCEPT ![f] = [At("tearing") EXCEPT !.loop = l, !.src = s,
                                                    !.stt = p, !.target = t]]
    PROVE  Moves(f, "tearing", l, s)
<1> DEFINE x == [At("tearing") EXCEPT !.loop = l, !.src = s, !.stt = p, !.target = t]
<1>1. x \in FlowStates /\ x.at = "tearing" /\ x.loop = l /\ x.src = s
  BY DEF Idle, At, FlowStates, Stages, Slots, Gens, None, Targets
<1> QED  BY <1>1, Moving

LEMMA MovesClosing ==
    ASSUME flow \in [Flows -> FlowStates], NEW f \in Flows,
           NEW p \in Slots, NEW o \in Slots, NEW t \in Targets,
           flow' = [flow EXCEPT ![f] = [At("closing") EXCEPT !.stt = p, !.target = t, !.old = o]]
    PROVE  Moves(f, "closing", None, None)
<1> DEFINE x == [At("closing") EXCEPT !.stt = p, !.target = t, !.old = o]
<1>1. x \in FlowStates /\ x.at = "closing" /\ x.loop = None /\ x.src = None
  BY DEF Idle, At, FlowStates, Stages, Slots, Gens, None, Targets
<1> QED  BY <1>1, Moving

\* The two halves of NoOrphanCapture.
OwnedLoops == \A g \in Gens : loopOf[g] = "running" => loop = g \/ Cancelled(g)
OwnedSources ==
    \A g \in Gens : srcOf[g] = "open" => \/ src = g
                                         \/ flow[Start(g)].at # "idle"
                                         \/ \E f \in Flows : flow[f].src = g

\* A step of flow f leaves a loop or a source owned if the slot, or f itself,
\* still has it.
LoopKept(f, l) ==
    \A h \in Gens : loopOf'[h] = "running" =>
        \/ loop' = h
        \/ loopOf[h] = "running" /\ flow[f].loop # h /\ (loop = h => l = h)

SourceKept(f, a, s) ==
    \A h \in Gens : srcOf'[h] = "open" =>
        \/ src' = h
        \/ f = Start(h) /\ a # "idle"
        \/ /\ srcOf[h] = "open" /\ flow[f].src # h /\ (src = h => s = h)
           /\ f = Start(h) => a # "idle"

LEMMA LoopsStayOwned ==
    ASSUME OwnedLoops, NEW f \in Flows, NEW a, NEW l, NEW s, Moves(f, a, l, s),
           LoopKept(f, l)
    PROVE  OwnedLoops'
<1> SUFFICES ASSUME NEW h \in Gens, loopOf'[h] = "running", loop' # h
             PROVE  \E e \in Flows : flow'[e].loop = h
  BY DEF OwnedLoops, Cancelled
<1>1. loopOf[h] = "running" /\ flow[f].loop # h /\ (loop = h => l = h)
  BY DEF LoopKept
<1>2. CASE loop = h
  BY <1>1, <1>2 DEF Moves
<1>3. CASE loop # h
  <2>1. PICK e \in Flows : flow[e].loop = h
    BY <1>1, <1>3 DEF OwnedLoops, Cancelled
  <2> QED  BY <2>1, <1>1 DEF Moves
<1> QED  BY <1>2, <1>3

LEMMA SourcesStayOwned ==
    ASSUME OwnedSources, NEW f \in Flows, NEW a, NEW l, NEW s, Moves(f, a, l, s),
           SourceKept(f, a, s)
    PROVE  OwnedSources'
<1> SUFFICES ASSUME NEW h \in Gens, srcOf'[h] = "open", src' # h, flow'[Start(h)].at = "idle"
             PROVE  \E e \in Flows : flow'[e].src = h
  BY DEF OwnedSources
<1>1. f # Start(h) /\ srcOf[h] = "open" /\ flow[f].src # h /\ (src = h => s = h)
  BY DEF Moves, SourceKept
<1>2. flow[Start(h)].at = "idle"
  BY <1>1, Names DEF Moves
<1>3. CASE src = h
  BY <1>1, <1>3 DEF Moves
<1>4. CASE src # h
  <2>1. PICK e \in Flows : flow[e].src = h
    BY <1>1, <1>2, <1>4 DEF OwnedSources
  <2> QED  BY <2>1, <1>1 DEF Moves
<1> QED  BY <1>3, <1>4

LEMMA StaysOwned ==
    ASSUME NoOrphanCapture, NEW f \in Flows, NEW a, NEW l, NEW s, Moves(f, a, l, s),
           LoopKept(f, l), SourceKept(f, a, s)
    PROVE  NoOrphanCapture'
<1>1. OwnedLoops /\ OwnedSources
  BY DEF NoOrphanCapture, OwnedLoops, OwnedSources
<1>2. OwnedLoops' /\ OwnedSources'
  BY <1>1, LoopsStayOwned, SourcesStayOwned
<1> QED  BY <1>2 DEF NoOrphanCapture, OwnedLoops, OwnedSources

LEMMA ApplyOnKeeps ==
    ASSUME IInv, NEW c \in Configs, ApplyOn(c)
    PROVE  IInv'
<1>1. gen < MaxGen /\ gen + 1 \in Gens
  BY Values, Names, NextGeneration, PeerAssumption DEF IInv, TypeOK, ApplyOn,
     NewGeneration
<1>2. /\ TypeOK /\ flow \in [Flows -> FlowStates] /\ Start(gen + 1) \in Flows
     /\ stt \in Slots /\ src \in Slots /\ loop \in Slots /\ hub \in Slots
  BY <1>1, Names DEF IInv, TypeOK
<1>3. /\ flow[Start(gen + 1)].at = "idle" /\ flow[Start(gen + 1)].loop = None /\ flow[Start(gen + 1)].src = None
     /\ srcOf[gen + 1] # "open" /\ gen \in 0..MaxGen
  BY <1>1, <1>2, NextGeneration DEF IInv, TypeOK, Fresh, Holds
<1>4. IInv'
  <2>1. Moves(Start(gen + 1), "factory", None, None)
    BY <1>1, <1>2, MovesTo DEF ApplyOn, NewGeneration, Remember, Stages, Targets
  <2>2. /\ gen' = gen + 1
        /\ desired' = TRUE
        /\ UNCHANGED <<loop, src, loopOf, srcOf>>
    BY <1>1, <1>2, Names
       DEF TypeOK, ApplyOn, NewGeneration, Remember, Close, Ended, vars, policy,
           history, slots, built, attached
  <2>3. TypeOK'
    BY <2>1, <2>2, <1>1, <1>2, Names, Values, PeerAssumption
       DEF TypeOK, Moves, ApplyOn, NewGeneration, Remember, vars, policy,
           history,
           slots, built, attached, States, Targets
  <2>4. LoopKept(Start(gen + 1), None)
    BY <2>1, <2>2, <1>1, <1>2, <1>3, Names, NextGeneration
       DEF LoopKept, IInv, Holds, SlotsFree, LoopIdle, StartStages, BeforeLoop
  <2>5. SourceKept(Start(gen + 1), "factory", None)
    BY <2>1, <2>2, <1>1, <1>2, <1>3, Names, NextGeneration
       DEF SourceKept, IInv, Holds, SlotsFree, StartStages, WithoutSource, Fresh
  <2>6. Fresh' /\ Holds' /\ SlotsFree' /\ StartStages' /\ LoopIdle'
    BY <2>1, <2>2, <1>1, <1>2, <1>3, Names, NextGeneration
       DEF IInv, Moves, Fresh, Holds, SlotsFree, Superseded, StartStages,
           LoopIdle, BeforeLoop, WithoutSource
  <2>7. NoOrphanCapture'
    BY <1>2, <2>1, <2>4, <2>5, StaysOwned DEF IInv
  <2> QED  BY <2>3, <2>6, <2>7 DEF IInv
<1> QED  BY <1>1, <1>4 DEF ApplyOn, NothingHeld

LEMMA ApplyOffKeeps ==
    ASSUME IInv, ApplyOff
    PROVE  IInv'
<1>1. gen < MaxGen /\ gen + 1 \in Gens
  BY Values, Names, NextGeneration, PeerAssumption DEF IInv, TypeOK, ApplyOff,
     NewGeneration
<1>2. /\ TypeOK /\ flow \in [Flows -> FlowStates] /\ Start(gen + 1) \in Flows
     /\ stt \in Slots /\ src \in Slots /\ loop \in Slots /\ hub \in Slots
  BY <1>1, Names DEF IInv, TypeOK
<1>3. /\ flow[Start(gen + 1)].at = "idle" /\ flow[Start(gen + 1)].loop = None /\ flow[Start(gen + 1)].src = None
     /\ srcOf[gen + 1] # "open" /\ gen \in 0..MaxGen
  BY <1>1, <1>2, NextGeneration DEF IInv, TypeOK, Fresh, Holds
<1>4. CASE NothingHeld
  <2>1. Moves(Start(gen + 1), "idle", None, None)
    BY <1>1, <1>2, <1>4, MovesIdle
       DEF ApplyOff, NewGeneration, Remember, BeginTeardown, NothingHeld,
           Stages,
           Targets
  <2>2. /\ gen' = gen + 1
        /\ desired' = FALSE
        /\ UNCHANGED <<loop, src, loopOf, srcOf>>
    BY <1>1, <1>2, <1>4, Names
       DEF TypeOK, ApplyOff, NewGeneration, Remember, BeginTeardown,
           NothingHeld,
           Close, Ended, vars, policy, history, slots, built, attached
  <2>3. TypeOK'
    <3>1. gen' \in 0..MaxGen /\ desired' \in BOOLEAN
      BY <1>1, <1>2, <1>4, Names, NextGeneration
         DEF TypeOK, ApplyOff, NewGeneration, Remember, BeginTeardown,
             NothingHeld,
             FinalState, vars, policy, history, slots, built, attached
    <3>2. cfg' \in [Gens -> Configs \cup {NoConfig}] /\ wanted' \in Configs \cup {NoConfig} /\ overlapped' \in BOOLEAN
      BY <1>1, <1>2, <1>4, Names, NextGeneration
         DEF TypeOK, ApplyOff, NewGeneration, Remember, BeginTeardown,
             NothingHeld,
             FinalState, vars, policy, history, slots, built, attached
    <3>3. state' \in States
      BY <1>1, <1>2, <1>4, Names, NextGeneration
         DEF TypeOK, ApplyOff, NewGeneration, Remember, BeginTeardown,
             NothingHeld,
             FinalState, vars, policy, history, slots, built, attached, States,
             Targets
    <3>4. sig' \in Configs \cup {NoConfig}
      BY <1>1, <1>2, <1>4, Names, NextGeneration
         DEF TypeOK, ApplyOff, NewGeneration, Remember, BeginTeardown,
             NothingHeld,
             FinalState, vars, policy, history, slots, built, attached
    <3>5. stt' \in Slots /\ src' \in Slots /\ loop' \in Slots
      BY <1>1, <1>2, <1>4, Names, NextGeneration
         DEF TypeOK, ApplyOff, NewGeneration, Remember, BeginTeardown,
             NothingHeld,
             FinalState, vars, policy, history, slots, built, attached
    <3>6. hub' \in Slots /\ heard' \in Slots
      BY <1>1, <1>2, <1>4, Names, NextGeneration
         DEF TypeOK, ApplyOff, NewGeneration, Remember, BeginTeardown,
             NothingHeld,
             FinalState, vars, policy, history, slots, built, attached
    <3>7. sttOf' \in [Gens -> {"none", "live", "closed"}]
      BY <1>1, <1>2, <1>4, Names, NextGeneration
         DEF TypeOK, ApplyOff, NewGeneration, Remember, BeginTeardown,
             NothingHeld,
             FinalState, vars, policy, history, slots, built, attached
    <3>8. srcOf' \in [Gens -> {"none", "open", "closed"}]
      BY <1>1, <1>2, <1>4, Names, NextGeneration
         DEF TypeOK, ApplyOff, NewGeneration, Remember, BeginTeardown,
             NothingHeld,
             FinalState, vars, policy, history, slots, built, attached
    <3>9. loopOf' \in [Gens -> {"none", "running", "failing", "ended"}]
      BY <1>1, <1>2, <1>4, Names, NextGeneration
         DEF TypeOK, ApplyOff, NewGeneration, Remember, BeginTeardown,
             NothingHeld,
             FinalState, vars, policy, history, slots, built, attached
    <3> QED 
      BY <3>1, <3>2, <3>3, <3>4, <3>5, <3>6, <3>7, <3>8, <3>9, <2>1 DEF TypeOK,
         Moves
  <2>4. LoopKept(Start(gen + 1), None)
    BY <2>1, <2>2, <1>1, <1>2, <1>3, <1>4, Names, NextGeneration
       DEF LoopKept, IInv, Holds, SlotsFree, LoopIdle, StartStages, BeforeLoop,
           NothingHeld
  <2>5. SourceKept(Start(gen + 1), "idle", None)
    BY <2>1, <2>2, <1>1, <1>2, <1>3, <1>4, Names, NextGeneration
       DEF SourceKept, IInv, Holds, SlotsFree, StartStages, WithoutSource, Fresh
  <2>6. Fresh' /\ Holds' /\ SlotsFree' /\ StartStages' /\ LoopIdle'
    BY <2>1, <2>2, <1>1, <1>2, <1>3, <1>4, Names, NextGeneration
       DEF IInv, Moves, Fresh, Holds, SlotsFree, Superseded, StartStages,
           LoopIdle, BeforeLoop, WithoutSource
  <2>7. NoOrphanCapture'
    BY <1>2, <2>1, <2>4, <2>5, StaysOwned DEF IInv
  <2> QED  BY <2>3, <2>6, <2>7 DEF IInv
<1>5. CASE ~NothingHeld
  <2>1. Moves(Start(gen + 1), "tearing", loop, src)
    BY <1>1, <1>2, <1>5, MovesTearing
       DEF ApplyOff, NewGeneration, Remember, BeginTeardown, Stages, Targets
  <2>2. /\ gen' = gen + 1
        /\ desired' = FALSE
        /\ loop' = None /\ src' = None
        /\ UNCHANGED <<loopOf, srcOf>>
    BY <1>1, <1>2, <1>5, Names
       DEF TypeOK, ApplyOff, NewGeneration, Remember, BeginTeardown, Close,
           Ended,
           vars, policy, history, slots, built, attached
  <2>3. TypeOK'
    <3>1. gen' \in 0..MaxGen /\ desired' \in BOOLEAN
      BY <1>1, <1>2, <1>5, Names, NextGeneration
         DEF TypeOK, ApplyOff, NewGeneration, Remember, BeginTeardown,
             NothingHeld,
             FinalState, vars, policy, history, slots, built, attached
    <3>2. cfg' \in [Gens -> Configs \cup {NoConfig}] /\ wanted' \in Configs \cup {NoConfig} /\ overlapped' \in BOOLEAN
      BY <1>1, <1>2, <1>5, Names, NextGeneration
         DEF TypeOK, ApplyOff, NewGeneration, Remember, BeginTeardown,
             NothingHeld,
             FinalState, vars, policy, history, slots, built, attached
    <3>3. state' \in States
      BY <1>1, <1>2, <1>5, Names, NextGeneration
         DEF TypeOK, ApplyOff, NewGeneration, Remember, BeginTeardown,
             NothingHeld,
             FinalState, vars, policy, history, slots, built, attached, States,
             Targets
    <3>4. sig' \in Configs \cup {NoConfig}
      BY <1>1, <1>2, <1>5, Names, NextGeneration
         DEF TypeOK, ApplyOff, NewGeneration, Remember, BeginTeardown,
             NothingHeld,
             FinalState, vars, policy, history, slots, built, attached
    <3>5. stt' \in Slots /\ src' \in Slots /\ loop' \in Slots
      BY <1>1, <1>2, <1>5, Names, NextGeneration
         DEF TypeOK, ApplyOff, NewGeneration, Remember, BeginTeardown,
             NothingHeld,
             FinalState, vars, policy, history, slots, built, attached
    <3>6. hub' \in Slots /\ heard' \in Slots
      BY <1>1, <1>2, <1>5, Names, NextGeneration
         DEF TypeOK, ApplyOff, NewGeneration, Remember, BeginTeardown,
             NothingHeld,
             FinalState, vars, policy, history, slots, built, attached
    <3>7. sttOf' \in [Gens -> {"none", "live", "closed"}]
      BY <1>1, <1>2, <1>5, Names, NextGeneration
         DEF TypeOK, ApplyOff, NewGeneration, Remember, BeginTeardown,
             NothingHeld,
             FinalState, vars, policy, history, slots, built, attached
    <3>8. srcOf' \in [Gens -> {"none", "open", "closed"}]
      BY <1>1, <1>2, <1>5, Names, NextGeneration
         DEF TypeOK, ApplyOff, NewGeneration, Remember, BeginTeardown,
             NothingHeld,
             FinalState, vars, policy, history, slots, built, attached
    <3>9. loopOf' \in [Gens -> {"none", "running", "failing", "ended"}]
      BY <1>1, <1>2, <1>5, Names, NextGeneration
         DEF TypeOK, ApplyOff, NewGeneration, Remember, BeginTeardown,
             NothingHeld,
             FinalState, vars, policy, history, slots, built, attached
    <3> QED 
      BY <3>1, <3>2, <3>3, <3>4, <3>5, <3>6, <3>7, <3>8, <3>9, <2>1 DEF TypeOK,
         Moves
  <2>4. LoopKept(Start(gen + 1), loop)
    BY <2>1, <2>2, <1>1, <1>2, <1>3, <1>5, Names, NextGeneration
       DEF LoopKept, IInv, Holds, SlotsFree, LoopIdle, StartStages, BeforeLoop,
           NothingHeld
  <2>5. SourceKept(Start(gen + 1), "tearing", src)
    BY <2>1, <2>2, <1>1, <1>2, <1>3, <1>5, Names, NextGeneration
       DEF SourceKept, IInv, Holds, SlotsFree, StartStages, WithoutSource, Fresh
  <2>6. Fresh' /\ Holds' /\ SlotsFree' /\ StartStages' /\ LoopIdle'
    BY <2>1, <2>2, <1>1, <1>2, <1>3, <1>5, Names, NextGeneration
       DEF IInv, Moves, Fresh, Holds, SlotsFree, Superseded, StartStages,
           LoopIdle, BeforeLoop, WithoutSource
  <2>7. NoOrphanCapture'
    BY <1>2, <2>1, <2>4, <2>5, StaysOwned DEF IInv
  <2> QED  BY <2>3, <2>6, <2>7 DEF IInv
<1> QED  BY <1>1, <1>4, <1>5 DEF ApplyOff, NothingHeld

LEMMA FactoryReturnsKeeps ==
    ASSUME IInv, NEW g \in Gens, FactoryReturns(g)
    PROVE  IInv'
<1>1. flow[Start(g)].at = "factory"
  BY Values, Names, PeerAssumption DEF IInv, TypeOK, FactoryReturns
<1>2. /\ TypeOK /\ flow \in [Flows -> FlowStates] /\ Start(g) \in Flows
     /\ stt \in Slots /\ src \in Slots /\ loop \in Slots /\ hub \in Slots
  BY <1>1, Names DEF IInv, TypeOK
<1>3. CASE Superseded(g)
  <2>1. Moves(Start(g), "idle", None, None)
    BY <1>1, <1>2, <1>3, MovesIdle DEF FactoryReturns, Finish, Stages, Targets
  <2>2. /\ UNCHANGED <<gen, desired, loop, src, loopOf, srcOf>>
    BY <1>1, <1>2, <1>3, Names
       DEF TypeOK, FactoryReturns, Finish, Close, Ended, vars, policy, history,
           slots, built, attached
  <2>3. TypeOK'
    BY <2>1, <2>2, <1>1, <1>2, <1>3, Names, Values, PeerAssumption
       DEF TypeOK, Moves, FactoryReturns, Finish, vars, policy, history, slots,
           built, attached, States, Targets
  <2>4. LoopKept(Start(g), None)
    BY <2>1, <2>2, <1>1, <1>2, <1>3, Names
       DEF LoopKept, IInv, Holds, SlotsFree, LoopIdle, StartStages, BeforeLoop
  <2>5. SourceKept(Start(g), "idle", None)
    BY <2>1, <2>2, <1>1, <1>2, <1>3, Names
       DEF SourceKept, IInv, Holds, SlotsFree, StartStages, WithoutSource
  <2>6. Fresh' /\ Holds' /\ SlotsFree' /\ StartStages' /\ LoopIdle'
    BY <2>1, <2>2, <1>1, <1>2, <1>3, Names
       DEF IInv, Moves, Fresh, Holds, SlotsFree, Superseded, StartStages,
           LoopIdle, BeforeLoop, WithoutSource
  <2>7. NoOrphanCapture'
    BY <1>2, <2>1, <2>4, <2>5, StaysOwned DEF IInv
  <2> QED  BY <2>3, <2>6, <2>7 DEF IInv
<1>4. CASE ~Superseded(g)
  <2>1. Moves(Start(g), "source", None, None)
    BY <1>1, <1>2, <1>4, MovesTo DEF FactoryReturns, Stages, Targets
  <2>2. /\ UNCHANGED <<gen, desired, loop, src, loopOf, srcOf>>
    BY <1>1, <1>2, <1>4, Names
       DEF TypeOK, FactoryReturns, Close, Ended, vars, policy, history, slots,
           built,
           attached
  <2>3. TypeOK'
    BY <2>1, <2>2, <1>1, <1>2, <1>4, Names, Values, PeerAssumption
       DEF TypeOK, Moves, FactoryReturns, Finish, vars, policy, history, slots,
           built, attached, States, Targets
  <2>4. LoopKept(Start(g), None)
    BY <2>1, <2>2, <1>1, <1>2, <1>4, Names
       DEF LoopKept, IInv, Holds, SlotsFree, LoopIdle, StartStages, BeforeLoop
  <2>5. SourceKept(Start(g), "source", None)
    BY <2>1, <2>2, <1>1, <1>2, <1>4, Names
       DEF SourceKept, IInv, Holds, SlotsFree, StartStages, WithoutSource
  <2>6. Fresh' /\ Holds' /\ SlotsFree' /\ StartStages' /\ LoopIdle'
    BY <2>1, <2>2, <1>1, <1>2, <1>4, Names
       DEF IInv, Moves, Fresh, Holds, SlotsFree, Superseded, StartStages,
           LoopIdle, BeforeLoop, WithoutSource
  <2>7. NoOrphanCapture'
    BY <1>2, <2>1, <2>4, <2>5, StaysOwned DEF IInv
  <2> QED  BY <2>3, <2>6, <2>7 DEF IInv
<1> QED  BY <1>1, <1>3, <1>4 DEF FactoryReturns, NothingHeld

LEMMA FactoryFailsKeeps ==
    ASSUME IInv, NEW g \in Gens, FactoryFails(g)
    PROVE  IInv'
<1>1. flow[Start(g)].at = "factory"
  BY Values, Names, PeerAssumption DEF IInv, TypeOK, FactoryFails
<1>2. /\ TypeOK /\ flow \in [Flows -> FlowStates] /\ Start(g) \in Flows
     /\ stt \in Slots /\ src \in Slots /\ loop \in Slots /\ hub \in Slots
  BY <1>1, Names DEF IInv, TypeOK
<1>3. CASE Superseded(g)
  <2>1. Moves(Start(g), "idle", None, None)
    BY <1>1, <1>2, <1>3, MovesIdle
       DEF FactoryFails, MarkFaulted, Superseded, Stages, Targets
  <2>2. /\ UNCHANGED <<gen, desired, loop, src, loopOf, srcOf>>
    BY <1>1, <1>2, <1>3, Names
       DEF TypeOK, FactoryFails, MarkFaulted, Superseded, Close, Ended, vars,
           policy,
           history, slots, built, attached
  <2>3. TypeOK'
    BY <2>1, <2>2, <1>1, <1>2, <1>3, Names, Values, PeerAssumption
       DEF TypeOK, Moves, FactoryFails, MarkFaulted, BeginTeardown, NothingHeld,
           FinalState, vars, policy, history, slots, built, attached, States,
           Targets
  <2>4. LoopKept(Start(g), None)
    BY <2>1, <2>2, <1>1, <1>2, <1>3, Names
       DEF LoopKept, IInv, Holds, SlotsFree, LoopIdle, StartStages, BeforeLoop
  <2>5. SourceKept(Start(g), "idle", None)
    BY <2>1, <2>2, <1>1, <1>2, <1>3, Names
       DEF SourceKept, IInv, Holds, SlotsFree, StartStages, WithoutSource
  <2>6. Fresh' /\ Holds' /\ SlotsFree' /\ StartStages' /\ LoopIdle'
    BY <2>1, <2>2, <1>1, <1>2, <1>3, Names
       DEF IInv, Moves, Fresh, Holds, SlotsFree, Superseded, StartStages,
           LoopIdle, BeforeLoop, WithoutSource
  <2>7. NoOrphanCapture'
    BY <1>2, <2>1, <2>4, <2>5, StaysOwned DEF IInv
  <2> QED  BY <2>3, <2>6, <2>7 DEF IInv
<1>4. CASE ~Superseded(g) /\ NothingHeld
  <2>1. Moves(Start(g), "idle", None, None)
    BY <1>1, <1>2, <1>4, MovesIdle
       DEF FactoryFails, MarkFaulted, BeginTeardown, NothingHeld, Superseded,
           Stages,
           Targets
  <2>2. /\ UNCHANGED <<gen, desired, loop, src, loopOf, srcOf>>
    BY <1>1, <1>2, <1>4, Names
       DEF TypeOK, FactoryFails, MarkFaulted, BeginTeardown, NothingHeld,
           Superseded,
           Close, Ended, vars, policy, history, slots, built, attached
  <2>3. TypeOK'
    BY <2>1, <2>2, <1>1, <1>2, <1>4, Names, Values, PeerAssumption
       DEF TypeOK, Moves, FactoryFails, MarkFaulted, BeginTeardown, NothingHeld,
           FinalState, vars, policy, history, slots, built, attached, States,
           Targets
  <2>4. LoopKept(Start(g), None)
    BY <2>1, <2>2, <1>1, <1>2, <1>4, Names
       DEF LoopKept, IInv, Holds, SlotsFree, LoopIdle, StartStages, BeforeLoop
  <2>5. SourceKept(Start(g), "idle", None)
    BY <2>1, <2>2, <1>1, <1>2, <1>4, Names
       DEF SourceKept, IInv, Holds, SlotsFree, StartStages, WithoutSource
  <2>6. Fresh' /\ Holds' /\ SlotsFree' /\ StartStages' /\ LoopIdle'
    BY <2>1, <2>2, <1>1, <1>2, <1>4, Names
       DEF IInv, Moves, Fresh, Holds, SlotsFree, Superseded, StartStages,
           LoopIdle, BeforeLoop, WithoutSource
  <2>7. NoOrphanCapture'
    BY <1>2, <2>1, <2>4, <2>5, StaysOwned DEF IInv
  <2> QED  BY <2>3, <2>6, <2>7 DEF IInv
<1>5. CASE ~Superseded(g) /\ ~NothingHeld
  <2>1. Moves(Start(g), "tearing", loop, src)
    BY <1>1, <1>2, <1>5, MovesTearing
       DEF FactoryFails, MarkFaulted, BeginTeardown, Superseded, Stages, Targets
  <2>2. /\ loop' = None /\ src' = None
        /\ UNCHANGED <<gen, desired, loopOf, srcOf>>
    BY <1>1, <1>2, <1>5, Names
       DEF TypeOK, FactoryFails, MarkFaulted, BeginTeardown, Superseded, Close,
           Ended, vars, policy, history, slots, built, attached
  <2>3. TypeOK'
    BY <2>1, <2>2, <1>1, <1>2, <1>5, Names, Values, PeerAssumption
       DEF TypeOK, Moves, FactoryFails, MarkFaulted, BeginTeardown, NothingHeld,
           FinalState, vars, policy, history, slots, built, attached, States,
           Targets
  <2>4. LoopKept(Start(g), loop)
    BY <2>1, <2>2, <1>1, <1>2, <1>5, Names
       DEF LoopKept, IInv, Holds, SlotsFree, LoopIdle, StartStages, BeforeLoop
  <2>5. SourceKept(Start(g), "tearing", src)
    BY <2>1, <2>2, <1>1, <1>2, <1>5, Names
       DEF SourceKept, IInv, Holds, SlotsFree, StartStages, WithoutSource
  <2>6. Fresh' /\ Holds' /\ SlotsFree' /\ StartStages' /\ LoopIdle'
    BY <2>1, <2>2, <1>1, <1>2, <1>5, Names
       DEF IInv, Moves, Fresh, Holds, SlotsFree, Superseded, StartStages,
           LoopIdle, BeforeLoop, WithoutSource
  <2>7. NoOrphanCapture'
    BY <1>2, <2>1, <2>4, <2>5, StaysOwned DEF IInv
  <2> QED  BY <2>3, <2>6, <2>7 DEF IInv
<1> QED  BY <1>1, <1>3, <1>4, <1>5 DEF FactoryFails, NothingHeld

LEMMA SourceFailsKeeps ==
    ASSUME IInv, NEW g \in Gens, SourceFails(g)
    PROVE  IInv'
<1>1. flow[Start(g)].at = "source"
  BY Values, Names, PeerAssumption DEF IInv, TypeOK, SourceFails
<1>2. /\ TypeOK /\ flow \in [Flows -> FlowStates] /\ Start(g) \in Flows
     /\ stt \in Slots /\ src \in Slots /\ loop \in Slots /\ hub \in Slots
  BY <1>1, Names DEF IInv, TypeOK
<1>3. IInv'
  <2>1. Moves(Start(g), "failed", None, None)
    BY <1>1, <1>2, MovesTo DEF SourceFails, Stages, Targets
  <2>2. /\ UNCHANGED <<gen, desired, loop, src, loopOf, srcOf>>
    BY <1>1, <1>2, Names
       DEF TypeOK, SourceFails, Close, Ended, vars, policy, history, slots,
           built,
           attached
  <2>3. TypeOK'
    BY <2>1, <2>2, <1>1, <1>2, Names, Values, PeerAssumption
       DEF TypeOK, Moves, SourceFails, vars, policy, history, slots, built,
           attached,
           States, Targets
  <2>4. LoopKept(Start(g), None)
    BY <2>1, <2>2, <1>1, <1>2, Names
       DEF LoopKept, IInv, Holds, SlotsFree, LoopIdle, StartStages, BeforeLoop
  <2>5. SourceKept(Start(g), "failed", None)
    BY <2>1, <2>2, <1>1, <1>2, Names
       DEF SourceKept, IInv, Holds, SlotsFree, StartStages, WithoutSource
  <2>6. Fresh' /\ Holds' /\ SlotsFree' /\ StartStages' /\ LoopIdle'
    BY <2>1, <2>2, <1>1, <1>2, Names
       DEF IInv, Moves, Fresh, Holds, SlotsFree, Superseded, StartStages,
           LoopIdle, BeforeLoop, WithoutSource
  <2>7. NoOrphanCapture'
    BY <1>2, <2>1, <2>4, <2>5, StaysOwned DEF IInv
  <2> QED  BY <2>3, <2>6, <2>7 DEF IInv
<1> QED  BY <1>1, <1>3 DEF SourceFails, NothingHeld

LEMMA SourceFailureClosedKeeps ==
    ASSUME IInv, NEW g \in Gens, SourceFailureClosed(g)
    PROVE  IInv'
<1>1. flow[Start(g)].at = "failed"
  BY Values, Names, PeerAssumption DEF IInv, TypeOK, SourceFailureClosed
<1>2. /\ TypeOK /\ flow \in [Flows -> FlowStates] /\ Start(g) \in Flows
     /\ stt \in Slots /\ src \in Slots /\ loop \in Slots /\ hub \in Slots
  BY <1>1, Names DEF IInv, TypeOK
<1>3. CASE Superseded(g)
  <2>1. Moves(Start(g), "idle", None, None)
    BY <1>1, <1>2, <1>3, MovesIdle
       DEF SourceFailureClosed, MarkFaulted, Superseded, Stages, Targets
  <2>2. /\ UNCHANGED <<gen, desired, loop, src, loopOf, srcOf>>
    BY <1>1, <1>2, <1>3, Names
       DEF TypeOK, SourceFailureClosed, MarkFaulted, Superseded, Close, Ended,
           vars,
           policy, history, slots, built, attached
  <2>3. TypeOK'
    BY <2>1, <2>2, <1>1, <1>2, <1>3, Names, Values, PeerAssumption
       DEF TypeOK, Moves, SourceFailureClosed, MarkFaulted, BeginTeardown,
           NothingHeld, FinalState, vars, policy, history, slots, built,
           attached,
           States, Targets
  <2>4. LoopKept(Start(g), None)
    BY <2>1, <2>2, <1>1, <1>2, <1>3, Names
       DEF LoopKept, IInv, Holds, SlotsFree, LoopIdle, StartStages, BeforeLoop
  <2>5. SourceKept(Start(g), "idle", None)
    BY <2>1, <2>2, <1>1, <1>2, <1>3, Names
       DEF SourceKept, IInv, Holds, SlotsFree, StartStages, WithoutSource
  <2>6. Fresh' /\ Holds' /\ SlotsFree' /\ StartStages' /\ LoopIdle'
    BY <2>1, <2>2, <1>1, <1>2, <1>3, Names
       DEF IInv, Moves, Fresh, Holds, SlotsFree, Superseded, StartStages,
           LoopIdle, BeforeLoop, WithoutSource
  <2>7. NoOrphanCapture'
    BY <1>2, <2>1, <2>4, <2>5, StaysOwned DEF IInv
  <2> QED  BY <2>3, <2>6, <2>7 DEF IInv
<1>4. CASE ~Superseded(g) /\ NothingHeld
  <2>1. Moves(Start(g), "idle", None, None)
    BY <1>1, <1>2, <1>4, MovesIdle
       DEF SourceFailureClosed, MarkFaulted, BeginTeardown, NothingHeld,
           Superseded,
           Stages, Targets
  <2>2. /\ UNCHANGED <<gen, desired, loop, src, loopOf, srcOf>>
    BY <1>1, <1>2, <1>4, Names
       DEF TypeOK, SourceFailureClosed, MarkFaulted, BeginTeardown, NothingHeld,
           Superseded, Close, Ended, vars, policy, history, slots, built,
           attached
  <2>3. TypeOK'
    BY <2>1, <2>2, <1>1, <1>2, <1>4, Names, Values, PeerAssumption
       DEF TypeOK, Moves, SourceFailureClosed, MarkFaulted, BeginTeardown,
           NothingHeld, FinalState, vars, policy, history, slots, built,
           attached,
           States, Targets
  <2>4. LoopKept(Start(g), None)
    BY <2>1, <2>2, <1>1, <1>2, <1>4, Names
       DEF LoopKept, IInv, Holds, SlotsFree, LoopIdle, StartStages, BeforeLoop
  <2>5. SourceKept(Start(g), "idle", None)
    BY <2>1, <2>2, <1>1, <1>2, <1>4, Names
       DEF SourceKept, IInv, Holds, SlotsFree, StartStages, WithoutSource
  <2>6. Fresh' /\ Holds' /\ SlotsFree' /\ StartStages' /\ LoopIdle'
    BY <2>1, <2>2, <1>1, <1>2, <1>4, Names
       DEF IInv, Moves, Fresh, Holds, SlotsFree, Superseded, StartStages,
           LoopIdle, BeforeLoop, WithoutSource
  <2>7. NoOrphanCapture'
    BY <1>2, <2>1, <2>4, <2>5, StaysOwned DEF IInv
  <2> QED  BY <2>3, <2>6, <2>7 DEF IInv
<1>5. CASE ~Superseded(g) /\ ~NothingHeld
  <2>1. Moves(Start(g), "tearing", loop, src)
    BY <1>1, <1>2, <1>5, MovesTearing
       DEF SourceFailureClosed, MarkFaulted, BeginTeardown, Superseded, Stages,
           Targets
  <2>2. /\ loop' = None /\ src' = None
        /\ UNCHANGED <<gen, desired, loopOf, srcOf>>
    BY <1>1, <1>2, <1>5, Names
       DEF TypeOK, SourceFailureClosed, MarkFaulted, BeginTeardown, Superseded,
           Close, Ended, vars, policy, history, slots, built, attached
  <2>3. TypeOK'
    BY <2>1, <2>2, <1>1, <1>2, <1>5, Names, Values, PeerAssumption
       DEF TypeOK, Moves, SourceFailureClosed, MarkFaulted, BeginTeardown,
           NothingHeld, FinalState, vars, policy, history, slots, built,
           attached,
           States, Targets
  <2>4. LoopKept(Start(g), loop)
    BY <2>1, <2>2, <1>1, <1>2, <1>5, Names
       DEF LoopKept, IInv, Holds, SlotsFree, LoopIdle, StartStages, BeforeLoop
  <2>5. SourceKept(Start(g), "tearing", src)
    BY <2>1, <2>2, <1>1, <1>2, <1>5, Names
       DEF SourceKept, IInv, Holds, SlotsFree, StartStages, WithoutSource
  <2>6. Fresh' /\ Holds' /\ SlotsFree' /\ StartStages' /\ LoopIdle'
    BY <2>1, <2>2, <1>1, <1>2, <1>5, Names
       DEF IInv, Moves, Fresh, Holds, SlotsFree, Superseded, StartStages,
           LoopIdle, BeforeLoop, WithoutSource
  <2>7. NoOrphanCapture'
    BY <1>2, <2>1, <2>4, <2>5, StaysOwned DEF IInv
  <2> QED  BY <2>3, <2>6, <2>7 DEF IInv
<1> QED  BY <1>1, <1>3, <1>4, <1>5 DEF SourceFailureClosed, NothingHeld

LEMMA StaleSourceKeeps ==
    ASSUME IInv, NEW g \in Gens, StaleSource(g)
    PROVE  IInv'
<1>1. flow[Start(g)].at = "source"
  BY Values, Names, PeerAssumption DEF IInv, TypeOK, StaleSource
<1>2. /\ TypeOK /\ flow \in [Flows -> FlowStates] /\ Start(g) \in Flows
     /\ stt \in Slots /\ src \in Slots /\ loop \in Slots /\ hub \in Slots
  BY <1>1, Names DEF IInv, TypeOK
<1>3. IInv'
  <2>1. Moves(Start(g), "idle", None, None)
    BY <1>1, <1>2, MovesIdle DEF StaleSource, Finish, Stages, Targets
  <2>2. /\ \A h \in Gens : srcOf'[h] = IF h = g THEN "closed" ELSE srcOf[h]
        /\ UNCHANGED <<gen, desired, loop, src, loopOf>>
    BY <1>1, <1>2, Names
       DEF TypeOK, StaleSource, Finish, Close, Ended, vars, policy, history,
           slots,
           built, attached
  <2>3. TypeOK'
    BY <2>1, <2>2, <1>1, <1>2, Names, Values, PeerAssumption
       DEF TypeOK, Moves, StaleSource, Finish, vars, policy, history, slots,
           built,
           attached, States, Targets
  <2>4. LoopKept(Start(g), None)
    BY <2>1, <2>2, <1>1, <1>2, Names
       DEF LoopKept, IInv, Holds, SlotsFree, LoopIdle, StartStages, BeforeLoop
  <2>5. SourceKept(Start(g), "idle", None)
    BY <2>1, <2>2, <1>1, <1>2, Names
       DEF SourceKept, IInv, Holds, SlotsFree, StartStages, WithoutSource
  <2>6. Fresh' /\ Holds' /\ SlotsFree' /\ StartStages' /\ LoopIdle'
    BY <2>1, <2>2, <1>1, <1>2, Names
       DEF IInv, Moves, Fresh, Holds, SlotsFree, Superseded, StartStages,
           LoopIdle, BeforeLoop, WithoutSource
  <2>7. NoOrphanCapture'
    BY <1>2, <2>1, <2>4, <2>5, StaysOwned DEF IInv
  <2> QED  BY <2>3, <2>6, <2>7 DEF IInv
<1> QED  BY <1>1, <1>3 DEF StaleSource, NothingHeld

LEMMA TakeOverKeeps ==
    ASSUME IInv, NEW g \in Gens, TakeOver(g)
    PROVE  IInv'
<1>1. flow[Start(g)].at = "source" /\ ~Superseded(g)
  BY Values, Names, PeerAssumption DEF IInv, TypeOK, TakeOver
<1>2. /\ TypeOK /\ flow \in [Flows -> FlowStates] /\ Start(g) \in Flows
     /\ stt \in Slots /\ src \in Slots /\ loop \in Slots /\ hub \in Slots
  BY <1>1, Names DEF IInv, TypeOK
<1>3. CASE loop # None \/ src # None
  <2>1. Moves(Start(g), "stopping", loop, src)
    BY <1>1, <1>2, <1>3, MovesStopping DEF TakeOver, TakeSlots, Stages, Targets
  <2>2. /\ loop' = None /\ src' = None
        /\ \A h \in Gens : srcOf'[h] = IF h = g THEN "open" ELSE srcOf[h]
        /\ UNCHANGED <<gen, desired, loopOf>>
    BY <1>1, <1>2, <1>3, Names
       DEF TypeOK, TakeOver, TakeSlots, Close, Ended, vars, policy, history,
           slots,
           built, attached
  <2>3. TypeOK'
    BY <2>1, <2>2, <1>1, <1>2, <1>3, Names, Values, PeerAssumption
       DEF TypeOK, Moves, TakeOver, TakeSlots, BeginReplace, Attached, Finish,
           vars,
           policy, history, slots, built, attached, States, Targets
  <2>4. LoopKept(Start(g), loop)
    BY <2>1, <2>2, <1>1, <1>2, <1>3, Names
       DEF LoopKept, IInv, Holds, SlotsFree, LoopIdle, StartStages, BeforeLoop
  <2>5. SourceKept(Start(g), "stopping", src)
    BY <2>1, <2>2, <1>1, <1>2, <1>3, Names
       DEF SourceKept, IInv, Holds, SlotsFree, StartStages, WithoutSource
  <2>6. Fresh' /\ Holds' /\ SlotsFree' /\ StartStages' /\ LoopIdle'
    BY <2>1, <2>2, <1>1, <1>2, <1>3, Names
       DEF IInv, Moves, Fresh, Holds, SlotsFree, Superseded, StartStages,
           LoopIdle, BeforeLoop, WithoutSource
  <2>7. NoOrphanCapture'
    BY <1>2, <2>1, <2>4, <2>5, StaysOwned DEF IInv
  <2> QED  BY <2>3, <2>6, <2>7 DEF IInv
<1>4. CASE loop = None /\ src = None /\ ~HubEmpty /\ stt # None
  <2>1. Moves(Start(g), "detach", None, None)
    BY <1>1, <1>2, <1>4, MovesReplacing
       DEF TakeOver, TakeSlots, BeginReplace, Stages, Targets
  <2>2. /\ loop' = None /\ src' = None
        /\ \A h \in Gens : srcOf'[h] = IF h = g THEN "open" ELSE srcOf[h]
        /\ UNCHANGED <<gen, desired, loopOf>>
    BY <1>1, <1>2, <1>4, Names
       DEF TypeOK, TakeOver, TakeSlots, BeginReplace, Close, Ended, vars,
           policy,
           history, slots, built, attached
  <2>3. TypeOK'
    BY <2>1, <2>2, <1>1, <1>2, <1>4, Names, Values, PeerAssumption
       DEF TypeOK, Moves, TakeOver, TakeSlots, BeginReplace, Attached, Finish,
           vars,
           policy, history, slots, built, attached, States, Targets
  <2>4. LoopKept(Start(g), None)
    BY <2>1, <2>2, <1>1, <1>2, <1>4, Names
       DEF LoopKept, IInv, Holds, SlotsFree, LoopIdle, StartStages, BeforeLoop
  <2>5. SourceKept(Start(g), "detach", None)
    BY <2>1, <2>2, <1>1, <1>2, <1>4, Names
       DEF SourceKept, IInv, Holds, SlotsFree, StartStages, WithoutSource
  <2>6. Fresh' /\ Holds' /\ SlotsFree' /\ StartStages' /\ LoopIdle'
    BY <2>1, <2>2, <1>1, <1>2, <1>4, Names
       DEF IInv, Moves, Fresh, Holds, SlotsFree, Superseded, StartStages,
           LoopIdle, BeforeLoop, WithoutSource
  <2>7. NoOrphanCapture'
    BY <1>2, <2>1, <2>4, <2>5, StaysOwned DEF IInv
  <2> QED  BY <2>3, <2>6, <2>7 DEF IInv
<1>5. CASE loop = None /\ src = None /\ ~HubEmpty /\ stt = None
  <2>1. Moves(Start(g), "attach", None, None)
    BY <1>1, <1>2, <1>5, MovesReplacing
       DEF TakeOver, TakeSlots, BeginReplace, Stages, Targets
  <2>2. /\ loop' = None /\ src' = None
        /\ \A h \in Gens : srcOf'[h] = IF h = g THEN "open" ELSE srcOf[h]
        /\ UNCHANGED <<gen, desired, loopOf>>
    BY <1>1, <1>2, <1>5, Names
       DEF TypeOK, TakeOver, TakeSlots, BeginReplace, Close, Ended, vars,
           policy,
           history, slots, built, attached
  <2>3. TypeOK'
    BY <2>1, <2>2, <1>1, <1>2, <1>5, Names, Values, PeerAssumption
       DEF TypeOK, Moves, TakeOver, TakeSlots, BeginReplace, Attached, Finish,
           vars,
           policy, history, slots, built, attached, States, Targets
  <2>4. LoopKept(Start(g), None)
    BY <2>1, <2>2, <1>1, <1>2, <1>5, Names
       DEF LoopKept, IInv, Holds, SlotsFree, LoopIdle, StartStages, BeforeLoop
  <2>5. SourceKept(Start(g), "attach", None)
    BY <2>1, <2>2, <1>1, <1>2, <1>5, Names
       DEF SourceKept, IInv, Holds, SlotsFree, StartStages, WithoutSource
  <2>6. Fresh' /\ Holds' /\ SlotsFree' /\ StartStages' /\ LoopIdle'
    BY <2>1, <2>2, <1>1, <1>2, <1>5, Names
       DEF IInv, Moves, Fresh, Holds, SlotsFree, Superseded, StartStages,
           LoopIdle, BeforeLoop, WithoutSource
  <2>7. NoOrphanCapture'
    BY <1>2, <2>1, <2>4, <2>5, StaysOwned DEF IInv
  <2> QED  BY <2>3, <2>6, <2>7 DEF IInv
<1>6. CASE loop = None /\ src = None /\ HubEmpty
  <2>1. Moves(Start(g), "idle", None, None)
    BY <1>1, <1>2, <1>6, MovesIdle DEF TakeOver, Attached, Finish, Stages,
       Targets
  <2>2. /\ loop' = g /\ src' = g
        /\ \A h \in Gens : loopOf'[h] = IF h = g THEN "running" ELSE loopOf[h]
        /\ \A h \in Gens : srcOf'[h] = IF h = g THEN "open" ELSE srcOf[h]
        /\ UNCHANGED <<gen, desired>>
    BY <1>1, <1>2, <1>6, Names
       DEF TypeOK, TakeOver, Attached, Finish, Close, Ended, vars, policy,
           history,
           slots, built, attached
  <2>3. TypeOK'
    BY <2>1, <2>2, <1>1, <1>2, <1>6, Names, Values, PeerAssumption
       DEF TypeOK, Moves, TakeOver, TakeSlots, BeginReplace, Attached, Finish,
           vars,
           policy, history, slots, built, attached, States, Targets
  <2>4. LoopKept(Start(g), None)
    BY <2>1, <2>2, <1>1, <1>2, <1>6, Names
       DEF LoopKept, IInv, Holds, SlotsFree, LoopIdle, StartStages, BeforeLoop
  <2>5. SourceKept(Start(g), "idle", None)
    BY <2>1, <2>2, <1>1, <1>2, <1>6, Names
       DEF SourceKept, IInv, Holds, SlotsFree, StartStages, WithoutSource
  <2>6. Fresh' /\ Holds' /\ SlotsFree' /\ StartStages' /\ LoopIdle'
    BY <2>1, <2>2, <1>1, <1>2, <1>6, Names
       DEF IInv, Moves, Fresh, Holds, SlotsFree, Superseded, StartStages,
           LoopIdle, BeforeLoop, WithoutSource
  <2>7. NoOrphanCapture'
    BY <1>2, <2>1, <2>4, <2>5, StaysOwned DEF IInv
  <2> QED  BY <2>3, <2>6, <2>7 DEF IInv
<1> QED  BY <1>1, <1>3, <1>4, <1>5, <1>6 DEF TakeOver, NothingHeld

LEMMA OldStoppedKeeps ==
    ASSUME IInv, NEW g \in Gens, OldStopped(g)
    PROVE  IInv'
<1>1. flow[Start(g)].at = "stopping"
  BY Values, Names, PeerAssumption DEF IInv, TypeOK, OldStopped
<1>2. /\ TypeOK /\ flow \in [Flows -> FlowStates] /\ Start(g) \in Flows
     /\ stt \in Slots /\ src \in Slots /\ loop \in Slots /\ hub \in Slots
  BY <1>1, Names DEF IInv, TypeOK
<1>3. CASE HubEmpty /\ Superseded(g)
  <2>1. Moves(Start(g), "undo", None, None)
    BY <1>1, <1>2, <1>3, MovesTo DEF OldStopped, Attached, Stages, Targets
  <2>2. /\ \A h \in Gens : loopOf'[h] = IF h = flow[Start(g)].loop THEN "ended" ELSE loopOf[h]
        /\ \A h \in Gens : srcOf'[h] = IF h = flow[Start(g)].src THEN "closed" ELSE srcOf[h]
        /\ UNCHANGED <<gen, desired, loop, src>>
    BY <1>1, <1>2, <1>3, Names
       DEF TypeOK, OldStopped, Attached, Close, Ended, vars, policy, history,
           slots,
           built, attached
  <2>3. TypeOK'
    <3>1. gen' \in 0..MaxGen /\ desired' \in BOOLEAN
      BY <1>1, <1>2, <1>3, Names
         DEF TypeOK, OldStopped, BeginReplace, Attached, Finish, Close, Ended,
             vars, policy, history, slots, built, attached
    <3>2. cfg' \in [Gens -> Configs \cup {NoConfig}] /\ wanted' \in Configs \cup {NoConfig} /\ overlapped' \in BOOLEAN
      BY <1>1, <1>2, <1>3, Names
         DEF TypeOK, OldStopped, BeginReplace, Attached, Finish, Close, Ended,
             vars, policy, history, slots, built, attached
    <3>3. state' \in States
      BY <1>1, <1>2, <1>3, Names
         DEF TypeOK, OldStopped, BeginReplace, Attached, Finish, Close, Ended,
             vars, policy, history, slots, built, attached, States, Targets
    <3>4. sig' \in Configs \cup {NoConfig}
      BY <1>1, <1>2, <1>3, Names
         DEF TypeOK, OldStopped, BeginReplace, Attached, Finish, Close, Ended,
             vars, policy, history, slots, built, attached
    <3>5. stt' \in Slots /\ src' \in Slots /\ loop' \in Slots
      BY <1>1, <1>2, <1>3, Names
         DEF TypeOK, OldStopped, BeginReplace, Attached, Finish, Close, Ended,
             vars, policy, history, slots, built, attached
    <3>6. hub' \in Slots /\ heard' \in Slots
      BY <1>1, <1>2, <1>3, Names
         DEF TypeOK, OldStopped, BeginReplace, Attached, Finish, Close, Ended,
             vars, policy, history, slots, built, attached
    <3>7. sttOf' \in [Gens -> {"none", "live", "closed"}]
      BY <1>1, <1>2, <1>3, Names
         DEF TypeOK, OldStopped, BeginReplace, Attached, Finish, Close, Ended,
             vars, policy, history, slots, built, attached
    <3>8. srcOf' \in [Gens -> {"none", "open", "closed"}]
      BY <1>1, <1>2, <1>3, Names
         DEF TypeOK, OldStopped, BeginReplace, Attached, Finish, Close, Ended,
             vars, policy, history, slots, built, attached
    <3>9. loopOf' \in [Gens -> {"none", "running", "failing", "ended"}]
      BY <1>1, <1>2, <1>3, Names
         DEF TypeOK, OldStopped, BeginReplace, Attached, Finish, Close, Ended,
             vars, policy, history, slots, built, attached
    <3> QED 
      BY <3>1, <3>2, <3>3, <3>4, <3>5, <3>6, <3>7, <3>8, <3>9, <2>1 DEF TypeOK,
         Moves
  <2>4. LoopKept(Start(g), None)
    BY <2>1, <2>2, <1>1, <1>2, <1>3, Names
       DEF LoopKept, IInv, Holds, SlotsFree, LoopIdle, StartStages, BeforeLoop
  <2>5. SourceKept(Start(g), "undo", None)
    BY <2>1, <2>2, <1>1, <1>2, <1>3, Names
       DEF SourceKept, IInv, Holds, SlotsFree, StartStages, WithoutSource
  <2>6. Fresh' /\ Holds' /\ SlotsFree' /\ StartStages' /\ LoopIdle'
    BY <2>1, <2>2, <1>1, <1>2, <1>3, Names
       DEF IInv, Moves, Fresh, Holds, SlotsFree, Superseded, StartStages,
           LoopIdle, BeforeLoop, WithoutSource
  <2>7. NoOrphanCapture'
    BY <1>2, <2>1, <2>4, <2>5, StaysOwned DEF IInv
  <2> QED  BY <2>3, <2>6, <2>7 DEF IInv
<1>4. CASE HubEmpty /\ ~Superseded(g)
  <2>1. Moves(Start(g), "idle", None, None)
    BY <1>1, <1>2, <1>4, MovesIdle DEF OldStopped, Attached, Finish, Stages,
       Targets
  <2>2. /\ loop' = g /\ src' = g
        /\ \A h \in Gens : loopOf'[h] = IF h = g THEN "running" ELSE IF h = flow[Start(g)].loop THEN "ended" ELSE loopOf[h]
        /\ \A h \in Gens : srcOf'[h] = IF h = flow[Start(g)].src THEN "closed" ELSE srcOf[h]
        /\ UNCHANGED <<gen, desired>>
    BY <1>1, <1>2, <1>4, Names
       DEF TypeOK, OldStopped, Attached, Finish, Close, Ended, vars, policy,
           history,
           slots, built, attached
  <2>3. TypeOK'
    <3>1. gen' \in 0..MaxGen /\ desired' \in BOOLEAN
      BY <1>1, <1>2, <1>4, Names
         DEF TypeOK, OldStopped, BeginReplace, Attached, Finish, Close, Ended,
             vars, policy, history, slots, built, attached
    <3>2. cfg' \in [Gens -> Configs \cup {NoConfig}] /\ wanted' \in Configs \cup {NoConfig} /\ overlapped' \in BOOLEAN
      BY <1>1, <1>2, <1>4, Names
         DEF TypeOK, OldStopped, BeginReplace, Attached, Finish, Close, Ended,
             vars, policy, history, slots, built, attached
    <3>3. state' \in States
      BY <1>1, <1>2, <1>4, Names
         DEF TypeOK, OldStopped, BeginReplace, Attached, Finish, Close, Ended,
             vars, policy, history, slots, built, attached, States, Targets
    <3>4. sig' \in Configs \cup {NoConfig}
      BY <1>1, <1>2, <1>4, Names
         DEF TypeOK, OldStopped, BeginReplace, Attached, Finish, Close, Ended,
             vars, policy, history, slots, built, attached
    <3>5. stt' \in Slots /\ src' \in Slots /\ loop' \in Slots
      BY <1>1, <1>2, <1>4, Names
         DEF TypeOK, OldStopped, BeginReplace, Attached, Finish, Close, Ended,
             vars, policy, history, slots, built, attached
    <3>6. hub' \in Slots /\ heard' \in Slots
      BY <1>1, <1>2, <1>4, Names
         DEF TypeOK, OldStopped, BeginReplace, Attached, Finish, Close, Ended,
             vars, policy, history, slots, built, attached
    <3>7. sttOf' \in [Gens -> {"none", "live", "closed"}]
      BY <1>1, <1>2, <1>4, Names
         DEF TypeOK, OldStopped, BeginReplace, Attached, Finish, Close, Ended,
             vars, policy, history, slots, built, attached
    <3>8. srcOf' \in [Gens -> {"none", "open", "closed"}]
      BY <1>1, <1>2, <1>4, Names
         DEF TypeOK, OldStopped, BeginReplace, Attached, Finish, Close, Ended,
             vars, policy, history, slots, built, attached
    <3>9. loopOf' \in [Gens -> {"none", "running", "failing", "ended"}]
      BY <1>1, <1>2, <1>4, Names
         DEF TypeOK, OldStopped, BeginReplace, Attached, Finish, Close, Ended,
             vars, policy, history, slots, built, attached
    <3> QED 
      BY <3>1, <3>2, <3>3, <3>4, <3>5, <3>6, <3>7, <3>8, <3>9, <2>1 DEF TypeOK,
         Moves
  <2>4. LoopKept(Start(g), None)
    BY <2>1, <2>2, <1>1, <1>2, <1>4, Names
       DEF LoopKept, IInv, Holds, SlotsFree, LoopIdle, StartStages, BeforeLoop
  <2>5. SourceKept(Start(g), "idle", None)
    BY <2>1, <2>2, <1>1, <1>2, <1>4, Names
       DEF SourceKept, IInv, Holds, SlotsFree, StartStages, WithoutSource
  <2>6. Fresh' /\ Holds' /\ SlotsFree' /\ StartStages' /\ LoopIdle'
    BY <2>1, <2>2, <1>1, <1>2, <1>4, Names
       DEF IInv, Moves, Fresh, Holds, SlotsFree, Superseded, StartStages,
           LoopIdle, BeforeLoop, WithoutSource
  <2>7. NoOrphanCapture'
    BY <1>2, <2>1, <2>4, <2>5, StaysOwned DEF IInv
  <2> QED  BY <2>3, <2>6, <2>7 DEF IInv
<1>5. CASE ~HubEmpty /\ flow[Start(g)].stt # None
  <2>1. Moves(Start(g), "detach", None, None)
    BY <1>1, <1>2, <1>5, MovesReplacing DEF OldStopped, BeginReplace, Stages,
       Targets
  <2>2. /\ \A h \in Gens : loopOf'[h] = IF h = flow[Start(g)].loop THEN "ended" ELSE loopOf[h]
        /\ \A h \in Gens : srcOf'[h] = IF h = flow[Start(g)].src THEN "closed" ELSE srcOf[h]
        /\ UNCHANGED <<gen, desired, loop, src>>
    BY <1>1, <1>2, <1>5, Names
       DEF TypeOK, OldStopped, BeginReplace, Close, Ended, vars, policy,
           history,
           slots, built, attached
  <2>3. TypeOK'
    <3>1. gen' \in 0..MaxGen /\ desired' \in BOOLEAN
      BY <1>1, <1>2, <1>5, Names
         DEF TypeOK, OldStopped, BeginReplace, Attached, Finish, Close, Ended,
             vars, policy, history, slots, built, attached
    <3>2. cfg' \in [Gens -> Configs \cup {NoConfig}] /\ wanted' \in Configs \cup {NoConfig} /\ overlapped' \in BOOLEAN
      BY <1>1, <1>2, <1>5, Names
         DEF TypeOK, OldStopped, BeginReplace, Attached, Finish, Close, Ended,
             vars, policy, history, slots, built, attached
    <3>3. state' \in States
      BY <1>1, <1>2, <1>5, Names
         DEF TypeOK, OldStopped, BeginReplace, Attached, Finish, Close, Ended,
             vars, policy, history, slots, built, attached, States, Targets
    <3>4. sig' \in Configs \cup {NoConfig}
      BY <1>1, <1>2, <1>5, Names
         DEF TypeOK, OldStopped, BeginReplace, Attached, Finish, Close, Ended,
             vars, policy, history, slots, built, attached
    <3>5. stt' \in Slots /\ src' \in Slots /\ loop' \in Slots
      BY <1>1, <1>2, <1>5, Names
         DEF TypeOK, OldStopped, BeginReplace, Attached, Finish, Close, Ended,
             vars, policy, history, slots, built, attached
    <3>6. hub' \in Slots /\ heard' \in Slots
      BY <1>1, <1>2, <1>5, Names
         DEF TypeOK, OldStopped, BeginReplace, Attached, Finish, Close, Ended,
             vars, policy, history, slots, built, attached
    <3>7. sttOf' \in [Gens -> {"none", "live", "closed"}]
      BY <1>1, <1>2, <1>5, Names
         DEF TypeOK, OldStopped, BeginReplace, Attached, Finish, Close, Ended,
             vars, policy, history, slots, built, attached
    <3>8. srcOf' \in [Gens -> {"none", "open", "closed"}]
      BY <1>1, <1>2, <1>5, Names
         DEF TypeOK, OldStopped, BeginReplace, Attached, Finish, Close, Ended,
             vars, policy, history, slots, built, attached
    <3>9. loopOf' \in [Gens -> {"none", "running", "failing", "ended"}]
      BY <1>1, <1>2, <1>5, Names
         DEF TypeOK, OldStopped, BeginReplace, Attached, Finish, Close, Ended,
             vars, policy, history, slots, built, attached
    <3> QED 
      BY <3>1, <3>2, <3>3, <3>4, <3>5, <3>6, <3>7, <3>8, <3>9, <2>1 DEF TypeOK,
         Moves
  <2>4. LoopKept(Start(g), None)
    BY <2>1, <2>2, <1>1, <1>2, <1>5, Names
       DEF LoopKept, IInv, Holds, SlotsFree, LoopIdle, StartStages, BeforeLoop
  <2>5. SourceKept(Start(g), "detach", None)
    BY <2>1, <2>2, <1>1, <1>2, <1>5, Names
       DEF SourceKept, IInv, Holds, SlotsFree, StartStages, WithoutSource
  <2>6. Fresh' /\ Holds' /\ SlotsFree' /\ StartStages' /\ LoopIdle'
    BY <2>1, <2>2, <1>1, <1>2, <1>5, Names
       DEF IInv, Moves, Fresh, Holds, SlotsFree, Superseded, StartStages,
           LoopIdle, BeforeLoop, WithoutSource
  <2>7. NoOrphanCapture'
    BY <1>2, <2>1, <2>4, <2>5, StaysOwned DEF IInv
  <2> QED  BY <2>3, <2>6, <2>7 DEF IInv
<1>6. CASE ~HubEmpty /\ flow[Start(g)].stt = None
  <2>1. Moves(Start(g), "attach", None, None)
    BY <1>1, <1>2, <1>6, MovesReplacing DEF OldStopped, BeginReplace, Stages,
       Targets
  <2>2. /\ \A h \in Gens : loopOf'[h] = IF h = flow[Start(g)].loop THEN "ended" ELSE loopOf[h]
        /\ \A h \in Gens : srcOf'[h] = IF h = flow[Start(g)].src THEN "closed" ELSE srcOf[h]
        /\ UNCHANGED <<gen, desired, loop, src>>
    BY <1>1, <1>2, <1>6, Names
       DEF TypeOK, OldStopped, BeginReplace, Close, Ended, vars, policy,
           history,
           slots, built, attached
  <2>3. TypeOK'
    <3>1. gen' \in 0..MaxGen /\ desired' \in BOOLEAN
      BY <1>1, <1>2, <1>6, Names
         DEF TypeOK, OldStopped, BeginReplace, Attached, Finish, Close, Ended,
             vars, policy, history, slots, built, attached
    <3>2. cfg' \in [Gens -> Configs \cup {NoConfig}] /\ wanted' \in Configs \cup {NoConfig} /\ overlapped' \in BOOLEAN
      BY <1>1, <1>2, <1>6, Names
         DEF TypeOK, OldStopped, BeginReplace, Attached, Finish, Close, Ended,
             vars, policy, history, slots, built, attached
    <3>3. state' \in States
      BY <1>1, <1>2, <1>6, Names
         DEF TypeOK, OldStopped, BeginReplace, Attached, Finish, Close, Ended,
             vars, policy, history, slots, built, attached, States, Targets
    <3>4. sig' \in Configs \cup {NoConfig}
      BY <1>1, <1>2, <1>6, Names
         DEF TypeOK, OldStopped, BeginReplace, Attached, Finish, Close, Ended,
             vars, policy, history, slots, built, attached
    <3>5. stt' \in Slots /\ src' \in Slots /\ loop' \in Slots
      BY <1>1, <1>2, <1>6, Names
         DEF TypeOK, OldStopped, BeginReplace, Attached, Finish, Close, Ended,
             vars, policy, history, slots, built, attached
    <3>6. hub' \in Slots /\ heard' \in Slots
      BY <1>1, <1>2, <1>6, Names
         DEF TypeOK, OldStopped, BeginReplace, Attached, Finish, Close, Ended,
             vars, policy, history, slots, built, attached
    <3>7. sttOf' \in [Gens -> {"none", "live", "closed"}]
      BY <1>1, <1>2, <1>6, Names
         DEF TypeOK, OldStopped, BeginReplace, Attached, Finish, Close, Ended,
             vars, policy, history, slots, built, attached
    <3>8. srcOf' \in [Gens -> {"none", "open", "closed"}]
      BY <1>1, <1>2, <1>6, Names
         DEF TypeOK, OldStopped, BeginReplace, Attached, Finish, Close, Ended,
             vars, policy, history, slots, built, attached
    <3>9. loopOf' \in [Gens -> {"none", "running", "failing", "ended"}]
      BY <1>1, <1>2, <1>6, Names
         DEF TypeOK, OldStopped, BeginReplace, Attached, Finish, Close, Ended,
             vars, policy, history, slots, built, attached
    <3> QED 
      BY <3>1, <3>2, <3>3, <3>4, <3>5, <3>6, <3>7, <3>8, <3>9, <2>1 DEF TypeOK,
         Moves
  <2>4. LoopKept(Start(g), None)
    BY <2>1, <2>2, <1>1, <1>2, <1>6, Names
       DEF LoopKept, IInv, Holds, SlotsFree, LoopIdle, StartStages, BeforeLoop
  <2>5. SourceKept(Start(g), "attach", None)
    BY <2>1, <2>2, <1>1, <1>2, <1>6, Names
       DEF SourceKept, IInv, Holds, SlotsFree, StartStages, WithoutSource
  <2>6. Fresh' /\ Holds' /\ SlotsFree' /\ StartStages' /\ LoopIdle'
    BY <2>1, <2>2, <1>1, <1>2, <1>6, Names
       DEF IInv, Moves, Fresh, Holds, SlotsFree, Superseded, StartStages,
           LoopIdle, BeforeLoop, WithoutSource
  <2>7. NoOrphanCapture'
    BY <1>2, <2>1, <2>4, <2>5, StaysOwned DEF IInv
  <2> QED  BY <2>3, <2>6, <2>7 DEF IInv
<1> QED  BY <1>1, <1>3, <1>4, <1>5, <1>6 DEF OldStopped, NothingHeld

LEMMA DetachedKeeps ==
    ASSUME IInv, NEW g \in Gens, Detached(g)
    PROVE  IInv'
<1>1. flow[Start(g)].at = "detach"
  BY Values, Names, PeerAssumption DEF IInv, TypeOK, Detached
<1>2. /\ TypeOK /\ flow \in [Flows -> FlowStates] /\ Start(g) \in Flows
     /\ stt \in Slots /\ src \in Slots /\ loop \in Slots /\ hub \in Slots
  BY <1>1, Names DEF IInv, TypeOK
<1>3. CASE heard = None /\ Superseded(g)
  <2>1. Moves(Start(g), "undo", None, None)
    BY <1>1, <1>2, <1>3, MovesTo DEF Detached, Attached, Stages, Targets
  <2>2. /\ UNCHANGED <<gen, desired, loop, src, loopOf, srcOf>>
    BY <1>1, <1>2, <1>3, Names
       DEF TypeOK, Detached, Attached, Close, Ended, vars, policy, history,
           slots,
           built, attached
  <2>3. TypeOK'
    <3>1. gen' \in 0..MaxGen /\ desired' \in BOOLEAN
      BY <1>1, <1>2, <1>3, Names
         DEF TypeOK, Detached, Attached, Finish, Close, vars, policy, history,
             slots, built, attached
    <3>2. cfg' \in [Gens -> Configs \cup {NoConfig}] /\ wanted' \in Configs \cup {NoConfig} /\ overlapped' \in BOOLEAN
      BY <1>1, <1>2, <1>3, Names
         DEF TypeOK, Detached, Attached, Finish, Close, vars, policy, history,
             slots, built, attached
    <3>3. state' \in States
      BY <1>1, <1>2, <1>3, Names
         DEF TypeOK, Detached, Attached, Finish, Close, vars, policy, history,
             slots, built, attached, States, Targets
    <3>4. sig' \in Configs \cup {NoConfig}
      BY <1>1, <1>2, <1>3, Names
         DEF TypeOK, Detached, Attached, Finish, Close, vars, policy, history,
             slots, built, attached
    <3>5. stt' \in Slots /\ src' \in Slots /\ loop' \in Slots
      BY <1>1, <1>2, <1>3, Names
         DEF TypeOK, Detached, Attached, Finish, Close, vars, policy, history,
             slots, built, attached
    <3>6. hub' \in Slots /\ heard' \in Slots
      BY <1>1, <1>2, <1>3, Names
         DEF TypeOK, Detached, Attached, Finish, Close, vars, policy, history,
             slots, built, attached
    <3>7. sttOf' \in [Gens -> {"none", "live", "closed"}]
      BY <1>1, <1>2, <1>3, Names
         DEF TypeOK, Detached, Attached, Finish, Close, vars, policy, history,
             slots, built, attached
    <3>8. srcOf' \in [Gens -> {"none", "open", "closed"}]
      BY <1>1, <1>2, <1>3, Names
         DEF TypeOK, Detached, Attached, Finish, Close, vars, policy, history,
             slots, built, attached
    <3>9. loopOf' \in [Gens -> {"none", "running", "failing", "ended"}]
      BY <1>1, <1>2, <1>3, Names
         DEF TypeOK, Detached, Attached, Finish, Close, vars, policy, history,
             slots, built, attached
    <3> QED 
      BY <3>1, <3>2, <3>3, <3>4, <3>5, <3>6, <3>7, <3>8, <3>9, <2>1 DEF TypeOK,
         Moves
  <2>4. LoopKept(Start(g), None)
    BY <2>1, <2>2, <1>1, <1>2, <1>3, Names
       DEF LoopKept, IInv, Holds, SlotsFree, LoopIdle, StartStages, BeforeLoop
  <2>5. SourceKept(Start(g), "undo", None)
    BY <2>1, <2>2, <1>1, <1>2, <1>3, Names
       DEF SourceKept, IInv, Holds, SlotsFree, StartStages, WithoutSource
  <2>6. Fresh' /\ Holds' /\ SlotsFree' /\ StartStages' /\ LoopIdle'
    BY <2>1, <2>2, <1>1, <1>2, <1>3, Names
       DEF IInv, Moves, Fresh, Holds, SlotsFree, Superseded, StartStages,
           LoopIdle, BeforeLoop, WithoutSource
  <2>7. NoOrphanCapture'
    BY <1>2, <2>1, <2>4, <2>5, StaysOwned DEF IInv
  <2> QED  BY <2>3, <2>6, <2>7 DEF IInv
<1>4. CASE heard = None /\ ~Superseded(g)
  <2>1. Moves(Start(g), "idle", None, None)
    BY <1>1, <1>2, <1>4, MovesIdle DEF Detached, Attached, Finish, Stages,
       Targets
  <2>2. /\ loop' = g /\ src' = g
        /\ \A h \in Gens : loopOf'[h] = IF h = g THEN "running" ELSE loopOf[h]
        /\ UNCHANGED <<gen, desired, srcOf>>
    BY <1>1, <1>2, <1>4, Names
       DEF TypeOK, Detached, Attached, Finish, Close, Ended, vars, policy,
           history,
           slots, built, attached
  <2>3. TypeOK'
    <3>1. gen' \in 0..MaxGen /\ desired' \in BOOLEAN
      BY <1>1, <1>2, <1>4, Names
         DEF TypeOK, Detached, Attached, Finish, Close, vars, policy, history,
             slots, built, attached
    <3>2. cfg' \in [Gens -> Configs \cup {NoConfig}] /\ wanted' \in Configs \cup {NoConfig} /\ overlapped' \in BOOLEAN
      BY <1>1, <1>2, <1>4, Names
         DEF TypeOK, Detached, Attached, Finish, Close, vars, policy, history,
             slots, built, attached
    <3>3. state' \in States
      BY <1>1, <1>2, <1>4, Names
         DEF TypeOK, Detached, Attached, Finish, Close, vars, policy, history,
             slots, built, attached, States, Targets
    <3>4. sig' \in Configs \cup {NoConfig}
      BY <1>1, <1>2, <1>4, Names
         DEF TypeOK, Detached, Attached, Finish, Close, vars, policy, history,
             slots, built, attached
    <3>5. stt' \in Slots /\ src' \in Slots /\ loop' \in Slots
      BY <1>1, <1>2, <1>4, Names
         DEF TypeOK, Detached, Attached, Finish, Close, vars, policy, history,
             slots, built, attached
    <3>6. hub' \in Slots /\ heard' \in Slots
      BY <1>1, <1>2, <1>4, Names
         DEF TypeOK, Detached, Attached, Finish, Close, vars, policy, history,
             slots, built, attached
    <3>7. sttOf' \in [Gens -> {"none", "live", "closed"}]
      BY <1>1, <1>2, <1>4, Names
         DEF TypeOK, Detached, Attached, Finish, Close, vars, policy, history,
             slots, built, attached
    <3>8. srcOf' \in [Gens -> {"none", "open", "closed"}]
      BY <1>1, <1>2, <1>4, Names
         DEF TypeOK, Detached, Attached, Finish, Close, vars, policy, history,
             slots, built, attached
    <3>9. loopOf' \in [Gens -> {"none", "running", "failing", "ended"}]
      BY <1>1, <1>2, <1>4, Names
         DEF TypeOK, Detached, Attached, Finish, Close, vars, policy, history,
             slots, built, attached
    <3> QED 
      BY <3>1, <3>2, <3>3, <3>4, <3>5, <3>6, <3>7, <3>8, <3>9, <2>1 DEF TypeOK,
         Moves
  <2>4. LoopKept(Start(g), None)
    BY <2>1, <2>2, <1>1, <1>2, <1>4, Names
       DEF LoopKept, IInv, Holds, SlotsFree, LoopIdle, StartStages, BeforeLoop
  <2>5. SourceKept(Start(g), "idle", None)
    BY <2>1, <2>2, <1>1, <1>2, <1>4, Names
       DEF SourceKept, IInv, Holds, SlotsFree, StartStages, WithoutSource
  <2>6. Fresh' /\ Holds' /\ SlotsFree' /\ StartStages' /\ LoopIdle'
    BY <2>1, <2>2, <1>1, <1>2, <1>4, Names
       DEF IInv, Moves, Fresh, Holds, SlotsFree, Superseded, StartStages,
           LoopIdle, BeforeLoop, WithoutSource
  <2>7. NoOrphanCapture'
    BY <1>2, <2>1, <2>4, <2>5, StaysOwned DEF IInv
  <2> QED  BY <2>3, <2>6, <2>7 DEF IInv
<1>5. CASE heard # None
  <2>1. Moves(Start(g), "attach", None, None)
    BY <1>1, <1>2, <1>5, MovesTo DEF Detached, Stages, Targets
  <2>2. /\ UNCHANGED <<gen, desired, loop, src, loopOf, srcOf>>
    BY <1>1, <1>2, <1>5, Names
       DEF TypeOK, Detached, Close, Ended, vars, policy, history, slots, built,
           attached
  <2>3. TypeOK'
    <3>1. gen' \in 0..MaxGen /\ desired' \in BOOLEAN
      BY <1>1, <1>2, <1>5, Names
         DEF TypeOK, Detached, Attached, Finish, Close, vars, policy, history,
             slots, built, attached
    <3>2. cfg' \in [Gens -> Configs \cup {NoConfig}] /\ wanted' \in Configs \cup {NoConfig} /\ overlapped' \in BOOLEAN
      BY <1>1, <1>2, <1>5, Names
         DEF TypeOK, Detached, Attached, Finish, Close, vars, policy, history,
             slots, built, attached
    <3>3. state' \in States
      BY <1>1, <1>2, <1>5, Names
         DEF TypeOK, Detached, Attached, Finish, Close, vars, policy, history,
             slots, built, attached, States, Targets
    <3>4. sig' \in Configs \cup {NoConfig}
      BY <1>1, <1>2, <1>5, Names
         DEF TypeOK, Detached, Attached, Finish, Close, vars, policy, history,
             slots, built, attached
    <3>5. stt' \in Slots /\ src' \in Slots /\ loop' \in Slots
      BY <1>1, <1>2, <1>5, Names
         DEF TypeOK, Detached, Attached, Finish, Close, vars, policy, history,
             slots, built, attached
    <3>6. hub' \in Slots /\ heard' \in Slots
      BY <1>1, <1>2, <1>5, Names
         DEF TypeOK, Detached, Attached, Finish, Close, vars, policy, history,
             slots, built, attached
    <3>7. sttOf' \in [Gens -> {"none", "live", "closed"}]
      BY <1>1, <1>2, <1>5, Names
         DEF TypeOK, Detached, Attached, Finish, Close, vars, policy, history,
             slots, built, attached
    <3>8. srcOf' \in [Gens -> {"none", "open", "closed"}]
      BY <1>1, <1>2, <1>5, Names
         DEF TypeOK, Detached, Attached, Finish, Close, vars, policy, history,
             slots, built, attached
    <3>9. loopOf' \in [Gens -> {"none", "running", "failing", "ended"}]
      BY <1>1, <1>2, <1>5, Names
         DEF TypeOK, Detached, Attached, Finish, Close, vars, policy, history,
             slots, built, attached
    <3> QED 
      BY <3>1, <3>2, <3>3, <3>4, <3>5, <3>6, <3>7, <3>8, <3>9, <2>1 DEF TypeOK,
         Moves
  <2>4. LoopKept(Start(g), None)
    BY <2>1, <2>2, <1>1, <1>2, <1>5, Names
       DEF LoopKept, IInv, Holds, SlotsFree, LoopIdle, StartStages, BeforeLoop
  <2>5. SourceKept(Start(g), "attach", None)
    BY <2>1, <2>2, <1>1, <1>2, <1>5, Names
       DEF SourceKept, IInv, Holds, SlotsFree, StartStages, WithoutSource
  <2>6. Fresh' /\ Holds' /\ SlotsFree' /\ StartStages' /\ LoopIdle'
    BY <2>1, <2>2, <1>1, <1>2, <1>5, Names
       DEF IInv, Moves, Fresh, Holds, SlotsFree, Superseded, StartStages,
           LoopIdle, BeforeLoop, WithoutSource
  <2>7. NoOrphanCapture'
    BY <1>2, <2>1, <2>4, <2>5, StaysOwned DEF IInv
  <2> QED  BY <2>3, <2>6, <2>7 DEF IInv
<1> QED  BY <1>1, <1>3, <1>4, <1>5 DEF Detached, NothingHeld

LEMMA AttachEndsKeeps ==
    ASSUME IInv, NEW g \in Gens, AttachEnds(g)
    PROVE  IInv'
<1>1. flow[Start(g)].at = "attach"
  BY Values, Names, PeerAssumption DEF IInv, TypeOK, AttachEnds
<1>2. /\ TypeOK /\ flow \in [Flows -> FlowStates] /\ Start(g) \in Flows
     /\ stt \in Slots /\ src \in Slots /\ loop \in Slots /\ hub \in Slots
  BY <1>1, Names DEF IInv, TypeOK
<1>3. CASE Superseded(g)
  <2>1. Moves(Start(g), "undo", None, None)
    BY <1>1, <1>2, <1>3, MovesTo DEF AttachEnds, Attached, Stages, Targets
  <2>2. /\ UNCHANGED <<gen, desired, loop, src, loopOf, srcOf>>
    BY <1>1, <1>2, <1>3, Names
       DEF TypeOK, AttachEnds, Attached, Close, Ended, vars, policy, history,
           slots,
           built, attached
  <2>3. TypeOK'
    <3>1. gen' \in 0..MaxGen /\ desired' \in BOOLEAN
      BY <1>1, <1>2, <1>3, Names
         DEF TypeOK, AttachEnds, Attached, Finish, Close, vars, policy, history,
             slots, built, attached
    <3>2. cfg' \in [Gens -> Configs \cup {NoConfig}] /\ wanted' \in Configs \cup {NoConfig} /\ overlapped' \in BOOLEAN
      BY <1>1, <1>2, <1>3, Names
         DEF TypeOK, AttachEnds, Attached, Finish, Close, vars, policy, history,
             slots, built, attached
    <3>3. state' \in States
      BY <1>1, <1>2, <1>3, Names
         DEF TypeOK, AttachEnds, Attached, Finish, Close, vars, policy, history,
             slots, built, attached, States, Targets
    <3>4. sig' \in Configs \cup {NoConfig}
      BY <1>1, <1>2, <1>3, Names
         DEF TypeOK, AttachEnds, Attached, Finish, Close, vars, policy, history,
             slots, built, attached
    <3>5. stt' \in Slots /\ src' \in Slots /\ loop' \in Slots
      BY <1>1, <1>2, <1>3, Names
         DEF TypeOK, AttachEnds, Attached, Finish, Close, vars, policy, history,
             slots, built, attached
    <3>6. hub' \in Slots /\ heard' \in Slots
      BY <1>1, <1>2, <1>3, Names
         DEF TypeOK, AttachEnds, Attached, Finish, Close, vars, policy, history,
             slots, built, attached
    <3>7. sttOf' \in [Gens -> {"none", "live", "closed"}]
      BY <1>1, <1>2, <1>3, Names
         DEF TypeOK, AttachEnds, Attached, Finish, Close, vars, policy, history,
             slots, built, attached
    <3>8. srcOf' \in [Gens -> {"none", "open", "closed"}]
      BY <1>1, <1>2, <1>3, Names
         DEF TypeOK, AttachEnds, Attached, Finish, Close, vars, policy, history,
             slots, built, attached
    <3>9. loopOf' \in [Gens -> {"none", "running", "failing", "ended"}]
      BY <1>1, <1>2, <1>3, Names
         DEF TypeOK, AttachEnds, Attached, Finish, Close, vars, policy, history,
             slots, built, attached
    <3> QED 
      BY <3>1, <3>2, <3>3, <3>4, <3>5, <3>6, <3>7, <3>8, <3>9, <2>1 DEF TypeOK,
         Moves
  <2>4. LoopKept(Start(g), None)
    BY <2>1, <2>2, <1>1, <1>2, <1>3, Names
       DEF LoopKept, IInv, Holds, SlotsFree, LoopIdle, StartStages, BeforeLoop
  <2>5. SourceKept(Start(g), "undo", None)
    BY <2>1, <2>2, <1>1, <1>2, <1>3, Names
       DEF SourceKept, IInv, Holds, SlotsFree, StartStages, WithoutSource
  <2>6. Fresh' /\ Holds' /\ SlotsFree' /\ StartStages' /\ LoopIdle'
    BY <2>1, <2>2, <1>1, <1>2, <1>3, Names
       DEF IInv, Moves, Fresh, Holds, SlotsFree, Superseded, StartStages,
           LoopIdle, BeforeLoop, WithoutSource
  <2>7. NoOrphanCapture'
    BY <1>2, <2>1, <2>4, <2>5, StaysOwned DEF IInv
  <2> QED  BY <2>3, <2>6, <2>7 DEF IInv
<1>4. CASE ~Superseded(g)
  <2>1. Moves(Start(g), "idle", None, None)
    BY <1>1, <1>2, <1>4, MovesIdle DEF AttachEnds, Attached, Finish, Stages,
       Targets
  <2>2. /\ loop' = g /\ src' = g
        /\ \A h \in Gens : loopOf'[h] = IF h = g THEN "running" ELSE loopOf[h]
        /\ UNCHANGED <<gen, desired, srcOf>>
    BY <1>1, <1>2, <1>4, Names
       DEF TypeOK, AttachEnds, Attached, Finish, Close, Ended, vars, policy,
           history,
           slots, built, attached
  <2>3. TypeOK'
    <3>1. gen' \in 0..MaxGen /\ desired' \in BOOLEAN
      BY <1>1, <1>2, <1>4, Names
         DEF TypeOK, AttachEnds, Attached, Finish, Close, vars, policy, history,
             slots, built, attached
    <3>2. cfg' \in [Gens -> Configs \cup {NoConfig}] /\ wanted' \in Configs \cup {NoConfig} /\ overlapped' \in BOOLEAN
      BY <1>1, <1>2, <1>4, Names
         DEF TypeOK, AttachEnds, Attached, Finish, Close, vars, policy, history,
             slots, built, attached
    <3>3. state' \in States
      BY <1>1, <1>2, <1>4, Names
         DEF TypeOK, AttachEnds, Attached, Finish, Close, vars, policy, history,
             slots, built, attached, States, Targets
    <3>4. sig' \in Configs \cup {NoConfig}
      BY <1>1, <1>2, <1>4, Names
         DEF TypeOK, AttachEnds, Attached, Finish, Close, vars, policy, history,
             slots, built, attached
    <3>5. stt' \in Slots /\ src' \in Slots /\ loop' \in Slots
      BY <1>1, <1>2, <1>4, Names
         DEF TypeOK, AttachEnds, Attached, Finish, Close, vars, policy, history,
             slots, built, attached
    <3>6. hub' \in Slots /\ heard' \in Slots
      BY <1>1, <1>2, <1>4, Names
         DEF TypeOK, AttachEnds, Attached, Finish, Close, vars, policy, history,
             slots, built, attached
    <3>7. sttOf' \in [Gens -> {"none", "live", "closed"}]
      BY <1>1, <1>2, <1>4, Names
         DEF TypeOK, AttachEnds, Attached, Finish, Close, vars, policy, history,
             slots, built, attached
    <3>8. srcOf' \in [Gens -> {"none", "open", "closed"}]
      BY <1>1, <1>2, <1>4, Names
         DEF TypeOK, AttachEnds, Attached, Finish, Close, vars, policy, history,
             slots, built, attached
    <3>9. loopOf' \in [Gens -> {"none", "running", "failing", "ended"}]
      BY <1>1, <1>2, <1>4, Names
         DEF TypeOK, AttachEnds, Attached, Finish, Close, vars, policy, history,
             slots, built, attached
    <3> QED 
      BY <3>1, <3>2, <3>3, <3>4, <3>5, <3>6, <3>7, <3>8, <3>9, <2>1 DEF TypeOK,
         Moves
  <2>4. LoopKept(Start(g), None)
    BY <2>1, <2>2, <1>1, <1>2, <1>4, Names
       DEF LoopKept, IInv, Holds, SlotsFree, LoopIdle, StartStages, BeforeLoop
  <2>5. SourceKept(Start(g), "idle", None)
    BY <2>1, <2>2, <1>1, <1>2, <1>4, Names
       DEF SourceKept, IInv, Holds, SlotsFree, StartStages, WithoutSource
  <2>6. Fresh' /\ Holds' /\ SlotsFree' /\ StartStages' /\ LoopIdle'
    BY <2>1, <2>2, <1>1, <1>2, <1>4, Names
       DEF IInv, Moves, Fresh, Holds, SlotsFree, Superseded, StartStages,
           LoopIdle, BeforeLoop, WithoutSource
  <2>7. NoOrphanCapture'
    BY <1>2, <2>1, <2>4, <2>5, StaysOwned DEF IInv
  <2> QED  BY <2>3, <2>6, <2>7 DEF IInv
<1> QED  BY <1>1, <1>3, <1>4 DEF AttachEnds, NothingHeld

LEMMA SourceUndoneKeeps ==
    ASSUME IInv, NEW g \in Gens, SourceUndone(g)
    PROVE  IInv'
<1>1. flow[Start(g)].at = "undo"
  BY Values, Names, PeerAssumption DEF IInv, TypeOK, SourceUndone
<1>2. /\ TypeOK /\ flow \in [Flows -> FlowStates] /\ Start(g) \in Flows
     /\ stt \in Slots /\ src \in Slots /\ loop \in Slots /\ hub \in Slots
  BY <1>1, Names DEF IInv, TypeOK
<1>3. CASE hub = g
  <2>1. Moves(Start(g), "undetach", None, None)
    BY <1>1, <1>2, <1>3, MovesReplacing DEF SourceUndone, BeginReplace, Stages,
       Targets
  <2>2. /\ \A h \in Gens : srcOf'[h] = IF h = g THEN "closed" ELSE srcOf[h]
        /\ UNCHANGED <<gen, desired, loop, src, loopOf>>
    BY <1>1, <1>2, <1>3, Names
       DEF TypeOK, SourceUndone, BeginReplace, Close, Ended, vars, policy,
           history,
           slots, built, attached
  <2>3. TypeOK'
    BY <2>1, <2>2, <1>1, <1>2, <1>3, Names, Values, PeerAssumption
       DEF TypeOK, Moves, SourceUndone, BeginReplace, Finish, vars, policy,
           history,
           slots, built, attached, States, Targets
  <2>4. LoopKept(Start(g), None)
    BY <2>1, <2>2, <1>1, <1>2, <1>3, Names
       DEF LoopKept, IInv, Holds, SlotsFree, LoopIdle, StartStages, BeforeLoop
  <2>5. SourceKept(Start(g), "undetach", None)
    BY <2>1, <2>2, <1>1, <1>2, <1>3, Names
       DEF SourceKept, IInv, Holds, SlotsFree, StartStages, WithoutSource
  <2>6. Fresh' /\ Holds' /\ SlotsFree' /\ StartStages' /\ LoopIdle'
    BY <2>1, <2>2, <1>1, <1>2, <1>3, Names
       DEF IInv, Moves, Fresh, Holds, SlotsFree, Superseded, StartStages,
           LoopIdle, BeforeLoop, WithoutSource
  <2>7. NoOrphanCapture'
    BY <1>2, <2>1, <2>4, <2>5, StaysOwned DEF IInv
  <2> QED  BY <2>3, <2>6, <2>7 DEF IInv
<1>4. CASE hub # g
  <2>1. Moves(Start(g), "idle", None, None)
    BY <1>1, <1>2, <1>4, MovesIdle DEF SourceUndone, Finish, Stages, Targets
  <2>2. /\ \A h \in Gens : srcOf'[h] = IF h = g THEN "closed" ELSE srcOf[h]
        /\ UNCHANGED <<gen, desired, loop, src, loopOf>>
    BY <1>1, <1>2, <1>4, Names
       DEF TypeOK, SourceUndone, Finish, Close, Ended, vars, policy, history,
           slots,
           built, attached
  <2>3. TypeOK'
    BY <2>1, <2>2, <1>1, <1>2, <1>4, Names, Values, PeerAssumption
       DEF TypeOK, Moves, SourceUndone, BeginReplace, Finish, vars, policy,
           history,
           slots, built, attached, States, Targets
  <2>4. LoopKept(Start(g), None)
    BY <2>1, <2>2, <1>1, <1>2, <1>4, Names
       DEF LoopKept, IInv, Holds, SlotsFree, LoopIdle, StartStages, BeforeLoop
  <2>5. SourceKept(Start(g), "idle", None)
    BY <2>1, <2>2, <1>1, <1>2, <1>4, Names
       DEF SourceKept, IInv, Holds, SlotsFree, StartStages, WithoutSource
  <2>6. Fresh' /\ Holds' /\ SlotsFree' /\ StartStages' /\ LoopIdle'
    BY <2>1, <2>2, <1>1, <1>2, <1>4, Names
       DEF IInv, Moves, Fresh, Holds, SlotsFree, Superseded, StartStages,
           LoopIdle, BeforeLoop, WithoutSource
  <2>7. NoOrphanCapture'
    BY <1>2, <2>1, <2>4, <2>5, StaysOwned DEF IInv
  <2> QED  BY <2>3, <2>6, <2>7 DEF IInv
<1> QED  BY <1>1, <1>3, <1>4 DEF SourceUndone, NothingHeld

LEMMA ProviderUndoneKeeps ==
    ASSUME IInv, NEW g \in Gens, ProviderUndone(g)
    PROVE  IInv'
<1>1. flow[Start(g)].at = "undetach"
  BY Values, Names, PeerAssumption DEF IInv, TypeOK, ProviderUndone
<1>2. /\ TypeOK /\ flow \in [Flows -> FlowStates] /\ Start(g) \in Flows
     /\ stt \in Slots /\ src \in Slots /\ loop \in Slots /\ hub \in Slots
  BY <1>1, Names DEF IInv, TypeOK
<1>3. IInv'
  <2>1. Moves(Start(g), "idle", None, None)
    BY <1>1, <1>2, MovesIdle DEF ProviderUndone, Finish, Stages, Targets
  <2>2. /\ UNCHANGED <<gen, desired, loop, src, loopOf, srcOf>>
    BY <1>1, <1>2, Names
       DEF TypeOK, ProviderUndone, Finish, Close, Ended, vars, policy, history,
           slots, built, attached
  <2>3. TypeOK'
    BY <2>1, <2>2, <1>1, <1>2, Names, Values, PeerAssumption
       DEF TypeOK, Moves, ProviderUndone, Finish, vars, policy, history, slots,
           built, attached, States, Targets
  <2>4. LoopKept(Start(g), None)
    BY <2>1, <2>2, <1>1, <1>2, Names
       DEF LoopKept, IInv, Holds, SlotsFree, LoopIdle, StartStages, BeforeLoop
  <2>5. SourceKept(Start(g), "idle", None)
    BY <2>1, <2>2, <1>1, <1>2, Names
       DEF SourceKept, IInv, Holds, SlotsFree, StartStages, WithoutSource
  <2>6. Fresh' /\ Holds' /\ SlotsFree' /\ StartStages' /\ LoopIdle'
    BY <2>1, <2>2, <1>1, <1>2, Names
       DEF IInv, Moves, Fresh, Holds, SlotsFree, Superseded, StartStages,
           LoopIdle, BeforeLoop, WithoutSource
  <2>7. NoOrphanCapture'
    BY <1>2, <2>1, <2>4, <2>5, StaysOwned DEF IInv
  <2> QED  BY <2>3, <2>6, <2>7 DEF IInv
<1> QED  BY <1>1, <1>3 DEF ProviderUndone, NothingHeld

LEMMA LoopFailsKeeps ==
    ASSUME IInv, NEW g \in Gens, LoopFails(g)
    PROVE  IInv'
<1>1. loopOf[g] = "running" /\ ~Cancelled(g)
  BY Values, Names, PeerAssumption DEF IInv, TypeOK, LoopFails
<1>2. /\ TypeOK /\ flow \in [Flows -> FlowStates] /\ LoopTask(g) \in Flows
     /\ stt \in Slots /\ src \in Slots /\ loop \in Slots /\ hub \in Slots
  BY <1>1, Names DEF IInv, TypeOK
<1>3. flow[LoopTask(g)].at = "idle" /\ flow[LoopTask(g)].loop = None /\ flow[LoopTask(g)].src = None
  BY <1>1, <1>2 DEF IInv, LoopIdle, Holds
<1>4. CASE Superseded(g)
  <2>1. Moves(LoopTask(g), "idle", None, None)
    BY <1>1, <1>2, <1>4, MovesIdle DEF LoopFails, MarkFaulted, Superseded,
       Stages, Targets
  <2>2. /\ \A h \in Gens : loopOf'[h] = IF h = g THEN "ended" ELSE loopOf[h]
        /\ UNCHANGED <<gen, desired, loop, src, srcOf>>
    BY <1>1, <1>2, <1>4, Names
       DEF TypeOK, LoopFails, MarkFaulted, Superseded, Close, Ended, vars,
           policy,
           history, slots, built, attached
  <2>3. TypeOK'
    BY <2>1, <2>2, <1>1, <1>2, <1>4, Names, Values, PeerAssumption
       DEF TypeOK, Moves, LoopFails, MarkFaulted, BeginTeardown, NothingHeld,
           FinalState, vars, policy, history, slots, built, attached, States,
           Targets
  <2>4. LoopKept(LoopTask(g), None)
    BY <2>1, <2>2, <1>1, <1>2, <1>3, <1>4, Names
       DEF LoopKept, IInv, Holds, SlotsFree, LoopIdle, StartStages, BeforeLoop,
           Cancelled
  <2>5. SourceKept(LoopTask(g), "idle", None)
    BY <2>1, <2>2, <1>1, <1>2, <1>3, <1>4, Names
       DEF SourceKept, IInv, Holds, SlotsFree, StartStages, WithoutSource
  <2>6. Fresh' /\ Holds' /\ SlotsFree' /\ StartStages' /\ LoopIdle'
    BY <2>1, <2>2, <1>1, <1>2, <1>3, <1>4, Names
       DEF IInv, Moves, Fresh, Holds, SlotsFree, Superseded, StartStages,
           LoopIdle, BeforeLoop, WithoutSource
  <2>7. NoOrphanCapture'
    BY <1>2, <2>1, <2>4, <2>5, StaysOwned DEF IInv
  <2> QED  BY <2>3, <2>6, <2>7 DEF IInv
<1>5. CASE ~Superseded(g) /\ NothingHeld
  <2>1. Moves(LoopTask(g), "idle", None, None)
    BY <1>1, <1>2, <1>5, MovesIdle
       DEF LoopFails, MarkFaulted, BeginTeardown, NothingHeld, Superseded,
           Stages,
           Targets
  <2>2. /\ \A h \in Gens : loopOf'[h] = IF h = g THEN "failing" ELSE loopOf[h]
        /\ UNCHANGED <<gen, desired, loop, src, srcOf>>
    BY <1>1, <1>2, <1>5, Names
       DEF TypeOK, LoopFails, MarkFaulted, BeginTeardown, NothingHeld,
           Superseded,
           Close, Ended, vars, policy, history, slots, built, attached
  <2>3. TypeOK'
    BY <2>1, <2>2, <1>1, <1>2, <1>5, Names, Values, PeerAssumption
       DEF TypeOK, Moves, LoopFails, MarkFaulted, BeginTeardown, NothingHeld,
           FinalState, vars, policy, history, slots, built, attached, States,
           Targets
  <2>4. LoopKept(LoopTask(g), None)
    BY <2>1, <2>2, <1>1, <1>2, <1>3, <1>5, Names
       DEF LoopKept, IInv, Holds, SlotsFree, LoopIdle, StartStages, BeforeLoop,
           Cancelled
  <2>5. SourceKept(LoopTask(g), "idle", None)
    BY <2>1, <2>2, <1>1, <1>2, <1>3, <1>5, Names
       DEF SourceKept, IInv, Holds, SlotsFree, StartStages, WithoutSource
  <2>6. Fresh' /\ Holds' /\ SlotsFree' /\ StartStages' /\ LoopIdle'
    BY <2>1, <2>2, <1>1, <1>2, <1>3, <1>5, Names
       DEF IInv, Moves, Fresh, Holds, SlotsFree, Superseded, StartStages,
           LoopIdle, BeforeLoop, WithoutSource
  <2>7. NoOrphanCapture'
    BY <1>2, <2>1, <2>4, <2>5, StaysOwned DEF IInv
  <2> QED  BY <2>3, <2>6, <2>7 DEF IInv
<1>6. CASE ~Superseded(g) /\ ~NothingHeld
  <2>1. Moves(LoopTask(g), "tearing", loop, src)
    BY <1>1, <1>2, <1>6, MovesTearing
       DEF LoopFails, MarkFaulted, BeginTeardown, Superseded, Stages, Targets
  <2>2. /\ loop' = None /\ src' = None
        /\ \A h \in Gens : loopOf'[h] = IF h = g THEN "failing" ELSE loopOf[h]
        /\ UNCHANGED <<gen, desired, srcOf>>
    BY <1>1, <1>2, <1>6, Names
       DEF TypeOK, LoopFails, MarkFaulted, BeginTeardown, Superseded, Close,
           Ended,
           vars, policy, history, slots, built, attached
  <2>3. TypeOK'
    BY <2>1, <2>2, <1>1, <1>2, <1>6, Names, Values, PeerAssumption
       DEF TypeOK, Moves, LoopFails, MarkFaulted, BeginTeardown, NothingHeld,
           FinalState, vars, policy, history, slots, built, attached, States,
           Targets
  <2>4. LoopKept(LoopTask(g), loop)
    BY <2>1, <2>2, <1>1, <1>2, <1>3, <1>6, Names
       DEF LoopKept, IInv, Holds, SlotsFree, LoopIdle, StartStages, BeforeLoop,
           Cancelled
  <2>5. SourceKept(LoopTask(g), "tearing", src)
    BY <2>1, <2>2, <1>1, <1>2, <1>3, <1>6, Names
       DEF SourceKept, IInv, Holds, SlotsFree, StartStages, WithoutSource
  <2>6. Fresh' /\ Holds' /\ SlotsFree' /\ StartStages' /\ LoopIdle'
    BY <2>1, <2>2, <1>1, <1>2, <1>3, <1>6, Names
       DEF IInv, Moves, Fresh, Holds, SlotsFree, Superseded, StartStages,
           LoopIdle, BeforeLoop, WithoutSource
  <2>7. NoOrphanCapture'
    BY <1>2, <2>1, <2>4, <2>5, StaysOwned DEF IInv
  <2> QED  BY <2>3, <2>6, <2>7 DEF IInv
<1> QED  BY <1>1, <1>4, <1>5, <1>6 DEF LoopFails, NothingHeld

LEMMA TerminalFailureKeeps ==
    ASSUME IInv, NEW g \in Gens, TerminalFailure(g)
    PROVE  IInv'
<1>1. flow[Consumer(g)].at = "idle"
  BY Values, Names, PeerAssumption DEF IInv, TypeOK, TerminalFailure
<1>2. /\ TypeOK /\ flow \in [Flows -> FlowStates] /\ Consumer(g) \in Flows
     /\ stt \in Slots /\ src \in Slots /\ loop \in Slots /\ hub \in Slots
  BY <1>1, Names DEF IInv, TypeOK
<1>3. CASE NothingHeld
  <2>1. Moves(Consumer(g), "idle", None, None)
    BY <1>1, <1>2, <1>3, MovesIdle
       DEF TerminalFailure, MarkFaulted, BeginTeardown, NothingHeld, Superseded,
           Stages, Targets
  <2>2. /\ UNCHANGED <<gen, desired, loop, src, loopOf, srcOf>>
    BY <1>1, <1>2, <1>3, Names
       DEF TypeOK, TerminalFailure, MarkFaulted, BeginTeardown, NothingHeld,
           Superseded, Close, Ended, vars, policy, history, slots, built,
           attached
  <2>3. TypeOK'
    BY <2>1, <2>2, <1>1, <1>2, <1>3, Names, Values, PeerAssumption
       DEF TypeOK, Moves, TerminalFailure, BeginTeardown, NothingHeld,
           FinalState,
           vars, policy, history, slots, built, attached, States, Targets
  <2>4. LoopKept(Consumer(g), None)
    BY <2>1, <2>2, <1>1, <1>2, <1>3, Names
       DEF LoopKept, IInv, Holds, SlotsFree, LoopIdle, StartStages, BeforeLoop
  <2>5. SourceKept(Consumer(g), "idle", None)
    BY <2>1, <2>2, <1>1, <1>2, <1>3, Names
       DEF SourceKept, IInv, Holds, SlotsFree, StartStages, WithoutSource
  <2>6. Fresh' /\ Holds' /\ SlotsFree' /\ StartStages' /\ LoopIdle'
    BY <2>1, <2>2, <1>1, <1>2, <1>3, Names
       DEF IInv, Moves, Fresh, Holds, SlotsFree, Superseded, StartStages,
           LoopIdle, BeforeLoop, WithoutSource
  <2>7. NoOrphanCapture'
    BY <1>2, <2>1, <2>4, <2>5, StaysOwned DEF IInv
  <2> QED  BY <2>3, <2>6, <2>7 DEF IInv
<1>4. CASE ~NothingHeld
  <2>1. Moves(Consumer(g), "tearing", loop, src)
    BY <1>1, <1>2, <1>4, MovesTearing
       DEF TerminalFailure, MarkFaulted, BeginTeardown, Superseded, Stages,
           Targets
  <2>2. /\ loop' = None /\ src' = None
        /\ UNCHANGED <<gen, desired, loopOf, srcOf>>
    BY <1>1, <1>2, <1>4, Names
       DEF TypeOK, TerminalFailure, MarkFaulted, BeginTeardown, Superseded,
           Close,
           Ended, vars, policy, history, slots, built, attached
  <2>3. TypeOK'
    BY <2>1, <2>2, <1>1, <1>2, <1>4, Names, Values, PeerAssumption
       DEF TypeOK, Moves, TerminalFailure, BeginTeardown, NothingHeld,
           FinalState,
           vars, policy, history, slots, built, attached, States, Targets
  <2>4. LoopKept(Consumer(g), loop)
    BY <2>1, <2>2, <1>1, <1>2, <1>4, Names
       DEF LoopKept, IInv, Holds, SlotsFree, LoopIdle, StartStages, BeforeLoop
  <2>5. SourceKept(Consumer(g), "tearing", src)
    BY <2>1, <2>2, <1>1, <1>2, <1>4, Names
       DEF SourceKept, IInv, Holds, SlotsFree, StartStages, WithoutSource
  <2>6. Fresh' /\ Holds' /\ SlotsFree' /\ StartStages' /\ LoopIdle'
    BY <2>1, <2>2, <1>1, <1>2, <1>4, Names
       DEF IInv, Moves, Fresh, Holds, SlotsFree, Superseded, StartStages,
           LoopIdle, BeforeLoop, WithoutSource
  <2>7. NoOrphanCapture'
    BY <1>2, <2>1, <2>4, <2>5, StaysOwned DEF IInv
  <2> QED  BY <2>3, <2>6, <2>7 DEF IInv
<1> QED  BY <1>1, <1>3, <1>4 DEF TerminalFailure, NothingHeld

LEMMA TearingStoppedKeeps ==
    ASSUME IInv, NEW f \in Flows, TearingStopped(f)
    PROVE  IInv'
<1>1. flow[f].at = "tearing"
  BY Values, Names, PeerAssumption DEF IInv, TypeOK, TearingStopped
<1>2. /\ TypeOK /\ flow \in [Flows -> FlowStates] /\ f \in Flows
     /\ stt \in Slots /\ src \in Slots /\ loop \in Slots /\ hub \in Slots
  BY <1>1, Names DEF IInv, TypeOK
<1>3. CASE f = LoopTask(flow[f].loop)
  <2>0. /\ flow[f].stt \in Slots /\ flow[f].target \in Targets
         /\ (IF hub = flow[f].stt THEN hub ELSE None) \in Slots
    BY <1>2, Values, Names
  <2>1. Moves(f, "closing", None, None)
    BY <1>1, <1>2, <1>3, <2>0, MovesClosing DEF TearingStopped, Stages, Targets
  <2>2. /\ \A h \in Gens : srcOf'[h] = IF h = flow[f].src THEN "closed" ELSE srcOf[h]
        /\ UNCHANGED <<gen, desired, loop, src, loopOf>>
    BY <1>1, <1>2, <1>3, Names
       DEF TypeOK, TearingStopped, Close, Ended, vars, policy, history, slots,
           built,
           attached
  <2>3. TypeOK'
    BY <2>1, <2>2, <1>1, <1>2, <1>3, Names, Values, PeerAssumption
       DEF TypeOK, Moves, TearingStopped, Close, Ended, vars, policy, history,
           slots,
           built, attached, States, Targets
  <2>4. LoopKept(f, None)
    BY <2>1, <2>2, <1>1, <1>2, <1>3, Names
       DEF LoopKept, IInv, Holds, SlotsFree, LoopIdle, StartStages, BeforeLoop
  <2>5. SourceKept(f, "closing", None)
    BY <2>1, <2>2, <1>1, <1>2, <1>3, Names
       DEF SourceKept, IInv, Holds, SlotsFree, StartStages, WithoutSource
  <2>6. Fresh' /\ Holds' /\ SlotsFree' /\ StartStages' /\ LoopIdle'
    BY <2>1, <2>2, <1>1, <1>2, <1>3, Names
       DEF IInv, Moves, Fresh, Holds, SlotsFree, Superseded, StartStages,
           LoopIdle, BeforeLoop, WithoutSource
  <2>7. NoOrphanCapture'
    BY <1>2, <2>1, <2>4, <2>5, StaysOwned DEF IInv
  <2> QED  BY <2>3, <2>6, <2>7 DEF IInv
<1>4. CASE f # LoopTask(flow[f].loop)
  <2>0. /\ flow[f].stt \in Slots /\ flow[f].target \in Targets
         /\ (IF hub = flow[f].stt THEN hub ELSE None) \in Slots
    BY <1>2, Values, Names
  <2>1. Moves(f, "closing", None, None)
    BY <1>1, <1>2, <1>4, <2>0, MovesClosing DEF TearingStopped, Stages, Targets
  <2>2. /\ \A h \in Gens : loopOf'[h] = IF h = flow[f].loop THEN "ended" ELSE loopOf[h]
        /\ \A h \in Gens : srcOf'[h] = IF h = flow[f].src THEN "closed" ELSE srcOf[h]
        /\ UNCHANGED <<gen, desired, loop, src>>
    BY <1>1, <1>2, <1>4, Names
       DEF TypeOK, TearingStopped, Close, Ended, vars, policy, history, slots,
           built,
           attached
  <2>3. TypeOK'
    BY <2>1, <2>2, <1>1, <1>2, <1>4, Names, Values, PeerAssumption
       DEF TypeOK, Moves, TearingStopped, Close, Ended, vars, policy, history,
           slots,
           built, attached, States, Targets
  <2>4. LoopKept(f, None)
    BY <2>1, <2>2, <1>1, <1>2, <1>4, Names
       DEF LoopKept, IInv, Holds, SlotsFree, LoopIdle, StartStages, BeforeLoop
  <2>5. SourceKept(f, "closing", None)
    BY <2>1, <2>2, <1>1, <1>2, <1>4, Names
       DEF SourceKept, IInv, Holds, SlotsFree, StartStages, WithoutSource
  <2>6. Fresh' /\ Holds' /\ SlotsFree' /\ StartStages' /\ LoopIdle'
    BY <2>1, <2>2, <1>1, <1>2, <1>4, Names
       DEF IInv, Moves, Fresh, Holds, SlotsFree, Superseded, StartStages,
           LoopIdle, BeforeLoop, WithoutSource
  <2>7. NoOrphanCapture'
    BY <1>2, <2>1, <2>4, <2>5, StaysOwned DEF IInv
  <2> QED  BY <2>3, <2>6, <2>7 DEF IInv
<1> QED  BY <1>1, <1>3, <1>4 DEF TearingStopped, NothingHeld

LEMMA TearingEndsKeeps ==
    ASSUME IInv, NEW f \in Flows, TearingEnds(f)
    PROVE  IInv'
<1>1. flow[f].at = "closing"
  BY Values, Names, PeerAssumption DEF IInv, TypeOK, TearingEnds
<1>2. /\ TypeOK /\ flow \in [Flows -> FlowStates] /\ f \in Flows
     /\ stt \in Slots /\ src \in Slots /\ loop \in Slots /\ hub \in Slots
  BY <1>1, Names DEF IInv, TypeOK
<1>3. IInv'
  <2>1. Moves(f, "idle", None, None)
    BY <1>1, <1>2, MovesIdle DEF TearingEnds, Stages, Targets
  <2>2. /\ \A h \in Gens : loopOf'[h] = IF f = LoopTask(h) THEN "ended" ELSE loopOf[h]
        /\ UNCHANGED <<gen, desired, loop, src, srcOf>>
    BY <1>1, <1>2, Names
       DEF TypeOK, TearingEnds, Close, Ended, vars, policy, history, slots,
           built,
           attached
  <2>3. TypeOK'
    BY <2>1, <2>2, <1>1, <1>2, Names, Values, PeerAssumption
       DEF TypeOK, Moves, TearingEnds, Close, FinalState, vars, policy, history,
           slots, built, attached, States, Targets
  <2>4. LoopKept(f, None)
    BY <2>1, <2>2, <1>1, <1>2, Names
       DEF LoopKept, IInv, Holds, SlotsFree, LoopIdle, StartStages, BeforeLoop
  <2>5. SourceKept(f, "idle", None)
    BY <2>1, <2>2, <1>1, <1>2, Names
       DEF SourceKept, IInv, Holds, SlotsFree, StartStages, WithoutSource
  <2>6. Fresh' /\ Holds' /\ SlotsFree' /\ StartStages' /\ LoopIdle'
    BY <2>1, <2>2, <1>1, <1>2, Names
       DEF IInv, Moves, Fresh, Holds, SlotsFree, Superseded, StartStages,
           LoopIdle, BeforeLoop, WithoutSource
  <2>7. NoOrphanCapture'
    BY <1>2, <2>1, <2>4, <2>5, StaysOwned DEF IInv
  <2> QED  BY <2>3, <2>6, <2>7 DEF IInv
<1> QED  BY <1>1, <1>3 DEF TearingEnds, NothingHeld

-----------------------------------------------------------------------------
(***************************************************************************)
(* The theorems.                                                           *)
(***************************************************************************)
LEMMA InitHolds == Init => IInv
<1> SUFFICES ASSUME Init PROVE IInv
  OBVIOUS
<1>1. /\ \A f \in Flows : flow[f] = Idle
      /\ \A g \in Gens : srcOf[g] = "none" /\ loopOf[g] = "none"
      /\ flow \in [Flows -> FlowStates]
  BY Values DEF Init
<1>2. TypeOK
  <2>1. gen \in 0..MaxGen
    BY PeerAssumption DEF Init
  <2>2. /\ cfg \in [Gens -> Configs \cup {NoConfig}]
        /\ sttOf \in [Gens -> {"none", "live", "closed"}]
        /\ srcOf \in [Gens -> {"none", "open", "closed"}]
        /\ loopOf \in [Gens -> {"none", "running", "failing", "ended"}]
    BY DEF Init
  <2> QED  BY <1>1, <2>1, <2>2, Names DEF Init, TypeOK, States
<1>3. NoOrphanCapture /\ Fresh /\ Holds /\ SlotsFree /\ StartStages /\ LoopIdle
  BY <1>1, Values, Names
     DEF NoOrphanCapture, Fresh, Holds, SlotsFree, StartStages, LoopIdle,
         BeforeLoop, WithoutSource
<1> QED  BY <1>2, <1>3 DEF IInv

\* A step that touches no resource of the runtime keeps the invariant.
LEMMA StutterKeeps ==
    ASSUME IInv, UNCHANGED <<gen, desired, cfg, state, slots, attached, built, flow>>,
           wanted' \in Configs \cup {NoConfig}, overlapped' \in BOOLEAN
    PROVE  IInv'
<1>1. TypeOK'
  BY DEF IInv, TypeOK, slots, attached, built
<1>2. NoOrphanCapture'
  BY DEF IInv, NoOrphanCapture, Cancelled, slots, attached, built
<1>3. Fresh' /\ Holds' /\ SlotsFree' /\ StartStages' /\ LoopIdle'
  BY
     DEF IInv, Fresh, Holds, SlotsFree, Superseded, StartStages, LoopIdle,
         slots,
         attached, built
<1> QED  BY <1>1, <1>2, <1>3 DEF IInv

LEMMA NextKeeps == IInv /\ [Next]_vars => IInv'
<1> SUFFICES ASSUME IInv, [Next]_vars PROVE IInv'
  OBVIOUS
<1>1. CASE UNCHANGED vars
  <2>1. wanted' \in Configs \cup {NoConfig} /\ overlapped' \in BOOLEAN
    BY <1>1 DEF vars, policy, history, IInv, TypeOK
  <2> QED  BY <1>1, <2>1, StutterKeeps DEF vars, policy
<1>2. ASSUME NEW c \in Configs, ApplySame(c) \/ ApplyOn(c) PROVE IInv'
  BY <1>2, StutterKeeps, ApplyOnKeeps DEF ApplySame, Remember
<1>3. CASE ApplyOff
  BY <1>3, ApplyOffKeeps
<1>4. ASSUME NEW g \in Gens, Starts(g) PROVE IInv'
  BY <1>4, FactoryReturnsKeeps, StaleSourceKeeps, TakeOverKeeps,
     OldStoppedKeeps,
     DetachedKeeps, AttachEndsKeeps, SourceUndoneKeeps, ProviderUndoneKeeps,
     SourceFailureClosedKeeps DEF Starts
<1>5. ASSUME NEW g \in Gens, Failures(g) PROVE IInv'
  BY <1>5, FactoryFailsKeeps, SourceFailsKeeps, LoopFailsKeeps,
     TerminalFailureKeeps
     DEF Failures
<1>6. ASSUME NEW f \in Flows, TearingStopped(f) \/ TearingEnds(f) PROVE IInv'
  BY <1>6, TearingStoppedKeeps, TearingEndsKeeps
<1> QED  BY <1>1, <1>2, <1>3, <1>4, <1>5, <1>6 DEF Next, Policies

THEOREM InvHolds == Spec => []IInv
BY InitHolds, NextKeeps, PTL DEF Spec

\* Every variable of the peer runtime stays in its type.
THEOREM TypeCorrect == Spec => []TypeOK
<1>1. IInv => TypeOK
  BY DEF IInv
<1> QED  BY <1>1, InvHolds, PTL

\* However policies, starts, stops and failures overlap, for any number of them,
\* an audio loop that runs and a source that is open always have an owner that
\* will stop them: no capture goes on behind a channel that was switched off.
THEOREM CaptureOwned == Spec => []NoOrphanCapture
<1>1. IInv => NoOrphanCapture
  BY DEF IInv
<1> QED  BY <1>1, InvHolds, PTL

-----------------------------------------------------------------------------
(***************************************************************************)
(* What a step puts into its flow.                                         *)
(***************************************************************************)
\* Flow f goes to stage a with loop l, source s, provider p and old provider o.
Puts(f, a, l, s, p, o) ==
    /\ flow'[f].at = a /\ flow'[f].loop = l /\ flow'[f].src = s
    /\ flow'[f].stt = p /\ flow'[f].old = o
    /\ \A e \in Flows : e # f => flow'[e] = flow[e]

LEMMA PutsIdle ==
    ASSUME flow \in [Flows -> FlowStates], NEW f \in Flows,
           flow' = [flow EXCEPT ![f] = Idle]
    PROVE  Puts(f, "idle", None, None, None, None)
BY DEF Puts, Idle

LEMMA PutsAt ==
    ASSUME flow \in [Flows -> FlowStates], NEW f \in Flows, NEW a,
           flow' = [flow EXCEPT ![f] = At(a)]
    PROVE  Puts(f, a, None, None, None, None)
BY DEF Puts, Idle, At

LEMMA PutsReplacing ==
    ASSUME flow \in [Flows -> FlowStates], NEW f \in Flows, NEW a, NEW o,
           flow' = [flow EXCEPT ![f] = [At(a) EXCEPT !.old = o]]
    PROVE  Puts(f, a, None, None, None, o)
BY DEF Puts, Idle, At

LEMMA PutsStopping ==
    ASSUME flow \in [Flows -> FlowStates], NEW f \in Flows, NEW l, NEW s, NEW p,
           flow' = [flow EXCEPT ![f] = [At("stopping") EXCEPT !.loop = l, !.src = s, !.stt = p]]
    PROVE  Puts(f, "stopping", l, s, p, None)
BY DEF Puts, Idle, At

LEMMA PutsTearing ==
    ASSUME flow \in [Flows -> FlowStates], NEW f \in Flows, NEW l, NEW s, NEW p, NEW t,
           flow' = [flow EXCEPT ![f] = [At("tearing") EXCEPT !.loop = l, !.src = s,
                                                    !.stt = p, !.target = t]]
    PROVE  Puts(f, "tearing", l, s, p, None)
BY DEF Puts, Idle, At

LEMMA PutsClosing ==
    ASSUME flow \in [Flows -> FlowStates], NEW f \in Flows, NEW p, NEW t, NEW o,
           flow' = [flow EXCEPT ![f] = [At("closing") EXCEPT !.stt = p, !.target = t, !.old = o]]
    PROVE  Puts(f, "closing", None, None, p, o)
BY DEF Puts, Idle, At

-----------------------------------------------------------------------------
(***************************************************************************)
(* A channel that is off.                                                  *)
(***************************************************************************)
\* Flow f will take the provider out of the hub, or put its own there.
Detaches(f) ==
    \/ flow[f].at \in {"stopping", "detach", "attach", "undetach"}
    \/ flow[f].at = "undo" /\ f = Start(hub)
    \/ flow[f].at = "tearing" /\ flow[f].stt = hub
    \/ flow[f].at = "closing" /\ flow[f].old # None

\* The provider in the hub is the current one, or somebody will detach it.
HubOwned == hub # None => stt = hub \/ \E f \in Flows : Detaches(f)

\* A channel that is off holds nothing.
OffFree == ~desired => NothingHeld

\* Only a channel that is wanted shows anything but STOPPED and STOPPING, and
\* STOPPING ends with the teardown.
StateOwned ==
    /\ state \in {"RUNNING", "STARTING", "FAULTED"} => desired
    /\ state = "STOPPING" => \E f \in Flows : flow[f].at \in {"tearing", "closing"}

Off ==
    /\ HubOwned
    /\ OffFree
    /\ StateOwned

\* What keeps Off in a step of flow f that goes to stage a, with provider p and old
\* provider o.
HubKept(f, a, p, o) ==
    hub' # None =>
        \/ stt' = hub'
        \/ a \in {"stopping", "detach", "attach", "undetach"}
        \/ a = "undo" /\ f = Start(hub')
        \/ a = "tearing" /\ p = hub'
        \/ a = "closing" /\ o # None
        \/ hub' = hub /\ ~Detaches(f) /\ stt # hub

StateKept(f, a) ==
    /\ state' \in {"RUNNING", "STARTING", "FAULTED"} => desired'
    /\ state' = "STOPPING" =>
          \/ a \in {"tearing", "closing"}
          \/ state = "STOPPING" /\ flow[f].at \notin {"tearing", "closing"}

LEMMA OffStays ==
    ASSUME Off, NEW f \in Flows, NEW a, NEW l, NEW s, NEW p, NEW o,
           Puts(f, a, l, s, p, o), HubKept(f, a, p, o), OffFree', StateKept(f, a)
    PROVE  Off'
<1>1. HubOwned'
  <2> SUFFICES ASSUME hub' # None, stt' # hub', ~(Detaches(f)')
               PROVE  \E e \in Flows : Detaches(e)'
    BY DEF HubOwned
  <2>1. hub' = hub /\ ~Detaches(f) /\ stt # hub
    BY DEF HubKept, Puts, Detaches
  <2>2. PICK e \in Flows : Detaches(e)
    BY <2>1 DEF Off, HubOwned
  <2> QED  BY <2>1, <2>2 DEF Detaches, Puts
<1>2. StateOwned'
  <2> SUFFICES ASSUME state' = "STOPPING", flow'[f].at \notin {"tearing", "closing"}
               PROVE  \E e \in Flows : flow'[e].at \in {"tearing", "closing"}
    BY DEF StateOwned, StateKept
  <2>1. PICK e \in Flows : flow[e].at \in {"tearing", "closing"}
    BY DEF Off, StateOwned, StateKept, Puts
  <2> QED  BY <2>1 DEF StateKept, Puts
<1> QED  BY <1>1, <1>2 DEF Off


LEMMA ApplyOnOff ==
    ASSUME IInv, Off, NEW c \in Configs, ApplyOn(c)
    PROVE  Off'
<1>0. gen + 1 \in Gens
  BY NextGeneration DEF IInv, TypeOK, ApplyOn, NewGeneration
<1>1. Start(gen + 1) \in Flows /\ flow \in [Flows -> FlowStates]
  BY <1>0, Names DEF IInv, TypeOK
<1>a. flow[Start(gen + 1)].at = "idle"
  BY <1>0, <1>1, Names, Values, NextGeneration
     DEF IInv, TypeOK, Fresh, LoopIdle, ApplyOn, NewGeneration
<1>2. Puts(Start(gen + 1), "factory", None, None, None, None)
  BY <1>0, <1>a, <1>1, PutsAt DEF ApplyOn, NewGeneration
<1>3. HubKept(Start(gen + 1), "factory", None, None)
  BY <1>0, <1>a, <1>1, Names
     DEF HubKept, Detaches, Off, OffFree, IInv, SlotsFree, ApplyOn, NewGeneration,
         policy, history, slots, built, attached
<1>4. OffFree'
  BY <1>0, <1>a, Names
     DEF OffFree, Off, Superseded, NothingHeld, ApplyOn, NewGeneration, policy,
         history, slots, built, attached
<1>5. StateKept(Start(gen + 1), "factory")
  BY <1>0, <1>a, <1>1, Names
     DEF StateKept, Off, StateOwned, FinalState, Targets, Superseded, ApplyOn,
         NewGeneration, policy, history, slots, built, attached
<1> QED  BY <1>1, <1>2, <1>3, <1>4, <1>5, OffStays

LEMMA ApplyOffOff ==
    ASSUME IInv, Off, ApplyOff
    PROVE  Off'
<1>0. gen + 1 \in Gens
  BY NextGeneration DEF IInv, TypeOK, ApplyOff, NewGeneration
<1>1. Start(gen + 1) \in Flows /\ flow \in [Flows -> FlowStates]
  BY <1>0, Names DEF IInv, TypeOK
<1>a. flow[Start(gen + 1)].at = "idle"
  BY <1>0, <1>1, Names, Values, NextGeneration
     DEF IInv, TypeOK, Fresh, LoopIdle, ApplyOff, NewGeneration
<1>2. CASE NothingHeld
  <2>1. Puts(Start(gen + 1), "idle", None, None, None, None)
    BY <1>0, <1>a, <1>1, <1>2, PutsIdle
       DEF ApplyOff, NewGeneration, BeginTeardown, NothingHeld
  <2>2. HubKept(Start(gen + 1), "idle", None, None)
    BY <1>0, <1>a, <1>1, <1>2, Names
       DEF HubKept, Detaches, Off, OffFree, IInv, SlotsFree, ApplyOff,
           NewGeneration, BeginTeardown, NothingHeld, policy, history, slots,
           built, attached
  <2>3. OffFree'
    BY <1>0, <1>a, <1>2, Names
       DEF OffFree, Off, Superseded, NothingHeld, ApplyOff, NewGeneration,
           BeginTeardown, policy, history, slots, built, attached
  <2>4. StateKept(Start(gen + 1), "idle")
    BY <1>0, <1>a, <1>1, <1>2, Names
       DEF StateKept, Off, StateOwned, FinalState, Targets, Superseded, ApplyOff,
           NewGeneration, BeginTeardown, NothingHeld, policy, history, slots,
           built, attached
  <2> QED  BY <1>1, <2>1, <2>2, <2>3, <2>4, OffStays
<1>3. CASE ~NothingHeld
  <2>1. Puts(Start(gen + 1), "tearing", loop, src, stt, None)
    BY <1>0, <1>a, <1>1, <1>3, PutsTearing
       DEF ApplyOff, NewGeneration, BeginTeardown, NothingHeld
  <2>2. HubKept(Start(gen + 1), "tearing", stt, None)
    BY <1>0, <1>a, <1>1, <1>3, Names
       DEF HubKept, Detaches, Off, OffFree, IInv, SlotsFree, ApplyOff,
           NewGeneration, BeginTeardown, NothingHeld, policy, history, slots,
           built, attached
  <2>3. OffFree'
    BY <1>0, <1>a, <1>3, Names
       DEF OffFree, Off, Superseded, NothingHeld, ApplyOff, NewGeneration,
           BeginTeardown, policy, history, slots, built, attached
  <2>4. StateKept(Start(gen + 1), "tearing")
    BY <1>0, <1>a, <1>1, <1>3, Names
       DEF StateKept, Off, StateOwned, FinalState, Targets, Superseded, ApplyOff,
           NewGeneration, BeginTeardown, NothingHeld, policy, history, slots,
           built, attached
  <2> QED  BY <1>1, <2>1, <2>2, <2>3, <2>4, OffStays
<1> QED  BY <1>2, <1>3 DEF ApplyOff, NewGeneration, BeginTeardown, NothingHeld

LEMMA FactoryReturnsOff ==
    ASSUME IInv, Off, NEW g \in Gens, FactoryReturns(g)
    PROVE  Off'
<1>1. Start(g) \in Flows /\ flow \in [Flows -> FlowStates]
  BY Names DEF IInv, TypeOK
<1>2. CASE Superseded(g)
  <2>1. Puts(Start(g), "idle", None, None, None, None)
    BY <1>1, <1>2, PutsIdle DEF FactoryReturns, Finish
  <2>2. HubKept(Start(g), "idle", None, None)
    BY <1>1, <1>2, Names
       DEF HubKept, Detaches, Off, OffFree, IInv, SlotsFree, FactoryReturns,
           Finish, policy, history, slots, built, attached
  <2>3. OffFree'
    BY <1>2, Names
       DEF OffFree, Off, Superseded, NothingHeld, FactoryReturns, Finish, policy,
           history, slots, built, attached
  <2>4. StateKept(Start(g), "idle")
    BY <1>1, <1>2, Names
       DEF StateKept, Off, StateOwned, FinalState, Targets, Superseded,
           FactoryReturns, Finish, policy, history, slots, built, attached
  <2> QED  BY <1>1, <2>1, <2>2, <2>3, <2>4, OffStays
<1>3. CASE ~Superseded(g)
  <2>1. Puts(Start(g), "source", None, None, None, None)
    BY <1>1, <1>3, PutsAt DEF FactoryReturns, Finish
  <2>2. HubKept(Start(g), "source", None, None)
    BY <1>1, <1>3, Names
       DEF HubKept, Detaches, Off, OffFree, IInv, SlotsFree, FactoryReturns,
           Finish, policy, history, slots, built, attached
  <2>3. OffFree'
    BY <1>3, Names
       DEF OffFree, Off, Superseded, NothingHeld, FactoryReturns, Finish, policy,
           history, slots, built, attached
  <2>4. StateKept(Start(g), "source")
    BY <1>1, <1>3, Names
       DEF StateKept, Off, StateOwned, FinalState, Targets, Superseded,
           FactoryReturns, Finish, policy, history, slots, built, attached
  <2> QED  BY <1>1, <2>1, <2>2, <2>3, <2>4, OffStays
<1> QED  BY <1>2, <1>3 DEF FactoryReturns, Finish

LEMMA StaleSourceOff ==
    ASSUME IInv, Off, NEW g \in Gens, StaleSource(g)
    PROVE  Off'
<1>1. Start(g) \in Flows /\ flow \in [Flows -> FlowStates]
  BY Names DEF IInv, TypeOK
<1>2. Puts(Start(g), "idle", None, None, None, None)
  BY <1>1, PutsIdle DEF StaleSource, Finish
<1>3. HubKept(Start(g), "idle", None, None)
  BY <1>1, Names
     DEF HubKept, Detaches, Off, OffFree, IInv, SlotsFree, StaleSource, Finish,
         policy, history, slots, built, attached
<1>4. OffFree'
  BY Names
     DEF OffFree, Off, Superseded, NothingHeld, StaleSource, Finish, policy,
         history, slots, built, attached
<1>5. StateKept(Start(g), "idle")
  BY <1>1, Names
     DEF StateKept, Off, StateOwned, FinalState, Targets, Superseded, StaleSource,
         Finish, policy, history, slots, built, attached
<1> QED  BY <1>1, <1>2, <1>3, <1>4, <1>5, OffStays

LEMMA TakeOverOff ==
    ASSUME IInv, Off, NEW g \in Gens, TakeOver(g)
    PROVE  Off'
<1>1. Start(g) \in Flows /\ flow \in [Flows -> FlowStates]
  BY Names DEF IInv, TypeOK
<1>2. CASE loop # None \/ src # None
  <2>1. Puts(Start(g), "stopping", loop, src, stt, None)
    BY <1>1, <1>2, PutsStopping
       DEF TakeOver, Attached, Finish, BeginReplace, TakeSlots, HubEmpty,
           Superseded
  <2>2. HubKept(Start(g), "stopping", stt, None)
    BY <1>1, <1>2, Names
       DEF HubKept, Detaches, Off, OffFree, IInv, SlotsFree, TakeOver, Attached,
           Finish, BeginReplace, TakeSlots, HubEmpty, Superseded, policy, history,
           slots, built, attached
  <2>3. OffFree'
    BY <1>2, Names
       DEF OffFree, Off, Superseded, NothingHeld, TakeOver, Attached, Finish,
           BeginReplace, TakeSlots, HubEmpty, policy, history, slots, built,
           attached
  <2>4. StateKept(Start(g), "stopping")
    BY <1>1, <1>2, Names
       DEF StateKept, Off, StateOwned, FinalState, Targets, Superseded, TakeOver,
           Attached, Finish, BeginReplace, TakeSlots, HubEmpty, policy, history,
           slots, built, attached
  <2> QED  BY <1>1, <2>1, <2>2, <2>3, <2>4, OffStays
<1>3. CASE loop = None /\ src = None /\ ~HubEmpty /\ stt # None
  <2>1. Puts(Start(g), "detach", None, None, None, hub)
    BY <1>1, <1>3, PutsReplacing
       DEF TakeOver, Attached, Finish, BeginReplace, TakeSlots, HubEmpty,
           Superseded
  <2>2. HubKept(Start(g), "detach", None, hub)
    BY <1>1, <1>3, Names
       DEF HubKept, Detaches, Off, OffFree, IInv, SlotsFree, TakeOver, Attached,
           Finish, BeginReplace, TakeSlots, HubEmpty, Superseded, policy, history,
           slots, built, attached
  <2>3. OffFree'
    BY <1>3, Names
       DEF OffFree, Off, Superseded, NothingHeld, TakeOver, Attached, Finish,
           BeginReplace, TakeSlots, HubEmpty, policy, history, slots, built,
           attached
  <2>4. StateKept(Start(g), "detach")
    BY <1>1, <1>3, Names
       DEF StateKept, Off, StateOwned, FinalState, Targets, Superseded, TakeOver,
           Attached, Finish, BeginReplace, TakeSlots, HubEmpty, policy, history,
           slots, built, attached
  <2> QED  BY <1>1, <2>1, <2>2, <2>3, <2>4, OffStays
<1>4. CASE loop = None /\ src = None /\ ~HubEmpty /\ stt = None
  <2>1. Puts(Start(g), "attach", None, None, None, hub)
    BY <1>1, <1>4, PutsReplacing
       DEF TakeOver, Attached, Finish, BeginReplace, TakeSlots, HubEmpty,
           Superseded
  <2>2. HubKept(Start(g), "attach", None, hub)
    BY <1>1, <1>4, Names
       DEF HubKept, Detaches, Off, OffFree, IInv, SlotsFree, TakeOver, Attached,
           Finish, BeginReplace, TakeSlots, HubEmpty, Superseded, policy, history,
           slots, built, attached
  <2>3. OffFree'
    BY <1>4, Names
       DEF OffFree, Off, Superseded, NothingHeld, TakeOver, Attached, Finish,
           BeginReplace, TakeSlots, HubEmpty, policy, history, slots, built,
           attached
  <2>4. StateKept(Start(g), "attach")
    BY <1>1, <1>4, Names
       DEF StateKept, Off, StateOwned, FinalState, Targets, Superseded, TakeOver,
           Attached, Finish, BeginReplace, TakeSlots, HubEmpty, policy, history,
           slots, built, attached
  <2> QED  BY <1>1, <2>1, <2>2, <2>3, <2>4, OffStays
<1>5. CASE loop = None /\ src = None /\ HubEmpty
  <2>1. Puts(Start(g), "idle", None, None, None, None)
    BY <1>1, <1>5, PutsIdle
       DEF TakeOver, Attached, Finish, BeginReplace, TakeSlots, HubEmpty,
           Superseded
  <2>2. HubKept(Start(g), "idle", None, None)
    BY <1>1, <1>5, Names
       DEF HubKept, Detaches, Off, OffFree, IInv, SlotsFree, TakeOver, Attached,
           Finish, BeginReplace, TakeSlots, HubEmpty, Superseded, policy, history,
           slots, built, attached
  <2>3. OffFree'
    BY <1>5, Names
       DEF OffFree, Off, Superseded, NothingHeld, TakeOver, Attached, Finish,
           BeginReplace, TakeSlots, HubEmpty, policy, history, slots, built,
           attached
  <2>4. StateKept(Start(g), "idle")
    BY <1>1, <1>5, Names
       DEF StateKept, Off, StateOwned, FinalState, Targets, Superseded, TakeOver,
           Attached, Finish, BeginReplace, TakeSlots, HubEmpty, policy, history,
           slots, built, attached
  <2> QED  BY <1>1, <2>1, <2>2, <2>3, <2>4, OffStays
<1> QED  BY <1>2, <1>3, <1>4, <1>5
   DEF TakeOver, Attached, Finish, BeginReplace, TakeSlots, HubEmpty, Superseded

LEMMA OldStoppedOff ==
    ASSUME IInv, Off, NEW g \in Gens, OldStopped(g)
    PROVE  Off'
<1>1. Start(g) \in Flows /\ flow \in [Flows -> FlowStates]
  BY Names DEF IInv, TypeOK
<1>2. CASE HubEmpty /\ Superseded(g)
  <2>1. Puts(Start(g), "undo", None, None, None, None)
    BY <1>1, <1>2, PutsAt
       DEF OldStopped, Attached, Finish, BeginReplace, HubEmpty, Superseded
  <2>2. HubKept(Start(g), "undo", None, None)
    BY <1>1, <1>2, Names
       DEF HubKept, Detaches, Off, OffFree, IInv, SlotsFree, OldStopped, Attached,
           Finish, BeginReplace, HubEmpty, Superseded, policy, history, slots,
           built, attached
  <2>3. OffFree'
    BY <1>2, Names
       DEF OffFree, Off, Superseded, NothingHeld, OldStopped, Attached, Finish,
           BeginReplace, HubEmpty, policy, history, slots, built, attached
  <2>4. StateKept(Start(g), "undo")
    BY <1>1, <1>2, Names
       DEF StateKept, Off, StateOwned, FinalState, Targets, Superseded, OldStopped,
           Attached, Finish, BeginReplace, HubEmpty, policy, history, slots, built,
           attached
  <2> QED  BY <1>1, <2>1, <2>2, <2>3, <2>4, OffStays
<1>3. CASE HubEmpty /\ ~Superseded(g)
  <2>1. Puts(Start(g), "idle", None, None, None, None)
    BY <1>1, <1>3, PutsIdle
       DEF OldStopped, Attached, Finish, BeginReplace, HubEmpty, Superseded
  <2>2. HubKept(Start(g), "idle", None, None)
    BY <1>1, <1>3, Names
       DEF HubKept, Detaches, Off, OffFree, IInv, SlotsFree, OldStopped, Attached,
           Finish, BeginReplace, HubEmpty, Superseded, policy, history, slots,
           built, attached
  <2>3. OffFree'
    BY <1>3, Names
       DEF OffFree, Off, Superseded, NothingHeld, OldStopped, Attached, Finish,
           BeginReplace, HubEmpty, policy, history, slots, built, attached
  <2>4. StateKept(Start(g), "idle")
    BY <1>1, <1>3, Names
       DEF StateKept, Off, StateOwned, FinalState, Targets, Superseded, OldStopped,
           Attached, Finish, BeginReplace, HubEmpty, policy, history, slots, built,
           attached
  <2> QED  BY <1>1, <2>1, <2>2, <2>3, <2>4, OffStays
<1>4. CASE ~HubEmpty /\ flow[Start(g)].stt # None
  <2>1. Puts(Start(g), "detach", None, None, None, hub)
    BY <1>1, <1>4, PutsReplacing
       DEF OldStopped, Attached, Finish, BeginReplace, HubEmpty, Superseded
  <2>2. HubKept(Start(g), "detach", None, hub)
    BY <1>1, <1>4, Names
       DEF HubKept, Detaches, Off, OffFree, IInv, SlotsFree, OldStopped, Attached,
           Finish, BeginReplace, HubEmpty, Superseded, policy, history, slots,
           built, attached
  <2>3. OffFree'
    BY <1>4, Names
       DEF OffFree, Off, Superseded, NothingHeld, OldStopped, Attached, Finish,
           BeginReplace, HubEmpty, policy, history, slots, built, attached
  <2>4. StateKept(Start(g), "detach")
    BY <1>1, <1>4, Names
       DEF StateKept, Off, StateOwned, FinalState, Targets, Superseded, OldStopped,
           Attached, Finish, BeginReplace, HubEmpty, policy, history, slots, built,
           attached
  <2> QED  BY <1>1, <2>1, <2>2, <2>3, <2>4, OffStays
<1>5. CASE ~HubEmpty /\ flow[Start(g)].stt = None
  <2>1. Puts(Start(g), "attach", None, None, None, hub)
    BY <1>1, <1>5, PutsReplacing
       DEF OldStopped, Attached, Finish, BeginReplace, HubEmpty, Superseded
  <2>2. HubKept(Start(g), "attach", None, hub)
    BY <1>1, <1>5, Names
       DEF HubKept, Detaches, Off, OffFree, IInv, SlotsFree, OldStopped, Attached,
           Finish, BeginReplace, HubEmpty, Superseded, policy, history, slots,
           built, attached
  <2>3. OffFree'
    BY <1>5, Names
       DEF OffFree, Off, Superseded, NothingHeld, OldStopped, Attached, Finish,
           BeginReplace, HubEmpty, policy, history, slots, built, attached
  <2>4. StateKept(Start(g), "attach")
    BY <1>1, <1>5, Names
       DEF StateKept, Off, StateOwned, FinalState, Targets, Superseded, OldStopped,
           Attached, Finish, BeginReplace, HubEmpty, policy, history, slots, built,
           attached
  <2> QED  BY <1>1, <2>1, <2>2, <2>3, <2>4, OffStays
<1> QED  BY <1>2, <1>3, <1>4, <1>5
   DEF OldStopped, Attached, Finish, BeginReplace, HubEmpty, Superseded

LEMMA DetachedOff ==
    ASSUME IInv, Off, NEW g \in Gens, Detached(g)
    PROVE  Off'
<1>1. Start(g) \in Flows /\ flow \in [Flows -> FlowStates]
  BY Names DEF IInv, TypeOK
<1>2. CASE heard # None
  <2>1. Puts(Start(g), "attach", None, None, None, None)
    BY <1>1, <1>2, PutsAt DEF Detached, Attached, Finish, Superseded
  <2>2. HubKept(Start(g), "attach", None, None)
    BY <1>1, <1>2, Names
       DEF HubKept, Detaches, Off, OffFree, IInv, SlotsFree, Detached, Attached,
           Finish, Superseded, policy, history, slots, built, attached
  <2>3. OffFree'
    BY <1>2, Names
       DEF OffFree, Off, Superseded, NothingHeld, Detached, Attached, Finish,
           policy, history, slots, built, attached
  <2>4. StateKept(Start(g), "attach")
    BY <1>1, <1>2, Names
       DEF StateKept, Off, StateOwned, FinalState, Targets, Superseded, Detached,
           Attached, Finish, policy, history, slots, built, attached
  <2> QED  BY <1>1, <2>1, <2>2, <2>3, <2>4, OffStays
<1>3. CASE heard = None /\ Superseded(g)
  <2>1. Puts(Start(g), "undo", None, None, None, None)
    BY <1>1, <1>3, PutsAt DEF Detached, Attached, Finish, Superseded
  <2>2. HubKept(Start(g), "undo", None, None)
    BY <1>1, <1>3, Names
       DEF HubKept, Detaches, Off, OffFree, IInv, SlotsFree, Detached, Attached,
           Finish, Superseded, policy, history, slots, built, attached
  <2>3. OffFree'
    BY <1>3, Names
       DEF OffFree, Off, Superseded, NothingHeld, Detached, Attached, Finish,
           policy, history, slots, built, attached
  <2>4. StateKept(Start(g), "undo")
    BY <1>1, <1>3, Names
       DEF StateKept, Off, StateOwned, FinalState, Targets, Superseded, Detached,
           Attached, Finish, policy, history, slots, built, attached
  <2> QED  BY <1>1, <2>1, <2>2, <2>3, <2>4, OffStays
<1>4. CASE heard = None /\ ~Superseded(g)
  <2>1. Puts(Start(g), "idle", None, None, None, None)
    BY <1>1, <1>4, PutsIdle DEF Detached, Attached, Finish, Superseded
  <2>2. HubKept(Start(g), "idle", None, None)
    BY <1>1, <1>4, Names
       DEF HubKept, Detaches, Off, OffFree, IInv, SlotsFree, Detached, Attached,
           Finish, Superseded, policy, history, slots, built, attached
  <2>3. OffFree'
    BY <1>4, Names
       DEF OffFree, Off, Superseded, NothingHeld, Detached, Attached, Finish,
           policy, history, slots, built, attached
  <2>4. StateKept(Start(g), "idle")
    BY <1>1, <1>4, Names
       DEF StateKept, Off, StateOwned, FinalState, Targets, Superseded, Detached,
           Attached, Finish, policy, history, slots, built, attached
  <2> QED  BY <1>1, <2>1, <2>2, <2>3, <2>4, OffStays
<1> QED  BY <1>2, <1>3, <1>4 DEF Detached, Attached, Finish, Superseded

LEMMA AttachEndsOff ==
    ASSUME IInv, Off, NEW g \in Gens, AttachEnds(g)
    PROVE  Off'
<1>1. Start(g) \in Flows /\ flow \in [Flows -> FlowStates]
  BY Names DEF IInv, TypeOK
<1>2. CASE Superseded(g)
  <2>1. Puts(Start(g), "undo", None, None, None, None)
    BY <1>1, <1>2, PutsAt DEF AttachEnds, Attached, Finish, Superseded
  <2>2. HubKept(Start(g), "undo", None, None)
    BY <1>1, <1>2, Names
       DEF HubKept, Detaches, Off, OffFree, IInv, SlotsFree, AttachEnds, Attached,
           Finish, Superseded, policy, history, slots, built, attached
  <2>3. OffFree'
    BY <1>2, Names
       DEF OffFree, Off, Superseded, NothingHeld, AttachEnds, Attached, Finish,
           policy, history, slots, built, attached
  <2>4. StateKept(Start(g), "undo")
    BY <1>1, <1>2, Names
       DEF StateKept, Off, StateOwned, FinalState, Targets, Superseded, AttachEnds,
           Attached, Finish, policy, history, slots, built, attached
  <2> QED  BY <1>1, <2>1, <2>2, <2>3, <2>4, OffStays
<1>3. CASE ~Superseded(g)
  <2>1. Puts(Start(g), "idle", None, None, None, None)
    BY <1>1, <1>3, PutsIdle DEF AttachEnds, Attached, Finish, Superseded
  <2>2. HubKept(Start(g), "idle", None, None)
    BY <1>1, <1>3, Names
       DEF HubKept, Detaches, Off, OffFree, IInv, SlotsFree, AttachEnds, Attached,
           Finish, Superseded, policy, history, slots, built, attached
  <2>3. OffFree'
    BY <1>3, Names
       DEF OffFree, Off, Superseded, NothingHeld, AttachEnds, Attached, Finish,
           policy, history, slots, built, attached
  <2>4. StateKept(Start(g), "idle")
    BY <1>1, <1>3, Names
       DEF StateKept, Off, StateOwned, FinalState, Targets, Superseded, AttachEnds,
           Attached, Finish, policy, history, slots, built, attached
  <2> QED  BY <1>1, <2>1, <2>2, <2>3, <2>4, OffStays
<1> QED  BY <1>2, <1>3 DEF AttachEnds, Attached, Finish, Superseded

LEMMA SourceUndoneOff ==
    ASSUME IInv, Off, NEW g \in Gens, SourceUndone(g)
    PROVE  Off'
<1>1. Start(g) \in Flows /\ flow \in [Flows -> FlowStates]
  BY Names DEF IInv, TypeOK
<1>2. CASE hub = g
  <2>1. Puts(Start(g), "undetach", None, None, None, hub)
    BY <1>1, <1>2, PutsReplacing DEF SourceUndone, BeginReplace, Finish
  <2>2. HubKept(Start(g), "undetach", None, hub)
    BY <1>1, <1>2, Names
       DEF HubKept, Detaches, Off, OffFree, IInv, SlotsFree, SourceUndone,
           BeginReplace, Finish, policy, history, slots, built, attached
  <2>3. OffFree'
    BY <1>2, Names
       DEF OffFree, Off, Superseded, NothingHeld, SourceUndone, BeginReplace,
           Finish, policy, history, slots, built, attached
  <2>4. StateKept(Start(g), "undetach")
    BY <1>1, <1>2, Names
       DEF StateKept, Off, StateOwned, FinalState, Targets, Superseded,
           SourceUndone, BeginReplace, Finish, policy, history, slots, built,
           attached
  <2> QED  BY <1>1, <2>1, <2>2, <2>3, <2>4, OffStays
<1>3. CASE hub # g
  <2>1. Puts(Start(g), "idle", None, None, None, None)
    BY <1>1, <1>3, PutsIdle DEF SourceUndone, BeginReplace, Finish
  <2>2. HubKept(Start(g), "idle", None, None)
    BY <1>1, <1>3, Names
       DEF HubKept, Detaches, Off, OffFree, IInv, SlotsFree, SourceUndone,
           BeginReplace, Finish, policy, history, slots, built, attached
  <2>3. OffFree'
    BY <1>3, Names
       DEF OffFree, Off, Superseded, NothingHeld, SourceUndone, BeginReplace,
           Finish, policy, history, slots, built, attached
  <2>4. StateKept(Start(g), "idle")
    BY <1>1, <1>3, Names
       DEF StateKept, Off, StateOwned, FinalState, Targets, Superseded,
           SourceUndone, BeginReplace, Finish, policy, history, slots, built,
           attached
  <2> QED  BY <1>1, <2>1, <2>2, <2>3, <2>4, OffStays
<1> QED  BY <1>2, <1>3 DEF SourceUndone, BeginReplace, Finish

LEMMA ProviderUndoneOff ==
    ASSUME IInv, Off, NEW g \in Gens, ProviderUndone(g)
    PROVE  Off'
<1>1. Start(g) \in Flows /\ flow \in [Flows -> FlowStates]
  BY Names DEF IInv, TypeOK
<1>2. Puts(Start(g), "idle", None, None, None, None)
  BY <1>1, PutsIdle DEF ProviderUndone, Finish
<1>3. HubKept(Start(g), "idle", None, None)
  BY <1>1, Names
     DEF HubKept, Detaches, Off, OffFree, IInv, SlotsFree, ProviderUndone, Finish,
         policy, history, slots, built, attached
<1>4. OffFree'
  BY Names
     DEF OffFree, Off, Superseded, NothingHeld, ProviderUndone, Finish, policy,
         history, slots, built, attached
<1>5. StateKept(Start(g), "idle")
  BY <1>1, Names
     DEF StateKept, Off, StateOwned, FinalState, Targets, Superseded,
         ProviderUndone, Finish, policy, history, slots, built, attached
<1> QED  BY <1>1, <1>2, <1>3, <1>4, <1>5, OffStays

LEMMA SourceFailureClosedOff ==
    ASSUME IInv, Off, NEW g \in Gens, SourceFailureClosed(g)
    PROVE  Off'
<1>1. Start(g) \in Flows /\ flow \in [Flows -> FlowStates]
  BY Names DEF IInv, TypeOK
<1>2. CASE Superseded(g)
  <2>1. Puts(Start(g), "idle", None, None, None, None)
    BY <1>1, <1>2, PutsIdle
       DEF SourceFailureClosed, MarkFaulted, BeginTeardown, Superseded, NothingHeld
  <2>2. HubKept(Start(g), "idle", None, None)
    BY <1>1, <1>2, Names
       DEF HubKept, Detaches, Off, OffFree, IInv, SlotsFree, SourceFailureClosed,
           MarkFaulted, BeginTeardown, Superseded, NothingHeld, policy, history,
           slots, built, attached
  <2>3. OffFree'
    BY <1>2, Names
       DEF OffFree, Off, Superseded, NothingHeld, SourceFailureClosed, MarkFaulted,
           BeginTeardown, policy, history, slots, built, attached
  <2>4. StateKept(Start(g), "idle")
    BY <1>1, <1>2, Names
       DEF StateKept, Off, StateOwned, FinalState, Targets, Superseded,
           SourceFailureClosed, MarkFaulted, BeginTeardown, NothingHeld, policy,
           history, slots, built, attached
  <2> QED  BY <1>1, <2>1, <2>2, <2>3, <2>4, OffStays
<1>3. CASE ~Superseded(g) /\ NothingHeld
  <2>1. Puts(Start(g), "idle", None, None, None, None)
    BY <1>1, <1>3, PutsIdle
       DEF SourceFailureClosed, MarkFaulted, BeginTeardown, Superseded, NothingHeld
  <2>2. HubKept(Start(g), "idle", None, None)
    BY <1>1, <1>3, Names
       DEF HubKept, Detaches, Off, OffFree, IInv, SlotsFree, SourceFailureClosed,
           MarkFaulted, BeginTeardown, Superseded, NothingHeld, policy, history,
           slots, built, attached
  <2>3. OffFree'
    BY <1>3, Names
       DEF OffFree, Off, Superseded, NothingHeld, SourceFailureClosed, MarkFaulted,
           BeginTeardown, policy, history, slots, built, attached
  <2>4. StateKept(Start(g), "idle")
    BY <1>1, <1>3, Names
       DEF StateKept, Off, StateOwned, FinalState, Targets, Superseded,
           SourceFailureClosed, MarkFaulted, BeginTeardown, NothingHeld, policy,
           history, slots, built, attached
  <2> QED  BY <1>1, <2>1, <2>2, <2>3, <2>4, OffStays
<1>4. CASE ~Superseded(g) /\ ~NothingHeld
  <2>1. Puts(Start(g), "tearing", loop, src, stt, None)
    BY <1>1, <1>4, PutsTearing
       DEF SourceFailureClosed, MarkFaulted, BeginTeardown, Superseded, NothingHeld
  <2>2. HubKept(Start(g), "tearing", stt, None)
    BY <1>1, <1>4, Names
       DEF HubKept, Detaches, Off, OffFree, IInv, SlotsFree, SourceFailureClosed,
           MarkFaulted, BeginTeardown, Superseded, NothingHeld, policy, history,
           slots, built, attached
  <2>3. OffFree'
    BY <1>4, Names
       DEF OffFree, Off, Superseded, NothingHeld, SourceFailureClosed, MarkFaulted,
           BeginTeardown, policy, history, slots, built, attached
  <2>4. StateKept(Start(g), "tearing")
    BY <1>1, <1>4, Names
       DEF StateKept, Off, StateOwned, FinalState, Targets, Superseded,
           SourceFailureClosed, MarkFaulted, BeginTeardown, NothingHeld, policy,
           history, slots, built, attached
  <2> QED  BY <1>1, <2>1, <2>2, <2>3, <2>4, OffStays
<1> QED  BY <1>2, <1>3, <1>4
   DEF SourceFailureClosed, MarkFaulted, BeginTeardown, Superseded, NothingHeld

LEMMA FactoryFailsOff ==
    ASSUME IInv, Off, NEW g \in Gens, FactoryFails(g)
    PROVE  Off'
<1>1. Start(g) \in Flows /\ flow \in [Flows -> FlowStates]
  BY Names DEF IInv, TypeOK
<1>2. CASE Superseded(g)
  <2>1. Puts(Start(g), "idle", None, None, None, None)
    BY <1>1, <1>2, PutsIdle
       DEF FactoryFails, MarkFaulted, BeginTeardown, Superseded, NothingHeld
  <2>2. HubKept(Start(g), "idle", None, None)
    BY <1>1, <1>2, Names
       DEF HubKept, Detaches, Off, OffFree, IInv, SlotsFree, FactoryFails,
           MarkFaulted, BeginTeardown, Superseded, NothingHeld, policy, history,
           slots, built, attached
  <2>3. OffFree'
    BY <1>2, Names
       DEF OffFree, Off, Superseded, NothingHeld, FactoryFails, MarkFaulted,
           BeginTeardown, policy, history, slots, built, attached
  <2>4. StateKept(Start(g), "idle")
    BY <1>1, <1>2, Names
       DEF StateKept, Off, StateOwned, FinalState, Targets, Superseded,
           FactoryFails, MarkFaulted, BeginTeardown, NothingHeld, policy, history,
           slots, built, attached
  <2> QED  BY <1>1, <2>1, <2>2, <2>3, <2>4, OffStays
<1>3. CASE ~Superseded(g) /\ NothingHeld
  <2>1. Puts(Start(g), "idle", None, None, None, None)
    BY <1>1, <1>3, PutsIdle
       DEF FactoryFails, MarkFaulted, BeginTeardown, Superseded, NothingHeld
  <2>2. HubKept(Start(g), "idle", None, None)
    BY <1>1, <1>3, Names
       DEF HubKept, Detaches, Off, OffFree, IInv, SlotsFree, FactoryFails,
           MarkFaulted, BeginTeardown, Superseded, NothingHeld, policy, history,
           slots, built, attached
  <2>3. OffFree'
    BY <1>3, Names
       DEF OffFree, Off, Superseded, NothingHeld, FactoryFails, MarkFaulted,
           BeginTeardown, policy, history, slots, built, attached
  <2>4. StateKept(Start(g), "idle")
    BY <1>1, <1>3, Names
       DEF StateKept, Off, StateOwned, FinalState, Targets, Superseded,
           FactoryFails, MarkFaulted, BeginTeardown, NothingHeld, policy, history,
           slots, built, attached
  <2> QED  BY <1>1, <2>1, <2>2, <2>3, <2>4, OffStays
<1>4. CASE ~Superseded(g) /\ ~NothingHeld
  <2>1. Puts(Start(g), "tearing", loop, src, stt, None)
    BY <1>1, <1>4, PutsTearing
       DEF FactoryFails, MarkFaulted, BeginTeardown, Superseded, NothingHeld
  <2>2. HubKept(Start(g), "tearing", stt, None)
    BY <1>1, <1>4, Names
       DEF HubKept, Detaches, Off, OffFree, IInv, SlotsFree, FactoryFails,
           MarkFaulted, BeginTeardown, Superseded, NothingHeld, policy, history,
           slots, built, attached
  <2>3. OffFree'
    BY <1>4, Names
       DEF OffFree, Off, Superseded, NothingHeld, FactoryFails, MarkFaulted,
           BeginTeardown, policy, history, slots, built, attached
  <2>4. StateKept(Start(g), "tearing")
    BY <1>1, <1>4, Names
       DEF StateKept, Off, StateOwned, FinalState, Targets, Superseded,
           FactoryFails, MarkFaulted, BeginTeardown, NothingHeld, policy, history,
           slots, built, attached
  <2> QED  BY <1>1, <2>1, <2>2, <2>3, <2>4, OffStays
<1> QED  BY <1>2, <1>3, <1>4
   DEF FactoryFails, MarkFaulted, BeginTeardown, Superseded, NothingHeld

LEMMA SourceFailsOff ==
    ASSUME IInv, Off, NEW g \in Gens, SourceFails(g)
    PROVE  Off'
<1>1. Start(g) \in Flows /\ flow \in [Flows -> FlowStates]
  BY Names DEF IInv, TypeOK
<1>2. Puts(Start(g), "failed", None, None, None, None)
  BY <1>1, PutsAt DEF SourceFails
<1>3. HubKept(Start(g), "failed", None, None)
  BY <1>1, Names
     DEF HubKept, Detaches, Off, OffFree, IInv, SlotsFree, SourceFails, policy,
         history, slots, built, attached
<1>4. OffFree'
  BY Names
     DEF OffFree, Off, Superseded, NothingHeld, SourceFails, policy, history,
         slots, built, attached
<1>5. StateKept(Start(g), "failed")
  BY <1>1, Names
     DEF StateKept, Off, StateOwned, FinalState, Targets, Superseded, SourceFails,
         policy, history, slots, built, attached
<1> QED  BY <1>1, <1>2, <1>3, <1>4, <1>5, OffStays

LEMMA LoopFailsOff ==
    ASSUME IInv, Off, NEW g \in Gens, LoopFails(g)
    PROVE  Off'
<1>1. LoopTask(g) \in Flows /\ flow \in [Flows -> FlowStates]
  BY Names DEF IInv, TypeOK
<1>a. flow[LoopTask(g)].at = "idle"
  BY <1>1, Names, Values, NextGeneration
     DEF IInv, TypeOK, Fresh, LoopIdle, LoopFails
<1>2. CASE Superseded(g)
  <2>1. Puts(LoopTask(g), "idle", None, None, None, None)
    BY <1>a, <1>1, <1>2, PutsIdle
       DEF LoopFails, MarkFaulted, BeginTeardown, Superseded, NothingHeld
  <2>2. HubKept(LoopTask(g), "idle", None, None)
    BY <1>a, <1>1, <1>2, Names
       DEF HubKept, Detaches, Off, OffFree, IInv, SlotsFree, LoopFails,
           MarkFaulted, BeginTeardown, Superseded, NothingHeld, policy, history,
           slots, built, attached
  <2>3. OffFree'
    BY <1>a, <1>2, Names
       DEF OffFree, Off, Superseded, NothingHeld, LoopFails, MarkFaulted,
           BeginTeardown, policy, history, slots, built, attached
  <2>4. StateKept(LoopTask(g), "idle")
    BY <1>a, <1>1, <1>2, Names
       DEF StateKept, Off, StateOwned, FinalState, Targets, Superseded, LoopFails,
           MarkFaulted, BeginTeardown, NothingHeld, policy, history, slots, built,
           attached
  <2> QED  BY <1>1, <2>1, <2>2, <2>3, <2>4, OffStays
<1>3. CASE ~Superseded(g) /\ NothingHeld
  <2>1. Puts(LoopTask(g), "idle", None, None, None, None)
    BY <1>a, <1>1, <1>3, PutsIdle
       DEF LoopFails, MarkFaulted, BeginTeardown, Superseded, NothingHeld
  <2>2. HubKept(LoopTask(g), "idle", None, None)
    BY <1>a, <1>1, <1>3, Names
       DEF HubKept, Detaches, Off, OffFree, IInv, SlotsFree, LoopFails,
           MarkFaulted, BeginTeardown, Superseded, NothingHeld, policy, history,
           slots, built, attached
  <2>3. OffFree'
    BY <1>a, <1>3, Names
       DEF OffFree, Off, Superseded, NothingHeld, LoopFails, MarkFaulted,
           BeginTeardown, policy, history, slots, built, attached
  <2>4. StateKept(LoopTask(g), "idle")
    BY <1>a, <1>1, <1>3, Names
       DEF StateKept, Off, StateOwned, FinalState, Targets, Superseded, LoopFails,
           MarkFaulted, BeginTeardown, NothingHeld, policy, history, slots, built,
           attached
  <2> QED  BY <1>1, <2>1, <2>2, <2>3, <2>4, OffStays
<1>4. CASE ~Superseded(g) /\ ~NothingHeld
  <2>1. Puts(LoopTask(g), "tearing", loop, src, stt, None)
    BY <1>a, <1>1, <1>4, PutsTearing
       DEF LoopFails, MarkFaulted, BeginTeardown, Superseded, NothingHeld
  <2>2. HubKept(LoopTask(g), "tearing", stt, None)
    BY <1>a, <1>1, <1>4, Names
       DEF HubKept, Detaches, Off, OffFree, IInv, SlotsFree, LoopFails,
           MarkFaulted, BeginTeardown, Superseded, NothingHeld, policy, history,
           slots, built, attached
  <2>3. OffFree'
    BY <1>a, <1>4, Names
       DEF OffFree, Off, Superseded, NothingHeld, LoopFails, MarkFaulted,
           BeginTeardown, policy, history, slots, built, attached
  <2>4. StateKept(LoopTask(g), "tearing")
    BY <1>a, <1>1, <1>4, Names
       DEF StateKept, Off, StateOwned, FinalState, Targets, Superseded, LoopFails,
           MarkFaulted, BeginTeardown, NothingHeld, policy, history, slots, built,
           attached
  <2> QED  BY <1>1, <2>1, <2>2, <2>3, <2>4, OffStays
<1> QED  BY <1>2, <1>3, <1>4
   DEF LoopFails, MarkFaulted, BeginTeardown, Superseded, NothingHeld

LEMMA TerminalFailureOff ==
    ASSUME IInv, Off, NEW g \in Gens, TerminalFailure(g)
    PROVE  Off'
<1>1. Consumer(g) \in Flows /\ flow \in [Flows -> FlowStates]
  BY Names DEF IInv, TypeOK
<1>a. flow[Consumer(g)].at = "idle"
  BY <1>1, Names, Values, NextGeneration
     DEF IInv, TypeOK, Fresh, LoopIdle, TerminalFailure
<1>2. CASE NothingHeld
  <2>1. Puts(Consumer(g), "idle", None, None, None, None)
    BY <1>a, <1>1, <1>2, PutsIdle
       DEF TerminalFailure, BeginTeardown, Superseded, NothingHeld
  <2>2. HubKept(Consumer(g), "idle", None, None)
    BY <1>a, <1>1, <1>2, Names
       DEF HubKept, Detaches, Off, OffFree, IInv, SlotsFree, TerminalFailure,
           BeginTeardown, Superseded, NothingHeld, policy, history, slots, built,
           attached
  <2>3. OffFree'
    BY <1>a, <1>2, Names
       DEF OffFree, Off, Superseded, NothingHeld, TerminalFailure, BeginTeardown,
           policy, history, slots, built, attached
  <2>4. StateKept(Consumer(g), "idle")
    BY <1>a, <1>1, <1>2, Names
       DEF StateKept, Off, StateOwned, FinalState, Targets, Superseded,
           TerminalFailure, BeginTeardown, NothingHeld, policy, history, slots,
           built, attached
  <2> QED  BY <1>1, <2>1, <2>2, <2>3, <2>4, OffStays
<1>3. CASE ~NothingHeld
  <2>1. Puts(Consumer(g), "tearing", loop, src, stt, None)
    BY <1>a, <1>1, <1>3, PutsTearing
       DEF TerminalFailure, BeginTeardown, Superseded, NothingHeld
  <2>2. HubKept(Consumer(g), "tearing", stt, None)
    BY <1>a, <1>1, <1>3, Names
       DEF HubKept, Detaches, Off, OffFree, IInv, SlotsFree, TerminalFailure,
           BeginTeardown, Superseded, NothingHeld, policy, history, slots, built,
           attached
  <2>3. OffFree'
    BY <1>a, <1>3, Names
       DEF OffFree, Off, Superseded, NothingHeld, TerminalFailure, BeginTeardown,
           policy, history, slots, built, attached
  <2>4. StateKept(Consumer(g), "tearing")
    BY <1>a, <1>1, <1>3, Names
       DEF StateKept, Off, StateOwned, FinalState, Targets, Superseded,
           TerminalFailure, BeginTeardown, NothingHeld, policy, history, slots,
           built, attached
  <2> QED  BY <1>1, <2>1, <2>2, <2>3, <2>4, OffStays
<1> QED  BY <1>2, <1>3 DEF TerminalFailure, BeginTeardown, Superseded, NothingHeld

LEMMA TearingStoppedOff ==
    ASSUME IInv, Off, NEW f \in Flows, TearingStopped(f)
    PROVE  Off'
<1>1. f \in Flows /\ flow \in [Flows -> FlowStates]
  BY Names DEF IInv, TypeOK
<1>2. CASE hub = flow[f].stt
  <2>1. Puts(f, "closing", None, None, flow[f].stt, hub)
    BY <1>1, <1>2, PutsClosing DEF TearingStopped
  <2>2. HubKept(f, "closing", flow[f].stt, hub)
    BY <1>1, <1>2, Names
       DEF HubKept, Detaches, Off, OffFree, IInv, SlotsFree, TearingStopped,
           policy, history, slots, built, attached
  <2>3. OffFree'
    BY <1>2, Names
       DEF OffFree, Off, Superseded, NothingHeld, TearingStopped, policy, history,
           slots, built, attached
  <2>4. StateKept(f, "closing")
    BY <1>1, <1>2, Names
       DEF StateKept, Off, StateOwned, FinalState, Targets, Superseded,
           TearingStopped, policy, history, slots, built, attached
  <2> QED  BY <1>1, <2>1, <2>2, <2>3, <2>4, OffStays
<1>3. CASE hub # flow[f].stt
  <2>1. Puts(f, "closing", None, None, flow[f].stt, None)
    BY <1>1, <1>3, PutsClosing DEF TearingStopped
  <2>2. HubKept(f, "closing", flow[f].stt, None)
    BY <1>1, <1>3, Names
       DEF HubKept, Detaches, Off, OffFree, IInv, SlotsFree, TearingStopped,
           policy, history, slots, built, attached
  <2>3. OffFree'
    BY <1>3, Names
       DEF OffFree, Off, Superseded, NothingHeld, TearingStopped, policy, history,
           slots, built, attached
  <2>4. StateKept(f, "closing")
    BY <1>1, <1>3, Names
       DEF StateKept, Off, StateOwned, FinalState, Targets, Superseded,
           TearingStopped, policy, history, slots, built, attached
  <2> QED  BY <1>1, <2>1, <2>2, <2>3, <2>4, OffStays
<1> QED  BY <1>2, <1>3 DEF TearingStopped

LEMMA TearingEndsOff ==
    ASSUME IInv, Off, NEW f \in Flows, TearingEnds(f)
    PROVE  Off'
<1>1. f \in Flows /\ flow \in [Flows -> FlowStates]
  BY Names DEF IInv, TypeOK
<1>a. flow[f].target \in Targets
  BY <1>1, Names, Values, NextGeneration
     DEF IInv, TypeOK, Fresh, LoopIdle, TearingEnds
<1>2. Puts(f, "idle", None, None, None, None)
  BY <1>a, <1>1, PutsIdle DEF TearingEnds
<1>3. HubKept(f, "idle", None, None)
  BY <1>a, <1>1, Names
     DEF HubKept, Detaches, Off, OffFree, IInv, SlotsFree, TearingEnds, policy,
         history, slots, built, attached
<1>4. OffFree'
  BY <1>a, Names
     DEF OffFree, Off, Superseded, NothingHeld, TearingEnds, policy, history,
         slots, built, attached
<1>5. StateKept(f, "idle")
  BY <1>a, <1>1, Names
     DEF StateKept, Off, StateOwned, FinalState, Targets, Superseded, TearingEnds,
         policy, history, slots, built, attached
<1> QED  BY <1>1, <1>2, <1>3, <1>4, <1>5, OffStays

LEMMA InitOff == Init => Off
BY DEF Init, Off, HubOwned, OffFree, StateOwned, NothingHeld

LEMMA NextOff == IInv /\ Off /\ [Next]_vars => Off'
<1> SUFFICES ASSUME IInv, Off, [Next]_vars PROVE Off'
  OBVIOUS
<1>1. CASE UNCHANGED <<desired, state, stt, src, loop, hub, flow>>
  BY <1>1 DEF Off, HubOwned, Detaches, OffFree, StateOwned, NothingHeld
<1>2. CASE UNCHANGED vars
  BY <1>1, <1>2 DEF vars, policy, slots, attached
<1>3. ASSUME NEW c \in Configs, ApplySame(c) \/ ApplyOn(c) PROVE Off'
  BY <1>1, <1>3, ApplyOnOff DEF ApplySame, slots, attached
<1>4. CASE ApplyOff
  BY <1>4, ApplyOffOff
<1>5. ASSUME NEW g \in Gens, Starts(g) PROVE Off'
  BY <1>5, FactoryReturnsOff, StaleSourceOff, TakeOverOff, OldStoppedOff,
     DetachedOff, AttachEndsOff, SourceUndoneOff, ProviderUndoneOff,
     SourceFailureClosedOff DEF Starts
<1>6. ASSUME NEW g \in Gens, Failures(g) PROVE Off'
  BY <1>6, FactoryFailsOff, SourceFailsOff, LoopFailsOff, TerminalFailureOff
     DEF Failures
<1>7. ASSUME NEW f \in Flows, TearingStopped(f) \/ TearingEnds(f) PROVE Off'
  BY <1>7, TearingStoppedOff, TearingEndsOff
<1> QED  BY <1>2, <1>3, <1>4, <1>5, <1>6, <1>7 DEF Next, Policies

\* A channel that is off never shows RUNNING, STARTING or FAULTED, and once nothing
\* is in progress no provider is in the hub and nothing captures, whatever overlapped.
THEOREM OffIsOff == Spec => []OffMeansOff
<1>1. IInv /\ Off => OffMeansOff
  <2> SUFFICES ASSUME IInv, Off, ~desired PROVE OffMeansOff
    BY DEF OffMeansOff
  <2>1. state \notin {"RUNNING", "STARTING"}
    BY DEF Off, StateOwned
  <2>2. ASSUME ~Working
        PROVE  /\ state = "STOPPED" /\ hub = None
               /\ \A g \in Gens : loopOf[g] # "running" /\ srcOf[g] # "open"
    <3>1. NothingHeld /\ \A f \in Flows : flow[f].at = "idle"
      BY <2>2 DEF Off, OffFree, Working
    <3>2. state = "STOPPED"
      BY <3>1 DEF Off, StateOwned, IInv, TypeOK, States
    <3>3. hub = None
      BY <3>1 DEF Off, HubOwned, Detaches, NothingHeld
    <3>4. \A f \in Flows : flow[f].loop = None /\ flow[f].src = None
      BY <3>1 DEF IInv, Holds
    <3> QED  BY <3>1, <3>2, <3>3, <3>4, Names
             DEF IInv, NoOrphanCapture, Cancelled, NothingHeld
  <2> QED  BY <2>1, <2>2 DEF OffMeansOff
<1> QED  BY <1>1, InvHolds, InitOff, InitHolds, NextOff, PTL DEF Spec


-----------------------------------------------------------------------------
(***************************************************************************)
(* Policies that wait for the work of the earlier ones.                    *)
(***************************************************************************)
\* What a behaviour has not closed: providers, sources and loops.
Left(providers, sources, loops) ==
    \A g \in Gens :
        /\ sttOf[g] = "live" => g \in providers
        /\ srcOf[g] = "open" => g \in sources
        /\ loopOf[g] = "running" => g \in loops

Holding(g) == stt = g /\ src = g /\ loop = g
InHub(g) == hub = g /\ heard = g
Took(f, g) == flow[f].stt = g /\ flow[f].src = g /\ flow[f].loop = g

\* At rest all of one generation is in use, the current one, or nothing is.
Rest ==
    /\ Holding(stt) /\ InHub(stt)
    /\ Left({stt}, {stt}, {stt})
    /\ stt = None => state # "RUNNING"
    /\ stt # None =>
          /\ stt = gen /\ desired /\ state = "RUNNING" /\ sig = wanted
          /\ sttOf[stt] = "live" /\ srcOf[stt] = "open" /\ loopOf[stt] = "running"

\* Otherwise one flow works, for the current generation ...
Alone(f) ==
    /\ f = Start(gen) \/ f = LoopTask(gen)
    /\ \A e \in Flows : e # f => flow[e].at = "idle"
    /\ flow[f].at \notin {"attach", "undo", "undetach"}
    /\ flow[f].at \in BeforeLoop => f = Start(gen) /\ desired /\ cfg[gen] = wanted

\* ... and each of its stages knows what is left of the generation before.
Building(f) ==
    /\ flow[f].at \in {"factory", "source", "failed"} =>
          Holding(stt) /\ InHub(stt) /\ stt # gen /\ Left({stt, gen}, {stt}, {stt})
    /\ flow[f].at = "factory" => sttOf[gen] # "live"
    /\ flow[f].at = "source" => sttOf[gen] = "live"

Stopping(f) ==
    flow[f].at = "stopping" =>
        /\ Holding(None) /\ Took(f, hub) /\ InHub(hub) /\ hub # gen
        /\ Left({hub, gen}, {hub, gen}, {hub})
        /\ sttOf[gen] = "live" /\ srcOf[gen] = "open"

Detaching(f) ==
    flow[f].at = "detach" =>
        /\ Holding(None) /\ flow[f].old = hub /\ heard = None /\ hub # gen
        /\ Left({hub, gen}, {gen}, {})
        /\ sttOf[gen] = "live" /\ srcOf[gen] = "open"

Tearing(f) ==
    flow[f].at = "tearing" =>
        /\ Holding(None) /\ Took(f, hub) /\ InHub(hub)
        /\ Left({hub}, {hub}, {hub})
        /\ f = Start(gen) => hub # gen
        /\ f = LoopTask(gen) => hub = gen

Closing(f) ==
    flow[f].at = "closing" =>
        /\ Holding(None) /\ heard = None /\ flow[f].stt = hub /\ flow[f].old = hub
        /\ Left({hub}, {}, {})

Doing(f) ==
    /\ Alone(f)
    /\ Building(f)
    /\ Stopping(f)
    /\ Detaching(f)
    /\ Tearing(f)
    /\ Closing(f)

Serial ==
    ~overlapped =>
        /\ ~Working => Rest
        /\ \A f \in Flows : flow[f].at # "idle" => Doing(f)

\* The flow that works alone goes on, or comes to rest.
LEMMA SerialStays ==
    ASSUME NEW f \in Flows, \A e \in Flows : e # f => flow[e].at = "idle",
           NEW a, NEW l, NEW s, NEW p, NEW o, Puts(f, a, l, s, p, o),
           a = "idle" => Rest', a # "idle" => Doing(f)'
    PROVE  Serial'
<1>1. \A e \in Flows : flow'[e].at # "idle" => e = f /\ a # "idle"
  BY DEF Puts
<1>2. ASSUME ~Working' PROVE Rest'
  BY <1>2 DEF Working, Puts
<1>3. ASSUME NEW e \in Flows, flow'[e].at # "idle" PROVE Doing(e)'
  BY <1>1, <1>3
<1> QED  BY <1>2, <1>3 DEF Serial

\* In a behaviour whose policies waited, whoever works does so for the current
\* generation, which is not superseded while it starts.
LEMMA WorksAlone ==
    ASSUME Serial, ~overlapped, NEW g \in Gens, flow[Start(g)].at # "idle"
    PROVE  /\ g = gen /\ Doing(Start(g))
           /\ \A e \in Flows : e # Start(g) => flow[e].at = "idle"
           /\ flow[Start(g)].at \notin {"attach", "undo", "undetach"}
           /\ flow[Start(g)].at \in BeforeLoop => ~Superseded(g)
BY Names DEF Serial, Doing, Alone, Superseded


LEMMA FactoryReturnsSerial ==
    ASSUME IInv, Serial, NEW g \in Gens, FactoryReturns(g)
    PROVE  Serial'
<1> SUFFICES ASSUME ~overlapped PROVE Serial'
  BY DEF Serial, FactoryReturns, Finish, policy, history, slots, built, attached
<1>1. Start(g) \in Flows /\ flow \in [Flows -> FlowStates] /\ flow[Start(g)].at # "idle"
  BY Names DEF IInv, TypeOK, FactoryReturns
<1>2. /\ g = gen /\ Doing(Start(g)) /\ \A e \in Flows : e # Start(g) => flow[e].at = "idle"
      /\ flow[Start(g)].at \notin {"attach", "undo", "undetach"}
      /\ flow[Start(g)].at \in BeforeLoop => ~Superseded(g)
  BY <1>1, WorksAlone
<1>3. CASE Superseded(g)
  BY <1>1, <1>2, <1>3, Names
     DEF FactoryReturns, Doing, Building, Stopping, Detaching, Holding, InHub,
         Took, BeforeLoop, HubEmpty
<1>4. CASE ~Superseded(g)
  <2>1. Puts(Start(g), "source", None, None, None, None)
    BY <1>1, <1>4, PutsAt DEF FactoryReturns, Finish
  <2>2. Doing(Start(g))'
    BY <1>1, <1>2, <1>4, <2>1, Names
       DEF Puts, IInv, TypeOK, Doing, Alone, Building, Stopping, Detaching,
           Tearing, Closing, BeforeLoop, Left, Holding, InHub, Took,
           FactoryReturns, Finish, policy, history, slots, built, attached, Close,
           Ended, Superseded, HubEmpty
  <2> QED  BY <1>1, <1>2, <2>1, <2>2, SerialStays
<1> QED  BY <1>3, <1>4 DEF FactoryReturns, HubEmpty

LEMMA StaleSourceSerial ==
    ASSUME IInv, Serial, NEW g \in Gens, StaleSource(g)
    PROVE  Serial'
<1> SUFFICES ASSUME ~overlapped PROVE Serial'
  BY DEF Serial, StaleSource, Finish, policy, history, slots, built, attached
<1>1. Start(g) \in Flows /\ flow \in [Flows -> FlowStates] /\ flow[Start(g)].at # "idle"
  BY Names DEF IInv, TypeOK, StaleSource
<1>2. /\ g = gen /\ Doing(Start(g)) /\ \A e \in Flows : e # Start(g) => flow[e].at = "idle"
      /\ flow[Start(g)].at \notin {"attach", "undo", "undetach"}
      /\ flow[Start(g)].at \in BeforeLoop => ~Superseded(g)
  BY <1>1, WorksAlone
<1> QED  BY <1>1, <1>2 DEF StaleSource, BeforeLoop

LEMMA TakeOverSerial ==
    ASSUME IInv, Serial, NEW g \in Gens, TakeOver(g)
    PROVE  Serial'
<1> SUFFICES ASSUME ~overlapped PROVE Serial'
  BY DEF Serial, TakeOver, Attached, Finish, BeginReplace, TakeSlots, HubEmpty,
     Superseded, policy, history, slots, built, attached
<1>1. Start(g) \in Flows /\ flow \in [Flows -> FlowStates] /\ flow[Start(g)].at # "idle"
  BY Names DEF IInv, TypeOK, TakeOver
<1>2. /\ g = gen /\ Doing(Start(g)) /\ \A e \in Flows : e # Start(g) => flow[e].at = "idle"
      /\ flow[Start(g)].at \notin {"attach", "undo", "undetach"}
      /\ flow[Start(g)].at \in BeforeLoop => ~Superseded(g)
  BY <1>1, WorksAlone
<1>3. CASE loop # None \/ src # None
  <2>1. Puts(Start(g), "stopping", loop, src, stt, None)
    BY <1>1, <1>3, PutsStopping
       DEF TakeOver, Attached, Finish, BeginReplace, TakeSlots, HubEmpty,
           Superseded
  <2>2. Doing(Start(g))'
    BY <1>1, <1>2, <1>3, <2>1, Names
       DEF Puts, IInv, TypeOK, Doing, Alone, Building, Stopping, Detaching,
           Tearing, Closing, BeforeLoop, Left, Holding, InHub, Took, TakeOver,
           Attached, Finish, BeginReplace, TakeSlots, HubEmpty, Superseded, policy,
           history, slots, built, attached, Close, Ended
  <2> QED  BY <1>1, <1>2, <2>1, <2>2, SerialStays
<1>4. CASE loop = None /\ src = None /\ ~HubEmpty /\ stt # None
  BY <1>1, <1>2, <1>4, Names
     DEF TakeOver, Doing, Building, Stopping, Detaching, Holding, InHub, Took,
         BeforeLoop, HubEmpty
<1>5. CASE loop = None /\ src = None /\ ~HubEmpty /\ stt = None
  BY <1>1, <1>2, <1>5, Names
     DEF TakeOver, Doing, Building, Stopping, Detaching, Holding, InHub, Took,
         BeforeLoop, HubEmpty
<1>6. CASE loop = None /\ src = None /\ HubEmpty
  <2>1. Puts(Start(g), "idle", None, None, None, None)
    BY <1>1, <1>6, PutsIdle
       DEF TakeOver, Attached, Finish, BeginReplace, TakeSlots, HubEmpty,
           Superseded
  <2>2. Rest'
    BY <1>1, <1>2, <1>6, Names
       DEF Rest, IInv, TypeOK, Doing, Alone, Building, Stopping, Detaching,
           Tearing, Closing, BeforeLoop, Left, Holding, InHub, Took, TakeOver,
           Attached, Finish, BeginReplace, TakeSlots, HubEmpty, Superseded, policy,
           history, slots, built, attached, Close, Ended, FinalState
  <2> QED  BY <1>1, <1>2, <2>1, <2>2, SerialStays
<1> QED  BY <1>3, <1>4, <1>5, <1>6 DEF TakeOver, HubEmpty

LEMMA OldStoppedSerial ==
    ASSUME IInv, Serial, NEW g \in Gens, OldStopped(g)
    PROVE  Serial'
<1> SUFFICES ASSUME ~overlapped PROVE Serial'
  BY DEF Serial, OldStopped, Attached, Finish, BeginReplace, HubEmpty, Superseded,
     policy, history, slots, built, attached
<1>1. Start(g) \in Flows /\ flow \in [Flows -> FlowStates] /\ flow[Start(g)].at # "idle"
  BY Names DEF IInv, TypeOK, OldStopped
<1>2. /\ g = gen /\ Doing(Start(g)) /\ \A e \in Flows : e # Start(g) => flow[e].at = "idle"
      /\ flow[Start(g)].at \notin {"attach", "undo", "undetach"}
      /\ flow[Start(g)].at \in BeforeLoop => ~Superseded(g)
  BY <1>1, WorksAlone
<1>3. CASE HubEmpty /\ Superseded(g)
  BY <1>1, <1>2, <1>3, Names
     DEF OldStopped, Doing, Building, Stopping, Detaching, Holding, InHub, Took,
         BeforeLoop, HubEmpty
<1>4. CASE HubEmpty /\ ~Superseded(g)
  <2>1. Puts(Start(g), "idle", None, None, None, None)
    BY <1>1, <1>4, PutsIdle
       DEF OldStopped, Attached, Finish, BeginReplace, HubEmpty, Superseded
  <2>2. Rest'
    BY <1>1, <1>2, <1>4, Names
       DEF Rest, IInv, TypeOK, Doing, Alone, Building, Stopping, Detaching,
           Tearing, Closing, BeforeLoop, Left, Holding, InHub, Took, OldStopped,
           Attached, Finish, BeginReplace, HubEmpty, Superseded, policy, history,
           slots, built, attached, Close, Ended, FinalState
  <2> QED  BY <1>1, <1>2, <2>1, <2>2, SerialStays
<1>5. CASE ~HubEmpty /\ flow[Start(g)].stt # None
  <2>1. Puts(Start(g), "detach", None, None, None, hub)
    BY <1>1, <1>5, PutsReplacing
       DEF OldStopped, Attached, Finish, BeginReplace, HubEmpty, Superseded
  <2>2. Doing(Start(g))'
    BY <1>1, <1>2, <1>5, <2>1, Names
       DEF Puts, IInv, TypeOK, Doing, Alone, Building, Stopping, Detaching,
           Tearing, Closing, BeforeLoop, Left, Holding, InHub, Took, OldStopped,
           Attached, Finish, BeginReplace, HubEmpty, Superseded, policy, history,
           slots, built, attached, Close, Ended
  <2> QED  BY <1>1, <1>2, <2>1, <2>2, SerialStays
<1>6. CASE ~HubEmpty /\ flow[Start(g)].stt = None
  BY <1>1, <1>2, <1>6, Names
     DEF OldStopped, Doing, Building, Stopping, Detaching, Holding, InHub, Took,
         BeforeLoop, HubEmpty
<1> QED  BY <1>3, <1>4, <1>5, <1>6 DEF OldStopped, HubEmpty

LEMMA DetachedSerial ==
    ASSUME IInv, Serial, NEW g \in Gens, Detached(g)
    PROVE  Serial'
<1> SUFFICES ASSUME ~overlapped PROVE Serial'
  BY DEF Serial, Detached, Attached, Finish, Superseded, policy, history, slots,
     built, attached
<1>1. Start(g) \in Flows /\ flow \in [Flows -> FlowStates] /\ flow[Start(g)].at # "idle"
  BY Names DEF IInv, TypeOK, Detached
<1>2. /\ g = gen /\ Doing(Start(g)) /\ \A e \in Flows : e # Start(g) => flow[e].at = "idle"
      /\ flow[Start(g)].at \notin {"attach", "undo", "undetach"}
      /\ flow[Start(g)].at \in BeforeLoop => ~Superseded(g)
  BY <1>1, WorksAlone
<1>3. CASE heard # None
  BY <1>1, <1>2, <1>3, Names
     DEF Detached, Doing, Building, Stopping, Detaching, Holding, InHub, Took,
         BeforeLoop, HubEmpty
<1>4. CASE heard = None /\ Superseded(g)
  BY <1>1, <1>2, <1>4, Names
     DEF Detached, Doing, Building, Stopping, Detaching, Holding, InHub, Took,
         BeforeLoop, HubEmpty
<1>5. CASE heard = None /\ ~Superseded(g)
  <2>1. Puts(Start(g), "idle", None, None, None, None)
    BY <1>1, <1>5, PutsIdle DEF Detached, Attached, Finish, Superseded
  <2>2. Rest'
    BY <1>1, <1>2, <1>5, Names
       DEF Rest, IInv, TypeOK, Doing, Alone, Building, Stopping, Detaching,
           Tearing, Closing, BeforeLoop, Left, Holding, InHub, Took, Detached,
           Attached, Finish, Superseded, policy, history, slots, built, attached,
           Close, Ended, FinalState
  <2> QED  BY <1>1, <1>2, <2>1, <2>2, SerialStays
<1> QED  BY <1>3, <1>4, <1>5 DEF Detached, HubEmpty

LEMMA AttachEndsSerial ==
    ASSUME IInv, Serial, NEW g \in Gens, AttachEnds(g)
    PROVE  Serial'
<1> SUFFICES ASSUME ~overlapped PROVE Serial'
  BY DEF Serial, AttachEnds, Attached, Finish, Superseded, policy, history, slots,
     built, attached
<1>1. Start(g) \in Flows /\ flow \in [Flows -> FlowStates] /\ flow[Start(g)].at # "idle"
  BY Names DEF IInv, TypeOK, AttachEnds
<1>2. /\ g = gen /\ Doing(Start(g)) /\ \A e \in Flows : e # Start(g) => flow[e].at = "idle"
      /\ flow[Start(g)].at \notin {"attach", "undo", "undetach"}
      /\ flow[Start(g)].at \in BeforeLoop => ~Superseded(g)
  BY <1>1, WorksAlone
<1> QED  BY <1>1, <1>2 DEF AttachEnds

LEMMA SourceUndoneSerial ==
    ASSUME IInv, Serial, NEW g \in Gens, SourceUndone(g)
    PROVE  Serial'
<1> SUFFICES ASSUME ~overlapped PROVE Serial'
  BY DEF Serial, SourceUndone, BeginReplace, Finish, policy, history, slots, built,
     attached
<1>1. Start(g) \in Flows /\ flow \in [Flows -> FlowStates] /\ flow[Start(g)].at # "idle"
  BY Names DEF IInv, TypeOK, SourceUndone
<1>2. /\ g = gen /\ Doing(Start(g)) /\ \A e \in Flows : e # Start(g) => flow[e].at = "idle"
      /\ flow[Start(g)].at \notin {"attach", "undo", "undetach"}
      /\ flow[Start(g)].at \in BeforeLoop => ~Superseded(g)
  BY <1>1, WorksAlone
<1> QED  BY <1>1, <1>2 DEF SourceUndone

LEMMA ProviderUndoneSerial ==
    ASSUME IInv, Serial, NEW g \in Gens, ProviderUndone(g)
    PROVE  Serial'
<1> SUFFICES ASSUME ~overlapped PROVE Serial'
  BY DEF Serial, ProviderUndone, Finish, policy, history, slots, built, attached
<1>1. Start(g) \in Flows /\ flow \in [Flows -> FlowStates] /\ flow[Start(g)].at # "idle"
  BY Names DEF IInv, TypeOK, ProviderUndone
<1>2. /\ g = gen /\ Doing(Start(g)) /\ \A e \in Flows : e # Start(g) => flow[e].at = "idle"
      /\ flow[Start(g)].at \notin {"attach", "undo", "undetach"}
      /\ flow[Start(g)].at \in BeforeLoop => ~Superseded(g)
  BY <1>1, WorksAlone
<1> QED  BY <1>1, <1>2 DEF ProviderUndone, BeforeLoop

LEMMA SourceFailureClosedSerial ==
    ASSUME IInv, Serial, NEW g \in Gens, SourceFailureClosed(g)
    PROVE  Serial'
<1> SUFFICES ASSUME ~overlapped PROVE Serial'
  BY DEF Serial, SourceFailureClosed, MarkFaulted, BeginTeardown, Superseded,
     NothingHeld, policy, history, slots, built, attached
<1>1. Start(g) \in Flows /\ flow \in [Flows -> FlowStates] /\ flow[Start(g)].at # "idle"
  BY Names DEF IInv, TypeOK, SourceFailureClosed
<1>2. /\ g = gen /\ Doing(Start(g)) /\ \A e \in Flows : e # Start(g) => flow[e].at = "idle"
      /\ flow[Start(g)].at \notin {"attach", "undo", "undetach"}
      /\ flow[Start(g)].at \in BeforeLoop => ~Superseded(g)
  BY <1>1, WorksAlone
<1>3. CASE Superseded(g)
  BY <1>1, <1>2, <1>3, Names
     DEF SourceFailureClosed, Doing, Building, Stopping, Detaching, Holding, InHub,
         Took, BeforeLoop, HubEmpty
<1>4. CASE ~Superseded(g) /\ NothingHeld
  <2>1. Puts(Start(g), "idle", None, None, None, None)
    BY <1>1, <1>4, PutsIdle
       DEF SourceFailureClosed, MarkFaulted, BeginTeardown, Superseded, NothingHeld
  <2>2. Rest'
    BY <1>1, <1>2, <1>4, Names
       DEF Rest, IInv, TypeOK, Doing, Alone, Building, Stopping, Detaching,
           Tearing, Closing, BeforeLoop, Left, Holding, InHub, Took,
           SourceFailureClosed, MarkFaulted, BeginTeardown, Superseded,
           NothingHeld, policy, history, slots, built, attached, Close, Ended,
           FinalState
  <2> QED  BY <1>1, <1>2, <2>1, <2>2, SerialStays
<1>5. CASE ~Superseded(g) /\ ~NothingHeld
  <2>1. Puts(Start(g), "tearing", loop, src, stt, None)
    BY <1>1, <1>5, PutsTearing
       DEF SourceFailureClosed, MarkFaulted, BeginTeardown, Superseded, NothingHeld
  <2>2. Doing(Start(g))'
    BY <1>1, <1>2, <1>5, <2>1, Names
       DEF Puts, IInv, TypeOK, Doing, Alone, Building, Stopping, Detaching,
           Tearing, Closing, BeforeLoop, Left, Holding, InHub, Took,
           SourceFailureClosed, MarkFaulted, BeginTeardown, Superseded,
           NothingHeld, policy, history, slots, built, attached, Close, Ended,
           HubEmpty
  <2> QED  BY <1>1, <1>2, <2>1, <2>2, SerialStays
<1> QED  BY <1>3, <1>4, <1>5 DEF SourceFailureClosed, HubEmpty

LEMMA FactoryFailsSerial ==
    ASSUME IInv, Serial, NEW g \in Gens, FactoryFails(g)
    PROVE  Serial'
<1> SUFFICES ASSUME ~overlapped PROVE Serial'
  BY DEF Serial, FactoryFails, MarkFaulted, BeginTeardown, Superseded, NothingHeld,
     policy, history, slots, built, attached
<1>1. Start(g) \in Flows /\ flow \in [Flows -> FlowStates] /\ flow[Start(g)].at # "idle"
  BY Names DEF IInv, TypeOK, FactoryFails
<1>2. /\ g = gen /\ Doing(Start(g)) /\ \A e \in Flows : e # Start(g) => flow[e].at = "idle"
      /\ flow[Start(g)].at \notin {"attach", "undo", "undetach"}
      /\ flow[Start(g)].at \in BeforeLoop => ~Superseded(g)
  BY <1>1, WorksAlone
<1>3. CASE Superseded(g)
  BY <1>1, <1>2, <1>3, Names
     DEF FactoryFails, Doing, Building, Stopping, Detaching, Holding, InHub, Took,
         BeforeLoop, HubEmpty
<1>4. CASE ~Superseded(g) /\ NothingHeld
  <2>1. Puts(Start(g), "idle", None, None, None, None)
    BY <1>1, <1>4, PutsIdle
       DEF FactoryFails, MarkFaulted, BeginTeardown, Superseded, NothingHeld
  <2>2. Rest'
    BY <1>1, <1>2, <1>4, Names
       DEF Rest, IInv, TypeOK, Doing, Alone, Building, Stopping, Detaching,
           Tearing, Closing, BeforeLoop, Left, Holding, InHub, Took, FactoryFails,
           MarkFaulted, BeginTeardown, Superseded, NothingHeld, policy, history,
           slots, built, attached, Close, Ended, FinalState
  <2> QED  BY <1>1, <1>2, <2>1, <2>2, SerialStays
<1>5. CASE ~Superseded(g) /\ ~NothingHeld
  <2>1. Puts(Start(g), "tearing", loop, src, stt, None)
    BY <1>1, <1>5, PutsTearing
       DEF FactoryFails, MarkFaulted, BeginTeardown, Superseded, NothingHeld
  <2>2. Doing(Start(g))'
    BY <1>1, <1>2, <1>5, <2>1, Names
       DEF Puts, IInv, TypeOK, Doing, Alone, Building, Stopping, Detaching,
           Tearing, Closing, BeforeLoop, Left, Holding, InHub, Took, FactoryFails,
           MarkFaulted, BeginTeardown, Superseded, NothingHeld, policy, history,
           slots, built, attached, Close, Ended, HubEmpty
  <2> QED  BY <1>1, <1>2, <2>1, <2>2, SerialStays
<1> QED  BY <1>3, <1>4, <1>5 DEF FactoryFails, HubEmpty

LEMMA SourceFailsSerial ==
    ASSUME IInv, Serial, NEW g \in Gens, SourceFails(g)
    PROVE  Serial'
<1> SUFFICES ASSUME ~overlapped PROVE Serial'
  BY DEF Serial, SourceFails, policy, history, slots, built, attached
<1>1. Start(g) \in Flows /\ flow \in [Flows -> FlowStates] /\ flow[Start(g)].at # "idle"
  BY Names DEF IInv, TypeOK, SourceFails
<1>2. /\ g = gen /\ Doing(Start(g)) /\ \A e \in Flows : e # Start(g) => flow[e].at = "idle"
      /\ flow[Start(g)].at \notin {"attach", "undo", "undetach"}
      /\ flow[Start(g)].at \in BeforeLoop => ~Superseded(g)
  BY <1>1, WorksAlone
<1>3. Puts(Start(g), "failed", None, None, None, None)
  BY <1>1, PutsAt DEF SourceFails
<1>4. Doing(Start(g))'
  BY <1>1, <1>2, <1>3, Names
     DEF Puts, Doing, Alone, Building, Stopping, Detaching, Tearing, Closing,
         BeforeLoop, Left, Holding, InHub, Took, SourceFails, policy, history,
         slots, built, attached
<1> QED  BY <1>1, <1>2, <1>3, <1>4, SerialStays

LEMMA ApplySameSerial ==
    ASSUME IInv, Serial, NEW c \in Configs, ApplySame(c)
    PROVE  Serial'
<1> SUFFICES ASSUME ~overlapped, ~Working, Rest PROVE Serial'
  BY DEF Serial, ApplySame, Remember
<1>1. Rest'
  BY DEF Rest, ApplySame, SameAlready, Remember, Left, Holding, InHub, slots,
     built, attached
<1> QED  BY <1>1 DEF Serial, Working, ApplySame

LEMMA ApplyOnSerial ==
    ASSUME IInv, Serial, NEW c \in Configs, ApplyOn(c)
    PROVE  Serial'
<1> SUFFICES ASSUME ~overlapped, ~Working, Rest PROVE Serial'
  BY DEF Serial, ApplyOn, NewGeneration, Remember
<1>0. gen + 1 \in Gens /\ gen # gen + 1 /\ gen + 1 # None
  BY NextGeneration, Names DEF IInv, TypeOK, ApplyOn, NewGeneration
<1> PICK f \in Flows : f = Start(gen + 1)
  BY <1>0, Names
<1>1. /\ gen + 1 \in Gens /\ gen # gen + 1 /\ gen + 1 # None
      /\ f \in Flows /\ flow \in [Flows -> FlowStates]
      /\ \A e \in Flows : flow[e].at = "idle"
  BY <1>0 DEF IInv, TypeOK, Working
<1>2. Puts(f, "factory", None, None, None, None)
  BY <1>1, PutsAt DEF ApplyOn
<1>3. gen' = gen + 1 /\ desired' /\ cfg'[gen + 1] = c /\ wanted' = c
  BY <1>1 DEF ApplyOn, NewGeneration, Remember, IInv, TypeOK
<1>4. Doing(f)'
  <2>1. Alone(f)'
    BY <1>1, <1>2, <1>3 DEF Alone, Puts, Start
  <2>2. Building(f)'
    BY <1>1, <1>2, <1>3 DEF Building, Puts, Rest, ApplyOn, slots, built, attached,
       Left, Holding, InHub
  <2> QED  BY <2>1, <2>2, <1>2
     DEF Doing, Stopping, Detaching, Tearing, Closing, Puts
<1> QED  BY <1>1, <1>2, <1>4, SerialStays

LEMMA ApplyOffSerial ==
    ASSUME IInv, Serial, ApplyOff
    PROVE  Serial'
<1> SUFFICES ASSUME ~overlapped, ~Working, Rest PROVE Serial'
  BY DEF Serial, ApplyOff, NewGeneration, Remember
<1>0. gen + 1 \in Gens /\ gen # gen + 1 /\ gen + 1 # None
  BY NextGeneration, Names DEF IInv, TypeOK, ApplyOff, NewGeneration
<1> PICK f \in Flows : f = Start(gen + 1)
  BY <1>0, Names
<1>1. /\ gen + 1 \in Gens /\ gen # gen + 1 /\ gen + 1 # None
      /\ f \in Flows /\ flow \in [Flows -> FlowStates]
      /\ \A e \in Flows : flow[e].at = "idle"
  BY <1>0 DEF IInv, TypeOK, Working
<1>2. gen' = gen + 1
  BY DEF ApplyOff, NewGeneration
<1>3. CASE NothingHeld
  <2>1. Puts(f, "idle", None, None, None, None)
    BY <1>1, <1>3, PutsIdle DEF ApplyOff, BeginTeardown, NothingHeld
  <2>2. Rest'
    BY <1>3
       DEF Rest, ApplyOff, BeginTeardown, FinalState, NothingHeld, Left, Holding,
       InHub, attached, built
  <2> QED  BY <1>1, <2>1, <2>2, SerialStays
<1>4. CASE ~NothingHeld
  <2>1. Puts(f, "tearing", loop, src, stt, None)
    BY <1>1, <1>4, PutsTearing DEF ApplyOff, BeginTeardown, NothingHeld
  <2>2. Alone(f)'
    BY <1>1, <1>2, <2>1 DEF Alone, Puts, Start, BeforeLoop
  <2>3. Tearing(f)'
    BY <1>1, <1>2, <1>4, <2>1, Names
       DEF Tearing, Rest, Puts, ApplyOff, BeginTeardown,
       NothingHeld, Left, Holding, InHub, Took, attached, built
  <2>4. Doing(f)'
    BY <2>1, <2>2, <2>3 DEF Doing, Building, Stopping, Detaching, Closing, Puts
  <2> QED  BY <1>1, <2>1, <2>4, SerialStays
<1> QED  BY <1>3, <1>4

\* The loop of an older generation ends: it was in nobody's way.
LEMMA OldLoopFailsSerial ==
    ASSUME IInv, Serial, NEW g \in Gens, LoopFails(g), Superseded(g)
    PROVE  Serial'
<1> SUFFICES ASSUME ~overlapped PROVE Serial'
  BY DEF Serial, LoopFails, policy, history
<1>1. /\ LoopTask(g) \in Flows /\ flow \in [Flows -> FlowStates]
      /\ flow[LoopTask(g)].at = "idle"
  BY Names DEF IInv, TypeOK, LoopFails, LoopIdle
<1>2. Puts(LoopTask(g), "idle", None, None, None, None)
  BY <1>1, PutsIdle DEF LoopFails, MarkFaulted
<1>3. \A h \in Gens : loopOf'[h] = "running" => loopOf[h] = "running"
  BY DEF LoopFails, IInv, TypeOK
<1>4. /\ UNCHANGED <<gen, desired, cfg, wanted, state, sig, stt, src, loop, hub, heard>>
      /\ UNCHANGED <<sttOf, srcOf>>
  BY DEF LoopFails, MarkFaulted, policy, history, slots, attached
<1>5. ASSUME ~Working' PROVE Rest'
  <2>1. ~Working
    BY <1>1, <1>2, <1>5 DEF Working, Puts
  <2>2. stt # None => loopOf'[stt] = "running"
    BY <2>1 DEF Serial, Rest, LoopFails, Superseded, IInv, TypeOK, Slots
  <2> QED  BY <1>3, <1>4, <2>1, <2>2 DEF Serial, Rest, Left, Holding, InHub
<1>6. ASSUME NEW f \in Flows, flow'[f].at # "idle" PROVE Doing(f)'
  <2>1. Doing(f) /\ flow'[f] = flow[f]
    BY <1>2, <1>6 DEF Serial, Puts
  <2>2. \A e \in Flows : e # f => flow'[e].at = "idle"
    BY <1>2, <2>1 DEF Doing, Alone, Puts
  <2>3. Alone(f)' /\ Building(f)' /\ Stopping(f)'
    BY <1>3, <1>4, <2>1, <2>2
       DEF Doing, Alone, Building, Stopping, Left, Holding, InHub,
       Took
  <2>4. Detaching(f)' /\ Tearing(f)' /\ Closing(f)'
    BY <1>3, <1>4, <2>1
       DEF Doing, Detaching, Tearing, Closing, Left, Holding, InHub, Took
  <2> QED  BY <2>3, <2>4 DEF Doing
<1> QED  BY <1>5, <1>6 DEF Serial

LEMMA LoopFailsSerial ==
    ASSUME IInv, Serial, NEW g \in Gens, LoopFails(g)
    PROVE  Serial'
<1> SUFFICES ASSUME ~overlapped, ~Superseded(g) PROVE Serial'
  BY OldLoopFailsSerial DEF Serial, LoopFails, policy, history
<1>1. /\ LoopTask(g) \in Flows /\ flow \in [Flows -> FlowStates]
      /\ flow[LoopTask(g)].at = "idle" /\ loopOf[g] = "running" /\ g = gen
  BY Names DEF IInv, TypeOK, LoopFails, LoopIdle, Superseded
<1>2. ~Working
  <2> SUFFICES ASSUME NEW f \in Flows, flow[f].at # "idle" PROVE FALSE
    BY DEF Working
  <2>1. Doing(f) /\ f = Start(gen) /\ flow[f].at \notin BeforeLoop
    BY <1>1 DEF Serial, Doing, Alone, IInv, StartStages
  <2> QED  BY <1>1, <2>1, Names
     DEF Doing, Tearing, Closing, Left, Alone, BeforeLoop,
           IInv, TypeOK, FlowStates, Stages
<1>3. Rest /\ \A e \in Flows : flow[e].at = "idle"
  BY <1>2 DEF Serial, Working
<1>4. stt = g /\ ~NothingHeld
  BY <1>1, <1>3, Names DEF Rest, Left, NothingHeld
<1>5. Puts(LoopTask(g), "tearing", loop, src, stt, None)
  BY <1>1, <1>4, PutsTearing DEF LoopFails, MarkFaulted, BeginTeardown, NothingHeld
<1>6. Alone(LoopTask(g))'
  BY <1>1, <1>3, <1>5 DEF Alone, Puts, BeforeLoop, LoopFails, policy
<1>7. Tearing(LoopTask(g))'
  BY <1>1, <1>3, <1>4, <1>5, Names DEF Tearing, Rest, Puts, LoopFails, MarkFaulted,
     BeginTeardown, Left, Holding, InHub, Took, attached, policy, IInv, TypeOK
<1>8. Doing(LoopTask(g))'
  BY <1>5, <1>6, <1>7 DEF Doing, Building, Stopping, Detaching, Closing, Puts
<1> QED  BY <1>1, <1>3, <1>5, <1>8, SerialStays

\* The provider of a channel whose loop has failed fails as well.
LEMMA TerminalFailureSerial ==
    ASSUME IInv, Serial, NEW g \in Gens, TerminalFailure(g)
    PROVE  Serial'
<1> SUFFICES ASSUME ~overlapped PROVE Serial'
  BY DEF Serial, TerminalFailure, policy, history
<1>1. g = gen /\ heard = g /\ g # None /\ (state # "RUNNING" \/ stt = None)
  BY Names DEF TerminalFailure, Superseded
<1>2. PICK f \in Flows : flow[f].at # "idle" /\ Doing(f)
  BY <1>1 DEF Serial, Working, Rest, InHub
<1>3. flow[f].at = "tearing" /\ f # Consumer(g)
  BY <1>1, <1>2, Names
     DEF Doing, Alone, Building, Stopping, Detaching, Closing, InHub,
     IInv, TypeOK, FlowStates, Stages
<1>4. NothingHeld
  BY <1>2, <1>3 DEF Doing, Tearing, Holding, NothingHeld
<1>5. flow' = flow
  BY <1>4, Names DEF TerminalFailure, BeginTeardown, IInv, TypeOK
<1>6. /\ UNCHANGED <<gen, desired, cfg, wanted, stt, src, loop, hub, heard>>
      /\ UNCHANGED <<sttOf, srcOf, loopOf>>
  BY <1>4
     DEF TerminalFailure, BeginTeardown, NothingHeld, policy, history, attached,
         built
<1>7. Doing(f)' /\ \A e \in Flows : e # f => flow[e].at = "idle"
  <2>1. Alone(f)' /\ Tearing(f)'
    BY <1>2, <1>5, <1>6 DEF Doing, Alone, Tearing, Left, Holding, InHub, Took
  <2> QED  BY <1>2, <1>3, <1>5, <2>1
     DEF Doing, Alone, Building, Stopping, Detaching, Closing
<1> QED  BY <1>2, <1>3, <1>5, <1>7 DEF Serial, Working

LEMMA TearingStoppedSerial ==
    ASSUME IInv, Serial, NEW f \in Flows, TearingStopped(f)
    PROVE  Serial'
<1> SUFFICES ASSUME ~overlapped PROVE Serial'
  BY DEF Serial, TearingStopped, policy, history
<1>1. flow[f].at = "tearing" /\ Doing(f) /\ flow \in [Flows -> FlowStates]
  BY DEF Serial, TearingStopped, IInv, TypeOK
<1>2. Alone(f) /\ Holding(None) /\ Took(f, hub) /\ InHub(hub) /\ Left({hub}, {hub}, {hub})
  BY <1>1 DEF Doing, Tearing
<1>3. Puts(f, "closing", None, None, hub, hub)
  <2>1. Puts(f, "closing", None, None, flow[f].stt, IF hub = flow[f].stt THEN hub ELSE None)
    BY <1>1, PutsClosing DEF TearingStopped
  <2> QED  BY <2>1, <1>2 DEF Took
<1>4. Alone(f)'
  BY <1>2, <1>3 DEF Alone, Puts, BeforeLoop, TearingStopped, policy
<1>5. \A g \in Gens : srcOf'[g] # "open"
  BY <1>2, Names DEF TearingStopped, Close, Left, Took, IInv, TypeOK
<1>6. \A g \in Gens : loopOf'[g] # "running"
  <2> SUFFICES ASSUME NEW g \in Gens, loopOf'[g] = "running" PROVE FALSE
    OBVIOUS
  <2>1. CASE f = LoopTask(flow[f].loop)
    BY <1>1, <1>2, <2>1 DEF TearingStopped, Left, Took, IInv, LoopIdle
  <2>2. CASE f # LoopTask(flow[f].loop)
    BY <1>2, <2>2, Names DEF TearingStopped, Ended, Left, Took, IInv, TypeOK
  <2> QED  BY <2>1, <2>2
<1>7. Closing(f)'
  BY <1>2, <1>3, <1>5, <1>6
     DEF Closing, Puts, TearingStopped, Left, Holding, Took, slots
<1>8. Doing(f)'
  BY <1>3, <1>4, <1>7 DEF Doing, Building, Stopping, Detaching, Tearing, Puts
<1> QED  BY <1>2, <1>3, <1>8, SerialStays DEF Alone

LEMMA TearingEndsSerial ==
    ASSUME IInv, Serial, NEW f \in Flows, TearingEnds(f)
    PROVE  Serial'
<1> SUFFICES ASSUME ~overlapped PROVE Serial'
  BY DEF Serial, TearingEnds, policy, history
<1>1. flow[f].at = "closing" /\ Doing(f) /\ flow \in [Flows -> FlowStates]
  BY DEF Serial, TearingEnds, IInv, TypeOK
<1>2. /\ Alone(f) /\ Holding(None) /\ heard = None
      /\ flow[f].stt = hub /\ flow[f].old = hub /\ Left({hub}, {}, {})
  BY <1>1 DEF Doing, Closing
<1>3. Puts(f, "idle", None, None, None, None)
  BY <1>1, PutsIdle DEF TearingEnds
<1>4. state' # "RUNNING"
  BY <1>1, Values DEF TearingEnds, FinalState, Targets
<1>5. \A g \in Gens : sttOf'[g] # "live" /\ srcOf'[g] # "open" /\ loopOf'[g] # "running"
  BY <1>2, Names DEF TearingEnds, Close, Left, IInv, TypeOK
<1>6. Rest'
  BY <1>2, <1>4, <1>5 DEF Rest, TearingEnds, Left, Holding, InHub, slots
<1> QED  BY <1>2, <1>3, <1>6, SerialStays DEF Alone

LEMMA InitSerial == Init => Serial
<1> SUFFICES ASSUME Init PROVE Serial
  OBVIOUS
<1>1. Rest
  BY DEF Init, Rest, Left, Holding, InHub
<1> QED  BY <1>1, Values DEF Init, Serial

LEMMA NextSerial == IInv /\ Serial /\ [Next]_vars => Serial'
<1> SUFFICES ASSUME IInv, Serial, [Next]_vars PROVE Serial'
  OBVIOUS
<1>1. CASE UNCHANGED vars
  BY <1>1
     DEF vars, policy, history, slots, attached, built, Serial, Working, Rest,
         Doing,
     Alone, Building, Stopping, Detaching, Tearing, Closing, Left, Holding, InHub, Took
<1>2. ASSUME NEW c \in Configs, ApplySame(c) \/ ApplyOn(c) PROVE Serial'
  BY <1>2, ApplySameSerial, ApplyOnSerial
<1>3. CASE ApplyOff
  BY <1>3, ApplyOffSerial
<1>4. ASSUME NEW g \in Gens, Starts(g) PROVE Serial'
  BY <1>4, FactoryReturnsSerial, StaleSourceSerial, TakeOverSerial,
     OldStoppedSerial,
     DetachedSerial, AttachEndsSerial, SourceUndoneSerial, ProviderUndoneSerial,
     SourceFailureClosedSerial DEF Starts
<1>5. ASSUME NEW g \in Gens, Failures(g) PROVE Serial'
  BY <1>5, FactoryFailsSerial, SourceFailsSerial, LoopFailsSerial,
     TerminalFailureSerial
     DEF Failures
<1>6. ASSUME NEW f \in Flows, TearingStopped(f) \/ TearingEnds(f) PROVE Serial'
  BY <1>6, TearingStoppedSerial, TearingEndsSerial
<1> QED  BY <1>1, <1>2, <1>3, <1>4, <1>5, <1>6 DEF Next, Policies

\* As long as every policy waited for the work of the earlier ones, a channel at rest
\* that shows RUNNING has a loop that runs over an open source with the live provider
\* the hub listens to, under the configuration asked for last, and no provider, source
\* or loop of another generation is left over, whatever failed meanwhile.
THEOREM WaitingPoliciesWin == Spec => []SerialPolicies
<1>1. Serial => SerialPolicies
  <2> SUFFICES ASSUME Serial, ~overlapped, ~Working
               PROVE  /\ state = "RUNNING" =>
                           /\ hub # None /\ hub = loop /\ hub = stt /\ hub = src /\ hub = heard
                           /\ sttOf[hub] = "live" /\ srcOf[hub] = "open"
                           /\ loopOf[hub] = "running" /\ sig = wanted
                      /\ \A g \in Gens : /\ loopOf[g] = "running" => state = "RUNNING"
                                         /\ sttOf[g] = "live" => hub = g /\ stt = g
    BY DEF SerialPolicies, RunningIsAttached, LatestPolicyWins
  <2> QED  BY Names DEF Serial, Rest, Left, Holding, InHub
<1> QED  BY <1>1, InvHolds, InitHolds, InitSerial, NextSerial, PTL DEF Spec
=============================================================================
