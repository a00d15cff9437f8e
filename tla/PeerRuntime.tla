----------------------------- MODULE PeerRuntime -----------------------------
(***************************************************************************)
(* The runtime of the peer speech channel: PeerChannelRuntime of           *)
(* core/runtime/peer_channel.py, with the slot of the hub it attaches      *)
(* providers to (replace_peer_stt_provider of core/orchestrator/hub.py).   *)
(*                                                                         *)
(* Every policy that changes something opens a generation.  The coroutines *)
(* that interleave are the starts and stops of the generations and the     *)
(* handlers of their failures; a step runs from one await that suspends to *)
(* the next.  The provider, the audio source and the audio loop a start    *)
(* builds are named by its generation.  warmup(), which can only delay the *)
(* others at the lock, is left out: without it no lock acquisition waits.  *)
(***************************************************************************)
EXTENDS Naturals, FiniteSets

CONSTANTS
    Configs,    \* runtime signatures a policy may ask for
    MaxGen,     \* bound: generations in a behaviour
    Happens     \* which events an instance includes

\* "off"            a policy with desired_active FALSE, or close()
\* "factory_fails"  the STT factory or the source factory raises
\* "loop_fails"     the audio loop raises, or its capture target exits
\* "stt_fails"      the attached provider reports a terminal failure
Events == {"off", "factory_fails", "loop_fails", "stt_fails"}

ASSUME PeerAssumption ==
    /\ MaxGen \in Nat
    /\ Happens \subseteq Events

Gens == 1..MaxGen
None == 0
NoConfig == "no config"
ASSUME NoConfigAssumption == NoConfig \notin Configs

VARIABLES
    gen,       \* _generation
    desired,   \* _desired_active
    state,     \* _state
    sig,       \* _signature
    stt,       \* _stt
    src,       \* _audio_source
    loop,      \* _loop_task
    hub,       \* hub.peer_stt
    heard,     \* the provider the hub's _peer_stt_task consumes
    cfg,       \* the configuration each generation asks for
    sttOf,     \* the provider built by each generation
    srcOf,     \* the source built by each generation
    loopOf,    \* the audio loop of each generation
    flow,      \* coroutines: apply_policy and failure handlers per generation
    wanted,    \* history: the policy applied last
    overlapped \* history: a policy came before the work of earlier ones ended

slots == <<sig, stt, src, loop>>
built == <<sttOf, srcOf, loopOf>>
history == <<wanted, overlapped>>
policy == <<gen, desired, cfg, history>>
attached == <<hub, heard>>
vars == <<policy, state, slots, attached, built, flow>>

\* The policy of generation g, and what handles its failures: the audio loop's
\* own task and the consumer task of its provider.
Flows == Gens \X {"apply", "loop", "stt"}
Start(g) == <<g, "apply">>
LoopTask(g) == <<g, "loop">>
Consumer(g) == <<g, "stt">>
Idle == [at |-> "idle", loop |-> None, src |-> None, stt |-> None,
         old |-> None, target |-> "STOPPED"]
At(stage) == [Idle EXCEPT !.at = stage]

Init ==
    /\ gen = 0
    /\ desired = FALSE
    /\ state = "STOPPED"
    /\ sig = NoConfig
    /\ stt = None
    /\ src = None
    /\ loop = None
    /\ hub = None
    /\ heard = None
    /\ cfg = [g \in Gens |-> NoConfig]
    /\ sttOf = [g \in Gens |-> "none"]
    /\ srcOf = [g \in Gens |-> "none"]
    /\ loopOf = [g \in Gens |-> "none"]
    /\ flow = [f \in Flows |-> Idle]
    /\ wanted = NoConfig
    /\ overlapped = FALSE

Working == \E f \in Flows : flow[f].at # "idle"

Superseded(g) == g # gen \/ ~desired

\* close() of a resource; None has nothing to close.
Close(of, g) == IF g = None THEN of ELSE [of EXCEPT ![g] = "closed"]
\* MUTANT: the loop of the previous generation is not cancelled.
Ended_NotCancelled(g) == loopOf
Ended(g) == IF g = None THEN loopOf ELSE [loopOf EXCEPT ![g] = "ended"]

-----------------------------------------------------------------------------
(***************************************************************************)
(* _teardown_resources: take whatever is current, stop it, then set the    *)
(* state.  With nothing to take it runs through without suspending.        *)
(***************************************************************************)
\* MUTANT: a channel switched off meanwhile shows the fault.
FinalState_Target(target, wants) == target
FinalState(target, wants) ==
    IF ~wants /\ target = "FAULTED" THEN "STOPPED" ELSE target

NothingHeld == stt = None /\ src = None /\ loop = None

\* Flow f begins a teardown; wants is _desired_active after this step.
BeginTeardown(f, target, wants, during) ==
    /\ sig' = NoConfig
    /\ stt' = None
    /\ src' = None
    /\ loop' = None
    /\ IF NothingHeld
         THEN /\ state' = FinalState(target, wants)
              /\ flow' = [flow EXCEPT ![f] = Idle]
         ELSE /\ state' = during
              /\ flow' = [flow EXCEPT ![f] =
                    [At("tearing") EXCEPT !.loop = loop, !.src = src,
                                 !.stt = stt, !.target = target]]

\* The loop has ended and the source is closed.  The provider is detached when
\* the hub still has it, else closed.
TearingStopped(f) ==
    /\ flow[f].at = "tearing"
    /\ loopOf' = IF f = LoopTask(flow[f].loop) THEN loopOf ELSE Ended(flow[f].loop)
    /\ srcOf' = Close(srcOf, flow[f].src)
    /\ flow' = [flow EXCEPT ![f] =
          [At("closing") EXCEPT !.stt = flow[f].stt, !.target = flow[f].target,
                       !.old = IF hub = flow[f].stt THEN hub ELSE None]]
    /\ heard' = IF hub = flow[f].stt THEN None ELSE heard
    /\ UNCHANGED <<policy, state, slots, hub, sttOf>>

\* The provider is closed and the state set, whatever happened meanwhile.
TearingEnds(f) ==
    /\ flow[f].at = "closing"
    /\ sttOf' = Close(sttOf, flow[f].stt)
    /\ hub' = IF flow[f].old # None THEN None ELSE hub
    /\ state' = FinalState(flow[f].target, desired)
    /\ flow' = [flow EXCEPT ![f] = Idle]
    /\ loopOf' = [g \in Gens |-> IF f = LoopTask(g) THEN "ended" ELSE loopOf[g]]
    /\ UNCHANGED <<policy, slots, heard, srcOf>>

-----------------------------------------------------------------------------
(***************************************************************************)
(* apply_policy() and close().                                             *)
(***************************************************************************)
SameAlready(c) ==
    /\ desired
    /\ state \in {"RUNNING", "STARTING"}
    /\ sig = c

Remember(c) == wanted' = c /\ overlapped' = (overlapped \/ Working)

\* A policy that changes nothing.
ApplySame(c) ==
    /\ SameAlready(c)
    /\ Remember(c)
    /\ UNCHANGED <<gen, desired, cfg, state, slots, attached, built, flow>>

NewGeneration(c) ==
    /\ gen < MaxGen
    /\ gen' = gen + 1
    /\ cfg' = [cfg EXCEPT ![gen + 1] = c]
    /\ Remember(c)

\* Start a generation: the factory is called.  The code also returns early
\* for a running signature that was not desired, which OffMeansOff excludes.
ApplyOn(c) ==
    /\ ~SameAlready(c)
    /\ NewGeneration(c)
    /\ desired' = TRUE
    /\ state' = "STARTING"
    /\ flow' = [flow EXCEPT ![Start(gen + 1)] = At("factory")]
    /\ UNCHANGED <<slots, attached, built>>

ApplyOff ==
    /\ "off" \in Happens
    /\ NewGeneration(NoConfig)
    /\ desired' = FALSE
    /\ BeginTeardown(Start(gen + 1), "STOPPED", FALSE, "STOPPING")
    /\ UNCHANGED <<attached, built>>

-----------------------------------------------------------------------------
(***************************************************************************)
(* _start_generation.                                                      *)
(***************************************************************************)
Finish(g) == flow' = [flow EXCEPT ![Start(g)] = Idle]

\* The factory returned; a superseded start closes what it built.
FactoryReturns(g) ==
    /\ flow[Start(g)].at = "factory"
    /\ IF Superseded(g)
         THEN sttOf' = [sttOf EXCEPT ![g] = "closed"] /\ Finish(g)
         ELSE /\ sttOf' = [sttOf EXCEPT ![g] = "live"]
              /\ flow' = [flow EXCEPT ![Start(g)] = At("source")]
    /\ UNCHANGED <<policy, state, slots, attached, srcOf, loopOf>>

\* _mark_faulted_if_current
\* MUTANT: the failure is swallowed.
MarkFaulted_Swallowed(g, f) ==
    /\ flow' = [flow EXCEPT ![f] = Idle]
    /\ UNCHANGED <<state, slots>>
MarkFaulted(g, f) ==
    IF Superseded(g)
      THEN /\ flow' = [flow EXCEPT ![f] = Idle]
           /\ UNCHANGED <<state, slots>>
      ELSE BeginTeardown(f, "FAULTED", desired, state)

FactoryFails(g) ==
    /\ "factory_fails" \in Happens
    /\ flow[Start(g)].at = "factory"
    /\ MarkFaulted(g, Start(g))
    /\ UNCHANGED <<policy, attached, built>>

\* The source factory raised: close the provider, then fault.
SourceFails(g) ==
    /\ "factory_fails" \in Happens
    /\ flow[Start(g)].at = "source"
    /\ flow' = [flow EXCEPT ![Start(g)] = At("failed")]
    /\ UNCHANGED <<policy, state, slots, attached, built>>

SourceFailureClosed(g) ==
    /\ flow[Start(g)].at = "failed"
    /\ sttOf' = [sttOf EXCEPT ![g] = "closed"]
    /\ MarkFaulted(g, Start(g))
    /\ UNCHANGED <<policy, attached, srcOf, loopOf>>

\* Flow of generation g enters replace_peer_stt_provider, at the given stage: the
\* hub remembers the provider it has and stops listening.
BeginReplace(g, stage) ==
    /\ flow' = [flow EXCEPT ![Start(g)] = [At(stage) EXCEPT !.old = hub]]
    /\ heard' = None

\* replace_peer_stt_provider(stt) came to its end: the provider is attached.
\* A start that is still current runs its loop; else it undoes what it did.
\* MUTANT: a start does not look again once its provider is attached.
Attached_Unchecked(g, loops) ==
    /\ hub' = g
    /\ heard' = g
    /\ stt' = g /\ src' = g /\ loop' = g
    /\ loopOf' = [loops EXCEPT ![g] = "running"]
    /\ sig' = cfg[g]
    /\ state' = "RUNNING"
    /\ Finish(g)

Attached(g, loops) ==
    /\ hub' = g
    /\ heard' = g
    /\ IF Superseded(g)
         THEN /\ flow' = [flow EXCEPT ![Start(g)] = At("undo")]
              /\ loopOf' = loops
              /\ UNCHANGED <<state, slots>>
         ELSE /\ stt' = g /\ src' = g /\ loop' = g
              /\ loopOf' = [loops EXCEPT ![g] = "running"]
              /\ sig' = cfg[g]
              /\ state' = "RUNNING"
              /\ Finish(g)

\* Replacing suspends only for a provider to close or a task to stop.
HubEmpty == hub = None /\ heard = None

TakeSlots == stt' = None /\ src' = None /\ loop' = None

StaleSource(g) ==
    /\ flow[Start(g)].at = "source"
    /\ Superseded(g)
    /\ sttOf' = [sttOf EXCEPT ![g] = "closed"]
    /\ srcOf' = [srcOf EXCEPT ![g] = "closed"]
    /\ Finish(g)
    /\ UNCHANGED <<policy, state, slots, attached, loopOf>>

\* The source is open: take over what the previous generation left, and run on
\* to the first await that suspends.
TakeOver(g) ==
    /\ flow[Start(g)].at = "source"
    /\ ~Superseded(g)
    /\ srcOf' = [srcOf EXCEPT ![g] = "open"]
    /\ \/ /\ loop # None \/ src # None
          /\ flow' = [flow EXCEPT ![Start(g)] =
                [At("stopping") EXCEPT !.loop = loop, !.src = src, !.stt = stt]]
          /\ TakeSlots
          /\ UNCHANGED <<state, sig, attached, loopOf>>
       \/ /\ loop = None /\ src = None /\ ~HubEmpty
          /\ BeginReplace(g, IF stt # None THEN "detach" ELSE "attach")
          /\ TakeSlots
          /\ UNCHANGED <<state, sig, hub, loopOf>>
       \/ /\ loop = None /\ src = None /\ HubEmpty
          /\ Attached(g, loopOf)
    /\ UNCHANGED <<policy, sttOf>>

\* The old loop has ended and the old source is closed.
OldStopped(g) ==
    /\ flow[Start(g)].at = "stopping"
    /\ srcOf' = Close(srcOf, flow[Start(g)].src)
    /\ \/ /\ HubEmpty
          /\ Attached(g, Ended(flow[Start(g)].loop))
       \/ /\ ~HubEmpty
          /\ BeginReplace(g, IF flow[Start(g)].stt # None THEN "detach" ELSE "attach")
          /\ loopOf' = Ended(flow[Start(g)].loop)
          /\ UNCHANGED <<state, slots, hub>>
    /\ UNCHANGED <<policy, sttOf>>

\* The old provider is closed: replace_peer_stt_provider(None) has ended and the
\* new provider is attached, after a listener somebody started meanwhile.
Detached(g) ==
    /\ flow[Start(g)].at = "detach"
    /\ sttOf' = Close(sttOf, flow[Start(g)].old)
    /\ \/ /\ heard = None
          /\ Attached(g, loopOf)
       \/ /\ heard # None
          /\ hub' = None
          /\ heard' = None
          /\ flow' = [flow EXCEPT ![Start(g)] = At("attach")]
          /\ UNCHANGED <<state, slots, loopOf>>
    /\ UNCHANGED <<policy, srcOf>>

AttachEnds(g) ==
    /\ flow[Start(g)].at = "attach"
    /\ sttOf' = Close(sttOf, flow[Start(g)].old)
    /\ Attached(g, loopOf)
    /\ UNCHANGED <<policy, srcOf>>

\* A superseded start takes its source back, then its provider.
SourceUndone(g) ==
    /\ flow[Start(g)].at = "undo"
    /\ srcOf' = [srcOf EXCEPT ![g] = "closed"]
    /\ IF hub = g
         THEN BeginReplace(g, "undetach") /\ UNCHANGED sttOf
         ELSE /\ sttOf' = [sttOf EXCEPT ![g] = "closed"]
              /\ Finish(g)
              /\ UNCHANGED heard
    /\ UNCHANGED <<policy, state, slots, hub, loopOf>>

ProviderUndone(g) ==
    /\ flow[Start(g)].at = "undetach"
    /\ sttOf' = [sttOf EXCEPT ![g] = "closed"]
    /\ hub' = None
    /\ Finish(g)
    /\ UNCHANGED <<policy, state, slots, heard, srcOf, loopOf>>

-----------------------------------------------------------------------------
(***************************************************************************)
(* Failures of what runs.                                                  *)
(***************************************************************************)
\* A task somebody has cancelled raises CancelledError and nothing else.
Cancelled(g) == \E f \in Flows : flow[f].loop = g

\* The audio loop of g raises, or ends because its capture target exited.
LoopFails(g) ==
    /\ "loop_fails" \in Happens
    /\ loopOf[g] = "running"
    /\ ~Cancelled(g)
    /\ MarkFaulted(g, LoopTask(g))
    /\ loopOf' = [loopOf EXCEPT ![g] = IF Superseded(g) THEN "ended" ELSE "failing"]
    /\ UNCHANGED <<policy, attached, sttOf, srcOf>>

\* _on_terminal_stt_failure; a failure of a running channel is survived.
TerminalFailure(g) ==
    /\ "stt_fails" \in Happens
    /\ heard = g
    /\ flow[Consumer(g)] = Idle
    /\ ~Superseded(g)
    /\ state # "RUNNING" \/ stt = None
    /\ BeginTeardown(Consumer(g), "FAULTED", desired, state)
    /\ UNCHANGED <<policy, attached, built>>

-----------------------------------------------------------------------------
Policies == (\E c \in Configs : ApplySame(c) \/ ApplyOn(c)) \/ ApplyOff

Starts(g) ==
    \/ FactoryReturns(g) \/ StaleSource(g) \/ TakeOver(g) \/ OldStopped(g)
    \/ Detached(g) \/ AttachEnds(g) \/ SourceUndone(g) \/ ProviderUndone(g)
    \/ SourceFailureClosed(g)

Failures(g) == FactoryFails(g) \/ SourceFails(g) \/ LoopFails(g) \/ TerminalFailure(g)

Next ==
    \/ Policies
    \/ \E g \in Gens : Starts(g) \/ Failures(g)
    \/ \E f \in Flows : TearingStopped(f) \/ TearingEnds(f)

Spec == Init /\ [][Next]_vars

\* Loading a model, opening a device and closing either return.
FairSpec ==
    /\ Spec
    /\ \A g \in Gens : WF_vars(Starts(g))
    /\ \A f \in Flows : WF_vars(TearingStopped(f) \/ TearingEnds(f))

-----------------------------------------------------------------------------
Slots == Gens \cup {None}
States == {"STOPPED", "STARTING", "RUNNING", "STOPPING", "FAULTED"}
Stages == {"idle", "factory", "source", "failed", "stopping", "detach",
           "attach", "undo", "undetach", "tearing", "closing"}
FlowStates == [at : Stages, loop : Slots, src : Slots, stt : Slots,
               old : Slots, target : {"STOPPED", "FAULTED"}]

\* TYPE INVARIANT
TypeOK ==
    /\ gen \in 0..MaxGen
    /\ desired \in BOOLEAN
    /\ state \in States
    /\ sig \in Configs \cup {NoConfig}
    /\ stt \in Slots /\ src \in Slots /\ loop \in Slots
    /\ hub \in Slots /\ heard \in Slots
    /\ cfg \in [Gens -> Configs \cup {NoConfig}]
    /\ sttOf \in [Gens -> {"none", "live", "closed"}]
    /\ srcOf \in [Gens -> {"none", "open", "closed"}]
    /\ loopOf \in [Gens -> {"none", "running", "failing", "ended"}]
    /\ flow \in [Flows -> FlowStates]
    /\ wanted \in Configs \cup {NoConfig}
    /\ overlapped \in BOOLEAN

\* An audio loop that runs is the current one or is being stopped: however
\* starts, stops and failures overlap, no capture is left running that nothing
\* can stop, and no open device or process capture either.
NoOrphanCapture ==
    \A g \in Gens :
        /\ loopOf[g] = "running" => loop = g \/ Cancelled(g)
        /\ srcOf[g] = "open" => \/ src = g
                                \/ flow[Start(g)].at # "idle"
                                \/ \E f \in Flows : flow[f].src = g

\* A channel that is off never shows RUNNING or STARTING (which is what makes the
\* second early return of apply_policy dead code); once nothing is in progress it
\* really is off: no provider in the hub, no loop, no open source, state STOPPED.
OffMeansOff ==
    ~desired =>
        /\ state \notin {"RUNNING", "STARTING"}
        /\ ~Working => /\ state = "STOPPED"
                       /\ hub = None
                       /\ \A g \in Gens : loopOf[g] # "running" /\ srcOf[g] # "open"

\* At rest, RUNNING means a loop that runs, over an open source, with the live
\* provider the hub has and listens to: no green pill over a dead capture.
RunningIsAttached ==
    state = "RUNNING" /\ ~Working =>
        /\ hub # None /\ hub = loop /\ hub = stt /\ hub = src /\ hub = heard
        /\ sttOf[hub] = "live" /\ srcOf[hub] = "open" /\ loopOf[hub] = "running"

\* At rest, a channel that runs does so with the configuration asked for last: the
\* early return of apply_policy never swallows a change.
LatestPolicyWins == state = "RUNNING" /\ ~Working => sig = wanted

\* Both hold, as long as every policy waited for the work of the earlier ones, whatever
\* failed meanwhile.  A loop then only runs under RUNNING, and every provider that is not
\* closed is, at rest, the one in use: no loaded model is left behind.
SerialPolicies ==
    ~overlapped =>
        /\ RunningIsAttached
        /\ LatestPolicyWins
        /\ ~Working => \A g \in Gens :
                          /\ loopOf[g] = "running" => state = "RUNNING"
                          /\ sttOf[g] = "live" => hub = g /\ stt = g

\* A channel that stays off comes to rest, STOPPED, whatever start was in progress
\* and whatever failed.
OffSettles == ~desired ~> (desired \/ (state = "STOPPED" /\ ~Working))
=============================================================================
