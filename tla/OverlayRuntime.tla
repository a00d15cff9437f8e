---------------------------- MODULE OverlayRuntime ----------------------------
(***************************************************************************)
(* Starting, supervising and stopping a subtitle overlay: the overlay part *)
(* of GuiController (ui/controller.py) and the OverlayProcessManager it    *)
(* starts (core/overlay/process.py).                                       *)
(*                                                                         *)
(* Every start has a number; the bridge, the manager, the renderer process *)
(* and the tasks it creates are named by it.  The flows that interleave    *)
(* are the requests (the toggle, the peer toggle that may start the        *)
(* overlay, and the other calls that shut it down), the start tasks and    *)
(* the watchers.  A step runs from one await to the next.  A task that is  *)
(* cancelled ends in the step that cancels it: all it still runs is its    *)
(* finally.  Presenter, diagnostics and the events of the renderer's       *)
(* window are left out.                                                    *)
(***************************************************************************)
EXTENDS Naturals, Sequences

CONSTANTS
    Targets,    \* overlay targets a start may choose
    MaxStart,   \* bound: starts in a behaviour
    MaxAsked,   \* bound: requests in a behaviour
    Happens     \* which events an instance includes

\* "peer"         the peer toggle asks for a start
\* "other"        a shutdown that is no toggle: a target switch, the app's exit
\* "start_fails"  the bridge or the process cannot be started, or it times out
\* "crash"        the renderer reports an error or exits
Events == {"peer", "other", "start_fails", "crash"}

ASSUME OverlayAssumption ==
    /\ Targets \subseteq {"desktop", "steamvr"}
    /\ MaxStart \in Nat
    /\ MaxAsked \in Nat
    /\ Happens \subseteq Events

None == 0
Starts == 1..MaxStart
Requests == {<<None, "toggle">>, <<None, "peer">>, <<None, "other">>}
Toggle == <<None, "toggle">>
Start(g) == <<g, "start">>
Watcher(g) == <<g, "watch">>
Flows == Requests \cup (Starts \X {"start", "watch"})

VARIABLES
    state,   \* overlay_state
    want,    \* _overlay_user_enabled_this_session
    hidden,  \* _desktop_overlay_soft_hidden
    target,  \* _active_overlay_target
    startTask,   \* _overlay_start_task
    watchTask,   \* _overlay_monitor_task
    mgr,     \* _overlay_manager
    brg,     \* _overlay_bridge
    lock,    \* _overlay_lock: its holder, then those who wait
    flow,    \* per flow: where it is, its goal, the manager and bridge it stops
    gen,     \* starts so far
    bridge,  \* per start: its bridge, "none", "up" or "closed"
    proc,    \* per start: its process, "none", "running", "signalled", "dead"
    held,    \* per start: the manager has the process in _process
    mstate,  \* per start: the state of the manager
    mon,     \* per start: the manager's _monitor_task
    asked,   \* history: requests so far
    cut,     \* history: starts whose bridge was being stopped by a cancelled task
    missed   \* history: the last toggle-off did nothing while a start was queued

slots == <<startTask, watchTask, mgr, brg>>
manager == <<held, mstate, mon>>
vars == <<state, want, hidden, target, slots, lock, flow, gen, bridge, proc, manager,
          asked, cut, missed>>

Idle == [at |-> "idle", goal |-> "none", m |-> None, b |-> None]

Init ==
    /\ state = "off"
    /\ want = FALSE
    /\ hidden = FALSE
    /\ target = "none"
    /\ startTask = None /\ watchTask = None
    /\ mgr = None /\ brg = None
    /\ lock = <<>>
    /\ flow = [f \in Flows |-> Idle]
    /\ gen = 0
    /\ bridge = [g \in Starts |-> "none"]
    /\ proc = [g \in Starts |-> "none"]
    /\ held = [g \in Starts |-> FALSE]
    /\ mstate = [g \in Starts |-> "off"]
    /\ mon = [g \in Starts |-> "none"]
    /\ asked = 0
    /\ cut = {}
    /\ missed = FALSE

Alive(f) == flow[f].at \notin {"idle", "done"}
GoTo(f, at) == flow' = [flow EXCEPT ![f].at = at]
\* terminate(): the process is told to end.
Signal(g) == proc' = [proc EXCEPT ![g] = IF @ = "running" THEN "signalled" ELSE @]
SoftToggleHealthy == mgr # None /\ brg # None /\ state = "connected"

-----------------------------------------------------------------------------
(***************************************************************************)
(* Requests: set_overlay_enabled, set_peer_translation_enabled, and what   *)
(* calls _shutdown_overlay_runtime.                                        *)
(***************************************************************************)
Ask(r, stage, goal) ==
    /\ ~Alive(r)
    /\ asked < MaxAsked
    /\ asked' = asked + 1
    /\ flow' = [flow EXCEPT ![r] = [Idle EXCEPT !.at = stage, !.goal = goal]]

\* The toggle, whose calls are serialised; it saves the settings first.
ToggleAsked ==
    /\ \E goal \in {"on", "off"} : Ask(Toggle, "saving", goal)
    /\ UNCHANGED <<state, want, hidden, target, slots, lock, gen, bridge, proc,
                   manager, cut, missed>>

\* _begin_overlay_start and _shutdown_overlay_runtime take their turn at the lock.
Enqueue(r, goal) ==
    /\ flow' = [flow EXCEPT ![r].at = "locking", ![r].goal = goal]
    /\ lock' = Append(lock, r)

PeerAsked ==
    /\ "peer" \in Happens
    /\ want
    /\ state \notin {"starting", "connected"}
    /\ Ask(<<None, "peer">>, "locking", "begin")
    /\ lock' = Append(lock, <<None, "peer">>)
    /\ UNCHANGED <<state, want, hidden, target, slots, gen, bridge, proc, manager,
                   cut, missed>>

OtherAsked ==
    /\ "other" \in Happens
    /\ Ask(<<None, "other">>, "locking", "shutdown")
    /\ lock' = Append(lock, <<None, "other">>)
    /\ hidden' = FALSE
    /\ UNCHANGED <<state, want, target, slots, gen, bridge, proc, manager, cut, missed>>

Dismiss(r) == flow' = [flow EXCEPT ![r] = Idle]

\* The settings are saved: what the toggle does depends on the state now.
ToggleOn ==
    /\ flow[Toggle].at = "saving" /\ flow[Toggle].goal = "on"
    /\ want' = TRUE
    /\ missed' = FALSE
    /\ \/ /\ state = "connected" /\ ~hidden
          /\ Dismiss(Toggle)
          /\ UNCHANGED <<hidden, lock>>
       \/ /\ hidden /\ SoftToggleHealthy
          /\ GoTo(Toggle, "revealing")
          /\ UNCHANGED <<hidden, lock>>
       \/ /\ hidden /\ ~SoftToggleHealthy
          /\ hidden' = FALSE
          /\ Enqueue(Toggle, "restart")
       \/ /\ state # "connected" /\ ~hidden
          /\ Enqueue(Toggle, "begin")
          /\ UNCHANGED hidden
    /\ UNCHANGED <<state, target, slots, gen, bridge, proc, manager, asked, cut>>

StartQueued == \E r \in Requests : Alive(r) /\ flow[r].goal = "begin"

\* MUTANT: a toggle that finds the overlay starting leaves it alone.
ToggleOff_LetsStart ==
    /\ flow[Toggle].at = "saving" /\ flow[Toggle].goal = "off"
    /\ want' = FALSE
    /\ missed' = (state = "off" /\ ~hidden /\ StartQueued)
    /\ \/ /\ state \in {"off", "starting"} /\ ~hidden
          /\ Dismiss(Toggle)
          /\ UNCHANGED <<hidden, lock>>
       \/ /\ state \notin {"off", "starting"} \/ hidden
          /\ hidden' = FALSE
          /\ Enqueue(Toggle, "shutdown")
    /\ UNCHANGED <<state, target, slots, gen, bridge, proc, manager, asked, cut>>

ToggleOff ==
    /\ flow[Toggle].at = "saving" /\ flow[Toggle].goal = "off"
    /\ want' = FALSE
    /\ missed' = (state = "off" /\ ~hidden /\ StartQueued)
    /\ \/ /\ state = "off" /\ ~hidden
          /\ Dismiss(Toggle)
          /\ UNCHANGED <<hidden, lock>>
       \/ /\ state # "off" \/ hidden
          /\ target = "desktop" /\ SoftToggleHealthy
          /\ GoTo(Toggle, "hiding")
          /\ UNCHANGED <<hidden, lock>>
       \/ /\ state # "off" \/ hidden
          /\ ~(target = "desktop" /\ SoftToggleHealthy)
          /\ hidden' = FALSE
          /\ Enqueue(Toggle, "shutdown")
    /\ UNCHANGED <<state, target, slots, gen, bridge, proc, manager, asked, cut>>

\* The renderer has been told to hide its window.
Hid ==
    /\ flow[Toggle].at = "hiding"
    /\ hidden' = TRUE
    /\ Dismiss(Toggle)
    /\ UNCHANGED <<state, want, target, slots, lock, gen, bridge, proc, manager,
                   asked, cut, missed>>

\* The renderer has been given its bounds; it is told to show its window if
\* there is still a bridge to tell it, else it is started anew.
Revealed ==
    /\ flow[Toggle].at = "revealing"
    /\ hidden' = FALSE
    /\ IF target = "desktop" /\ brg # None
         THEN Dismiss(Toggle) /\ UNCHANGED lock
         ELSE Enqueue(Toggle, IF hidden THEN "restart" ELSE "begin")
    /\ UNCHANGED <<state, want, target, slots, gen, bridge, proc, manager, asked, cut, missed>>

HasLock(r, goals) ==
    /\ flow[r].at = "locking"
    /\ flow[r].goal \in goals
    /\ lock[1] = r

\* _begin_overlay_start has the lock.
BeginLocked(r) ==
    /\ HasLock(r, {"begin"})
    /\ IF state \in {"starting", "connected"}
         THEN Dismiss(r) /\ lock' = Tail(lock)
         ELSE GoTo(r, "tear") /\ UNCHANGED lock
    /\ UNCHANGED <<state, want, hidden, target, slots, gen, bridge, proc, manager,
                   asked, cut, missed>>

HasRuntime ==
    \/ brg # None
    \/ mgr # None
    \/ startTask # None /\ Alive(Start(startTask))

\* MUTANT: the lock is kept.
ShutdownOver_Keeps(r) == Dismiss(r) /\ UNCHANGED lock

\* After a shutdown: the lock is given back; a restart queues again.
ShutdownOver(r) ==
    IF flow[r].goal = "restart"
      THEN /\ flow' = [flow EXCEPT ![r].at = "locking", ![r].goal = "begin"]
           /\ lock' = Append(Tail(lock), r)
      ELSE Dismiss(r) /\ lock' = Tail(lock)

\* _shutdown_overlay_runtime has the lock; it gives the renderer some time.
ShutdownLocked(r) ==
    /\ HasLock(r, {"shutdown", "restart"})
    /\ IF ~HasRuntime /\ state = "off"
         THEN ShutdownOver(r) /\ UNCHANGED state
         ELSE /\ state' = "stopping"
              /\ GoTo(r, "grace")
              /\ UNCHANGED lock
    /\ UNCHANGED <<want, hidden, target, slots, gen, bridge, proc, manager, asked,
                   cut, missed>>

GraceOver(r) ==
    /\ flow[r].at = "grace"
    /\ GoTo(r, "tear")
    /\ UNCHANGED <<state, want, hidden, target, slots, lock, gen, bridge, proc,
                   manager, asked, cut, missed>>

\* The teardown of a begin is over: the next start is created.
BeginStarts(r) ==
    /\ flow[r].at = "after"
    /\ flow[r].goal = "begin"
    /\ gen < MaxStart
    /\ gen' = gen + 1
    /\ state' = "starting"
    /\ target' \in Targets
    /\ startTask' = gen + 1
    /\ flow' = [flow EXCEPT ![r] = Idle, ![Start(gen + 1)].at = "created"]
    /\ lock' = Tail(lock)
    /\ UNCHANGED <<want, hidden, watchTask, mgr, brg, bridge, proc, manager, asked,
                   cut, missed>>

\* The teardown of a shutdown is over; the peer runtime is refreshed.
ShutdownTorn(r) ==
    /\ flow[r].at = "after"
    /\ flow[r].goal \in {"shutdown", "restart"}
    /\ state' = "off"
    /\ GoTo(r, "refresh")
    /\ UNCHANGED <<want, hidden, target, slots, lock, gen, bridge, proc, manager,
                   asked, cut, missed>>

ShutdownEnds(r) ==
    /\ r \in Requests
    /\ flow[r].at = "refresh"
    /\ ShutdownOver(r)
    /\ UNCHANGED <<state, want, hidden, target, slots, gen, bridge, proc, manager,
                   asked, cut, missed>>

-----------------------------------------------------------------------------
(***************************************************************************)
(* _teardown_overlay_runtime, run by a request, a start or a watcher.      *)
(***************************************************************************)
\* What a cancelled task had taken out of its slot is stopped by nobody.
Dropped(f) == IF flow[f].at = "bridge" THEN cut \cup ({flow[f].b} \ {None}) ELSE cut

\* MUTANT: a start that fails cancels and awaits itself.
TearStart_AwaitsItself(f) ==
    /\ flow[f].at = "tear"
    /\ LET s == Start(startTask) IN
       IF startTask = None
         THEN /\ GoTo(f, "watcher")
              /\ UNCHANGED <<startTask, bridge, cut>>
         ELSE /\ s # f
              /\ startTask' = None
              /\ flow' = [flow EXCEPT ![f].at = "watcher", ![s] = [Idle EXCEPT !.at = "done"]]
              /\ IF flow[s].at = "opening"
                   THEN /\ bridge' = [bridge EXCEPT ![s[1]] = "up"]
                        /\ cut' = cut \cup {s[1]}
                   ELSE /\ cut' = Dropped(s)
                        /\ UNCHANGED bridge
    /\ UNCHANGED <<state, want, hidden, target, watchTask, mgr, brg, lock, gen, proc,
                   manager, asked, missed>>

\* A start that runs is cancelled and awaited.  Cancelled while its bridge starts,
\* the bridge may be left listening; a process being spawned is killed.
TearStart(f) ==
    /\ flow[f].at = "tear"
    /\ LET s == Start(startTask) IN
       IF startTask = None \/ s = f
         THEN /\ GoTo(f, "watcher")
              /\ UNCHANGED <<startTask, bridge, cut>>
         ELSE /\ startTask' = None
              /\ flow' = [flow EXCEPT ![f].at = "watcher", ![s] = [Idle EXCEPT !.at = "done"]]
              /\ IF flow[s].at = "opening"
                   THEN /\ bridge' = [bridge EXCEPT ![s[1]] = "up"]
                        /\ cut' = cut \cup {s[1]}
                   ELSE /\ cut' = Dropped(s)
                        /\ UNCHANGED bridge
    /\ UNCHANGED <<state, want, hidden, target, watchTask, mgr, brg, lock, gen, proc,
                   manager, asked, missed>>

\* A watcher that runs is cancelled, and with it the monitor it awaits.
TearWatcher(f) ==
    /\ flow[f].at = "watcher"
    /\ LET w == Watcher(watchTask) IN
       IF watchTask = None \/ w = f
         THEN /\ GoTo(f, "presenter")
              /\ UNCHANGED <<watchTask, mon, cut>>
         ELSE /\ watchTask' = None
              /\ flow' = [flow EXCEPT ![f].at = "presenter",
                                      ![w] = [Idle EXCEPT !.at = "done"]]
              /\ mon' = IF flow[w].at = "watching"
                          THEN [mon EXCEPT ![watchTask] = "done"] ELSE mon
              /\ cut' = Dropped(w)
    /\ UNCHANGED <<state, want, hidden, target, startTask, mgr, brg, lock, gen, bridge,
                   proc, held, mstate, asked, missed>>

\* The presenter is detached and the manager taken: stop() ends its monitor.
TearManager(f) ==
    /\ flow[f].at = "presenter"
    /\ mgr' = None
    /\ flow' = [flow EXCEPT ![f].at = "monitor", ![f].m = mgr]
    /\ IF mgr = None
         THEN UNCHANGED <<mstate, mon>>
         ELSE /\ mstate' = [mstate EXCEPT ![mgr] = "stopping"]
              /\ mon' = [mon EXCEPT ![mgr] = IF @ = "none" THEN @ ELSE "done"]
    /\ UNCHANGED <<state, want, hidden, target, startTask, watchTask, brg, lock, gen,
                   bridge, proc, held, asked, cut, missed>>

\* The manager has ended: the bridge is taken.
TakeBridge(f, m) ==
    /\ mstate' = IF m = None THEN mstate ELSE [mstate EXCEPT ![m] = "off"]
    /\ brg' = None
    /\ flow' = [flow EXCEPT ![f].at = "bridge", ![f].m = None, ![f].b = brg]

\* Its process, if it still has one, is terminated and awaited.
\* MUTANT: the process is forgotten.
TearProcess_Forgotten(f) ==
    /\ flow[f].at = "monitor"
    /\ TakeBridge(f, flow[f].m)
    /\ held' = [g \in Starts |-> IF g = flow[f].m THEN FALSE ELSE held[g]]
    /\ UNCHANGED <<state, want, hidden, target, startTask, watchTask, mgr, lock, gen,
                   bridge, proc, mon, asked, cut, missed>>

TearProcess(f) ==
    /\ flow[f].at = "monitor"
    /\ LET m == flow[f].m IN
       IF m # None /\ held[m]
         THEN /\ held' = [held EXCEPT ![m] = FALSE]
              /\ Signal(m)
              /\ GoTo(f, "process")
              /\ UNCHANGED <<mstate, brg>>
         ELSE TakeBridge(f, m) /\ UNCHANGED <<held, proc>>
    /\ UNCHANGED <<state, want, hidden, target, startTask, watchTask, mgr, lock, gen,
                   bridge, mon, asked, cut, missed>>

TearProcessEnds(f) ==
    /\ flow[f].at = "process"
    /\ proc[flow[f].m] = "dead"
    /\ TakeBridge(f, flow[f].m)
    /\ UNCHANGED <<state, want, hidden, target, startTask, watchTask, mgr, lock, gen,
                   bridge, proc, held, mon, asked, cut, missed>>

TearBridge(f) ==
    /\ flow[f].at = "bridge"
    /\ bridge' = [g \in Starts |-> IF g = flow[f].b THEN "closed" ELSE bridge[g]]
    /\ target' = "none"
    /\ flow' = [flow EXCEPT ![f].at = "after", ![f].b = None]
    /\ UNCHANGED <<state, want, hidden, slots, lock, gen, proc, manager, asked, cut, missed>>

\* The peer runtime is refreshed after the teardown of a start or a watcher.
TornByTask(f) ==
    /\ f \notin Requests
    /\ flow[f].at = "after"
    /\ flow' = [flow EXCEPT ![f] = [Idle EXCEPT !.at = "done"]]
    /\ startTask' = IF f = Start(startTask) THEN None ELSE startTask
    /\ watchTask' = IF f = Watcher(watchTask) THEN None ELSE watchTask
    /\ UNCHANGED <<state, want, hidden, target, mgr, brg, lock, gen, bridge, proc,
                   manager, asked, cut, missed>>

-----------------------------------------------------------------------------
(***************************************************************************)
(* _run_overlay_start and OverlayProcessManager.start.                     *)
(***************************************************************************)
StartRuns(g) ==
    /\ flow[Start(g)].at = "created"
    /\ GoTo(Start(g), "opening")
    /\ UNCHANGED <<state, want, hidden, target, slots, lock, gen, bridge, proc,
                   manager, asked, cut, missed>>

\* on_overlay_start_failed, then the teardown.
StartFailed(g) ==
    /\ state' = "failed"
    /\ GoTo(Start(g), "tear")

BridgeFails(g) ==
    /\ "start_fails" \in Happens
    /\ flow[Start(g)].at = "opening"
    /\ StartFailed(g)
    /\ UNCHANGED <<want, hidden, target, slots, lock, gen, bridge, proc, manager,
                   asked, cut, missed>>

\* The bridge listens; the manager prepares and spawns the renderer.
BridgeUp(g) ==
    /\ flow[Start(g)].at = "opening"
    /\ bridge' = [bridge EXCEPT ![g] = "up"]
    /\ brg' = g
    /\ mgr' = g
    /\ mstate' = [mstate EXCEPT ![g] = "starting"]
    /\ GoTo(Start(g), "spawning")
    /\ UNCHANGED <<state, want, hidden, target, startTask, watchTask, lock, gen, proc,
                   held, mon, asked, cut, missed>>

SpawnFails(g) ==
    /\ "start_fails" \in Happens
    /\ flow[Start(g)].at = "spawning"
    /\ mstate' = [mstate EXCEPT ![g] = "failed"]
    /\ StartFailed(g)
    /\ UNCHANGED <<want, hidden, target, slots, lock, gen, bridge, proc, held, mon,
                   asked, cut, missed>>

Spawned(g) ==
    /\ flow[Start(g)].at = "spawning"
    /\ proc' = [proc EXCEPT ![g] = "running"]
    /\ held' = [held EXCEPT ![g] = TRUE]
    /\ GoTo(Start(g), "startup")
    /\ UNCHANGED <<state, want, hidden, target, slots, lock, gen, bridge, mstate, mon,
                   asked, cut, missed>>

\* OverlayProcessManager._fail takes the process and terminates it.
Fail(g) ==
    /\ mstate' = [mstate EXCEPT ![g] = "failed"]
    /\ held' = [held EXCEPT ![g] = FALSE]
    /\ Signal(g)

\* overlay_ready: the manager starts its monitor, which may run before start goes on.
Ready(g) ==
    /\ flow[Start(g)].at = "startup"
    /\ mstate' = [mstate EXCEPT ![g] = "connected"]
    /\ mon' = [mon EXCEPT ![g] = "watching"]
    /\ GoTo(Start(g), "ready")
    /\ UNCHANGED <<state, want, hidden, target, slots, lock, gen, bridge, proc, held,
                   asked, cut, missed>>

\* An error of the renderer, its exit, or the startup timeout.
NotReady(g) ==
    /\ flow[Start(g)].at = "startup"
    /\ "start_fails" \in Happens \/ proc[g] = "dead"
    /\ Fail(g)
    /\ GoTo(Start(g), "ready")
    /\ UNCHANGED <<state, want, hidden, target, slots, lock, gen, bridge, mon, asked,
                   cut, missed>>

\* manager.start() has returned.
StartConnected(g) ==
    /\ flow[Start(g)].at = "ready"
    /\ mstate[g] = "connected"
    /\ state' = "connected"
    /\ GoTo(Start(g), "refresh")
    /\ UNCHANGED <<want, hidden, target, slots, lock, gen, bridge, proc, manager,
                   asked, cut, missed>>

StartRefused(g) ==
    /\ flow[Start(g)].at = "ready"
    /\ mstate[g] # "connected"
    /\ mon[g] = "none" => proc[g] = "dead"
    /\ StartFailed(g)
    /\ UNCHANGED <<want, hidden, target, slots, lock, gen, bridge, proc, manager,
                   asked, cut, missed>>

\* The peer runtime has been refreshed: from now on a watcher waits for the monitor.
StartEnds(g) ==
    /\ flow[Start(g)].at = "refresh"
    /\ startTask' = IF startTask = g THEN None ELSE startTask
    /\ watchTask' = g
    /\ flow' = [flow EXCEPT ![Start(g)] = [Idle EXCEPT !.at = "done"],
                            ![Watcher(g)].at = "watching"]
    /\ UNCHANGED <<state, want, hidden, target, mgr, brg, lock, gen, bridge, proc,
                   manager, asked, cut, missed>>

-----------------------------------------------------------------------------
(***************************************************************************)
(* _monitor_connected_process and _watch_overlay_runtime.                  *)
(***************************************************************************)
\* The renderer reports an error: it is terminated, and the monitor waits.
RendererError(g) ==
    /\ "crash" \in Happens
    /\ mon[g] = "watching"
    /\ Fail(g)
    /\ mon' = [mon EXCEPT ![g] = "failing"]
    /\ UNCHANGED <<state, want, hidden, target, slots, lock, flow, gen, bridge, asked,
                   cut, missed>>

\* MUTANT: an exit is not taken for a failure.
MonitorEnds_Silent(g) ==
    /\ mon[g] \in {"watching", "failing"}
    /\ proc[g] = "dead"
    /\ UNCHANGED mstate
    /\ held' = [held EXCEPT ![g] = FALSE]
    /\ mon' = [mon EXCEPT ![g] = "done"]
    /\ UNCHANGED <<state, want, hidden, target, slots, lock, flow, gen, bridge, proc,
                   asked, cut, missed>>

\* The monitor sees the renderer's exit, or the end it was waiting for.
MonitorEnds(g) ==
    /\ mon[g] \in {"watching", "failing"}
    /\ proc[g] = "dead"
    /\ mstate' = [mstate EXCEPT ![g] = "failed"]
    /\ held' = [held EXCEPT ![g] = FALSE]
    /\ mon' = [mon EXCEPT ![g] = "done"]
    /\ UNCHANGED <<state, want, hidden, target, slots, lock, flow, gen, bridge, proc,
                   asked, cut, missed>>

\* The monitor has ended: a window that was closed is no failure.  (Whatever takes
\* the manager cancels the watcher first, so it never finds another's.)
WatcherWakes(g) ==
    /\ flow[Watcher(g)].at = "watching"
    /\ mon[g] = "done"
    /\ mgr = g /\ mstate[g] = "failed"
    /\ state' \in {"failed", "off"}
    /\ GoTo(Watcher(g), "tear")
    /\ UNCHANGED <<want, hidden, target, slots, lock, gen, bridge, proc, manager,
                   asked, cut, missed>>

\* The renderer process: it may end by itself, and ends when it is told to.
ProcessDies(g) ==
    /\ \/ proc[g] = "signalled"
       \/ proc[g] = "running" /\ "crash" \in Happens
    /\ proc' = [proc EXCEPT ![g] = "dead"]
    /\ UNCHANGED <<state, want, hidden, target, slots, lock, flow, gen, bridge,
                   manager, asked, cut, missed>>

-----------------------------------------------------------------------------
Act(r) ==
    \/ BeginLocked(r) \/ ShutdownLocked(r) \/ GraceOver(r)
    \/ BeginStarts(r) \/ ShutdownTorn(r) \/ ShutdownEnds(r)

Teardown(f) ==
    \/ TearStart(f) \/ TearWatcher(f) \/ TearManager(f) \/ TearProcess(f)
    \/ TearProcessEnds(f) \/ TearBridge(f) \/ TornByTask(f)

RunStart(g) ==
    \/ StartRuns(g) \/ BridgeUp(g) \/ Spawned(g) \/ Ready(g) \/ NotReady(g)
    \/ StartConnected(g) \/ StartRefused(g) \/ StartEnds(g)

Next ==
    \/ ToggleAsked \/ PeerAsked \/ OtherAsked
    \/ ToggleOn \/ ToggleOff \/ Hid \/ Revealed
    \/ \E r \in Requests : Act(r)
    \/ \E f \in Flows : Teardown(f)
    \/ \E g \in Starts :
          \/ RunStart(g) \/ BridgeFails(g) \/ SpawnFails(g)
          \/ RendererError(g) \/ MonitorEnds(g)
          \/ WatcherWakes(g) \/ ProcessDies(g)

Spec == Init /\ [][Next]_vars

\* Flows go on, a start is answered or times out, a process that is told to end
\* ends.  Nobody has to ask for anything and no renderer has to crash.
FairSpec ==
    /\ Spec
    /\ WF_vars(ToggleOn) /\ WF_vars(ToggleOff) /\ WF_vars(Hid) /\ WF_vars(Revealed)
    /\ \A r \in Requests : WF_vars(Act(r))
    /\ \A f \in Flows : WF_vars(Teardown(f))
    /\ \A g \in Starts :
          /\ WF_vars(RunStart(g))
          /\ WF_vars(MonitorEnds(g))
          /\ WF_vars(WatcherWakes(g))
          /\ WF_vars(proc[g] = "signalled" /\ ProcessDies(g))

-----------------------------------------------------------------------------
(***************************************************************************)
(* Properties.                                                             *)
(***************************************************************************)
Stages == {"idle", "done", "saving", "revealing", "hiding", "locking", "grace",
           "tear", "watcher", "presenter", "monitor", "process", "bridge", "after",
           "refresh", "created", "opening", "spawning", "startup", "ready",
           "watching"}

\* Every variable keeps to its type, and whoever holds the lock is at work.
TypeOK ==
    /\ state \in {"off", "starting", "connected", "failed", "stopping"}
    /\ want \in BOOLEAN
    /\ hidden \in BOOLEAN
    /\ target \in Targets \cup {"none"}
    /\ {startTask, watchTask, mgr, brg} \subseteq Starts \cup {None}
    /\ lock \in Seq(Requests)
    /\ \A i \in DOMAIN lock : Alive(lock[i])
    /\ flow \in [Flows -> [at : Stages,
                           goal : {"none", "on", "off", "begin", "shutdown", "restart"},
                           m : Starts \cup {None}, b : Starts \cup {None}]]
    /\ gen \in 0..MaxStart
    /\ bridge \in [Starts -> {"none", "up", "closed"}]
    /\ proc \in [Starts -> {"none", "running", "signalled", "dead"}]
    /\ held \in [Starts -> BOOLEAN]
    /\ mstate \in [Starts -> {"off", "starting", "connected", "failed", "stopping"}]
    /\ mon \in [Starts -> {"none", "watching", "failing", "done"}]
    /\ asked \in 0..MaxAsked
    /\ cut \subseteq Starts
    /\ missed \in BOOLEAN

\* However toggles, failures and shutdowns overlap, two overlays never run at once; a process
\* that runs and a bridge that listens have somebody who will stop them: a slot, or the
\* teardown that took them from it.  Only a bridge whose start or stop was itself cancelled
\* is left over.
OneOverlay ==
    \A g \in Starts :
        /\ proc[g] = "running" => \A h \in Starts : proc[h] = "running" => h = g
        /\ proc[g] = "running" =>
              held[g] /\ (mgr = g \/ \E f \in Flows : flow[f].m = g)
        /\ bridge[g] = "up" /\ g \notin cut =>
              brg = g \/ \E f \in Flows : flow[f].b = g

Stopping ==
    \E r \in Requests : Alive(r) /\ flow[r].goal \in {"shutdown", "restart"} /\ lock[1] = r

\* While the overlay counts as connected somebody is there to see it die: a watcher,
\* or the start that will create it, and a monitor that runs or has ended in the
\* failure the watcher acts on.
ConnectedIsWatched ==
    state = "connected" /\ ~Stopping =>
        /\ mgr # None /\ brg = mgr
        /\ flow[Start(mgr)].at = "refresh" \/ flow[Watcher(mgr)].at = "watching"
        /\ mon[mgr] = "done" => mstate[mgr] = "failed"

AllRest == \A f \in Flows : ~Alive(f) \/ flow[f].at = "watching"

\* At rest, an overlay the user switched off is not shown; and one that is off or failed has
\* left no process and no bridge, but for a bridge that was cut off.
OffObeyed ==
    AllRest =>
        /\ ~want /\ ~missed => state \notin {"starting", "connected"} \/ hidden
        /\ state \in {"off", "failed"} =>
              \A g \in Starts : proc[g] # "running" /\ (bridge[g] = "up" => g \in cut)

\* Every request, start and teardown comes to an end: none waits for another for ever; and
\* an overlay that dies does not stay connected.  (OutOfStarts: the bound on the starts
\* stops a request.)
OutOfStarts ==
    gen = MaxStart /\ \E r \in Requests : flow[r].at = "after" /\ flow[r].goal = "begin"
Settles ==
    /\ []<>(AllRest \/ OutOfStarts)
    /\ \A g \in Starts :
          proc[g] = "dead" /\ mgr = g ~> mgr # g /\ (bridge[g] = "up" => g \in cut)
=============================================================================
