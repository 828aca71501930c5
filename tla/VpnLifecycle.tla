---------------------------- MODULE VpnLifecycle ----------------------------
(***************************************************************************)
(* Starting and stopping the VPN on Android: GlobalState.kt (run state,    *)
(* pending timeout, stop lock) and VpnPlugin.kt (binding of the service,   *)
(* start flows, stops).  The main thread, the coroutines of                *)
(* Dispatchers.Default and the binder thread of onRevoke interleave; what  *)
(* runs under runLock is one step, but for the installation of a suspend   *)
(* module, during which nobody else gets the lock.                         *)
(*                                                                         *)
(* Core.startTun and Core.stopTun only post a goroutine of the Go core     *)
(* (module AndroidTun), and goroutines may overtake each other.            *)
(***************************************************************************)
EXTENDS Naturals, Sequences, SequencesExt

CONSTANTS
  Flows,  \* start and resume coroutines, each launched once
  Stops,  \* calls of handleStop and handleSmartStop
  Events, \* what else may happen in an instance, see EventKinds
  Null

EventKinds == {"toggle", "sync", "crash", "engine", "dialog", "doze"}

ASSUME VpnAssumption ==
  /\ Null \notin Flows
  /\ Events \subseteq EventKinds

VARIABLES
  runState,   \* currentRunState
  timer,      \* pendingTimeoutJob is waiting
  main,       \* the check the main thread has made and not acted upon yet
  isStopping, \* the stop lock
  resets,     \* coroutines that wait to open the stop lock
  attached,   \* an engine is attached, so the scope of VpnPlugin is alive
  service,    \* bettBoxService # null
  isBind,     \* the connection has been called back
  isBinding,  \* bindService is under way
  bindTimer,  \* bindTimeoutJob is waiting
  registered, \* the system knows the connection and may call it back
  asking,     \* the permission dialog is open
  flow,       \* flow[f]: where the coroutine is
  stop,       \* stop[c]: where the call is, its kind, wasBound
  module,     \* suspendModule: the flow that installed it
  installed,  \* modules whose receiver is registered
  suspended,  \* modules with isSuspended
  coreAsleep, \* the last argument of Core.suspended
  updates,    \* calls of updateSuspendState that have something to change
  torn,       \* history: modules uninstalled or updated again in the middle of
              \* an update
  posted,     \* requests to the core: a flow's startTun, or Null for stopTun
  tun,        \* the flow whose TUN is up
  stoppedBy,  \* history: who wrote the last STOP over another state
  wanted,     \* history: the last request was to start
  late,       \* history: something that may start outlived the last stop
  overlaps    \* history: races that have happened, see Races

engineVars == <<resets, attached>>
bindVars == <<service, isBind, isBinding, bindTimer, registered>>
moduleVars == <<module, installed, suspended, coreAsleep, updates, torn>>
stateVars == <<runState, timer, stoppedBy>>
tunVars == <<posted, tun>>
historyVars == <<wanted, late, overlaps>>
vars == <<stateVars, main, isStopping, engineVars, bindVars, asking, flow, stop,
          moduleVars, tunVars, historyVars>>

StopKinds == {"stop", "force", "revoke", "smart"}

StopStates == {"idle", "uninstall", "forget", "stopTun", "unbind", "done"}

NotYetAllowed == {"prepare", "resume"}

FlowStates == NotYetAllowed \union
  {"idle", "establish", "retry", "failed", "canStart", "startTun", "recheck",
   "installing", "done"}

\* An update on the main thread or by the flow that installs the module; told:
\* Core.suspended has been called and isSuspended is still to be written.
Updates == [by : {"main", "flow"}, module : Flows, asleep : BOOLEAN, told : BOOLEAN]

\* A start or a connection came while a stop ran; the core served a later
\* request first; a state was overwritten that had changed since it was read;
\* coroutines ended with the last engine.
Races == {"crossed", "overtaken", "stale", "detached"}

TypeOK ==
  /\ runState \in {"START", "PENDING", "STOP"}
  /\ main \in {"free", "toggleStart", "toggleStop", "timeout", "syncStart",
               "syncStop", "updating"}
  /\ timer \in BOOLEAN /\ isStopping \in BOOLEAN /\ attached \in BOOLEAN
  /\ service \in BOOLEAN /\ isBind \in BOOLEAN /\ isBinding \in BOOLEAN
  /\ bindTimer \in BOOLEAN /\ registered \in BOOLEAN /\ asking \in BOOLEAN
  /\ coreAsleep \in BOOLEAN /\ wanted \in BOOLEAN /\ late \in BOOLEAN
  /\ resets \in Nat
  /\ flow \in [Flows -> FlowStates]
  /\ stop \in [Stops -> [pc : StopStates, kind : StopKinds, wasBound : BOOLEAN]]
  /\ module \in Flows \union {Null}
  /\ installed \subseteq Flows
  /\ suspended \subseteq Flows
  /\ updates \subseteq Updates
  /\ torn \subseteq Flows
  /\ posted \in Seq(Flows \union {Null})
  /\ tun \in Flows \union {Null}
  /\ stoppedBy \in {"stop", "other"}
  /\ overlaps \subseteq Races

Init ==
  /\ runState = "STOP" /\ stoppedBy = "stop" /\ timer = FALSE
  /\ main = "free" /\ isStopping = FALSE /\ resets = 0 /\ attached = TRUE
  /\ service = FALSE /\ isBind = FALSE /\ isBinding = FALSE
  /\ bindTimer = FALSE /\ registered = FALSE /\ asking = FALSE
  /\ flow = [f \in Flows |-> "idle"]
  /\ stop = [c \in Stops |-> [pc |-> "idle", kind |-> "stop", wasBound |-> FALSE]]
  /\ module = Null /\ installed = {} /\ suspended = {} /\ coreAsleep = FALSE
  /\ updates = {} /\ torn = {}
  /\ posted = <<>> /\ tun = Null
  /\ wanted = FALSE /\ late = FALSE /\ overlaps = {}

-----------------------------------------------------------------------------
\* updateRunState
UpdateRunState(new, by) ==
  /\ runState' = new
  /\ timer' = (timer /\ new = "PENDING")
  /\ stoppedBy' = IF new = "STOP" /\ runState # "STOP" THEN by ELSE stoppedBy

Raced(race, happened) ==
  overlaps' = IF happened THEN overlaps \union {race} ELSE overlaps

Stopping(c) == stop[c].pc \notin {"idle", "done"}

\* One thing at a time runs on the main thread.
MainFree ==
  /\ main = "free"
  /\ \A c \in Stops : Stopping(c) => stop[c].kind = "revoke"

\* runLock is held over several steps only by a flow that installs a module.
LockFree == \A f \in Flows : flow[f] # "installing"

Before(f, pc) == flow[f] = pc
Then(f, pc) == flow' = [flow EXCEPT ![f] = pc]

\* scope.launch: a cancelled scope starts nothing.
Launch(f, pc) == Then(f, IF attached THEN pc ELSE "done")

\* bindService, which gives up when a bind is under way.
BindService(alive) ==
  \/ /\ isBinding
     /\ UNCHANGED <<isBind, isBinding, bindTimer, registered>>
  \/ /\ ~isBinding
     /\ isBind' = FALSE
     /\ \/ /\ isBinding' = TRUE
           /\ bindTimer' = alive
           /\ registered' = TRUE
        \/ /\ isBinding' = FALSE
           /\ bindTimer' = FALSE
           /\ registered' = (registered /\ ~isBind)

\* handleStartService, with the service it finds.
HandleStartService(f, bound) ==
  \/ /\ isStopping
     /\ UNCHANGED <<flow, isBind, isBinding, bindTimer, registered>>
  \/ /\ ~isStopping /\ ~bound
     /\ BindService(attached)
     /\ UNCHANGED flow
  \/ /\ ~isStopping /\ bound
     /\ Before(f, "idle")
     /\ Launch(f, "prepare")
     /\ UNCHANGED <<isBind, isBinding, bindTimer, registered>>

-----------------------------------------------------------------------------
(* Requests and callbacks of the main thread.                              *)

\* handleStart; a change of options.enable drops the service.  Without the
\* VPN permission a dialog comes first.
HandleStart(f) ==
  /\ MainFree /\ attached
  /\ \E switched \in BOOLEAN : service' = (service /\ ~switched)
  /\ \/ /\ "dialog" \in Events
        /\ asking' = TRUE
        /\ UNCHANGED <<flow, isBind, isBinding, bindTimer, registered>>
     \/ /\ HandleStartService(f, service')
        /\ UNCHANGED asking
  /\ wanted' = TRUE
  /\ UNCHANGED <<stateVars, main, isStopping, engineVars, stop, moduleVars,
                 tunVars, late, overlaps>>

\* The answer of the permission dialog.
PermissionAnswer(f) ==
  /\ MainFree /\ asking
  /\ asking' = FALSE
  /\ \/ HandleStartService(f, service)
     \/ UNCHANGED <<flow, isBind, isBinding, bindTimer, registered>>
  /\ UNCHANGED <<stateVars, main, isStopping, engineVars, service, stop,
                 moduleVars, tunVars, historyVars>>

HandleSmartResume(f) ==
  /\ MainFree /\ attached
  /\ Before(f, "idle")
  /\ Launch(f, "resume")
  /\ wanted' = TRUE
  /\ UNCHANGED <<stateVars, main, isStopping, engineVars, bindVars, asking,
                 stop, moduleVars, tunVars, late, overlaps>>

\* onServiceConnected, also when the system reconnects after a crash.
OnServiceConnected(f) ==
  /\ MainFree /\ registered /\ ~isBind
  /\ service' = TRUE
  /\ isBind' = TRUE
  /\ isBinding' = FALSE
  /\ bindTimer' = FALSE
  /\ \/ /\ isStopping
        /\ UNCHANGED flow
     \/ /\ ~isStopping
        /\ Before(f, "idle")
        /\ Launch(f, "prepare")
  /\ Raced("crossed", ~isStopping /\ \E c \in Stops : Stopping(c))
  /\ UNCHANGED <<stateVars, main, isStopping, engineVars, registered, asking,
                 stop, moduleVars, tunVars, wanted, late>>

OnServiceDisconnected ==
  /\ "crash" \in Events
  /\ MainFree /\ registered /\ isBind
  /\ isBind' = FALSE
  /\ isBinding' = FALSE
  /\ service' = FALSE
  /\ IF runState = "START" THEN UpdateRunState("STOP", "other")
                           ELSE UNCHANGED stateVars
  /\ UNCHANGED <<main, isStopping, engineVars, bindTimer, registered, asking,
                 flow, stop, moduleVars, tunVars, historyVars>>

\* An engine attaches: a cancelled scope is replaced; with the first engine or a
\* further one, a lost service is bound anew.
OnAttached ==
  /\ MainFree
  /\ attached => "engine" \in Events
  /\ attached' = TRUE
  /\ IF runState = "START" /\ ~service
       THEN BindService(TRUE)
       ELSE UNCHANGED <<isBind, isBinding, bindTimer, registered>>
  /\ UNCHANGED <<stateVars, main, isStopping, resets, service, asking, flow,
                 stop, moduleVars, tunVars, historyVars>>

\* The last engine goes, be it by handleTryDestroy, destroy or the activity:
\* coroutines that have not begun or are in a delay end there.  A start flow in
\* the delay before its retry ends in the catch of the flow, as if it had failed.
OnDetached ==
  /\ "engine" \in Events
  /\ MainFree /\ attached
  /\ attached' = FALSE
  /\ asking' = FALSE
  /\ resets' = 0
  /\ bindTimer' = FALSE
  /\ \E killed \in SUBSET {f \in Flows : flow[f] \in NotYetAllowed \union {"retry"}} :
       /\ flow' = [f \in Flows |-> IF f \notin killed THEN flow[f]
                                   ELSE IF flow[f] = "retry" THEN "failed" ELSE "done"]
       /\ Raced("detached", killed # {} \/ resets > 0)
  /\ UNCHANGED <<stateVars, main, isStopping, service, isBind, isBinding,
                 registered, stop, moduleVars, tunVars, wanted, late>>

\* handleToggle: it reads the state ...
Toggle ==
  /\ "toggle" \in Events
  /\ MainFree
  /\ \/ runState = "STOP" /\ main' = "toggleStart"
     \/ runState = "START" /\ main' = "toggleStop"
  /\ UNCHANGED <<stateVars, isStopping, engineVars, bindVars, asking, flow, stop,
                 moduleVars, tunVars, historyVars>>

\* Faulty variant: no timeout watches the pending state.
TogglePendingUnwatched ==
  /\ main \in {"toggleStart", "toggleStop"}
  /\ main' = "free"
  /\ runState' = "PENDING"
  /\ Raced("stale", runState # (IF main = "toggleStart" THEN "STOP" ELSE "START"))
  /\ attached' = (attached \/ main = "toggleStart")
  /\ UNCHANGED <<timer, stoppedBy, isStopping, resets, bindVars, asking, flow,
                 stop, moduleVars, tunVars, wanted, late>>

\* ... and overwrites it; Dart is asked to start or stop, on a new engine if a
\* start finds none.
TogglePending ==
  /\ main \in {"toggleStart", "toggleStop"}
  /\ main' = "free"
  /\ runState' = "PENDING" /\ timer' = TRUE
  /\ Raced("stale", runState # (IF main = "toggleStart" THEN "STOP" ELSE "START"))
  /\ attached' = (attached \/ main = "toggleStart")
  /\ UNCHANGED <<stoppedBy, isStopping, resets, bindVars, asking, flow, stop,
                 moduleVars, tunVars, wanted, late>>

\* syncStatus reads under the lock and writes outside.
SyncStatusRead ==
  /\ "sync" \in Events
  /\ MainFree /\ LockFree
  /\ main' = IF runState = "START" /\ service THEN "syncStart" ELSE "syncStop"
  /\ UNCHANGED <<stateVars, isStopping, engineVars, bindVars, asking, flow, stop,
                 moduleVars, tunVars, historyVars>>

SyncStatusWrite ==
  /\ main \in {"syncStart", "syncStop"}
  /\ main' = "free"
  /\ UpdateRunState(IF main = "syncStart" THEN "START" ELSE "STOP", "other")
  /\ Raced("stale", (main = "syncStart") # (runState = "START" /\ service))
  /\ UNCHANGED <<isStopping, engineVars, bindVars, asking, flow, stop,
                 moduleVars, tunVars, wanted, late>>

\* The pending timeout checks, then writes.
PendingTimeout ==
  /\ MainFree /\ timer
  /\ timer' = FALSE
  /\ main' = IF runState = "PENDING" THEN "timeout" ELSE "free"
  /\ UNCHANGED <<runState, stoppedBy, isStopping, engineVars, bindVars, asking,
                 flow, stop, moduleVars, tunVars, historyVars>>

PendingTimeoutWrite ==
  /\ main = "timeout"
  /\ main' = "free"
  /\ UpdateRunState("STOP", "other")
  /\ Raced("stale", runState # "PENDING")
  /\ UNCHANGED <<isStopping, engineVars, bindVars, asking, flow, stop,
                 moduleVars, tunVars, wanted, late>>

-----------------------------------------------------------------------------
(* Coroutines of Dispatchers.Default.                                      *)

flowFrame == <<main, isStopping, engineVars, stop, wanted, late>>

BindTimeout ==
  /\ bindTimer /\ (isBinding => LockFree)
  /\ bindTimer' = FALSE
  /\ isBinding' = FALSE
  /\ IF isBinding /\ runState = "PENDING" THEN UpdateRunState("STOP", "other")
                                          ELSE UNCHANGED stateVars
  /\ UNCHANGED <<service, isBind, registered, asking, flow, moduleVars, tunVars,
                 overlaps, flowFrame>>

\* A start flow without the VPN permission gives up and asks for it.
PrepareRefused(f) ==
  /\ "dialog" \in Events
  /\ Before(f, "prepare")
  /\ Then(f, "done")
  /\ UpdateRunState("STOP", "other")
  /\ asking' = attached
  /\ UNCHANGED <<bindVars, moduleVars, tunVars, overlaps, flowFrame>>

\* The locked part of a start: only one flow may take START.
StartAllowed(f) ==
  /\ Before(f, "prepare") /\ LockFree
  /\ \/ /\ runState = "START"
        /\ Then(f, "done")
        /\ UNCHANGED <<stateVars, overlaps>>
     \/ /\ runState # "START"
        /\ UpdateRunState("START", "other")
        /\ Then(f, "establish")
        /\ Raced("crossed", \E c \in Stops : Stopping(c))
  /\ UNCHANGED <<bindVars, asking, moduleVars, tunVars, flowFrame>>

\* The locked part of handleSmartResume: no look at the stop lock.
ResumeAllowed(f) ==
  /\ Before(f, "resume") /\ LockFree
  /\ \/ /\ runState = "START"
        /\ Then(f, "done")
        /\ UNCHANGED <<stateVars, overlaps, isBind, isBinding, bindTimer,
                       registered>>
     \/ /\ runState # "START" /\ ~service
        /\ BindService(attached)
        /\ Then(f, "done")
        /\ UNCHANGED <<stateVars, overlaps>>
     \/ /\ runState # "START" /\ service
        /\ UpdateRunState("START", "other")
        /\ Then(f, "establish")
        /\ Raced("crossed", \E c \in Stops : Stopping(c))
        /\ UNCHANGED <<isBind, isBinding, bindTimer, registered>>
  /\ UNCHANGED <<service, asking, moduleVars, tunVars, flowFrame>>

\* performStartCore establishes the interface, a start flow up to twice.
Establish(f) ==
  /\ flow[f] \in {"establish", "retry"}
  /\ \/ service /\ Then(f, "canStart")
     \/ Before(f, "establish") /\ Then(f, "retry")
     \/ Then(f, "failed")
  /\ UNCHANGED <<stateVars, bindVars, asking, moduleVars, tunVars, overlaps,
                 flowFrame>>

\* Faulty variant: the failed start stays recorded as running.
StartFailedSilently(f) ==
  /\ Before(f, "failed")
  /\ Then(f, "done")
  /\ UNCHANGED <<stateVars, bindVars, asking, moduleVars, tunVars, overlaps,
                 flowFrame>>

\* The end of performStartCore, or the catch of a start flow.
StartFailed(f) ==
  /\ Before(f, "failed") /\ LockFree
  /\ Then(f, "done")
  /\ UpdateRunState("STOP", "other")
  /\ UNCHANGED <<bindVars, asking, moduleVars, tunVars, overlaps, flowFrame>>

CanStart(f) ==
  /\ Before(f, "canStart") /\ LockFree
  /\ Then(f, IF runState = "START" THEN "startTun" ELSE "done")
  /\ UNCHANGED <<stateVars, bindVars, asking, moduleVars, tunVars, overlaps,
                 flowFrame>>

StartTun(f) ==
  /\ Before(f, "startTun")
  /\ Then(f, "recheck")
  /\ posted' = Append(posted, f)
  /\ UNCHANGED <<stateVars, bindVars, asking, moduleVars, tun, overlaps,
                 flowFrame>>

\* The module m is uninstalled while an update of it is under way.
Tearing(m) == IF \E u \in updates : u.module = m THEN {m} ELSE {}

\* uninstall of the module that suspendModule leads to: its receiver is gone, but
\* an update that is under way goes on.
Uninstalling ==
  /\ suspended' = suspended \ {module}
  /\ coreAsleep' = (coreAsleep /\ module \notin suspended)
  /\ torn' = torn \union Tearing(module)

\* suspendModule?.uninstall() and install(), whose update finds isSuspended unset
\* and has something to do when the device is idle.
Installing(f) ==
  /\ Uninstalling
  /\ module' = f
  /\ installed' = (installed \ {module}) \union {f}
  /\ \/ /\ Then(f, "installing")
        /\ updates' = updates \union
             {[by |-> "flow", module |-> f, asleep |-> TRUE, told |-> FALSE]}
     \/ /\ Then(f, "done")
        /\ UNCHANGED updates

\* Faulty variant: a stop that came meanwhile goes unnoticed.
RecheckNothing(f) ==
  /\ Before(f, "recheck")
  /\ Then(f, "done")
  /\ UNCHANGED <<stateVars, bindVars, asking, moduleVars, tunVars, overlaps, flowFrame>>

\* The last part of performStartCore: a stop that came meanwhile is caught up
\* with; otherwise a flow with dozeSuspend replaces the suspend module.
Recheck(f) ==
  /\ Before(f, "recheck") /\ LockFree
  /\ \/ /\ runState # "START"
        /\ posted' = Append(posted, Null)
        /\ Then(f, "done")
        /\ UNCHANGED moduleVars
     \/ /\ runState = "START"
        /\ \/ "doze" \in Events /\ Installing(f)
           \/ Then(f, "done") /\ UNCHANGED moduleVars
        /\ UNCHANGED posted
  /\ UNCHANGED <<stateVars, bindVars, asking, tun, overlaps, flowFrame>>

-----------------------------------------------------------------------------
(* The suspend module.                                                     *)

\* A broadcast reaches an installed module, on the main thread:
\* updateSuspendState compares the device with isSuspended ...
UpdateSuspendState(m) ==
  /\ MainFree /\ m \in installed
  /\ main' = "updating"
  /\ updates' = updates \union {[by |-> "main", module |-> m,
                                asleep |-> m \notin suspended, told |-> FALSE]}
  /\ torn' = torn \union Tearing(m)
  /\ UNCHANGED <<stateVars, isStopping, engineVars, bindVars, asking, flow, stop,
                 module, installed, suspended, coreAsleep, tunVars, historyVars>>

updateFrame == <<stateVars, isStopping, engineVars, bindVars, asking, stop, module,
                 installed, torn, tunVars, historyVars>>

\* ... tells the core ...
TellCore(u) ==
  /\ ~u.told
  /\ coreAsleep' = u.asleep
  /\ updates' = (updates \ {u}) \union {[u EXCEPT !.told = TRUE]}
  /\ UNCHANGED <<main, flow, suspended, updateFrame>>

\* ... and writes isSuspended; a flow lets go of runLock.
SetSuspended(u) ==
  /\ u.told
  /\ suspended' = IF u.asleep THEN suspended \union {u.module}
                              ELSE suspended \ {u.module}
  /\ updates' = updates \ {u}
  /\ \/ /\ u.by = "main"
        /\ main' = "free"
        /\ UNCHANGED flow
     \/ /\ u.by = "flow"
        /\ Before(u.module, "installing")
        /\ Then(u.module, "done")
        /\ UNCHANGED main
  /\ UNCHANGED <<coreAsleep, updateFrame>>

UpdateStep(u) == TellCore(u) \/ SetSuspended(u)

-----------------------------------------------------------------------------
(* handleStop and handleSmartStop.                                         *)

StopAt(c, from, to) ==
  /\ stop[c].pc = from
  /\ stop' = [stop EXCEPT ![c].pc = to]

\* What may start although the last request is a stop: a dialog, a coroutine,
\* or a connection that the stop does not unbind.
StartUnderWay(unbinds) ==
  \/ asking
  \/ registered /\ ~unbinds
  \/ \E f \in Flows : flow[f] \in NotYetAllowed

\* The locked part.  handleSmartStop shares it, without the stop lock.
StopEnter(c, kind) ==
  /\ stop[c].pc = "idle" /\ LockFree
  /\ kind = "revoke" \/ MainFree
  /\ wanted' = FALSE
  /\ \/ /\ runState = "STOP" /\ kind # "force"
        /\ late' = StartUnderWay(FALSE)
        /\ StopAt(c, "idle", "done")
        /\ UNCHANGED <<stateVars, isStopping>>
     \/ /\ runState # "STOP" \/ kind = "force"
        /\ late' = StartUnderWay(isBind /\ kind # "smart")
        /\ UpdateRunState("STOP", "stop")
        /\ isStopping' = (isStopping \/ kind # "smart")
        /\ stop' = [stop EXCEPT ![c] =
                      [pc |-> "uninstall", kind |-> kind, wasBound |-> isBind]]
  /\ UNCHANGED <<main, engineVars, bindVars, asking, flow, moduleVars, tunVars,
                 overlaps>>

stopFrame == <<stateVars, main, isStopping, asking, flow, historyVars>>

\* Faulty variant: the core is left suspended.
UninstallAsleep(c) ==
  /\ StopAt(c, "uninstall", "forget")
  /\ installed' = installed \ {module}
  /\ suspended' = suspended \ {module}
  /\ torn' = torn \union Tearing(module)
  /\ UNCHANGED <<module, coreAsleep, updates, engineVars, bindVars, tunVars, stopFrame>>

\* Faulty variant: only a module that has suspended the core is unregistered.
UninstallIfSuspended(c) ==
  /\ StopAt(c, "uninstall", "forget")
  /\ installed' = IF module \in suspended THEN installed \ {module} ELSE installed
  /\ Uninstalling
  /\ UNCHANGED <<module, updates, engineVars, bindVars, tunVars, stopFrame>>

\* suspendModule?.uninstall(), and in a step of its own suspendModule = null.
Uninstall(c) ==
  /\ StopAt(c, "uninstall", "forget")
  /\ installed' = installed \ {module}
  /\ Uninstalling
  /\ UNCHANGED <<module, updates, engineVars, bindVars, tunVars, stopFrame>>

Forget(c) ==
  /\ StopAt(c, "forget", "stopTun")
  /\ module' = Null
  /\ UNCHANGED <<installed, suspended, coreAsleep, updates, torn, engineVars,
                 bindVars, tunVars, stopFrame>>

StopTun(c) ==
  /\ StopAt(c, "stopTun", IF stop[c].kind = "smart" THEN "done" ELSE "unbind")
  /\ posted' = Append(posted, Null)
  /\ UNCHANGED <<tun, engineVars, bindVars, moduleVars, stopFrame>>

\* Faulty variants: the connection stays with the system; the stop lock is
\* never opened.
UnbindFlagOnly(c) ==
  /\ StopAt(c, "unbind", "done")
  /\ isBind' = (isBind /\ ~stop[c].wasBound)
  /\ service' = FALSE
  /\ resets' = IF attached THEN resets + 1 ELSE resets
  /\ UNCHANGED <<registered, isBinding, bindTimer, attached, moduleVars, tunVars,
                 stopFrame>>

UnbindKeepingLock(c) ==
  /\ StopAt(c, "unbind", "done")
  /\ isBind' = (isBind /\ ~(stop[c].wasBound /\ registered))
  /\ registered' = (registered /\ ~stop[c].wasBound)
  /\ service' = (service /\ stop[c].wasBound /\ ~registered)
  /\ UNCHANGED <<isBinding, bindTimer, engineVars, moduleVars, tunVars, stopFrame>>

\* The rest of handleStop: unbinding a connection the system no longer knows
\* throws and keeps the service; the stop lock will be opened after a delay.
Unbind(c) ==
  /\ StopAt(c, "unbind", "done")
  /\ isBind' = (isBind /\ ~(stop[c].wasBound /\ registered))
  /\ registered' = (registered /\ ~stop[c].wasBound)
  /\ service' = (service /\ stop[c].wasBound /\ ~registered)
  /\ resets' = IF attached THEN resets + 1 ELSE resets
  /\ Raced("detached", ~attached)
  /\ UNCHANGED <<isBinding, bindTimer, attached, moduleVars, tunVars, stateVars,
                 main, isStopping, asking, flow, wanted, late>>

OpenStopLock ==
  /\ resets > 0
  /\ resets' = resets - 1
  /\ isStopping' = FALSE
  /\ UNCHANGED <<stateVars, main, attached, bindVars, asking, flow, stop,
                 moduleVars, tunVars, historyVars>>

-----------------------------------------------------------------------------
\* The goroutine of a posted request runs, perhaps before an earlier one.
CoreServes(i) ==
  /\ tun' = posted[i]
  /\ posted' = RemoveAt(posted, i)
  /\ Raced("overtaken", i # 1)
  /\ UNCHANGED <<stateVars, main, isStopping, engineVars, bindVars, asking, flow,
                 stop, moduleVars, wanted, late>>

FlowStep(f) ==
  \/ PrepareRefused(f) \/ StartAllowed(f) \/ ResumeAllowed(f) \/ Establish(f)
  \/ StartFailed(f) \/ CanStart(f) \/ StartTun(f) \/ Recheck(f)

StopStep(c) == Uninstall(c) \/ Forget(c) \/ StopTun(c) \/ Unbind(c)

MainStep ==
  \/ TogglePending \/ SyncStatusWrite \/ PendingTimeoutWrite
  \/ \E u \in updates : u.by = "main" /\ UpdateStep(u)

Next ==
  \/ \E f \in Flows :
       \/ HandleStart(f) \/ PermissionAnswer(f) \/ HandleSmartResume(f)
       \/ OnServiceConnected(f) \/ FlowStep(f) \/ UpdateSuspendState(f)
  \/ \E c \in Stops : StopStep(c) \/ \E kind \in StopKinds : StopEnter(c, kind)
  \/ OnServiceDisconnected \/ OnAttached \/ OnDetached
  \/ Toggle \/ SyncStatusRead \/ PendingTimeout \/ MainStep
  \/ \E u \in updates : u.by = "flow" /\ UpdateStep(u)
  \/ BindTimeout \/ OpenStopLock
  \/ \E i \in DOMAIN posted : CoreServes(i)

\* The main thread goes on with what it has begun, and takes its messages in
\* order: broadcasts do not keep a timer from firing for ever.
Fairness ==
  /\ WF_vars(MainStep)
  /\ SF_vars(PendingTimeout)
  /\ \A c \in Stops : WF_vars(StopStep(c))

Spec == Init /\ [][Next]_vars /\ Fairness

-----------------------------------------------------------------------------
AtRest ==
  /\ main = "free" /\ posted = <<>>
  /\ \A f \in Flows : flow[f] \in {"idle", "done"}
  /\ \A c \in Stops : ~Stopping(c)

\* After a stop the TUN goes down, also when the stop came in the middle of a
\* start: at rest it is up in state STOP only if that STOP was not written by a
\* stop, or if a start crossed the stop or overtook it in the core.
StoppedMeansDown ==
  (AtRest /\ runState = "STOP" /\ stoppedBy = "stop" /\ overlaps = {}) =>
    tun = Null

\* Without such a race the state START at rest means that the TUN is up.
StartedMeansUp ==
  (AtRest /\ runState = "START" /\ overlaps = {}) => tun # Null

\* A suspend module whose receiver is registered is the one suspendModule
\* leads to, so that the next stop uninstalls it, unless a start or a stale START
\* crossed a stop.
NoModuleLost ==
  overlaps \intersect {"crossed", "stale"} = {} => installed \subseteq {module}

\* The core sleeps only on behalf of an installed module that will wake it, or
\* is just being put to sleep or woken by one: a stopped VPN does not leave the
\* core suspended, unless a start crossed a stop or an update of a module was
\* torn by its uninstallation or by a second update.
SomeoneWillWake ==
  (overlaps \intersect {"crossed", "stale"} = {} /\ torn = {}) =>
    /\ coreAsleep => \E m \in installed :
                       m \in suspended \/ \E u \in updates : u.module = m
    /\ suspended # {} => coreAsleep \/ updates # {}

\* The stop lock, which makes starts void, is held only while a stop runs or a
\* coroutine waits to open it, unless the last engine went away meanwhile.
StopLockWillOpen ==
  isStopping =>
    \/ \E c \in Stops : Stopping(c) /\ stop[c].kind # "smart"
    \/ resets > 0
    \/ "detached" \in overlaps

\* The state becomes START after a stop only if a start was under way when the
\* stop came (a dialog or a coroutine that handleStop does not cancel, or a
\* connection it does not unbind), or by a race.
StartsAreWanted ==
  [][runState # "START" /\ runState' = "START" =>
       wanted \/ late \/ overlaps' \intersect {"crossed", "stale"} # {}]_vars

\* PENDING, which makes the tile unavailable, does not last.
PendingEnds == runState = "PENDING" ~> runState # "PENDING"
=============================================================================
