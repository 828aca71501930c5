# Bettbox in TLA+

Bettbox is a multi-platform client (Flutter) of the mihomo (Clash.Meta) proxy
kernel. Its own code is small next to the kernel and the user interface: a Go
bridge around the kernel (`core/*.go`), the Dart application that drives it
(`lib/`), the Kotlin side of Android (`android/.../kotlin`) and a helper service
for Windows (`services/helper`). What is hard about that code is order: starts
and stops of the core, of the VPN and of background loops come from the user, the
system, timers and other processes, and each of them is a sequence of
asynchronous steps. These modules model that order; TLC checks them on small
instances, and TLAPS proves invariants of every component for instances of any
size.

Paths below are relative to the repository's root.

## 1. The system

| Part | Source | State | Operations | Module |
|---|---|---|---|---|
| Core: lifecycle and listeners | `core/hub.go`, `core/common.go`, `core/lib.go`, `core/server.go`, kernel: `listener/patch.go`, `listener/listener.go`, `hub/executor/executor.go` | `isRunning`, `currentConfig`, `runLock`, mixed listener, inbound and tunnel listeners of a profile, TUN and `LastTunConf`, tunnel status | start, stop, setup, update, shutdown, suspend | `CoreListeners` |
| Core: TUN of Android | `core/lib_android.go`, `core/tun/tun.go`, `core/android_bride.go` | `tunLock`, `tunHandler`, its semaphore, run time, dialer and resolver hooks, JNI references | `startTUN`, `stopTun`, hooks called by dials | `AndroidTun` |
| Core: log stream | `core/hub.go`, kernel: `common/observable/`, `log/log.go` | `logSubscriber`, the subscriptions, `mux` | `startLog`, `stopLog`, fan-out of an event | `LogSubscription` |
| VPN of Android | `GlobalState.kt`, `plugins/VpnPlugin.kt`, `modules/SuspendModule.kt` and the services, tile and receivers around them | run state, pending timeout, stop lock, binding, suspend module, engines | start, stop, forced stop, revoke, smart stop and resume, toggle, status synchronisation, service callbacks | `VpnLifecycle` |
| Desktop session | `lib/controller.dart`, `lib/state.dart`, `lib/manager/clash_manager.dart` | `startTime`, run time, choice of the TUN, backup of the setup, restart lock | start, stop, restart, setup, update, permission, rollback | `DesktopSession` |
| Update loop | `lib/state.dart` | token, timer, task list, flags | `startUpdateTasks`, `stopUpdateTasks`, timer callback | `UpdateTaskLoop` |
| Requests to the core | `lib/clash/interface.dart` | `callbackCompleterMap` with its timers | invoke, answer, timeout | `Rpc` (promise), `Requests` |
| Connection to the core process | `lib/clash/service.dart`, `core/server.go`, `core/main.go` | server and socket completers, accept loop, process, `isExiting` | restart, connect, accept, send, exit, crash | `CoreConnection` |
| Helper service | `services/helper/src/service/hub.rs`, `lib/common/request.dart` | the child process, the posts being served | start, stop, timeout and retry of a post | `CoreConnection` |
| IPC with the service isolate | `lib/clash/lib.dart`, `lib/main.dart`, `GlobalState.kt`, `TilePlugin.kt` | ports, completer, engine, reconnect requests | register, wait, reconnect, quick start, boot, destroy | `ServiceIpc` |
| Either of them, as the application sees it | `lib/clash/core.dart` | | | `ClashCore` |
| Smart auto stop | `lib/manager/smart_auto_stop_manager.dart`, smart stop and resume of `VpnPlugin.kt` | check sequence, lock, `isSmartStopped` | network change, debounced check, change of settings, resume | `SmartAutoStop` |
| Network rules | `lib/common/network_matcher.dart` | | parse and match a CIDR | `NetworkMatcher` |
| Network changes of Android | `plugins/VpnPlugin.kt` 301-336 | type of the last network, window and count of quick responses | change of network | `QuickResponse` |
| Providers and selection | `core/hub.go`, `core/common.go` | `externalProviders` | list, update, side load, change proxy | not modelled |

How the parts interact:

* The application sends *actions* to the core, over a socket on a desktop and
  over ports to the service isolate on Android. Each action runs in a goroutine of
  its own; `runLock` orders those that take it, nothing orders the others.
  `DesktopSession` calls the actions of `CoreListeners` and waits for the answer.
* On Android, Kotlin calls the core through JNI. `Core.startTun` and `stopTun`
  return before the goroutine they post has run, so `VpnLifecycle` posts requests
  that are served in any order; `AndroidTun` is what the goroutines do. The suspend
  module calls `suspend` beside the actions (`Suspend` in `CoreListeners`).
* The kernel calls back: dials of any goroutine use the handler of the TUN
  (`AndroidTun`), log statements of any goroutine go through the observable
  (`LogSubscription`).

* Every request of the application goes through `ClashCore`: over a socket to a core
  process on a desktop, over isolate ports on Android. On Windows the core is
  started by the helper service, which lives on when the application does not.
* `SmartAutoStop` awaits the platform, which awaits nobody: the manager, the
  user and the coroutine of a resume act on the same VPN. `handleNetworkChange`
  notifies the manager and limits the quick response in the same call.

What makes each part correct, and what is hard about it:

* **Core listeners**: a stopped core has neither mixed listener nor TUN, a running
  one listens as configured. Setups and updates queue up behind a stop; a port may be
  taken, for TCP or for UDP only; a TUN may be refused; a listener of the profile may
  fail to change; shutdown takes no lock; dozes write the status that a setup moves
  through three values. What a profile asks for besides is not closed by a stop.
* **Android TUN**: nobody uses a JNI reference after its release and nobody
  releases it twice, although starts and stops overlap with one another and with dials;
  one is left behind only by the starts that are known to leave it.
* **Log stream**: no subscription the observable knows is without a reader, or
  the fan-out blocks under its mutex and with it every log statement.
* **Android VPN**: the run state tells the truth about the TUN; a stop is not
  undone by what was under way; no lock, module or PENDING state is left behind.
  Three threads, timers, crashing services and vanishing engines take part.
* **Desktop session**: session, configuration and core agree once all is quiet.
  Flows overlap at every `await`, permissions take as long as the user takes, setups
  fail in the core and are rolled back, fail before they reach it and are skipped, or
  are not answered in time and taken for successful.
* **Update loop**: one chain of runs, which no start is lost to and no stop
  leaves alive, although starts and stops come while tasks are awaited.

* **Requests**: a request is executed at most once, answered at most once, and
  its caller is released in the end. Answers come after the default was given;
  connections and ports are replaced under messages that are on their way; a
  completer that somebody awaits may itself be replaced.
* **Core process**: one core is left, the one the application talks to unless its
  accept loop failed, and none when the application is gone. A post to the helper that was given up goes on, and
  the helper stops the old process and stores the new one under two locks.
* **Smart auto stop**: a VPN is smart-stopped only where the rules say so, as far as the
  application is told where it is; it is then down, and a resume starts only what a smart
  stop stopped. A check decides on an address and a
  flag it read several awaits before.

The `hazards` of `PROJECT.json` list these situations at the line where they
bite, with the properties that would catch them.

## 2. Modules

| Module | Contents |
|---|---|
| `PeriodicTask` | abstract specification of the update loop: wanted or not, active or not |
| `UpdateTaskLoop` | the loop; implements `PeriodicTask` |
| `AndroidTun` | TUN of the Android core |
| `LogSubscription` | log stream |
| `CoreListeners`, `MCCoreListeners` | lifecycle and listeners of the core, desktop or Android |
| `DesktopSession`, `MCDesktopSession` | desktop flows; extends and drives `CoreListeners` |
| `VpnLifecycle`, `MCVpnLifecycle` | VPN on Android |
| `Rpc` | abstract specification of requests: asked, executed, answered or defaulted |
| `Requests` | the requests and where their messages are, without a transport |
| `CoreConnection` | the desktop transport: socket, core processes, helper service, exit; extends `Requests` |
| `ServiceIpc` | the Android transport: engine, ports, reconnections; extends `Requests` |
| `ClashCore` | one of the two transports; implements `Rpc` |
| `NetworkMatcher` | the rules of smart auto stop, and what they mean bit by bit |
| `QuickResponse` | the window of quick responses |
| `SmartAutoStop`, `MCSmartAutoStop` | the manager over the platform's smart stop and resume; extends the two above |
| `...Proofs` | theorems about the module of that name |

Conventions. A step is what cannot be interrupted in the code: what runs between
two awaits in Dart, under one lock or between two accesses of shared variables in
Go and Kotlin. A process (goroutine, coroutine, flow) is an element of a constant
set and a record that says where it is (`pc`) and what it was given. Variables carry
the names of the source; those marked *history* exist only for properties. Operators
commented *Faulty variant* are what a plausible mistake would have made of the
definition that follows; they are part of no specification, and the properties are
checked to tell them from the real one.

### UpdateTaskLoop

`tasks`, `taskLoopToken`, `executing`, `needsRestart` and `timer` are the fields of
`GlobalState`. `runs` are the calls of `_runUpdateLoop` in progress and `armed` the
timers that may still fire: both are sets, so that a second chain would show.
`StartUpdateTasks` and `StopUpdateTasks` are the two entry points, `ExecutorDone` and
`RunDone` what follows the await of the tasks, `TimerFires` the callback.

### AndroidTun

A call is a goroutine of `startTUN` or `stopTun`, one shot, and names the handler
it makes. `StopLock`, `AcquireAll`, `CloseHandler` and `StopUnlock` are
`handleStopTun`, through which a start goes too; `StartLock` and `StartFinish` are the
rest of `handleStartTun`, which takes `tunLock` again. `Core.startTun` makes the JNI
reference before the goroutine exists (`android/core/src/main/cpp/core.cpp:10`), so a call has it from its first
step on (`HasReference`); a start without a descriptor (`startNoFd`, the mode without VPN) neither
keeps nor releases it. A start that finds no configuration reads through a nil pointer
and panics. A dial sees the hook, reads
`tunHandler`, takes a permit, looks at the listener, is inside the JNI call and gives
the permit back. The dialer that calls a hook removed in between is the state
`panicked`, of a dial, after which the model stops.

### LogSubscription

A call is one `startLog` or `stopLog`; each access to the global `logSubscriber` is a
step of its own, as nothing protects it. Channels have room for `Cap` events.
`Process`, `Emit` and `Processed` are the fan-out, during which `mux` is held.

### CoreListeners

A call is the goroutine of one action: it waits for `runLock`, changes `isRunning`
or `config`, and goes through the listeners. Closing the mixed listener is three
steps (look, close, forget), because `StopListener` runs in a shutdown without a lock
beside whoever holds it, and both read the pointer anew each time; a nil pointer
panics, which ends the process (`alive`). A port that is taken for UDP only leaves the pointer
set and its socket closed (`BindMixed`), which the next refresh sees (`CompareMixed`). The TUN follows `ReCreateTun`: it does nothing
when it is given the configuration it was given last, and `StopListener` does not make
it forget that. Of all listeners the mixed port stands for those that every platform
opens; they are recreated by the same code. A profile may ask for more: `inbound` is the
entry of one of its listeners, which a refresh of a running core patches, `inboundUp` whether
it has its socket; `tunnels` are the tunnel listeners, which a setup opens whether the core runs
or not. `StopListener` closes neither kind, and an update leaves what was asked for.
A configuration is what those need: a mixed port, a TUN, an inbound listener, tunnels.

### DesktopSession

A flow is a call of an asynchronous function of `AppController`; what it still has to
do is a sequence of phases (`setup`, `quiet`, `start`, `tun`, `update`, `restart`,
`stop`), its `pc` the await it stands at. A flow has at most one action in the core,
whose steps are those of `CoreListeners`. The answer is there when the core has finished
the action, or the timer of `invoke` gives the default, which every caller takes for success:
in `InvokeTimesOut` the flow goes on under a free name and leaves its call in the core.
`PhaseFails` is what is thrown before the core is called (the profile cannot be fetched, read or
patched): `safeRun` shows it and the flow goes on without its setup. A profile has no listeners of
its own here, since no flow treats those in another way.

### VpnLifecycle

Flows are the coroutines that `handleStartService` and `handleSmartResume` launch,
stops the calls of `handleStop` (ordinary, forced, by revocation) and
`handleSmartStop`. What runs under `runLock` is one step. `main` is the check the main
thread has made and not acted upon: `syncStatus`, the toggle and the pending timeout
read the state in the lock, or without it, and write it later. `bindService`, its
timeout and the two callbacks of the connection form a part of their own; so does the
suspend module with its receiver, whose updates are two steps (`updates`): the core is told, and
then `isSuspended` set, and an uninstall on another thread may come between. `posted` holds what
was asked of the core.

### Requests, CoreConnection, ServiceIpc, ClashCore

`request` is what the caller of `invoke` sees, `message` where its message is, `via` the
connection it went through. `Invoke`, `Default` (the timer of `safeFuture`), `Take` (the core
reads it) and `Answer` are the same over both transports; how a message gets lost or
stranded is not. A message is *stranded* when it awaits a completer that was replaced.

In `CoreConnection` a core process and its connection share a number, since a core dials
once. `Swap`, `KnowServer`, `Register`, `Post...` and `Spawn` are `reStart` and
`startCoreByHelper`, `Accept`, `Accepted` and `AcceptFails` the accept loop around its await of the close
of the last socket, which fails for a socket that ended with an error and then ends the loop
and the server; `Helper...` the threads of the helper, `Leave` to `CloseServer`
`handleExit`. `Gone` is its end, and also a crash at any moment. A core that finds
nobody listening, or reads the end of its stream, ends.

In `ServiceIpc` the service isolate's ports are numbered as they are made; `reconnects` are
the calls that ask it for another one, `inbox` the SendPorts on their way back. The main
isolate asks whether the engine runs, reconnects or boots it, and waits a bounded number of
times. `preload` is the wait of `main()` for the first connection: it is stranded when an
attempt times out, because the completer is replaced, and the application then never
goes on although the reconnection succeeds. That is what the code does, and no
comment says otherwise; requests are asked only once `preload` has returned.

### SmartAutoStop

`pc` has two actors: the check that holds `_checkLock`, and the restart that
`_onSettingsChanged` begins without it. Each call to the platform is three steps, as the
code awaits it: it is made, the platform serves it (in the order of the calls), the
answer arrives. `Decide` uses what the check read before it made its call and the address
the platform read, so either may be stale. `Resume` is the coroutine of `handleSmartResume`,
which runs on another thread after the platform has answered; it may fail. `ChangeNetwork` is
told to the application only when the type of the network changes; `known` is the history of
the address as of what it was told or has read. The user's start
and stop are one step each, and the run state has no PENDING here: `VpnLifecycle` has both in
detail. Addresses are words of `Width` bits, each a function from the bits, so that the masks
of the code are read bit by bit; a device has at most one.

`QuickResponse` counts time in ticks since the window began; `closes` is a history, the ages
of the last closes, so that the limit can be stated for windows that begin anywhere: of
twice as many closes as the limit allows, the first is older than a window. The
clock (`System.currentTimeMillis`) is taken not to step back.

## 3. Runs

Every run but `desktop_restart` and `smart_stop_off` passes.

| Run | Instance | What it shows |
|---|---|---|
| `update_task_loop` | 6 starts and stops, 2 task lists | one chain (`OneChain`); the latest list (`LatestTasks`); alive exactly when requested; implements `PeriodicTask`; every start is served |
| `android_tun` | 3 calls, 2 dials, 1 permit | JNI references are used only while alive and released once; no run time means down; a listener or reference is left behind only by overlapping starts and by starts without a descriptor; every call returns although dials keep coming |
| `log_subscription` | 3 actions, room for 2 events | served subscriptions, no send to a closed channel, every fan-out ends |
| `core_desktop` | 2 concurrent actions, 1 port, 1 TUN, 2 inbound configurations, 1 tunnel | stopped means closed, but for the listeners of a profile; running means listening, inbound listener included, with the TUN configured |
| `core_android` | 3 concurrent actions, 2 ports, shutdown, doze | no socket is lost, no tunnel stays asleep, the process dies only of an early update or a race with a shutdown |
| `desktop_session` | 2 flows, 1 port, 1 TUN | session and core agree, the configuration follows the choice of the TUN, rollbacks restore, starts that could be prepared bring the TUN back |
| `desktop_restart` | 1 flow | **violated**: a restart does not bring the TUN back, see below |
| `vpn_state` | 2 flows, 1 stop, all events but the doze | run state and TUN agree at rest, the stop lock opens, starts after a stop are wanted |
| `vpn_pending` | 1 flow, 1 stop, toggles, synchronisation, doze | PENDING ends; no suspend module is lost, none leaves the core asleep |
| `clash_core` | 1 request, 2 posts to the helper, 2 waits for a port, all platforms | requests keep the promise of `Rpc`; one core is left, also when the accept loop fails, a core that serves is replaced only after a post was given up, only the start strands a message, cores end with the application, the isolates find each other |
| `smart_auto_stop` | 2-bit addresses, 3 sets of rules, 2 types of network, 6 events | smart-stopped only where the rules cover the address last reported, and then down; a resume has its cause; the quick response keeps its limit |
| `smart_stop_off` | the same | **violated**: a feature that is turned off leaves the VPN smart-stopped, see below |

Types are not checked by runs: `TypeCorrect` (in `DesktopSession` `SessionTypeCorrect`) of every
proofs module shows them for every instance, and `UpdateTaskLoop` has `LoopInv`.

### Bounds

* `MaxToken` = 6 in `UpdateTaskLoop`: three starts and stops in alternation while one
  run is awaited already visit every combination of flags; tokens are only compared.
* `AndroidTun`: calls are one shot. Three are a start that overlaps another, and one
  that comes afterwards. One permit instead of four makes dials exclude each
  other, the harder case for `close`, which needs all of them. Symmetry is given up for
  the sake of liveness.
* `LogSubscription`: actions are one shot; a start that is replaced needs a second one,
  a stop beside them a third. The code's channels hold 200 events.
* `CoreListeners`: calls are reused without limit, so that `Calls` bounds concurrency, not
  length. On Android, where a shutdown takes no lock, one action holds it, one is outside it
  and one waits; on a desktop one holds it and one waits. Each instance has what the other
  leaves out: two ports, for a change of port, on Android (that a running core then listens on the right
  one is a theorem, `RunningListens`); the TUN, which the kernel opens there
  only, two configurations of an inbound listener, for a change that fails and one that
  returns, and a tunnel on a desktop. Calls, and inbound configurations, are interchangeable
  (symmetry); the view `WithoutSpentInput` forgets what a call was given once nothing reads it.
* `DesktopSession`: flows are reused too. TLC follows a session until two rival calls are
  in the core at once (constraint `Orderly`), since every property but the types
  excludes what comes after. The view `WithoutMixed` leaves out the listeners that nothing
  that is checked there depends on, and of a session whose flows have overlapped, or whose
  choice of TUN came late or was rolled back, what no property asks of it any more. Two
  flows are also what a call that timed out needs: the flow goes on under the name of
  the other. The theorems need none of this.
* `VpnLifecycle`: flows and stops are one shot. `MaxRaces` bounds how many kinds of
  races a behaviour goes on after: TLC follows it up to the first. One flow and one stop are
  enough for `PendingEnds`; what `vpn_pending` checks besides, two of the theorems
  below show for any number of both.
* `ClashCore`: one request and two posts reach every fate of a message and every overlap of
  two posts. The theorems hold for any number of requests, posts and waits; the code has
  10 posts. Liveness is checked on this instance only.
* `SmartAutoStop`: two bits are enough for a prefix of 0, of the full width and in between, with and
  without host bits. Six events are a stop, a user's action, a resume, and three changes
  during the awaits, one of them not reported; all four properties are proved without these bounds.
  `Window` and `MaxDisconnects` are 2: the window must be longer than a tick, and the limit more than
  one, for a window to straddle two others. The code has 5 s and 3 closes.

CHECK_DEADLOCK is off everywhere: all of these systems may come to rest, one-shot
processes when all of them are done.

### Races the properties name

Some properties exclude, by a history variable, behaviours in which something
happened that the code does not prevent. They are part of the models and of what the
runs and proofs say:

* `LeftBehindHasCause` in `AndroidTun`: `handleStartTun` lets go of `tunLock` between its stop and
  its start; of two starts that overlap there, one leaves a listener and a JNI reference that no
  stop will find. A start without a descriptor leaves its reference every time.
* `overlapped` in `LogSubscription`: of two overlapping `startLog` actions one
  subscription loses its reader, and the fan-out blocks when it is full.
* `raced` in `CoreListeners`: a shutdown beside another action may close the
  listener another goroutine is about to use.
* `mixedLost` and `inboundLost` in `CoreListeners`: a port could not be opened. A refresh tries the mixed
  port again; an inbound listener that failed to change is opened again only when its
  configuration changes once more, and returning to the old one is no change (`listener.go:632-644`).
* `overlaps` in `VpnLifecycle`: a start or a connection that came while a stop ran
  (`crossed`), a later request that the core served first (`overtaken`), a state
  overwritten that had changed since it was read (`stale`), coroutines that ended with
  the last engine (`detached`). `torn`: a suspend module was uninstalled, or updated once more,
  between the two statements of an update (`SuspendModule.kt:38-39`).
* `gaveUp` in `CoreConnection`: a post of `/start` is given up after two seconds and repeated while
  the helper still works on it, so that a core that already serves may be replaced.
* `overlapped` in `SmartAutoStop`: the restart of a feature that was turned off takes no lock and may
  overlap a check; and a smart stop may be served before the coroutine of an earlier
  resume has run, which then starts the VPN.
* `crossed` and `stale` in `DesktopSession`: two configuring calls, or a start and a stop, in
  the core together; a choice of the TUN that was used after it had changed. `unsent` and
  `unprepared`: an error before the core was called, which `safeRun` shows, kept the choice of
  the TUN from the core, or a start from its quiet setup. `unheard`: a setup that was not answered in
  time was taken for successful, and its configuration kept for the next rollback.
* `server = "failed"` in `CoreConnection`: the accept loop ended, and the core it had taken the
  connection of lives on without the application (`OneCore` says that it is the only one).

So the run or the proof of such a property says that nothing else breaks it: these are all the
ways it can fail, each of them a behaviour of the model and of the code.

### Fairness

* `UpdateTaskLoop`: weak fairness of what follows an await and of timers. Every task
  asks the core through `invoke`, which has a timeout; the Dart runtime fires its timers.
* `AndroidTun`: goroutines are scheduled: weak fairness of each dial, strong fairness of each call
  up to a panic, since the mutex (in its starvation mode) and the semaphore serve
  waiters in order of arrival. JNI calls and `tun.Start` return.
* `LogSubscription`: goroutines are scheduled; the steps of an action are strongly fair
  for the sake of `mux`, which serves its waiters in order of arrival. Readers are never blocked by `sendMessage`.
* `VpnLifecycle`: only the main thread goes on with what it has begun, timers fire and
  stops run to their end; nothing says that Dart ever answers a toggle, which is why the
  pending timeout exists. The timeout itself is strongly fair: it is posted to the main looper,
  which serves its messages in order, so that nothing else keeps it away for ever.

* `ClashCore`: timers fire, isolates are scheduled, messages between them arrive, the helper's
  threads run and a process reads what is there or notices the end of its stream. Nothing is
  assumed of the core's answers, of the accept loop, or of the user, who need never leave.
* `SmartAutoStop` has no liveness property and no fairness.

### What violates its specification

`desktop_restart`: after a change of the TUN stack the application offers a restart with
the words "Restart TUN for changes to take effect" (`arb/intl_en.arb:612`,
`lib/views/config/network.dart:22-32`). `restartCore` stops and starts only the listeners:
`_initCore` finds the core initialised. The stop closes the TUN, `LastTunConf` stays, and
the start gives `ReCreateTun` the configuration it remembers, so that it returns without
making one. The session then shows a running core with the TUN enabled, and the TUN
is down. A start from the dashboard does not have this problem: it sets the core up
without the TUN first (`_fastStart`), which is what `StartRestoresTun` checks.

`smart_stop_off`: "Feature disabled, if we were smart-stopped, resume.", says
`smart_auto_stop_manager.dart:87`. A check reads the setting, then awaits the addresses; the feature is turned
off meanwhile, finds no VPN that is smart-stopped, and resumes nothing; the check
then goes on, flags the VPN and stops it. No later check resumes it, since all of
them return at once while the feature is off.

Other observations made while modelling, none of which contradicts a statement of the
repository: an update of the choice of the TUN that waits for a permission given just
now is dropped for the restart; a rollback brings back the TUN choice of the last setup; a
setup that comes during a doze wakes the tunnel while Kotlin still considers it
suspended; `sideUpdateExternalProvider` (`core/common.go:86-105`) returns its error
only when there is none. Each of these is a behaviour of a model, but for the last:

* every start without a descriptor, the mode without VPN, leaves a JNI reference behind
  (`lib_android.go:107-120`);
* a start with a descriptor before the first setup panics (`lib_android.go:113`), as does a dial
  whose hook was removed after the dialer had looked (`socket_hook.go:19`);
* an uninstall in the middle of a suspend update leaves the core asleep with no module to
  wake it (`SuspendModule.kt:36-39`, `75-85`);
* a stop leaves the inbound listeners and the tunnels of the profile open (`patch.go:3-74`), and a
  setup of a stopped core opens tunnels; the same is true of the DNS server and the external
  controller, which are not modelled;
* an inbound listener that failed to change stays without a socket when its old configuration
  returns;
* an error before a setup reaches the core is shown and the start goes on: a TUN that an earlier
  stop closed then stays down, and the choice of the TUN in the session is not the one of the core;
* a setup that is not answered in time is taken for successful, and may be what the next
  failure is rolled back to;
* when the close of the last socket fails, the accept loop ends: the new core runs
  without anybody talking to it, and the application has no core until it is started anew;
* `main()` never goes on after an attempt of `preload` timed out, although the reconnection
  succeeds;
* a new address on the same type of network is not reported, so that a VPN may stay
  smart-stopped where no rule covers it, until the next report or change of the settings.

## 4. Proofs

tlapm checks all of these for every value of the constants, from nothing but the
`ASSUME`s of the modules (finite sets where a cardinality is taken, `Null` and "off"
outside the sets they are told apart from, at least one permit).

| Module | Theorems | Inductive invariant |
|---|---|---|
| `UpdateTaskLoopProofs` | `AtMostOneChain`, `StartsAndStopsHold`, `RunsUseLatestTasks`, `LoopImplementsPeriodicTask` | `LoopInv`: the properties, and: the flag is up exactly while there is a run, a deferred restart implies one, no token is ahead of the current one, and the timer that is armed is the one the field holds, for the current token |
| `AndroidTunProofs` | `CallbackSafety`, `NoDoubleRelease`, `DownWithoutRunTime`, `LeaksHaveCause`, types | `TunInv`: who is inside the lock, who holds permits, what the fields of a handler say of its resources, that an unclosed handler met by a waiting start was made by an overlapping one, and who still owns the reference each start was given |
| `LogSubscriptionProofs` | `OpenChannelsOnly`, `SerialActionsServe`, types | `LogInv`: a known subscription is open and was made by an action that subscribed; without overlap at most one action is under way, and its place says what the global and the observable hold |
| `CoreListenersProofs` | `StopCloses`, `NoSocketLost`, `NoPanic`, `RunningListens`, `RunningHasTun`, `AwakeRuns`, types | `CoreInv`, and over it `AppliedInv`, both below |
| `ClashCoreProofs` | `RequestsAreSafe`, `OneCoreServes`, `NoNeedlessReplacement`, `NobodyStrandedLater`, types | `Inv`: where a message is says what became of its caller; a core exists only for a post that succeeded, in the order of the posts; every connected core is the socket, about to become it or in the backlog; an accept loop that failed has left a core behind |
| `SmartAutoStopProofs` | `SmartStopHolds`, `ResumeHasItsReason`, `StopsWhereCovered`, `MatchIsCovers`, `QuickIsBounded`, types | `Placed` and `QuickInv`, below; `Safe`: check and restart take turns; who is about to resume has lowered the flag; a flagged VPN is down or its stop is on its way; whatever leads to a resume has a cause, which stays until the VPN is up |
| `DesktopSessionProofs` | `SessionDrivesCore`, `SessionKeepsCore`, `SessionStopCloses`, `StartedMeansRunning`, `TunFollowsSession`, `FailedSetupIsUndone`, `StartBringsTun`, types | `CoreInv` of `CoreListenersProofs`, the types of the flows, and that a session sends no shutdown; over these `FlowInv`, `ConfigInv` and `SerialInv`, below |
| `VpnLifecycleProofs` | `NoUnwantedStart`, `StopLockHasOpener`, `ModulesAreReachable`, `SleepHasOwner`, `StopBringsDown`, `StartBringsUp`, types | `VpnInv`: `RequestsInv`, below; without a race the state is not START while a stop runs, so that no module is installed between uninstall and forget; the core sleeps by a flag that is set or about to be; and after a stop that nothing outlived, nothing is left that could start |

`CoreInv` shows the pattern. `StoppedMeansClosed` speaks of a core at rest; to get there one
has to know what holds in the middle. `LockFits` says that `runLock` is held by the one
call that acts and is no shutdown; with `Unraced` (no shutdown beside another action)
`Alone` follows: one call acts at a time. `SocketsFit` says at each step of closing and
opening what the pointer and the open sockets are, `RefreshFits` that listeners are
refreshed only in a running, configured core, `StoppedFits` that a core that does not run
has neither mixed socket nor TUN unless the stop is still at work, and `ProfileFits` that the tunnels are
those a configuration asked for and the inbound listener has its socket or could not be opened. Each action has a lemma with one
step per conjunct, and `NextInv` puts them together.

`AppliedInv` is about a core that runs. What it was given last is in `config`, what it has made
of it in the mixed listener, the TUN and the status, and the two differ while a call is on
its way from one to the other. Each conjunct names those calls: `MixedFits` the ones that have
still to bind the port, `InboundFits` the ones that have still to patch the inbound listener, `TunFits` the ones that have still to come to `ReCreateTun`, `StatusFits`
the ones that are loading. `StopsHold` is what keeps a stop from closing the listeners of a
core that has started again, and `TunRemembered` relates the TUN to `LastTunConf`, without which
nothing could be said of a `ReCreateTun` that returns early.

The agreement of session and core is proved in three layers. `FlowInv` ties each call in the core to
the phase of the flow that waits for it, and the histories of overlaps to what is in the core.
`ConfigInv` says who will repair a disagreement: a start or stop that waits (`AgreeFits`), a flow
that will roll back (`RepairFits`), a flow that will bring the choice of the TUN (`FollowFits`), or what
kept it from the core (`unsent`, `unheard`); at quiet there is no such flow, so that only those
causes are left. `SerialInv` follows a session whose
flows come one at a time and says where in a start the TUN that a stop closed is forgotten
(`Forgets`, `StartRecreates`), which is why a start brings it back and a restart does not.

In `VpnLifecycle` the state and the TUN are joined by the requests posted to the core.
`RequestsInv` looks at the last of them: it agrees with the state, or a coroutine that has taken
START, or a stop, will post another. In `SmartAutoStop` the place of a smart stop is decided
on readings that age: `Placed` says that they are current unless another check is due or waits,
and that a smart-stopped VPN is, as far as has been reported, on a covered address unless a check has
yet to tell. `QuickInv`
is about the last closes: they are in order, the window began with the first it counts, and the
closes before that window are so few or so old that twice the limit is never within one.

`LoopImplementsPeriodicTask` is a refinement: under `wanted <- requested`,
`active <- executing` each step of the loop is a step of `PeriodicTask` or a stutter.

`RequestsAreSafe` is the safety half of `ImplementsRpc`: over either transport a request is
asked, executed, answered or given its default only as `Rpc` allows. `SessionDrivesCore`
composes two modules: a session is one of the applications `CoreListeners` allows, so
that whatever is proved of the core holds in every session, and the exceptions for
shutdowns fall away (`SessionKeepsCore`, `SessionStopCloses`).

Only model-checked: liveness (`StartIsServed`, `CallsReturn`, `LogFlows`, `PendingEnds`,
`CoresEnd`, `IpcSettles`, the release of callers in `ImplementsRpc`), which needs fairness and
ENABLED, out of the prover's reach. Every other property of a passing run is a theorem.

## 5. Not modelled

* Of the core: proxies, rules, DNS, geo data, statistics, the external controller. They
  are installed by the same `ApplyConfig` and change none of the state above; the DNS server and
  the external controller listen too, and no stop closes them. The map of
  external providers and the selection of proxies do have state of their own
  (`core/hub.go:346` reads that map without the lock) and are next in the plan.
* Of the kernel: everything but the functions the core calls directly; it is third-party
  code under `core/Clash.Meta`, and with its transports, protocols and congestion controls
  it is about three quarters of the lines of the repository. The lines that the
  definitions translate are therefore a small share of the whole, and would be
  after everything else had been modelled.
* Of Android: notification, interface builder, the time stamp that frees a stop lock
  of an earlier process; in `ServiceIpc` what the quick start makes the core do
  (`CoreListeners` has those actions); in `SmartAutoStop` a service that is not bound at a resume
  (`VpnLifecycle` has it) and the fallback to the addresses that Dart sees.
* Of smart auto stop on a desktop: it calls `updateStatus`, a flow of `DesktopSession`.
* Of the helper: authentication, hashing, installation, log.
* Of the desktop: profiles and their patching (data), tray, window, preferences.
* Views and widgets, generated code, texts, assets, build scripts, platform runners,
  third-party plugins.

## 6. Plan

1. `Providers`: the map of external providers, its updates and side loads, and the selection
   of proxies, which hands `runLock` to a goroutine.
2. The exit and the background load of `controller.dart`, over `DesktopSession`.
3. Proofs: the theorems for the new modules; and the two properties that are violated, under
   the hypotheses that make them true (no check under way, no restart).
