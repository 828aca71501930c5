--------------------------- MODULE SmartAutoStop ----------------------------
(***************************************************************************)
(* SmartAutoStopManager of lib/manager/smart_auto_stop_manager.dart on     *)
(* Android: the VPN is stopped on the networks the user lists, and resumed *)
(* elsewhere.  A check runs under a lock but awaits the addresses and the  *)
(* platform; a change of the settings does not take the lock, and the user *)
(* may start and stop the VPN at any moment.  The platform resumes the VPN *)
(* in a coroutine of its own, after it has answered.                       *)
(*                                                                         *)
(* handleNetworkChange of VpnPlugin.kt, which notifies the manager, serves *)
(* the quick response as well (QuickResponse).  The run state is up or     *)
(* down here; VpnLifecycle has its details.                                *)
(***************************************************************************)
EXTENDS NetworkMatcher, QuickResponse, SequencesExt

CONSTANTS
  RuleSets,  \* values of smartAutoStopNetworks
  NoAddress, \* the device has no address
  MaxEvents  \* bound on changes of networks and settings and on user actions

ASSUME SmartAssumption ==
  /\ RuleSets \subseteq SUBSET Rules
  /\ NoAddress \notin Addresses
  /\ MaxEvents \in Nat

VARIABLES
  smartAutoStop,  \* the setting
  networks,       \* the setting smartAutoStopNetworks
  isSmartStopped, \* isSmartStoppedProvider
  shown,          \* the application shows a running VPN: runTimeProvider
  up,             \* the run state of the platform is START
  address,        \* of the device
  known,          \* history: the address the device had when the application
                  \* was last told of a change, or last read it
  pending,        \* the debounced check of the latest _checkSequence
  waiting,        \* checks waiting for _checkLock
  seen,           \* what the check has read, of the device too; Nothing when
                  \* no check is deciding
  pc,             \* the check that holds the lock, and the unlocked restart
  channel,        \* which of them await the platform's answers, in order
  resuming,       \* coroutines of handleSmartResume yet to run
  userActed,      \* history: the user started or stopped the VPN since the
                  \* last smart stop
  stopped,        \* history: a smart stop stopped the VPN, nothing since
  overlapped,     \* history: a check and the unlocked restart were both under
                  \* way, or a smart stop was served before a due resume ran
  events          \* events so far

settingVars == <<smartAutoStop, networks>>
runVars == <<shown, up, userActed, stopped>>
callVars == <<pc, channel>>
checkVars == <<pending, waiting, seen, known, callVars, resuming, overlapped>>
vars == <<settingVars, isSmartStopped, runVars, address, checkVars, events, quickVars>>

Actors == {"check", "restart"}

\* Calls the platform has yet to serve; it serves them in order.
Unserved == {"addresses", "smartStop", "smartResume"}

\* Calls it has served, or whose service changes nothing here.
Served == {"decide", "stopped", "resumed", "setStopped", "setResumed"}

Steps == {"idle", "options"} \union Unserved \union Served

Readings == [networks : SUBSET Rules, isSmartStopped : BOOLEAN,
             address : Addresses \union {NoAddress}]

Nothing == [networks |-> {}, isSmartStopped |-> FALSE, address |-> NoAddress]

TypeOK ==
  /\ QuickTypeOK
  /\ smartAutoStop \in BOOLEAN /\ networks \in RuleSets
  /\ isSmartStopped \in BOOLEAN /\ shown \in BOOLEAN /\ up \in BOOLEAN
  /\ address \in Addresses \union {NoAddress} /\ known \in Addresses \union {NoAddress}
  /\ pending \in BOOLEAN /\ waiting \in Nat
  /\ seen \in Readings
  /\ pc \in [Actors -> Steps]
  /\ channel \in Seq(Actors)
  /\ resuming \in Nat
  /\ userActed \in BOOLEAN /\ stopped \in BOOLEAN /\ overlapped \in BOOLEAN
  /\ events \in Nat

Init ==
  /\ QuickInit
  /\ smartAutoStop \in BOOLEAN /\ networks \in RuleSets
  /\ smartAutoStop => ~quickResponseEnabled \* the two switches exclude each other
  /\ isSmartStopped = FALSE
  /\ up \in BOOLEAN /\ shown = up
  /\ address \in Addresses \union {NoAddress} /\ known = address
  /\ pending = FALSE /\ waiting = 0
  /\ seen = Nothing
  /\ pc = [a \in Actors |-> "idle"]
  /\ channel = <<>>
  /\ resuming = 0
  /\ userActed = FALSE /\ stopped = FALSE /\ overlapped = FALSE
  /\ events = 0

Event ==
  /\ events < MaxEvents
  /\ events' = events + 1

-----------------------------------------------------------------------------
(* A method call to the platform: the caller goes to the step that awaits  *)
(* the service, is served, and goes on when it has the answer; the platform *)
(* serves and answers in the order of the calls.                           *)

Goto(a, step) == pc' = [pc EXCEPT ![a] = step]

Call(a, step) == Goto(a, step) /\ channel' = Append(channel, a)

\* The platform serves the call of a, the first it has not served.
Serve(a, step, answer) ==
  /\ pc[a] = step
  /\ channel[SelectInSeq(channel, LAMBDA b : pc[b] \in Unserved)] = a
  /\ Goto(a, answer)
  /\ UNCHANGED channel

Answered(a, step) == channel # <<>> /\ Head(channel) = a /\ pc[a] = step

\* With its answer, a goes on to a step without a call.
Return(a, step) == Goto(a, step) /\ channel' = Tail(channel)

\* With its answer, a calls again.
CallAgain(a, step) == Goto(a, step) /\ channel' = Append(Tail(channel), a)

-----------------------------------------------------------------------------
(* What happens to the device and what the user does.                      *)

\* The device is on another network.  VpnPlugin.kt and connectivity_plus report
\* a change of its type, and connectivity_plus the first type it finds, but not
\* a new address on the same type.  A report leads to a debounced check, which
\* replaces the one that is due.
ChangeNetwork(ip, type) ==
  /\ Event
  /\ <<ip, type>> # <<address, lastNetworkType>>
  /\ address' = ip
  /\ HandleNetworkChange(type, up)
  /\ \E told \in BOOLEAN :
       /\ lastNetworkType # NoType => told = Notifies(type)
       /\ pending' = (pending \/ (told /\ smartAutoStop))
       /\ known' = IF told THEN ip ELSE known
  /\ UNCHANGED <<settingVars, isSmartStopped, runVars, waiting, seen, callVars, resuming,
                 overlapped>>

\* _onSettingsChanged: a VPN that is smart-stopped when the feature is off is
\* resumed, without the lock; a feature that is on is checked.  The switch is
\* disabled while the quick response is on.
SettingsChanged(on, rules) ==
  /\ Event
  /\ <<on, rules>> # <<smartAutoStop, networks>>
  /\ smartAutoStop' = on /\ networks' = rules
  /\ on => ~quickResponseEnabled
  /\ IF ~on /\ isSmartStopped
     THEN /\ pc["restart"] = "idle" \* bound: one restart at a time
          /\ isSmartStopped' = FALSE
          /\ Call("restart", "setResumed")
          /\ overlapped' = (overlapped \/ pc["check"] # "idle")
     ELSE UNCHANGED <<isSmartStopped, callVars, overlapped>>
  /\ waiting' = IF on THEN waiting + 1 ELSE waiting
  /\ UNCHANGED <<runVars, address, known, pending, seen, resuming, quickVars>>

\* The switch of the quick response, which excludes the smart stop.
SetQuickResponse(enabled) ==
  /\ Event
  /\ ~smartAutoStop /\ enabled # quickResponseEnabled
  /\ quickResponseEnabled' = enabled
  /\ UNCHANGED <<settingVars, isSmartStopped, runVars, address, checkVars,
                 lastNetworkType, windowAge, disconnectCount, closes>>

\* The start button: isSmartStoppedProvider is left as it is.
UserToggles ==
  /\ Event
  /\ shown' = ~shown /\ up' = ~shown
  /\ userActed' = TRUE /\ stopped' = FALSE
  /\ UNCHANGED <<settingVars, isSmartStopped, address, checkVars, quickVars>>

-----------------------------------------------------------------------------
(* _debouncedCheckCurrentNetwork and _checkCurrentNetwork.                 *)

\* A second after the last of the changes.
TimerFires ==
  /\ pending
  /\ pending' = FALSE
  /\ waiting' = waiting + 1
  /\ UNCHANGED <<settingVars, isSmartStopped, runVars, address, known, seen, callVars,
                 resuming, overlapped, events, quickVars>>

\* The lock is free: the settings and isSmartStopped are read, and the
\* addresses asked for.
BeginCheck ==
  /\ waiting > 0 /\ pc["check"] = "idle"
  /\ waiting' = waiting - 1
  /\ IF smartAutoStop /\ networks # {}
     THEN /\ seen' = [Nothing EXCEPT !.networks = networks, !.isSmartStopped = isSmartStopped]
          /\ Call("check", "addresses")
          /\ overlapped' = (overlapped \/ pc["restart"] # "idle")
     ELSE UNCHANGED <<seen, callVars, overlapped>>
  /\ UNCHANGED <<settingVars, isSmartStopped, runVars, address, known, pending, resuming,
                 events, quickVars>>

GetAddresses ==
  /\ Serve("check", "addresses", "decide")
  /\ seen' = [seen EXCEPT !.address = address]
  /\ known' = address
  /\ UNCHANGED <<settingVars, isSmartStopped, runVars, address, pending, waiting,
                 resuming, overlapped, events, quickVars>>

ShouldStop == MatchAny(seen.address, seen.networks)

\* Faulty variant: the VPN is resumed wherever it should not be stopped.
DecideEachTime ==
  /\ Answered("check", "decide")
  /\ CASE seen.address # NoAddress /\ ShouldStop /\ ~seen.isSmartStopped /\ shown ->
            isSmartStopped' = TRUE /\ CallAgain("check", "setStopped")
       [] seen.address # NoAddress /\ ~ShouldStop ->
            isSmartStopped' = FALSE /\ CallAgain("check", "setResumed")
       [] OTHER -> Return("check", "idle") /\ UNCHANGED isSmartStopped
  /\ seen' = Nothing
  /\ UNCHANGED <<settingVars, runVars, address, known, pending, waiting, resuming, overlapped,
                 events, quickVars>>

\* The decision, on what was read before the addresses came and on an address
\* the device may have left.
Decide ==
  /\ Answered("check", "decide")
  /\ CASE seen.address # NoAddress /\ ShouldStop /\ ~seen.isSmartStopped /\ shown ->
            isSmartStopped' = TRUE /\ CallAgain("check", "setStopped")
       [] seen.address # NoAddress /\ ~ShouldStop /\ seen.isSmartStopped ->
            isSmartStopped' = FALSE /\ CallAgain("check", "setResumed")
       [] OTHER -> Return("check", "idle") /\ UNCHANGED isSmartStopped
  /\ seen' = Nothing
  /\ UNCHANGED <<settingVars, runVars, address, known, pending, waiting, resuming, overlapped,
                 events, quickVars>>

-----------------------------------------------------------------------------
(* _stopVpn and _restartVpn: two calls each, the options of the core being *)
(* awaited before smartResume, and then what the application shows.        *)

Flagged(a) ==
  /\ \/ Answered(a, "setStopped") /\ CallAgain(a, "smartStop")
     \/ Answered(a, "setResumed") /\ Return(a, "options")
  /\ UNCHANGED <<settingVars, isSmartStopped, runVars, address, known, pending, waiting,
                 seen, resuming, overlapped, events, quickVars>>

OptionsCome(a) ==
  /\ pc[a] = "options"
  /\ Call(a, "smartResume")
  /\ UNCHANGED <<settingVars, isSmartStopped, runVars, address, known, pending, waiting,
                 seen, resuming, overlapped, events, quickVars>>

\* Faulty variant: who is flagged as smart-stopped is taken to be down.
SmartStopFlaggedOnly(a) ==
  /\ Serve(a, "smartStop", "stopped")
  /\ UNCHANGED <<settingVars, isSmartStopped, runVars, address, known, pending, waiting,
                 seen, resuming, overlapped, events, quickVars>>

\* handleSmartStop does nothing to a VPN that is down.
SmartStop(a) ==
  /\ Serve(a, "smartStop", "stopped")
  /\ up' = FALSE
  /\ stopped' = (stopped \/ up)
  /\ userActed' = (userActed /\ ~up)
  /\ overlapped' = (overlapped \/ resuming > 0)
  /\ UNCHANGED <<settingVars, isSmartStopped, shown, address, known, pending, waiting, seen,
                 resuming, events, quickVars>>

\* handleSmartResume launches its work on another thread and answers.
SmartResume(a) ==
  /\ Serve(a, "smartResume", "resumed")
  /\ resuming' = resuming + 1
  /\ UNCHANGED <<settingVars, isSmartStopped, runVars, address, known, pending, waiting, seen,
                 overlapped, events, quickVars>>

\* That work: nothing if the VPN is up; it may fail to come up.  The run state
\* is not seen here while the attempt lasts.
Resume ==
  /\ resuming > 0
  /\ resuming' = resuming - 1
  /\ \E ok \in BOOLEAN : up' = (up \/ ok)
  /\ stopped' = (stopped /\ ~up')
  /\ UNCHANGED <<settingVars, isSmartStopped, shown, userActed, address, known, pending,
                 waiting, seen, callVars, overlapped, events, quickVars>>

\* The answer to smartStop or smartResume: the application shows it, whatever
\* happened meanwhile.
Shows(a) ==
  /\ \/ Answered(a, "stopped") /\ shown' = FALSE
     \/ Answered(a, "resumed") /\ shown' = TRUE
  /\ Return(a, "idle")
  /\ UNCHANGED <<settingVars, isSmartStopped, up, userActed, stopped, address, known, pending,
                 waiting, seen, resuming, overlapped, events, quickVars>>

\* Time passes, as far as the quick response can tell.
TimePasses ==
  /\ quickResponseEnabled
  /\ Tick
  /\ UNCHANGED <<settingVars, isSmartStopped, runVars, address, checkVars, events>>

-----------------------------------------------------------------------------

Next ==
  \/ \E ip \in Addresses \union {NoAddress}, type \in Types : ChangeNetwork(ip, type)
  \/ \E on \in BOOLEAN, rules \in RuleSets : SettingsChanged(on, rules)
  \/ \E enabled \in BOOLEAN : SetQuickResponse(enabled)
  \/ UserToggles
  \/ TimerFires \/ BeginCheck \/ GetAddresses \/ Decide
  \/ \E a \in Actors : \/ Flagged(a) \/ OptionsCome(a)
                        \/ SmartStop(a) \/ SmartResume(a) \/ Shows(a)
  \/ Resume
  \/ TimePasses

Spec == Init /\ [][Next]_vars

-----------------------------------------------------------------------------
(* What must hold.                                                         *)

\* No check is due, waiting or under way, and no restart or resume.
AtRest == ~pending /\ waiting = 0 /\ resuming = 0 /\ \A a \in Actors : pc[a] = "idle"

\* Once the checks have settled, a VPN that is smart-stopped is so because the
\* rules, read bit by bit, cover the address of the device as of the last report
\* of a change: no debounced or queued check, no stale isSmartStopped and no
\* change of the rules under way leaves it stopped elsewhere
\* (smart_auto_stop_manager.dart, network_matcher.dart).
StoppedWhereCovered ==
  AtRest /\ smartAutoStop /\ isSmartStopped /\ networks # {} /\ known # NoAddress
    => Covers(networks, known)

\* And it is down, unless the user has started it, or one of the two races of
\* the code took place: the restart of a feature that was turned off, which
\* takes no lock, overlapped a check, or a smart stop came before the coroutine
\* of an earlier resume ran.
StoppedIsDown == AtRest /\ isSmartStopped /\ ~userActed /\ ~overlapped => ~up

\* A resume starts only a VPN that a smart stop stopped, unless the user
\* acted in between; the user's own stop is not undone otherwise.
ResumesItsOwn ==
  [][~up /\ up' => stopped \/ userActed']_vars

\* However often the network changes and wherever the window begins, the
\* connections are closed less than twice the limit in the length of a window:
\* of twice as many closes the first is older (VpnPlugin.kt).
QuickBounded == closes[2 * MaxDisconnects] > Window

\* "Feature disabled, if we were smart-stopped, resume."
OffMeansResumed == AtRest /\ ~smartAutoStop => ~isSmartStopped
=============================================================================
