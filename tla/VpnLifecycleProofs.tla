------------------------- MODULE VpnLifecycleProofs -------------------------
(***************************************************************************)
(* What VpnLifecycle guarantees for any number of coroutines and stops.    *)
(* The invariants speak of behaviours without the races named in overlaps; *)
(* the proofs show that no other interleaving breaks them.  Whether the    *)
(* TUN follows the state is read off the last request to the core.         *)
(***************************************************************************)
EXTENDS VpnLifecycle, SequenceTheorems, TLAPS

\* The type of the variables, in groups that are disturbed together.
StateTyped ==
  /\ runState \in {"START", "PENDING", "STOP"}
  /\ stoppedBy \in {"stop", "other"}
  /\ main \in {"free", "toggleStart", "toggleStop", "timeout", "syncStart",
               "syncStop", "updating"}
  /\ overlaps \subseteq Races

CallsTyped ==
  /\ resets \in Nat
  /\ flow \in [Flows -> FlowStates]
  /\ stop \in [Stops -> [pc : StopStates, kind : StopKinds, wasBound : BOOLEAN]]

ModuleTyped ==
  /\ module \in Flows \union {Null}
  /\ installed \subseteq Flows
  /\ suspended \subseteq Flows
  /\ updates \subseteq Updates
  /\ torn \subseteq Flows

TunTyped ==
  /\ posted \in Seq(Flows \union {Null})
  /\ tun \in Flows \union {Null}

FlagsTyped ==
  /\ timer \in BOOLEAN /\ isStopping \in BOOLEAN /\ attached \in BOOLEAN
  /\ service \in BOOLEAN /\ isBind \in BOOLEAN /\ isBinding \in BOOLEAN
  /\ bindTimer \in BOOLEAN /\ registered \in BOOLEAN /\ asking \in BOOLEAN
  /\ coreAsleep \in BOOLEAN /\ wanted \in BOOLEAN /\ late \in BOOLEAN

LEMMA TypeOKInParts ==
  TypeOK <=> /\ StateTyped /\ CallsTyped /\ ModuleTyped /\ TunTyped
             /\ FlagsTyped
BY Zenon DEF TypeOK, StateTyped, CallsTyped, ModuleTyped, TunTyped, FlagsTyped

\* No start crossed a stop and no stale state was written.
NoRace == overlaps \intersect {"crossed", "stale"} = {}

\* Without a race the state is not START while a stop runs, so no flow installs
\* a module between the uninstall of a stop and its assignment of null.
ModulesInv ==
  NoRace =>
    /\ \A c \in Stops : Stopping(c) => runState # "START"
    /\ \A c \in Stops : stop[c].pc = "forget" => installed = {}
    /\ installed \subseteq {module}

\* An update that nothing tears finds the core as isSuspended says, and is the
\* only one: there is no other module.
SleepInv ==
  (NoRace /\ torn = {}) =>
    /\ suspended \subseteq installed
    /\ \A u \in updates :
         /\ u.module \in installed
         /\ u.asleep <=> u.module \notin suspended
         /\ coreAsleep <=> (u.asleep <=> u.told)
         /\ updates = {u}
    /\ updates = {} => (coreAsleep <=> suspended # {})

\* When the last request is a stop and nothing outlived it, nothing will start:
\* a connection that is left is about to be unbound.
QuietInv ==
  (NoRace /\ ~wanted /\ ~late) =>
    /\ runState # "START"
    /\ ~asking
    /\ \A f \in Flows : flow[f] \notin NotYetAllowed
    /\ registered => \E c \in Stops :
         Stopping(c) /\ stop[c].kind # "smart" /\ stop[c].wasBound

\* What is up once the core has served every request in the order of the posts.
LastTun == IF posted = <<>> THEN tun ELSE posted[Len(posted)]

\* A coroutine has taken START and will post a start or give START up.
Starting == \E f \in Flows :
  flow[f] \in {"establish", "retry", "failed", "canStart", "startTun"}

\* A request to stop the TUN is still to be posted: by a stop, or by a coroutine
\* that posted its start before it noticed the stop.
Ending ==
  \/ \E c \in Stops : stop[c].pc \in {"uninstall", "forget", "stopTun"}
  \/ \E f \in Flows : flow[f] = "recheck"

\* The last request agrees with the state, or the request that will is to come.
RequestsInv ==
  overlaps = {} =>
    /\ runState = "START" => Starting \/ LastTun # Null
    /\ runState = "STOP" /\ stoppedBy = "stop" => Ending \/ LastTun = Null

VpnInv ==
  TypeOK /\ ModulesInv /\ SleepInv /\ QuietInv /\ StopLockWillOpen /\ RequestsInv

-----------------------------------------------------------------------------
LEMMA StateTypedNext ==
  ASSUME StateTyped, [Next]_vars
  PROVE  StateTyped'
<1> USE DEF StateTyped, Races, UpdateRunState, Raced, bindVars, engineVars, moduleVars,
       tunVars, stateVars, historyVars, flowFrame, stopFrame, vars
<1>1. CASE UNCHANGED vars
  BY <1>1
<1>2. ASSUME NEW f \in Flows,
             \/ HandleStart(f) \/ PermissionAnswer(f) \/ HandleSmartResume(f)
             \/ OnServiceConnected(f) \/ UpdateSuspendState(f)
      PROVE  StateTyped'
  BY <1>2 DEF HandleStart, PermissionAnswer, HandleSmartResume,
       OnServiceConnected, UpdateSuspendState
<1>3. ASSUME NEW f \in Flows, FlowStep(f)
      PROVE  StateTyped'
  BY <1>3 DEF FlowStep, PrepareRefused, StartAllowed, ResumeAllowed, Establish,
       StartFailed, CanStart, StartTun, Recheck
<1>4. ASSUME NEW c \in Stops, StopStep(c)
      PROVE  StateTyped'
  BY <1>4 DEF StopStep, StopAt, Uninstall, Forget, StopTun, Unbind
<1>5. ASSUME NEW c \in Stops, NEW kind \in StopKinds, StopEnter(c, kind)
      PROVE  StateTyped'
  BY <1>5 DEF StopEnter, StopAt
<1>6. CASE \/ OnServiceDisconnected \/ OnAttached \/ OnDetached \/ BindTimeout
            \/ OpenStopLock
  BY <1>6 DEF OnServiceDisconnected, OnAttached, OnDetached, BindTimeout,
       OpenStopLock
<1>7. CASE \/ Toggle \/ SyncStatusRead \/ TogglePending \/ SyncStatusWrite
            \/ PendingTimeout \/ PendingTimeoutWrite
  BY <1>7 DEF Toggle, SyncStatusRead, TogglePending,
       SyncStatusWrite, PendingTimeout, PendingTimeoutWrite
<1>8. ASSUME NEW i \in DOMAIN posted, CoreServes(i)
      PROVE  StateTyped'
  BY <1>8 DEF CoreServes
<1>9. ASSUME NEW u \in updates, UpdateStep(u)
      PROVE  StateTyped'
  BY <1>9 DEF UpdateStep, TellCore, SetSuspended, updateFrame
<1> QED
  BY <1>1, <1>2, <1>3, <1>4, <1>5, <1>6, <1>7, <1>8, <1>9 DEF Next, MainStep

LEMMA CallsTypedNext ==
  ASSUME CallsTyped, isBind \in BOOLEAN, [Next]_vars
  PROVE  CallsTyped'
<1> USE DEF CallsTyped, FlowStates, NotYetAllowed, StopStates, Before, Then,
       Launch, HandleStartService, bindVars, engineVars, moduleVars,
       tunVars, stateVars, historyVars, flowFrame, stopFrame, vars
<1>1. CASE UNCHANGED vars
  BY <1>1
<1>2. ASSUME NEW f \in Flows,
             \/ HandleStart(f) \/ PermissionAnswer(f) \/ HandleSmartResume(f)
             \/ OnServiceConnected(f) \/ UpdateSuspendState(f)
      PROVE  CallsTyped'
  BY <1>2 DEF HandleStart, PermissionAnswer, HandleSmartResume,
       OnServiceConnected, UpdateSuspendState
<1>3. ASSUME NEW f \in Flows, FlowStep(f)
      PROVE  CallsTyped'
  BY <1>3 DEF FlowStep, PrepareRefused, StartAllowed, ResumeAllowed, Establish,
       StartFailed, CanStart, StartTun, Recheck, Installing
<1>4. ASSUME NEW c \in Stops, StopStep(c)
      PROVE  CallsTyped'
  BY <1>4 DEF StopStep, StopAt, Uninstall, Forget, StopTun, Unbind
<1>5. ASSUME NEW c \in Stops, NEW kind \in StopKinds, StopEnter(c, kind)
      PROVE  CallsTyped'
  <2> DEFINE new == [pc |-> "uninstall", kind |-> kind, wasBound |-> isBind]
  <2>1. CASE runState = "STOP" /\ kind # "force"
    <3>1. stop' = [stop EXCEPT ![c].pc = "done"] /\ UNCHANGED <<flow, resets>>
      BY <1>5, <2>1 DEF StopEnter, StopAt
    <3> QED
      BY <3>1
  <2>2. CASE ~(runState = "STOP" /\ kind # "force")
    <3>1. new \in [pc : StopStates, kind : StopKinds, wasBound : BOOLEAN]
      BY DEF StopStates
    <3>2. stop' = [stop EXCEPT ![c] = new] /\ UNCHANGED <<flow, resets>>
      BY <1>5, <2>2 DEF StopEnter
    <3> HIDE DEF new
    <3> QED
      BY <3>1, <3>2
  <2> QED
    BY <2>1, <2>2
<1>6. CASE \/ OnServiceDisconnected \/ OnAttached \/ OnDetached \/ BindTimeout
            \/ OpenStopLock
  <2>1. CASE OnDetached
    BY <2>1 DEF OnDetached
  <2>2. CASE OpenStopLock
    BY <2>2 DEF OpenStopLock
  <2> QED
    BY <1>6, <2>1, <2>2 DEF OnServiceDisconnected, OnAttached, BindTimeout
<1>7. CASE \/ Toggle \/ SyncStatusRead \/ TogglePending \/ SyncStatusWrite
            \/ PendingTimeout \/ PendingTimeoutWrite
  BY <1>7 DEF Toggle, SyncStatusRead, TogglePending,
       SyncStatusWrite, PendingTimeout, PendingTimeoutWrite
<1>8. ASSUME NEW i \in DOMAIN posted, CoreServes(i)
      PROVE  CallsTyped'
  BY <1>8 DEF CoreServes
<1>9. ASSUME NEW u \in updates, UpdateStep(u)
      PROVE  CallsTyped'
  BY <1>9 DEF UpdateStep, TellCore, SetSuspended, updateFrame
<1> QED
  BY <1>1, <1>2, <1>3, <1>4, <1>5, <1>6, <1>7, <1>8, <1>9 DEF Next, MainStep

LEMMA ModuleTypedNext ==
  ASSUME ModuleTyped, [Next]_vars
  PROVE  ModuleTyped'
<1> USE DEF ModuleTyped, bindVars, engineVars, moduleVars,
       tunVars, stateVars, historyVars, flowFrame, stopFrame, vars
<1>1. CASE UNCHANGED vars
  BY <1>1
<1>a. \A m : Tearing(m) \subseteq Flows
  BY DEF Tearing, Updates
<1>b. ASSUME Uninstalling
      PROVE  suspended' \subseteq Flows /\ torn' \subseteq Flows
  BY <1>a, <1>b DEF Uninstalling
<1>2. ASSUME NEW f \in Flows,
             \/ HandleStart(f) \/ PermissionAnswer(f) \/ HandleSmartResume(f)
             \/ OnServiceConnected(f) \/ UpdateSuspendState(f)
      PROVE  ModuleTyped'
  <2>1. CASE UpdateSuspendState(f)
    <3>1. [by |-> "main", module |-> f, asleep |-> f \notin suspended, told |-> FALSE]
            \in Updates
      BY DEF Updates
    <3> QED
      BY <1>a, <2>1, <3>1 DEF UpdateSuspendState
  <2> QED
    BY <1>2, <2>1 DEF HandleStart, PermissionAnswer, HandleSmartResume,
         OnServiceConnected
<1>3. ASSUME NEW f \in Flows, FlowStep(f)
      PROVE  ModuleTyped'
  <2>1. CASE Recheck(f) /\ Installing(f)
    <3>1. [by |-> "flow", module |-> f, asleep |-> TRUE, told |-> FALSE] \in Updates
      BY DEF Updates
    <3> QED
      BY <1>b, <2>1, <3>1 DEF Installing
  <2>2. CASE Recheck(f) /\ ~Installing(f)
    BY <2>2 DEF Recheck
  <2> QED
    BY <1>3, <2>1, <2>2 DEF FlowStep, PrepareRefused, StartAllowed, ResumeAllowed,
         Establish, StartFailed, CanStart, StartTun
<1>4. ASSUME NEW c \in Stops, StopStep(c)
      PROVE  ModuleTyped'
  BY <1>b, <1>4 DEF StopStep, StopAt, Uninstall, Forget, StopTun, Unbind
<1>5. ASSUME NEW c \in Stops, NEW kind \in StopKinds, StopEnter(c, kind)
      PROVE  ModuleTyped'
  BY <1>5 DEF StopEnter, StopAt
<1>6. CASE \/ OnServiceDisconnected \/ OnAttached \/ OnDetached \/ BindTimeout
            \/ OpenStopLock
  BY <1>6 DEF OnServiceDisconnected, OnAttached, OnDetached, BindTimeout,
       OpenStopLock
<1>7. CASE \/ Toggle \/ SyncStatusRead \/ TogglePending \/ SyncStatusWrite
            \/ PendingTimeout \/ PendingTimeoutWrite
  BY <1>7 DEF Toggle, SyncStatusRead, TogglePending,
       SyncStatusWrite, PendingTimeout, PendingTimeoutWrite
<1>8. ASSUME NEW i \in DOMAIN posted, CoreServes(i)
      PROVE  ModuleTyped'
  BY <1>8 DEF CoreServes
<1>9. ASSUME NEW u \in updates, UpdateStep(u)
      PROVE  ModuleTyped'
  <2>1. u \in Updates /\ u.module \in Flows /\ [u EXCEPT !.told = TRUE] \in Updates
    BY DEF Updates
  <2> QED
    BY <1>9, <2>1 DEF UpdateStep, TellCore, SetSuspended, updateFrame
<1> QED
  BY <1>1, <1>2, <1>3, <1>4, <1>5, <1>6, <1>7, <1>8, <1>9 DEF Next, MainStep

LEMMA TunTypedNext ==
  ASSUME TunTyped, [Next]_vars
  PROVE  TunTyped'
<1> USE DEF TunTyped, bindVars, engineVars, moduleVars,
       tunVars, stateVars, historyVars, flowFrame, stopFrame, vars
<1>1. CASE UNCHANGED vars
  BY <1>1
<1>2. ASSUME NEW f \in Flows,
             \/ HandleStart(f) \/ PermissionAnswer(f) \/ HandleSmartResume(f)
             \/ OnServiceConnected(f) \/ UpdateSuspendState(f)
      PROVE  TunTyped'
  BY <1>2 DEF HandleStart, PermissionAnswer, HandleSmartResume,
       OnServiceConnected, UpdateSuspendState
<1>3. ASSUME NEW f \in Flows, FlowStep(f)
      PROVE  TunTyped'
  <2>1. CASE StartTun(f)
    BY <2>1 DEF StartTun
  <2>2. CASE Recheck(f)
    BY <2>2 DEF Recheck
  <2> QED
    BY <1>3, <2>1, <2>2 DEF FlowStep, PrepareRefused, StartAllowed,
       ResumeAllowed, Establish, StartFailed, CanStart
<1>4. ASSUME NEW c \in Stops, StopStep(c)
      PROVE  TunTyped'
  BY <1>4 DEF StopStep, StopAt, Uninstall, Forget, StopTun, Unbind
<1>5. ASSUME NEW c \in Stops, NEW kind \in StopKinds, StopEnter(c, kind)
      PROVE  TunTyped'
  BY <1>5 DEF StopEnter, StopAt
<1>6. CASE \/ OnServiceDisconnected \/ OnAttached \/ OnDetached \/ BindTimeout
            \/ OpenStopLock
  BY <1>6 DEF OnServiceDisconnected, OnAttached, OnDetached, BindTimeout,
       OpenStopLock
<1>7. CASE \/ Toggle \/ SyncStatusRead \/ TogglePending \/ SyncStatusWrite
            \/ PendingTimeout \/ PendingTimeoutWrite
  BY <1>7 DEF Toggle, SyncStatusRead, TogglePending,
       SyncStatusWrite, PendingTimeout, PendingTimeoutWrite
<1>8. ASSUME NEW i \in DOMAIN posted, CoreServes(i)
      PROVE  TunTyped'
  <2>1. i \in 1 .. Len(posted) /\ Len(posted) \in Nat
    OBVIOUS
  <2>2. /\ SubSeq(posted, 1, i - 1) \in Seq(Flows \union {Null})
        /\ SubSeq(posted, i + 1, Len(posted)) \in Seq(Flows \union {Null})
    BY <2>1
  <2>3. RemoveAt(posted, i) \in Seq(Flows \union {Null})
    BY <2>2 DEF RemoveAt
  <2> QED
    BY <1>8, <2>1, <2>3 DEF CoreServes
<1>9. ASSUME NEW u \in updates, UpdateStep(u)
      PROVE  TunTyped'
  BY <1>9 DEF UpdateStep, TellCore, SetSuspended, updateFrame
<1> QED
  BY <1>1, <1>2, <1>3, <1>4, <1>5, <1>6, <1>7, <1>8, <1>9 DEF Next, MainStep

\* What a step of handleStop does to the table of stops.
LEMMA StopStepTable ==
  ASSUME CallsTyped, NEW c \in Stops, StopStep(c)
  PROVE  /\ Stopping(c) /\ stop'[c].pc # "idle"
         /\ stop'[c].pc = "uninstall" => FALSE
         /\ stop'[c].kind = stop[c].kind /\ stop'[c].wasBound = stop[c].wasBound
         /\ \A d \in Stops \ {c} : stop'[d] = stop[d]
BY DEF CallsTyped, StopStep, StopAt, Stopping, Uninstall, Forget, StopTun, Unbind

LEMMA StopEnterTable ==
  ASSUME CallsTyped, NEW c \in Stops, NEW kind \in StopKinds, StopEnter(c, kind)
  PROVE  /\ ~Stopping(c)
         /\ \A d \in Stops \ {c} : stop'[d] = stop[d]
         /\ \/ /\ runState = "STOP"
               /\ stop'[c].pc = "done"
               /\ late' = StartUnderWay(FALSE)
               /\ UNCHANGED <<runState, isStopping>>
            \/ /\ runState' = "STOP"
               /\ stop'[c].pc = "uninstall"
               /\ stop'[c].kind = kind
               /\ stop'[c].wasBound = isBind
               /\ late' = StartUnderWay(isBind /\ kind # "smart")
               /\ isStopping' = (isStopping \/ kind # "smart")
<1>1. CASE runState = "STOP" /\ kind # "force"
  <2>1. stop[c].pc = "idle" /\ StopAt(c, "idle", "done")
    BY <1>1, Zenon DEF StopEnter
  <2>2. late' = StartUnderWay(FALSE) /\ UNCHANGED <<runState, isStopping>>
    BY <1>1, Zenon DEF StopEnter, stateVars
  <2>3. stop'[c].pc = "done" /\ \A d \in Stops \ {c} : stop'[d] = stop[d]
    BY <2>1 DEF CallsTyped, StopAt
  <2> QED
    BY <1>1, <2>1, <2>2, <2>3, Zenon DEF Stopping
<1>2. CASE ~(runState = "STOP" /\ kind # "force")
  <2> DEFINE new == [pc |-> "uninstall", kind |-> kind, wasBound |-> isBind]
  <2>1. new.pc = "uninstall" /\ new.kind = kind /\ new.wasBound = isBind
    OBVIOUS
  <2>2. /\ stop' = [stop EXCEPT ![c] = new]
        /\ stop[c].pc = "idle"
        /\ runState' = "STOP"
    BY <1>2 DEF StopEnter, UpdateRunState
  <2>3. /\ late' = StartUnderWay(isBind /\ kind # "smart")
        /\ isStopping' = (isStopping \/ kind # "smart")
    BY <1>2, Zenon DEF StopEnter
  <2> HIDE DEF new
  <2>4. stop'[c] = new /\ \A d \in Stops \ {c} : stop'[d] = stop[d]
    BY <2>2 DEF CallsTyped
  <2> QED
    BY <2>1, <2>2, <2>3, <2>4, Zenon DEF Stopping
<1> QED
  BY <1>1, <1>2

LEMMA ModulesNext ==
  ASSUME VpnAssumption, CallsTyped, ModuleTyped, ModulesInv, [Next]_vars
  PROVE  ModulesInv'
<1> USE DEF VpnAssumption, CallsTyped, ModuleTyped, ModulesInv, NoRace, Stopping,
       UpdateRunState, Raced, Installing, bindVars, engineVars, moduleVars,
       tunVars, stateVars, historyVars, flowFrame, stopFrame, vars
<1>1. CASE UNCHANGED vars
  BY <1>1
<1>2. ASSUME NEW f \in Flows,
             \/ HandleStart(f) \/ PermissionAnswer(f) \/ HandleSmartResume(f)
             \/ OnServiceConnected(f) \/ UpdateSuspendState(f)
      PROVE  ModulesInv'
  BY <1>2 DEF HandleStart, PermissionAnswer, HandleSmartResume,
       OnServiceConnected, UpdateSuspendState
<1>3. ASSUME NEW f \in Flows, FlowStep(f)
      PROVE  ModulesInv'
  BY <1>3 DEF FlowStep, PrepareRefused, StartAllowed, ResumeAllowed, Establish,
       StartFailed, CanStart, StartTun, Recheck
<1>4. ASSUME NEW c \in Stops, StopStep(c)
      PROVE  ModulesInv'
  <2>1. CASE Uninstall(c)
    BY <2>1 DEF StopAt, Uninstall
  <2>2. CASE Forget(c)
    BY <2>2 DEF StopAt, Forget
  <2>3. CASE StopTun(c)
    BY <2>3 DEF StopAt, StopTun
  <2>4. CASE Unbind(c)
    BY <2>4 DEF StopAt, Unbind
  <2> QED
    BY <1>4, <2>1, <2>2, <2>3, <2>4 DEF StopStep
<1>5. ASSUME NEW c \in Stops, NEW kind \in StopKinds, StopEnter(c, kind)
      PROVE  ModulesInv'
  <2>1. /\ UNCHANGED <<overlaps, moduleVars>>
        /\ runState' = "STOP"
    BY <1>5, StopEnterTable DEF StopEnter
  <2>2. \A d \in Stops : stop'[d].pc = "forget" => stop[d].pc = "forget"
    BY <1>5, StopEnterTable
  <2> QED
    BY <2>1, <2>2
<1>6. CASE \/ OnServiceDisconnected \/ OnAttached \/ OnDetached \/ BindTimeout
            \/ OpenStopLock
  BY <1>6 DEF OnServiceDisconnected, OnAttached, OnDetached, BindTimeout,
       OpenStopLock
<1>7. CASE \/ Toggle \/ SyncStatusRead \/ TogglePending \/ SyncStatusWrite
            \/ PendingTimeout \/ PendingTimeoutWrite
  BY <1>7 DEF Toggle, SyncStatusRead, TogglePending,
       SyncStatusWrite, PendingTimeout, PendingTimeoutWrite
<1>8. ASSUME NEW i \in DOMAIN posted, CoreServes(i)
      PROVE  ModulesInv'
  BY <1>8 DEF CoreServes
<1>9. ASSUME NEW u \in updates, UpdateStep(u)
      PROVE  ModulesInv'
  BY <1>9 DEF UpdateStep, TellCore, SetSuspended, updateFrame
<1> QED
  BY <1>1, <1>2, <1>3, <1>4, <1>5, <1>6, <1>7, <1>8, <1>9 DEF Next, MainStep

\* What an uninstallation leaves of the sleep, and that it tears an update.
LEMMA UninstallingSleep ==
  ASSUME ModuleTyped, ModulesInv, SleepInv, NoRace, Uninstalling, torn' = {}
  PROVE  /\ torn = {} /\ updates = {}
         /\ suspended' = {} /\ coreAsleep' = FALSE
<1>1. torn = {} /\ \A u \in updates : u.module # module
  BY DEF Uninstalling, Tearing
<1>2. suspended \subseteq {module} /\ updates = {}
  BY <1>1 DEF SleepInv, ModulesInv
<1>3. coreAsleep <=> suspended # {}
  BY <1>1, <1>2 DEF SleepInv
<1> QED
  BY <1>1, <1>2, <1>3 DEF Uninstalling

LEMMA SleepNext ==
  ASSUME VpnAssumption, CallsTyped, ModuleTyped, ModulesInv, SleepInv, [Next]_vars
  PROVE  SleepInv'
<1> USE DEF bindVars, engineVars, tunVars, stateVars, historyVars, Raced
<1>a. ASSUME UNCHANGED moduleVars, overlaps' \intersect {"crossed", "stale"} = {} => NoRace
      PROVE  SleepInv'
  BY <1>a DEF SleepInv, NoRace, moduleVars
<1>1. CASE UNCHANGED vars
  BY <1>1, <1>a DEF vars, NoRace
<1>2. ASSUME NEW f \in Flows,
             \/ HandleStart(f) \/ PermissionAnswer(f) \/ HandleSmartResume(f)
             \/ OnServiceConnected(f)
      PROVE  SleepInv'
  BY <1>2, <1>a DEF HandleStart, PermissionAnswer, HandleSmartResume,
       OnServiceConnected, NoRace
<1>3. ASSUME NEW f \in Flows,
             \/ PrepareRefused(f) \/ StartAllowed(f) \/ ResumeAllowed(f) \/ Establish(f)
             \/ StartFailed(f) \/ CanStart(f) \/ StartTun(f)
      PROVE  SleepInv'
  BY <1>3, <1>a DEF PrepareRefused, StartAllowed, ResumeAllowed, Establish, StartFailed,
       CanStart, StartTun, NoRace
<1>4. ASSUME NEW f \in Flows, Recheck(f)
      PROVE  SleepInv'
  <2>1. CASE UNCHANGED moduleVars
    BY <1>4, <2>1, <1>a DEF Recheck, NoRace
  <2>2. CASE Installing(f)
    <3> SUFFICES ASSUME NoRace', torn' = {}
                 PROVE  SleepInv'
      BY DEF SleepInv
    <3>1. NoRace
      BY <1>4 DEF Recheck, NoRace
    <3>2. updates = {} /\ suspended' = {} /\ coreAsleep' = FALSE
      BY <2>2, <3>1, UninstallingSleep DEF Installing
    <3>3. f \in installed'
      BY <2>2 DEF Installing
    <3>4. \/ updates' = {}
          \/ updates' = {[by |-> "flow", module |-> f, asleep |-> TRUE, told |-> FALSE]}
      BY <2>2, <3>2 DEF Installing
    <3> DEFINE v == [by |-> "flow", module |-> f, asleep |-> TRUE, told |-> FALSE]
    <3>5. v.module = f /\ v.asleep /\ ~v.told
      OBVIOUS
    <3>6. updates' = {} \/ updates' = {v}
      BY <3>4
    <3> HIDE DEF v
    <3> QED
      BY <3>2, <3>3, <3>5, <3>6 DEF SleepInv
  <2> QED
    BY <1>4, <2>1, <2>2 DEF Recheck
<1>5. ASSUME NEW f \in Flows, UpdateSuspendState(f)
      PROVE  SleepInv'
  <2> SUFFICES ASSUME NoRace', torn' = {}
               PROVE  SleepInv'
    BY DEF SleepInv
  <2>1. NoRace /\ torn = {} /\ \A u \in updates : u.module # f
    BY <1>5 DEF UpdateSuspendState, Tearing, NoRace
  <2>2. f \in installed /\ UNCHANGED <<installed, suspended, coreAsleep>>
    BY <1>5 DEF UpdateSuspendState
  <2>3. updates = {} /\ suspended \subseteq {f}
    BY <2>1, <2>2 DEF SleepInv, ModulesInv
  <2> DEFINE v == [by |-> "main", module |-> f, asleep |-> f \notin suspended,
                   told |-> FALSE]
  <2>4. updates' = {v}
    BY <1>5, <2>3 DEF UpdateSuspendState
  <2>6. v.module = f /\ (v.asleep <=> f \notin suspended) /\ ~v.told
    OBVIOUS
  <2>5. (coreAsleep <=> f \in suspended) /\ suspended \subseteq installed
    BY <2>1, <2>3 DEF SleepInv
  <2> HIDE DEF v
  <2> QED
    BY <2>2, <2>4, <2>5, <2>6 DEF SleepInv
<1>6. ASSUME NEW u \in updates, UpdateStep(u)
      PROVE  SleepInv'
  <2> SUFFICES ASSUME NoRace', torn' = {}
               PROVE  SleepInv'
    BY DEF SleepInv
  <2>1. /\ NoRace /\ torn = {}
        /\ UNCHANGED <<installed, module>>
    BY <1>6 DEF UpdateStep, TellCore, SetSuspended, updateFrame, NoRace
  <2>2. /\ suspended \subseteq installed /\ u.module \in installed
        /\ u.asleep <=> u.module \notin suspended
        /\ coreAsleep <=> (u.asleep <=> u.told)
        /\ updates = {u} /\ installed \subseteq {u.module}
    BY <2>1 DEF SleepInv, ModulesInv
  <2>3. u \in Updates
    BY DEF ModuleTyped
  <2>4. CASE TellCore(u)
    <3> DEFINE v == [u EXCEPT !.told = TRUE]
    <3>1. v.module = u.module /\ v.asleep = u.asleep /\ v.told = TRUE
      BY <2>3 DEF Updates
    <3>2. updates' = {v} /\ coreAsleep' = u.asleep /\ suspended' = suspended
      BY <2>2, <2>4 DEF TellCore
    <3> HIDE DEF v
    <3> QED
      BY <2>1, <2>2, <3>1, <3>2 DEF SleepInv
  <2>5. CASE SetSuspended(u)
    <3>1. updates' = {} /\ coreAsleep' = coreAsleep /\ (coreAsleep <=> u.asleep)
      BY <2>2, <2>5 DEF SetSuspended
    <3>2. suspended' = IF u.asleep THEN {u.module} ELSE {}
      BY <2>2, <2>5 DEF SetSuspended
    <3> QED
      BY <2>1, <2>2, <3>1, <3>2 DEF SleepInv
  <2> QED
    BY <1>6, <2>4, <2>5 DEF UpdateStep
<1>7. ASSUME NEW c \in Stops, StopStep(c)
      PROVE  SleepInv'
  <2>1. CASE Uninstall(c)
    <3> SUFFICES ASSUME NoRace', torn' = {}
                 PROVE  SleepInv'
      BY DEF SleepInv
    <3>1. NoRace /\ Uninstalling /\ updates' = updates
      BY <2>1 DEF Uninstall, stopFrame, NoRace
    <3>2. updates = {} /\ suspended' = {} /\ coreAsleep' = FALSE
      BY <3>1, UninstallingSleep
    <3> QED
      BY <3>1, <3>2 DEF SleepInv
  <2>2. CASE Forget(c)
    BY <2>2 DEF Forget, stopFrame, SleepInv, NoRace
  <2>3. CASE StopTun(c) \/ Unbind(c)
    BY <2>3, <1>a DEF StopTun, Unbind, stopFrame, NoRace
  <2> QED
    BY <1>7, <2>1, <2>2, <2>3 DEF StopStep
<1>8. ASSUME NEW c \in Stops, NEW kind \in StopKinds, StopEnter(c, kind)
      PROVE  SleepInv'
  BY <1>8, <1>a DEF StopEnter, NoRace
<1>9. CASE \/ OnServiceDisconnected \/ OnAttached \/ OnDetached \/ BindTimeout
            \/ OpenStopLock
  BY <1>9, <1>a DEF OnServiceDisconnected, OnAttached, OnDetached, BindTimeout,
       OpenStopLock, flowFrame, NoRace
<1>10. CASE \/ Toggle \/ SyncStatusRead \/ TogglePending \/ SyncStatusWrite
             \/ PendingTimeout \/ PendingTimeoutWrite
  BY <1>10, <1>a DEF Toggle, SyncStatusRead, TogglePending, SyncStatusWrite,
       PendingTimeout, PendingTimeoutWrite, NoRace
<1>11. ASSUME NEW i \in DOMAIN posted, CoreServes(i)
       PROVE  SleepInv'
  BY <1>11, <1>a DEF CoreServes, NoRace
<1> QED
  BY <1>1, <1>2, <1>3, <1>4, <1>5, <1>6, <1>7, <1>8, <1>9, <1>10, <1>11
  DEF Next, MainStep, FlowStep

LEMMA QuietNext ==
  ASSUME CallsTyped, QuietInv, [Next]_vars
  PROVE  QuietInv'
<1> USE DEF CallsTyped, QuietInv, NoRace, Stopping, UpdateRunState, Raced, BindService, Before, Then,
       Launch, HandleStartService, NotYetAllowed, bindVars, engineVars, moduleVars,
       tunVars, stateVars, historyVars, flowFrame, stopFrame, vars
<1>1. CASE UNCHANGED vars
  BY <1>1
<1>2. ASSUME NEW f \in Flows,
             \/ HandleStart(f) \/ PermissionAnswer(f) \/ HandleSmartResume(f)
             \/ OnServiceConnected(f) \/ UpdateSuspendState(f)
      PROVE  QuietInv'
  BY <1>2 DEF HandleStart, PermissionAnswer, HandleSmartResume,
       OnServiceConnected, UpdateSuspendState
<1>3. ASSUME NEW f \in Flows, FlowStep(f)
      PROVE  QuietInv'
  BY <1>3 DEF FlowStep, PrepareRefused, StartAllowed, ResumeAllowed, Establish,
       StartFailed, CanStart, StartTun, Recheck
<1>4. ASSUME NEW c \in Stops, StopStep(c)
      PROVE  QuietInv'
  <2>1. UNCHANGED <<runState, asking, flow, wanted, late>>
    BY <1>4 DEF StopStep, Uninstall, Forget, StopTun, Unbind
  <2>2. NoRace' => NoRace
    BY <1>4 DEF StopStep, Uninstall, Forget, StopTun, Unbind
  <2>3. registered' => registered /\ (stop'[c].pc = "done" =>
                                      stop[c].kind = "smart" \/ ~stop[c].wasBound)
    <3>1. CASE Uninstall(c) \/ Forget(c)
      <4>1. registered' = registered
        BY <3>1 DEF Uninstall, Forget
      <4>2. stop'[c].pc # "done"
        BY <3>1 DEF StopAt, Uninstall, Forget
      <4> QED
        BY <4>1, <4>2
    <3>2. CASE StopTun(c)
      BY <3>2 DEF StopAt, StopTun
    <3>3. CASE Unbind(c)
      BY <3>3 DEF StopAt, Unbind
    <3> QED
      BY <1>4, <3>1, <3>2, <3>3 DEF StopStep
  <2>4. /\ stop'[c].pc # "idle"
        /\ stop'[c].kind = stop[c].kind /\ stop'[c].wasBound = stop[c].wasBound
        /\ \A d \in Stops \ {c} : stop'[d] = stop[d]
    BY <1>4, StopStepTable
  <2> QED
    BY <2>1, <2>2, <2>3, <2>4
<1>5. ASSUME NEW c \in Stops, NEW kind \in StopKinds, StopEnter(c, kind)
      PROVE  QuietInv'
  <2>1. UNCHANGED <<overlaps, asking, flow, registered, isBind>> /\ ~wanted'
    BY <1>5 DEF StopEnter
  <2>2. CASE runState = "STOP" /\ stop'[c].pc = "done"
    BY <1>5, <2>1, <2>2, StopEnterTable DEF StartUnderWay
  <2> QED
    BY <1>5, <2>1, <2>2, StopEnterTable DEF StartUnderWay
<1>6. CASE \/ OnServiceDisconnected \/ OnAttached \/ OnDetached \/ BindTimeout
            \/ OpenStopLock
  BY <1>6 DEF OnServiceDisconnected, OnAttached, OnDetached, BindTimeout,
       OpenStopLock
<1>7. CASE \/ Toggle \/ SyncStatusRead \/ TogglePending \/ SyncStatusWrite
            \/ PendingTimeout \/ PendingTimeoutWrite
  BY <1>7 DEF Toggle, SyncStatusRead, TogglePending,
       SyncStatusWrite, PendingTimeout, PendingTimeoutWrite
<1>8. ASSUME NEW i \in DOMAIN posted, CoreServes(i)
      PROVE  QuietInv'
  BY <1>8 DEF CoreServes
<1>9. ASSUME NEW u \in updates, UpdateStep(u)
      PROVE  QuietInv'
  BY <1>9 DEF UpdateStep, TellCore, SetSuspended, updateFrame
<1> QED
  BY <1>1, <1>2, <1>3, <1>4, <1>5, <1>6, <1>7, <1>8, <1>9 DEF Next, MainStep

LEMMA StopLockNext ==
  ASSUME CallsTyped, StopLockWillOpen, [Next]_vars
  PROVE  StopLockWillOpen'
<1> USE DEF CallsTyped, StopLockWillOpen, Stopping, Raced, bindVars, engineVars, moduleVars,
       tunVars, stateVars, historyVars, flowFrame, stopFrame, vars
<1>1. CASE UNCHANGED vars
  BY <1>1
<1>2. ASSUME NEW f \in Flows,
             \/ HandleStart(f) \/ PermissionAnswer(f) \/ HandleSmartResume(f)
             \/ OnServiceConnected(f) \/ UpdateSuspendState(f)
      PROVE  StopLockWillOpen'
  BY <1>2 DEF HandleStart, PermissionAnswer, HandleSmartResume,
       OnServiceConnected, UpdateSuspendState
<1>3. ASSUME NEW f \in Flows, FlowStep(f)
      PROVE  StopLockWillOpen'
  BY <1>3 DEF FlowStep, PrepareRefused, StartAllowed, ResumeAllowed, Establish,
       StartFailed, CanStart, StartTun, Recheck
<1>4. ASSUME NEW c \in Stops, StopStep(c)
      PROVE  StopLockWillOpen'
  <2>1. CASE Unbind(c)
    BY <2>1 DEF Unbind, StopAt
  <2>2. CASE Uninstall(c) \/ Forget(c) \/ StopTun(c)
    <3>1. UNCHANGED <<isStopping, resets, overlaps>>
      BY <2>2 DEF Uninstall, Forget, StopTun
    <3>2. stop[c].kind # "smart" => stop'[c].pc \notin {"idle", "done"}
      BY <2>2 DEF StopAt, Uninstall, Forget, StopTun
    <3>3. /\ stop'[c].kind = stop[c].kind
          /\ \A d \in Stops \ {c} : stop'[d] = stop[d]
      BY <1>4, StopStepTable
    <3> QED
      BY <3>1, <3>2, <3>3
  <2> QED
    BY <1>4, <2>1, <2>2 DEF StopStep
<1>5. ASSUME NEW c \in Stops, NEW kind \in StopKinds, StopEnter(c, kind)
      PROVE  StopLockWillOpen'
  <2>1. UNCHANGED <<resets, overlaps>>
    BY <1>5 DEF StopEnter
  <2> QED
    BY <1>5, <2>1, StopEnterTable
<1>6. CASE \/ OnServiceDisconnected \/ OnAttached \/ OnDetached \/ BindTimeout
            \/ OpenStopLock
  BY <1>6 DEF OnServiceDisconnected, OnAttached, OnDetached, BindTimeout,
       OpenStopLock
<1>7. CASE \/ Toggle \/ SyncStatusRead \/ TogglePending \/ SyncStatusWrite
            \/ PendingTimeout \/ PendingTimeoutWrite
  BY <1>7 DEF Toggle, SyncStatusRead, TogglePending,
       SyncStatusWrite, PendingTimeout, PendingTimeoutWrite
<1>8. ASSUME NEW i \in DOMAIN posted, CoreServes(i)
      PROVE  StopLockWillOpen'
  BY <1>8 DEF CoreServes
<1>9. ASSUME NEW u \in updates, UpdateStep(u)
      PROVE  StopLockWillOpen'
  BY <1>9 DEF UpdateStep, TellCore, SetSuspended, updateFrame
<1> QED
  BY <1>1, <1>2, <1>3, <1>4, <1>5, <1>6, <1>7, <1>8, <1>9 DEF Next, MainStep


LEMMA PostedLast ==
  ASSUME TunTyped, NEW request, posted' = Append(posted, request)
  PROVE  LastTun' = request
BY DEF TunTyped, LastTun

LEMMA ServedLast ==
  ASSUME TunTyped, NEW i \in DOMAIN posted, CoreServes(i)
  PROVE  /\ i # 1 => overlaps' # {}
         /\ i = 1 => LastTun' = LastTun
<1>1. i # 1 => overlaps' # {}
  BY DEF CoreServes, Raced
<1>2. ASSUME i = 1 PROVE LastTun' = LastTun
  <2>1. PICK n \in Nat : n >= 1 /\ Len(posted) = n
    BY DEF TunTyped
  <2> DEFINE before == SubSeq(posted, 1, 0)
             after == SubSeq(posted, 2, n)
             Requests == Flows \union {Null}
  <2>2. /\ tun' = posted[1] /\ posted' = before \o after
        /\ \A k \in 1 .. n : posted[k] \in Requests
    BY <1>2, <2>1 DEF TunTyped, CoreServes, RemoveAt
  <2> HIDE DEF Requests
  <2>3. before \in Seq(Requests) /\ Len(before) = 0
    BY SubSeqProperties
  <2>4. /\ after \in Seq(Requests) /\ Len(after) = n - 1
        /\ \A k \in 1 .. n - 1 : after[k] = posted[k + 1]
    <3>1. /\ after \in Seq(Requests)
          /\ Len(after) = IF 2 <= n THEN n - 2 + 1 ELSE 0
          /\ \A k \in 1 .. n - 2 + 1 : after[k] = posted[2 + k - 1]
      BY <2>1, <2>2, SubSeqProperties
    <3>2. Len(after) = n - 1 /\ n - 2 + 1 = n - 1 /\ \A k \in Nat : 2 + k - 1 = k + 1
      BY <2>1, <3>1
    <3> HIDE DEF after
    <3> QED
      BY <3>1, <3>2
  <2> HIDE DEF before, after
  <2>5. /\ posted' \in Seq(Requests) /\ Len(posted') = n - 1
        /\ \A k \in 1 .. n - 1 : posted'[k] = posted[k + 1]
    BY <2>1, <2>2, <2>3, <2>4
  <2>6. posted # <<>>
    BY <2>1
  <2>7. CASE n = 1
    <3>1. posted' = <<>>
      BY <2>5, <2>7
    <3> QED
      BY <2>1, <2>2, <2>6, <2>7, <3>1 DEF LastTun
  <2>8. CASE n > 1
    <3>1. posted' # <<>>
      BY <2>1, <2>5, <2>8
    <3>2. posted'[n - 1] = posted[n]
      BY <2>1, <2>5, <2>8
    <3> QED
      BY <2>1, <2>5, <2>6, <3>1, <3>2 DEF LastTun
  <2> QED
    BY <2>1, <2>7, <2>8
<1> QED
  BY <1>1, <1>2

\* A step that posts nothing and serves nothing out of order keeps RequestsInv
\* unless it enters a state or takes the last coroutine that answers for it away.
LEMMA RequestsKept ==
  ASSUME RequestsInv,
         overlaps' = {} => overlaps = {} /\ LastTun' = LastTun,
         overlaps' = {} /\ runState' = "START" => runState = "START" /\ (Starting => Starting'),
         runState' = "STOP" /\ stoppedBy' = "stop" =>
           runState = "STOP" /\ stoppedBy = "stop" /\ (Ending => Ending')
  PROVE  RequestsInv'
BY DEF RequestsInv

LEMMA RequestsFlowStep ==
  ASSUME VpnAssumption, CallsTyped, TunTyped, RequestsInv, NEW f \in Flows, FlowStep(f)
  PROVE  RequestsInv'
<1> USE DEF UpdateRunState, Raced, stateVars, bindVars, engineVars, moduleVars, tunVars,
       historyVars, flowFrame
<1>1. \A g \in Flows \ {f} : flow'[g] = flow[g]
  BY DEF CallsTyped, FlowStep, Then, PrepareRefused, StartAllowed, ResumeAllowed, Establish,
       StartFailed, CanStart, StartTun, Recheck, Installing
<1>2. stop' = stop /\ (overlaps' = {} => overlaps = {})
  BY DEF FlowStep, PrepareRefused, StartAllowed, ResumeAllowed, Establish, StartFailed,
       CanStart, StartTun, Recheck
<1>3. flow'[f] # flow[f] /\ flow[f] # "recheck" => (Ending => Ending')
  BY <1>1, <1>2 DEF Ending
<1>4. flow'[f] \in {"establish", "retry", "failed", "canStart", "startTun"} => Starting'
  BY DEF Starting
<1>5. flow[f] \notin {"establish", "retry", "failed", "canStart", "startTun"} =>
        (Starting => Starting')
  BY <1>1 DEF Starting
<1>6. CASE PrepareRefused(f)
  <2>1. flow[f] = "prepare" /\ flow'[f] = "done" /\ UNCHANGED <<posted, tun>>
    BY <1>6 DEF CallsTyped, PrepareRefused, Before, Then
  <2>2. runState' = "STOP" /\ (stoppedBy' = "stop" => runState = "STOP" /\ stoppedBy = "stop")
    BY <1>6 DEF PrepareRefused
  <2> QED
    BY <1>2, <1>3, <2>1, <2>2, RequestsKept DEF LastTun
<1>7. CASE StartAllowed(f) \/ ResumeAllowed(f)
  <2>1. flow[f] \in {"prepare", "resume"} /\ UNCHANGED <<posted, tun>>
    BY <1>7 DEF StartAllowed, ResumeAllowed, Before
  <2>2. \/ UNCHANGED <<runState, stoppedBy>> /\ flow'[f] = "done"
        \/ runState' = "START" /\ flow'[f] = "establish"
    BY <1>7 DEF CallsTyped, StartAllowed, ResumeAllowed, Then
  <2>3. CASE UNCHANGED <<runState, stoppedBy>> /\ flow'[f] = "done"
    BY <1>2, <1>3, <1>5, <2>1, <2>3, RequestsKept DEF LastTun
  <2>4. CASE runState' = "START" /\ flow'[f] = "establish"
    BY <1>4, <2>4 DEF RequestsInv
  <2> QED
    BY <2>2, <2>3, <2>4
<1>8. CASE Establish(f)
  <2>1. /\ flow[f] \in {"establish", "retry"} /\ UNCHANGED <<runState, stoppedBy, posted, tun>>
        /\ flow'[f] \in {"retry", "failed", "canStart"}
    BY <1>8 DEF CallsTyped, Establish, Then
  <2>2. Ending => Ending'
    BY <1>1, <1>2, <2>1 DEF Ending
  <2> QED
    BY <1>2, <1>4, <2>1, <2>2, RequestsKept DEF LastTun
<1>9. CASE StartFailed(f)
  <2>1. flow[f] = "failed" /\ flow'[f] = "done" /\ UNCHANGED <<posted, tun>>
    BY <1>9 DEF CallsTyped, StartFailed, Before, Then
  <2>2. runState' = "STOP" /\ (stoppedBy' = "stop" => runState = "STOP" /\ stoppedBy = "stop")
    BY <1>9 DEF StartFailed
  <2> QED
    BY <1>2, <1>3, <2>1, <2>2, RequestsKept DEF LastTun
<1>10. CASE CanStart(f)
  <2>1. flow[f] = "canStart" /\ UNCHANGED <<runState, stoppedBy, posted, tun>>
    BY <1>10 DEF CanStart, Before
  <2>2. flow'[f] = IF runState = "START" THEN "startTun" ELSE "done"
    BY <1>10 DEF CallsTyped, CanStart, Then
  <2> QED
    BY <1>2, <1>3, <1>4, <2>1, <2>2, RequestsKept DEF LastTun
<1>11. CASE StartTun(f)
  <2>1. LastTun' = f
    BY <1>11, PostedLast DEF StartTun
  <2>2. Ending'
    BY <1>11 DEF CallsTyped, StartTun, Then, Ending
  <2> QED
    BY <2>1, <2>2 DEF RequestsInv, VpnAssumption
<1>12. CASE Recheck(f)
  <2>1. flow[f] = "recheck" /\ UNCHANGED <<runState, stoppedBy>>
    BY <1>12 DEF Recheck, Before
  <2>2. CASE runState = "START" /\ UNCHANGED <<posted, tun>>
    BY <1>2, <1>5, <2>1, <2>2, RequestsKept DEF LastTun
  <2>3. CASE runState # "START" /\ posted' = Append(posted, Null)
    <3>1. LastTun' = Null
      BY <2>3, PostedLast
    <3> QED
      BY <2>1, <2>3, <3>1 DEF RequestsInv
  <2> QED
    BY <1>12, <2>2, <2>3 DEF Recheck
<1> QED
  BY <1>6, <1>7, <1>8, <1>9, <1>10, <1>11, <1>12 DEF FlowStep

LEMMA RequestsStopStep ==
  ASSUME CallsTyped, TunTyped, ModulesInv, RequestsInv, NEW c \in Stops, StopStep(c)
  PROVE  RequestsInv'
<1>1. /\ Stopping(c) /\ UNCHANGED <<runState, stoppedBy, flow>>
      /\ overlaps' = {} => overlaps = {}
      /\ \A d \in Stops \ {c} : stop'[d] = stop[d]
  BY StopStepTable DEF StopStep, Uninstall, Forget, StopTun, Unbind, Raced, stopFrame,
     stateVars, historyVars
<1>2. Starting => Starting'
  BY <1>1 DEF Starting
<1>3. CASE Uninstall(c) \/ Forget(c)
  <2>1. stop'[c].pc \in {"forget", "stopTun"} /\ UNCHANGED <<posted, tun>>
    BY <1>3 DEF CallsTyped, Uninstall, Forget, StopAt, tunVars
  <2>2. Ending'
    BY <2>1 DEF Ending
  <2> QED
    BY <1>1, <1>2, <2>1, <2>2, RequestsKept DEF LastTun
<1>4. CASE StopTun(c)
  <2>1. LastTun' = Null
    BY <1>4, PostedLast DEF StopTun
  <2>2. overlaps' = {} => runState' # "START"
    BY <1>1 DEF ModulesInv, NoRace
  <2> QED
    BY <2>1, <2>2 DEF RequestsInv
<1>5. CASE Unbind(c)
  <2>1. stop[c].pc = "unbind" /\ UNCHANGED <<posted, tun>>
    BY <1>5 DEF Unbind, StopAt, tunVars
  <2>2. Ending => Ending'
    BY <1>1, <2>1 DEF Ending
  <2> QED
    BY <1>1, <1>2, <2>1, <2>2, RequestsKept DEF LastTun
<1> QED
  BY <1>3, <1>4, <1>5 DEF StopStep

LEMMA RequestsNext ==
  ASSUME VpnAssumption, CallsTyped, TunTyped, ModulesInv, RequestsInv, [Next]_vars
  PROVE  RequestsInv'
<1> USE DEF UpdateRunState, Raced, stateVars, bindVars, engineVars, moduleVars, tunVars,
       historyVars
<1>1. CASE UNCHANGED vars
  <2>1. UNCHANGED <<runState, stoppedBy, flow, stop, posted, tun, overlaps>>
    BY <1>1 DEF vars
  <2> QED
    BY <2>1, RequestsKept DEF Starting, Ending, LastTun
<1>2. ASSUME NEW f \in Flows,
             \/ HandleStart(f) \/ PermissionAnswer(f) \/ HandleSmartResume(f)
             \/ OnServiceConnected(f) \/ UpdateSuspendState(f)
      PROVE  RequestsInv'
  <2>1. /\ UNCHANGED <<runState, stoppedBy, stop, posted, tun>>
        /\ overlaps' = {} => overlaps = {}
    BY <1>2 DEF HandleStart, PermissionAnswer, HandleSmartResume, OnServiceConnected,
       UpdateSuspendState
  <2>2. \A g \in Flows : flow'[g] = flow[g] \/ flow[g] = "idle"
    BY <1>2 DEF CallsTyped, HandleStart, PermissionAnswer, HandleSmartResume,
       OnServiceConnected, UpdateSuspendState, HandleStartService, Launch, Then, Before
  <2>3. (Starting => Starting') /\ (Ending => Ending')
    BY <2>1, <2>2 DEF Starting, Ending
  <2> QED
    BY <2>1, <2>3, RequestsKept DEF LastTun
<1>3. ASSUME NEW f \in Flows, FlowStep(f)
      PROVE  RequestsInv'
  BY <1>3, RequestsFlowStep
<1>4. ASSUME NEW c \in Stops, StopStep(c)
      PROVE  RequestsInv'
  BY <1>4, RequestsStopStep
<1>5. ASSUME NEW c \in Stops, NEW kind \in StopKinds, StopEnter(c, kind)
      PROVE  RequestsInv'
  <2>1. UNCHANGED <<flow, posted, tun, overlaps>>
    BY <1>5 DEF StopEnter
  <2>2. CASE runState = "STOP" /\ stop'[c].pc = "done" /\ runState' = runState
    <3>1. stop[c].pc \notin {"uninstall", "forget", "stopTun"} /\ UNCHANGED stoppedBy
      BY <1>5, <2>2, StopEnterTable DEF StopEnter, Stopping
    <3>2. Ending => Ending'
      BY <1>5, <2>1, <3>1, StopEnterTable DEF Ending
    <3> QED
      BY <2>1, <2>2, <3>1, <3>2, RequestsKept DEF LastTun
  <2>3. CASE runState' = "STOP" /\ stop'[c].pc = "uninstall"
    <3>1. Ending'
      BY <2>3 DEF Ending
    <3> QED
      BY <2>3, <3>1 DEF RequestsInv
  <2> QED
    BY <1>5, <2>2, <2>3, StopEnterTable
<1>6. CASE \/ OnServiceDisconnected \/ OnAttached \/ OnDetached \/ BindTimeout
            \/ OpenStopLock
  <2>1. /\ UNCHANGED <<stop, posted, tun>> /\ (overlaps' = {} => overlaps = {})
        /\ \/ UNCHANGED <<runState, stoppedBy>>
           \/ runState # "STOP" /\ runState' = "STOP" /\ stoppedBy' = "other"
    BY <1>6 DEF OnServiceDisconnected, OnAttached, OnDetached, BindTimeout, OpenStopLock,
       flowFrame
  <2>2. \A g \in Flows : \/ flow'[g] = flow[g]
                         \/ flow[g] # "recheck" /\ overlaps' # {}
    BY <1>6 DEF CallsTyped, NotYetAllowed, OnServiceDisconnected, OnAttached, OnDetached,
       BindTimeout, OpenStopLock, flowFrame
  <2>3. (overlaps' = {} /\ Starting => Starting') /\ (Ending => Ending')
    BY <2>1, <2>2 DEF Starting, Ending
  <2> QED
    BY <2>1, <2>3, RequestsKept DEF LastTun
<1>7. CASE \/ Toggle \/ SyncStatusRead \/ TogglePending \/ SyncStatusWrite
            \/ PendingTimeout \/ PendingTimeoutWrite
  <2>1. UNCHANGED <<stop, flow, posted, tun>> /\ (overlaps' = {} => overlaps = {})
    BY <1>7 DEF Toggle, SyncStatusRead, TogglePending, SyncStatusWrite,
       PendingTimeout, PendingTimeoutWrite
  <2>2. /\ overlaps' = {} /\ runState' = "START" => runState = "START"
        /\ runState' = "STOP" /\ stoppedBy' = "stop" => runState = "STOP" /\ stoppedBy = "stop"
    BY <1>7 DEF Toggle, SyncStatusRead, TogglePending, SyncStatusWrite,
       PendingTimeout, PendingTimeoutWrite
  <2>3. (Starting => Starting') /\ (Ending => Ending')
    BY <2>1 DEF Starting, Ending
  <2> QED
    BY <2>1, <2>2, <2>3, RequestsKept DEF LastTun
<1>8. ASSUME NEW i \in DOMAIN posted, CoreServes(i)
      PROVE  RequestsInv'
  <2>1. UNCHANGED <<runState, stoppedBy, flow, stop>> /\ (overlaps' = {} => overlaps = {})
    BY <1>8 DEF CoreServes
  <2>2. (Starting => Starting') /\ (Ending => Ending')
    BY <2>1 DEF Starting, Ending
  <2> QED
    BY <1>8, <2>1, <2>2, ServedLast, RequestsKept
<1>9. ASSUME NEW u \in updates, UpdateStep(u)
      PROVE  RequestsInv'
  <2>1. UNCHANGED <<runState, stoppedBy, stop, posted, tun, overlaps>>
    BY <1>9 DEF UpdateStep, TellCore, SetSuspended, updateFrame
  <2>2. ASSUME NEW g \in Flows, flow'[g] # flow[g]
        PROVE  flow[g] = "installing"
    BY <1>9, <2>2 DEF UpdateStep, TellCore, SetSuspended, Before, Then, CallsTyped
  <2> QED
    BY <2>1, <2>2, RequestsKept DEF Starting, Ending, LastTun
<1> QED
  BY <1>1, <1>2, <1>3, <1>4, <1>5, <1>6, <1>7, <1>8, <1>9 DEF Next, MainStep

\* Zenon, which these leaves need, wants one action at a time.
LEMMA FlagsTypedNext ==
  ASSUME FlagsTyped, ModuleTyped, [Next]_vars
  PROVE  FlagsTyped'
<1> USE DEF FlagsTyped, UpdateRunState, BindService, HandleStartService,
       Installing, Uninstalling, StopAt, StartUnderWay, bindVars, engineVars, moduleVars,
       tunVars, stateVars, historyVars, flowFrame, stopFrame, vars
<1>1. ASSUME NEW f \in Flows, HandleStart(f) PROVE FlagsTyped'
  BY <1>1, ZenonT(30) DEF HandleStart
<1>2. ASSUME NEW f \in Flows, PermissionAnswer(f) PROVE FlagsTyped'
  BY <1>2, ZenonT(30) DEF PermissionAnswer
<1>3. ASSUME NEW f \in Flows, HandleSmartResume(f) PROVE FlagsTyped'
  BY <1>3, ZenonT(30) DEF HandleSmartResume
<1>4. ASSUME NEW f \in Flows, OnServiceConnected(f) PROVE FlagsTyped'
  BY <1>4, ZenonT(30) DEF OnServiceConnected
<1>5. ASSUME NEW f \in Flows, UpdateSuspendState(f) PROVE FlagsTyped'
  BY <1>5, ZenonT(30) DEF UpdateSuspendState
<1>5a. ASSUME NEW u \in updates, UpdateStep(u) PROVE FlagsTyped'
  <2>1. u.asleep \in BOOLEAN
    BY DEF ModuleTyped, Updates
  <2>2. CASE TellCore(u)
    BY <2>1, <2>2, Zenon DEF TellCore, updateFrame
  <2>3. CASE SetSuspended(u)
    BY <2>3, Zenon DEF SetSuspended, updateFrame
  <2> QED
    BY <1>5a, <2>2, <2>3 DEF UpdateStep
<1>6. ASSUME NEW f \in Flows, PrepareRefused(f) PROVE FlagsTyped'
  BY <1>6, ZenonT(30) DEF PrepareRefused
<1>7. ASSUME NEW f \in Flows, StartAllowed(f) PROVE FlagsTyped'
  <2>1. UNCHANGED <<bindVars, asking, coreAsleep, flowFrame>>
    BY <1>7, Zenon DEF StartAllowed
  <2>2. timer' \in BOOLEAN
    BY <1>7, Zenon DEF StartAllowed
  <2> QED
    BY <2>1, <2>2, Zenon
<1>8. ASSUME NEW f \in Flows, ResumeAllowed(f) PROVE FlagsTyped'
  BY <1>8, ZenonT(30) DEF ResumeAllowed
<1>9. ASSUME NEW f \in Flows, Establish(f) PROVE FlagsTyped'
  BY <1>9, ZenonT(30) DEF Establish
<1>10. ASSUME NEW f \in Flows, StartFailed(f) PROVE FlagsTyped'
  BY <1>10, ZenonT(30) DEF StartFailed
<1>11. ASSUME NEW f \in Flows, CanStart(f) PROVE FlagsTyped'
  BY <1>11, ZenonT(30) DEF CanStart
<1>12. ASSUME NEW f \in Flows, StartTun(f) PROVE FlagsTyped'
  BY <1>12, ZenonT(30) DEF StartTun
<1>13. ASSUME NEW f \in Flows, Recheck(f) PROVE FlagsTyped'
  <2>1. UNCHANGED <<timer, bindVars, asking, flowFrame>>
    BY <1>13, Zenon DEF Recheck
  <2>2. coreAsleep' \in BOOLEAN
    BY <1>13, Zenon DEF Recheck
  <2> QED
    BY <2>1, <2>2, Zenon
<1>14. ASSUME NEW c \in Stops, Uninstall(c) PROVE FlagsTyped'
  BY <1>14, ZenonT(30) DEF Uninstall
<1>15. ASSUME NEW c \in Stops, Forget(c) PROVE FlagsTyped'
  BY <1>15, ZenonT(30) DEF Forget
<1>16. ASSUME NEW c \in Stops, StopTun(c) PROVE FlagsTyped'
  BY <1>16, ZenonT(30) DEF StopTun
<1>17. ASSUME NEW c \in Stops, Unbind(c) PROVE FlagsTyped'
  BY <1>17, ZenonT(30) DEF Unbind
<1>18. CASE OnServiceDisconnected
  BY <1>18, ZenonT(30) DEF OnServiceDisconnected
<1>19. CASE OnAttached
  BY <1>19, ZenonT(30) DEF OnAttached
<1>20. CASE OnDetached
  BY <1>20, ZenonT(30) DEF OnDetached
<1>21. CASE BindTimeout
  BY <1>21, ZenonT(30) DEF BindTimeout
<1>22. CASE OpenStopLock
  BY <1>22, ZenonT(30) DEF OpenStopLock
<1>23. CASE Toggle
  BY <1>23, ZenonT(30) DEF Toggle
<1>24. CASE SyncStatusRead
  BY <1>24, ZenonT(30) DEF SyncStatusRead
<1>25. CASE TogglePending
  BY <1>25, ZenonT(30) DEF TogglePending
<1>26. CASE SyncStatusWrite
  BY <1>26, ZenonT(30) DEF SyncStatusWrite
<1>27. CASE PendingTimeout
  BY <1>27, ZenonT(30) DEF PendingTimeout
<1>28. CASE PendingTimeoutWrite
  BY <1>28, ZenonT(30) DEF PendingTimeoutWrite
<1>29. ASSUME NEW c \in Stops, NEW kind \in StopKinds, StopEnter(c, kind)
       PROVE  FlagsTyped'
  BY <1>29, ZenonT(30) DEF StopEnter
<1>30. ASSUME NEW i \in DOMAIN posted, CoreServes(i) PROVE FlagsTyped'
  BY <1>30, ZenonT(30) DEF CoreServes
<1>31. CASE UNCHANGED vars
  BY <1>31, ZenonT(30)
<1> QED
  BY <1>1, <1>2, <1>3, <1>4, <1>5, <1>5a, <1>6, <1>7, <1>8, <1>9, <1>10, <1>11, <1>12, <1>13, <1>14, <1>15,
     <1>16, <1>17, <1>18, <1>19, <1>20, <1>21, <1>22, <1>23, <1>24, <1>25, <1>26, <1>27, <1>28, <1>29, <1>30, <1>31, ZenonT(30)
  DEF Next, FlowStep, StopStep, MainStep

LEMMA InitInv == Init => VpnInv
<1> SUFFICES ASSUME Init PROVE VpnInv
  OBVIOUS
<1>1. StateTyped /\ CallsTyped /\ ModuleTyped /\ TunTyped
  BY DEF Init, StateTyped, CallsTyped, ModuleTyped, TunTyped, FlowStates,
     StopStates, StopKinds
<1>2. FlagsTyped
  BY DEF Init, FlagsTyped
<1>3. ModulesInv /\ SleepInv /\ QuietInv /\ StopLockWillOpen
  BY DEF Init, ModulesInv, SleepInv, QuietInv, StopLockWillOpen, Stopping, NotYetAllowed
<1>4. RequestsInv
  BY DEF Init, RequestsInv, LastTun
<1> QED
  BY <1>1, <1>2, <1>3, <1>4, TypeOKInParts DEF VpnInv

LEMMA StepInv == VpnInv /\ [Next]_vars => VpnInv'
<1> SUFFICES ASSUME VpnInv, [Next]_vars PROVE VpnInv'
  OBVIOUS
<1>1. /\ StateTyped /\ CallsTyped /\ ModuleTyped /\ TunTyped /\ FlagsTyped
      /\ isBind \in BOOLEAN
  BY TypeOKInParts, Zenon DEF VpnInv, FlagsTyped
<1>2. StateTyped' /\ CallsTyped' /\ ModuleTyped' /\ TunTyped' /\ FlagsTyped'
  BY <1>1, StateTypedNext, CallsTypedNext, ModuleTypedNext, TunTypedNext,
     FlagsTypedNext
<1>3. TypeOK'
  BY <1>2, Zenon DEF TypeOK, StateTyped, CallsTyped, ModuleTyped, TunTyped,
     FlagsTyped
<1>4. ModulesInv' /\ SleepInv' /\ QuietInv' /\ StopLockWillOpen' /\ RequestsInv'
  BY <1>1, VpnAssumption, ModulesNext, SleepNext, QuietNext, StopLockNext, RequestsNext, Zenon
  DEF VpnInv
<1> QED
  BY <1>3, <1>4 DEF VpnInv

LEMMA Invariant == Spec => []VpnInv
BY InitInv, StepInv, PTL DEF Spec

\* A step to START with a stop as the last request, and nothing left that could
\* start, is one of the named races: QuietInv holds in the new state too.
LEMMA WantedStep ==
  VpnInv /\ [Next]_vars =>
    [runState # "START" /\ runState' = "START" =>
       wanted \/ late \/ overlaps' \intersect {"crossed", "stale"} # {}]_vars
<1> SUFFICES ASSUME VpnInv, [Next]_vars, runState # "START",
                    runState' = "START", ~wanted, ~late
             PROVE  overlaps' \intersect {"crossed", "stale"} # {}
  OBVIOUS
<1>1. QuietInv'
  BY StepInv DEF VpnInv
<1>2. CASE UNCHANGED <<wanted, late>>
  BY <1>1, <1>2 DEF QuietInv, NoRace
<1>3. ASSUME NEW f \in Flows, HandleStart(f) \/ HandleSmartResume(f)
      PROVE  FALSE
  BY <1>3 DEF HandleStart, HandleSmartResume, stateVars
<1>4. ASSUME NEW c \in Stops, NEW kind \in StopKinds, StopEnter(c, kind)
      PROVE  FALSE
  BY <1>4 DEF StopEnter, UpdateRunState, stateVars
<1> QED
  BY <1>2, <1>3, <1>4
  DEF Next, FlowStep, StopStep, MainStep, vars, historyVars, flowFrame, stopFrame,
      PermissionAnswer, OnServiceConnected, UpdateSuspendState, PrepareRefused,
      StartAllowed, ResumeAllowed, Establish, StartFailed, CanStart, StartTun,
      Recheck, Uninstall, Forget, StopTun, Unbind, OnServiceDisconnected,
      OnAttached, OnDetached, BindTimeout, OpenStopLock, Toggle, SyncStatusRead,
      TogglePending, SyncStatusWrite, PendingTimeout, PendingTimeoutWrite,
      CoreServes, UpdateStep, TellCore, SetSuspended, updateFrame

-----------------------------------------------------------------------------
\* Every variable of GlobalState and VpnPlugin keeps its type.
THEOREM TypeCorrect == Spec => []TypeOK
BY Invariant, PTL DEF VpnInv

\* handleStop leads to every installed suspend module, unless a start crossed
\* it.
THEOREM ModulesAreReachable == Spec => []NoModuleLost
<1>1. VpnInv => NoModuleLost
  BY DEF VpnInv, ModulesInv, NoModuleLost, NoRace
<1> QED
  BY Invariant, <1>1, PTL

\* The core sleeps only while an installed module has suspended it or is in the
\* middle of doing so or waking it, unless a start crossed a stop or an update of
\* a module was torn.
THEOREM SleepHasOwner == Spec => []SomeoneWillWake
<1>1. VpnInv => SomeoneWillWake
  <2> SUFFICES ASSUME VpnInv, NoRace, torn = {}
               PROVE  /\ coreAsleep => \E m \in installed :
                           m \in suspended \/ \E u \in updates : u.module = m
                      /\ suspended # {} => coreAsleep \/ updates # {}
    BY DEF SomeoneWillWake, NoRace
  <2> QED
    BY DEF VpnInv, SleepInv
<1> QED
  BY Invariant, <1>1, PTL

\* At rest nothing is posted, so the TUN is the one of the last request, and
\* no coroutine or stop is left that could answer for the state instead.
LEMMA RestTun ==
  ASSUME AtRest
  PROVE  ~Starting /\ ~Ending /\ LastTun = tun
BY DEF AtRest, Starting, Ending, LastTun, Stopping

\* A stop that entered the state STOP over another state has brought the TUN
\* down when everything is at rest, also when it came in the middle of a start.
THEOREM StopBringsDown == Spec => []StoppedMeansDown
<1>1. VpnInv => StoppedMeansDown
  BY RestTun DEF VpnInv, RequestsInv, StoppedMeansDown
<1> QED
  BY Invariant, <1>1, PTL

\* A state START at rest has a TUN behind it.
THEOREM StartBringsUp == Spec => []StartedMeansUp
<1>1. VpnInv => StartedMeansUp
  BY RestTun DEF VpnInv, RequestsInv, StartedMeansUp
<1> QED
  BY Invariant, <1>1, PTL

\* The stop lock of updateIsStopping has somebody who opens it.
THEOREM StopLockHasOpener == Spec => []StopLockWillOpen
BY Invariant, PTL DEF VpnInv

\* After a stop the VPN does not start by itself, except by a request that
\* outlived the stop or by a race.
THEOREM NoUnwantedStart == Spec => StartsAreWanted
BY Invariant, WantedStep, PTL DEF Spec, StartsAreWanted
=============================================================================
