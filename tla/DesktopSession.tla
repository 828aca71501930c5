--------------------------- MODULE DesktopSession ---------------------------
(***************************************************************************)
(* A desktop session: the flows of lib/controller.dart that start, stop,   *)
(* restart and configure the core, over the core of CoreListeners.         *)
(*                                                                         *)
(* Flows are asynchronous functions of one isolate: what lies between two  *)
(* awaits is one action, and flows interleave at the awaits.  A flow has   *)
(* at most one call in the core, the one CoreListeners knows by its name.  *)
(* Calls of the core that only read, the saving of preferences and the     *)
(* traffic timer are left out; UpdateTaskLoop models the last.             *)
(***************************************************************************)
EXTENDS CoreListeners, Sequences

Flows == Calls

CONSTANTS
  Port, \* the mixed port of the user's configuration
  Tun   \* its TUN settings, which want switches on and off

ASSUME SessionAssumption == Port \in Ports /\ Tun \in Tuns /\ ~Android

VARIABLES
  startTime,   \* of globalState, whether it is set
  runTime,     \* runTimeProvider, whether it is set: what the user is shown
  want,        \* patchClashConfig.tun.enable
  updateDue,   \* updateClashConfig is debounced
  realTun,     \* realTunEnableProvider
  backup,      \* what the last successful setup was given
  restartLock, \* the flow that is restarting the core
  flow,        \* what each flow has to do and where it is
  stale,       \* history: a choice of TUN was used after it had changed
  rolledBack,  \* history: a backup was set up
  restarted,   \* history: since the last start the core was restarted
  unsent,      \* history: an error kept the last choice of TUN from the core
  unprepared,  \* history: an error kept the last start from its quiet setup
  unheard,     \* history: the setup of the backup failed, but was taken for
               \* successful
  crossed,     \* history: rival calls were in the core at the same time
  overlapped   \* history: two flows were under way at the same time, or one
               \* while a change of the settings waited

session == <<startTime, runTime, want, updateDue, realTun, backup, restartLock, flow>>
history == <<stale, rolledBack, restarted, unsent, unprepared, unheard>>
crossings == <<crossed, overlapped>>
sessionVars == <<vars, session, history, crossings>>

\* "quiet" is _quickSetupConfig(enableTun: false), "tun" the microtask that
\* follows it in _fastStart.
Phases == {"setup", "quiet", "start", "tun", "update", "restart", "stop"}

FlowPcs == {"begin", "ask", "send", "reply", "rollback", "join", "pause", "starting"}

\* real is the choice of TUN a setup is sent with, ok whether the core can parse
\* it, was whether the core ran when the restart began.
FlowRecord == [todo : Seq(Phases), pc : FlowPcs, real : BOOLEAN, ok : BOOLEAN, was : BOOLEAN]

NoFlow == [todo |-> <<>>, pc |-> "begin", real |-> FALSE, ok |-> TRUE, was |-> FALSE]

\* A profile without listeners of its own: no flow treats those in another way.
ConfOf(real) == [DefaultConf EXCEPT !.mixed = Port, !.tun = IF real THEN Tun ELSE "off"]

SessionTypeOK ==
  /\ TypeOK
  /\ {startTime, runTime, want, updateDue, realTun} \subseteq BOOLEAN
  /\ {stale, rolledBack, restarted, unsent, unprepared, unheard} \subseteq BOOLEAN
  /\ {crossed, overlapped} \subseteq BOOLEAN
  /\ backup \in Conf \union {Null}
  /\ restartLock \in Flows \union {Null}
  /\ flow \in [Flows -> FlowRecord]

Busy(f) == flow[f].todo # <<>>

In(f, phases, pc) == alive /\ Busy(f) /\ Head(flow[f].todo) \in phases /\ flow[f].pc = pc

Enter(f, pc) == flow' = [flow EXCEPT ![f].pc = pc]

Fresh(todo) == [NoFlow EXCEPT !.todo = todo]

\* The phase of f gives way to another one, or ends.
Become(f, phase) == flow' = [flow EXCEPT ![f] = Fresh(<<phase>> \o Tail(@.todo))]

PhaseDone(f) == flow' = [flow EXCEPT ![f] = Fresh(Tail(@.todo))]

Replied(f) == ~UnderWay(f)

\* What cannot be parsed has no meaning.
Call(f, kind, conf, ok) ==
  /\ Spawn(f, kind, IF ok THEN conf ELSE DefaultConf, ok)
  /\ UNCHANGED <<settings, runLock, sockets, profileVars, tunVars, status, dozing, alive>>

SessionInit ==
  /\ CoreInit
  /\ startTime = FALSE /\ runTime = FALSE /\ updateDue = FALSE /\ realTun = FALSE
  /\ want \in BOOLEAN
  /\ backup = Null /\ restartLock = Null
  /\ stale = FALSE /\ rolledBack = FALSE /\ restarted = FALSE
  /\ unsent = FALSE /\ unprepared = FALSE /\ unheard = FALSE
  /\ crossed = FALSE /\ overlapped = FALSE
  /\ flow = [f \in Flows |-> NoFlow]

-----------------------------------------------------------------------------
(* What the user does.                                                     *)

Launch(f, todo) ==
  /\ alive /\ ~Busy(f) /\ ~UnderWay(f)
  /\ flow' = [flow EXCEPT ![f] = Fresh(todo)]

\* Faulty variant: the core is set up with the TUN and then started.
StartWithTun(f) ==
  /\ ~runTime
  /\ \/ Launch(f, <<"setup", "start">>)
     \/ ~want /\ backup # Null /\ Launch(f, <<"start">>)
  /\ restarted' = FALSE /\ unprepared' = FALSE
  /\ UNCHANGED <<coreVars, startTime, runTime, want, updateDue, realTun, backup,
                 restartLock, stale, rolledBack, unsent, unheard>>

\* Nothing is set up again that was set up and has not changed since.
Start(f) ==
  /\ ~runTime
  /\ \/ want /\ Launch(f, <<"quiet", "start", "tun">>)
     \/ ~want /\ Launch(f, <<"setup", "start">>)
     \/ ~want /\ backup # Null /\ Launch(f, <<"start">>)
  /\ restarted' = FALSE /\ unprepared' = FALSE
  /\ UNCHANGED <<coreVars, startTime, runTime, want, updateDue, realTun, backup,
                 restartLock, stale, rolledBack, unsent, unheard>>

Request(f) ==
  /\ \/ runTime /\ Launch(f, <<"stop">>)
     \/ Launch(f, <<"restart">>)
     \/ Launch(f, <<"setup">>)
  /\ UNCHANGED <<coreVars, startTime, runTime, want, updateDue, realTun, backup,
                 restartLock, history>>

ToggleTun ==
  /\ alive
  /\ want' = ~want
  /\ updateDue' = TRUE
  /\ UNCHANGED <<coreVars, startTime, runTime, realTun, backup, restartLock, flow, history>>

UpdateClashConfig(f) ==
  /\ updateDue
  /\ updateDue' = FALSE
  /\ Launch(f, <<"update">>)
  /\ UNCHANGED <<coreVars, startTime, runTime, want, realTun, backup, restartLock, history>>

\* Every second and whenever the window comes back; both callers ask for
\* startTime first, so runTime is never cleared here.
UpdateRunTime ==
  /\ alive /\ startTime
  /\ runTime' = TRUE
  /\ UNCHANGED <<coreVars, startTime, want, updateDue, realTun, backup, restartLock,
                 flow, history>>

-----------------------------------------------------------------------------
(* Choosing the TUN: _requestAdmin, and what each of its callers does then. *)

\* Faulty variant: the choice is used but not remembered.
ChooseOnce(f, enable) ==
  /\ UNCHANGED realTun
  /\ \/ /\ In(f, {"setup", "quiet"}, flow[f].pc)
        /\ \E ok \in BOOLEAN :
             flow' = [flow EXCEPT ![f].pc = "send", ![f].real = enable, ![f].ok = ok]
        /\ UNCHANGED <<coreVars, unsent>>
     \/ /\ In(f, {"update"}, flow[f].pc)
        /\ Call(f, "update", ConfOf(enable), TRUE)
        /\ Enter(f, "reply")
        /\ unsent' = FALSE
     \/ /\ In(f, {"tun"}, flow[f].pc)
        /\ Become(f, "update")
        /\ UNCHANGED <<coreVars, unsent>>

\* The choice is remembered and used.
Choose(f, enable) ==
  /\ realTun' = enable
  /\ \/ /\ In(f, {"setup", "quiet"}, flow[f].pc)
        /\ \E ok \in BOOLEAN :
             flow' = [flow EXCEPT ![f].pc = "send", ![f].real = enable, ![f].ok = ok]
        /\ UNCHANGED <<coreVars, unsent>>
     \/ /\ In(f, {"update"}, flow[f].pc)
        /\ Call(f, "update", ConfOf(enable), TRUE)
        /\ Enter(f, "reply")
        /\ unsent' = FALSE
     \/ /\ In(f, {"tun"}, flow[f].pc)
        /\ Become(f, "update")
        /\ UNCHANGED <<coreVars, unsent>>

Asked(f) == In(f, {"tun"}, "begin") \/ (In(f, {"setup", "update"}, "begin") /\ want)

\* Only a TUN that was off needs the permission of the system.
RequestAdmin(f) ==
  /\ In(f, {"setup", "quiet", "tun", "update"}, "begin")
  /\ IF Asked(f) /\ ~realTun
       THEN Enter(f, "ask") /\ UNCHANGED <<coreVars, realTun, unsent>>
       ELSE Choose(f, Asked(f))
  /\ UNCHANGED <<startTime, runTime, want, updateDue, backup, restartLock, stale,
                 rolledBack, restarted, unprepared, unheard>>

\* The permission was there, was refused, or was given just now: then the core
\* is to be restarted, and what the flow had to do is dropped.
AuthorizeCore(f) ==
  /\ \E phase \in {"setup", "tun", "update"} : In(f, {phase}, "ask")
  /\ \/ Choose(f, TRUE) /\ stale' = (stale \/ ~want)
     \/ Choose(f, FALSE) /\ stale' = (stale \/ realTun)
     \/ Become(f, "restart") /\ UNCHANGED <<coreVars, realTun, stale, unsent>>
  /\ UNCHANGED <<startTime, runTime, want, updateDue, backup, restartLock,
                 rolledBack, restarted, unprepared, unheard>>

-----------------------------------------------------------------------------
(* Setting up and updating.                                                *)

\* getSetupParams reads and patches the profile between the choice and the call.
SendSetup(f) ==
  /\ In(f, {"setup", "quiet"}, "send")
  /\ Call(f, "setup", ConfOf(flow[f].real), flow[f].ok)
  /\ Enter(f, "reply")
  /\ stale' = (stale \/ flow[f].real # realTun)
  /\ unsent' = (unsent /\ flow[f].real # realTun)
  /\ UNCHANGED <<startTime, runTime, want, updateDue, realTun, backup, restartLock,
                 rolledBack, restarted, unprepared, unheard>>

\* What is thrown before the core is called is shown and the flow goes on: the
\* profile cannot be fetched or patched, the system cannot be asked.
PhaseFails(f) ==
  /\ In(f, {"setup", "quiet"}, "begin") \/ In(f, {"setup", "quiet"}, "send")
     \/ In(f, {"setup", "tun", "update"}, "ask")
  /\ PhaseDone(f)
  /\ unsent' = (unsent \/ flow[f].pc = "send")
  /\ unprepared' = (unprepared \/ Head(flow[f].todo) = "quiet")
  /\ UNCHANGED <<coreVars, startTime, runTime, want, updateDue, realTun, backup,
                 restartLock, stale, rolledBack, restarted, unheard>>

\* Faulty variant: the error is only shown.
SetupRepliedShown(f) ==
  /\ In(f, {"setup", "quiet"}, "reply") /\ Replied(f)
  /\ backup' = IF flow[f].ok THEN ConfOf(flow[f].real) ELSE backup
  /\ unheard' = (unheard /\ ~flow[f].ok)
  /\ PhaseDone(f)
  /\ UNCHANGED <<coreVars, startTime, runTime, want, updateDue, realTun, restartLock, stale,
                 rolledBack, restarted, unsent, unprepared>>

\* A setup that failed is followed by one of the backup, which fails again if it
\* was taken for good by mistake.
SetupReplied(f) ==
  /\ In(f, {"setup", "quiet"}, "reply") /\ Replied(f)
  /\ \/ /\ flow[f].ok
        /\ backup' = ConfOf(flow[f].real)
        /\ unheard' = FALSE
        /\ PhaseDone(f)
        /\ UNCHANGED <<coreVars, rolledBack>>
     \/ /\ ~flow[f].ok /\ backup = Null
        /\ PhaseDone(f)
        /\ UNCHANGED <<coreVars, backup, rolledBack, unheard>>
     \/ /\ ~flow[f].ok /\ backup # Null
        /\ Call(f, "setup", backup, ~unheard)
        /\ Enter(f, "rollback")
        /\ rolledBack' = TRUE
        /\ UNCHANGED <<backup, unheard>>
  /\ UNCHANGED <<startTime, runTime, want, updateDue, realTun, restartLock, stale, restarted,
                 unsent, unprepared>>

PhaseReplied(f) ==
  /\ \/ In(f, {"setup", "quiet"}, "rollback")
     \/ In(f, {"update", "start"}, "reply")
  /\ Replied(f)
  /\ PhaseDone(f)
  /\ UNCHANGED <<coreVars, startTime, runTime, want, updateDue, realTun, backup,
                 restartLock, history>>

-----------------------------------------------------------------------------
(* Starting, stopping, restarting.                                         *)

HandleStart(f) ==
  /\ startTime' = TRUE
  /\ Call(f, "start", DefaultConf, TRUE)

\* Faulty variant: the session goes on believing that it is started.
HandleStopUnnoted(f) ==
  /\ UNCHANGED startTime
  /\ Call(f, "stop", DefaultConf, TRUE)

HandleStop(f) ==
  /\ startTime' = FALSE
  /\ Call(f, "stop", DefaultConf, TRUE)

StartPhase(f) ==
  /\ In(f, {"start"}, "begin")
  /\ HandleStart(f)
  /\ Enter(f, "reply")
  /\ UNCHANGED <<runTime, want, updateDue, realTun, backup, restartLock, history>>

StopPhase(f) ==
  /\ In(f, {"stop"}, "begin")
  /\ HandleStop(f)
  /\ Enter(f, "reply")
  /\ UNCHANGED <<runTime, want, updateDue, realTun, backup, restartLock, history>>

StopReplied(f) ==
  /\ In(f, {"stop"}, "reply") /\ Replied(f)
  /\ runTime' = FALSE
  /\ PhaseDone(f)
  /\ UNCHANGED <<coreVars, startTime, want, updateDue, realTun, backup, restartLock, history>>

\* Who finds the lock taken waits for the restart that holds it.
RestartCore(f) ==
  /\ In(f, {"restart"}, "begin")
  /\ IF restartLock # Null
       THEN Enter(f, "join") /\ UNCHANGED <<coreVars, startTime, restartLock, restarted>>
       ELSE /\ restartLock' = f
            /\ flow' = [flow EXCEPT ![f].was = runTime,
                                    ![f].pc = IF runTime THEN "reply" ELSE "pause"]
            /\ IF runTime
                 THEN HandleStop(f) /\ restarted' = TRUE
                 ELSE UNCHANGED <<coreVars, startTime, restarted>>
  /\ UNCHANGED <<runTime, want, updateDue, realTun, backup, stale, rolledBack, unsent,
                 unprepared, unheard>>

RestartStopped(f) ==
  /\ In(f, {"restart"}, "reply") /\ Replied(f)
  /\ Enter(f, "pause")
  /\ UNCHANGED <<coreVars, startTime, runTime, want, updateDue, realTun, backup,
                 restartLock, history>>

\* The lock is released and the flows that joined the restart go on.
RestartDone(f) ==
  /\ restartLock' = Null
  /\ flow' = [g \in Flows |->
       IF g = f \/ In(g, {"restart"}, "join") THEN Fresh(Tail(flow[g].todo)) ELSE flow[g]]

\* After half a second _initCore finds the core initialised and does nothing.
RestartResume(f) ==
  /\ In(f, {"restart"}, "pause")
  /\ IF flow[f].was
       THEN HandleStart(f) /\ Enter(f, "starting") /\ UNCHANGED restartLock
       ELSE RestartDone(f) /\ UNCHANGED <<coreVars, startTime>>
  /\ UNCHANGED <<runTime, want, updateDue, realTun, backup, history>>

RestartStarted(f) ==
  /\ In(f, {"restart"}, "starting") /\ Replied(f)
  /\ RestartDone(f)
  /\ UNCHANGED <<coreVars, startTime, runTime, want, updateDue, realTun, backup, history>>

-----------------------------------------------------------------------------
(* Answers that do not come in time.                                       *)

\* A flow that configures the core has called it and not yet seen the answer.
Configuring(f) == \E phase \in {"setup", "quiet", "update"}, pc \in {"reply", "rollback"} :
                    In(f, {phase}, pc)

\* The flow goes on as if the core had answered well.  Its call stays in the core
\* under the name f, so that the flow takes one that is free.
InvokeTimesOut(f) ==
  /\ alive /\ Busy(f) /\ UnderWay(f)
  /\ \E g \in Flows :
       /\ ~Busy(g) /\ ~UnderWay(g)
       /\ flow' = [flow EXCEPT ![f] = NoFlow,
                    ![g] = IF Configuring(f) THEN Fresh(Tail(flow[f].todo)) ELSE flow[f]]
       /\ restartLock' = IF restartLock = f THEN g ELSE restartLock
  /\ \/ /\ In(f, {"setup", "quiet"}, "reply")
        /\ backup' = ConfOf(flow[f].real)
        /\ unheard' = ~flow[f].ok
     \/ /\ ~In(f, {"setup", "quiet"}, "reply")
        /\ UNCHANGED <<backup, unheard>>
  /\ UNCHANGED <<coreVars, startTime, runTime, want, updateDue, realTun, stale,
                 rolledBack, restarted, unsent, unprepared>>

FlowStep(f) ==
  \/ RequestAdmin(f) \/ AuthorizeCore(f) \/ PhaseFails(f) \/ InvokeTimesOut(f)
  \/ SendSetup(f) \/ SetupReplied(f) \/ PhaseReplied(f)
  \/ StartPhase(f) \/ StopPhase(f) \/ StopReplied(f)
  \/ RestartCore(f) \/ RestartStopped(f) \/ RestartResume(f) \/ RestartStarted(f)

-----------------------------------------------------------------------------
\* Whether its flow waits for it or not.
Configures(f) == Configuring(f) \/ (UnderWay(f) /\ Is(f, {"setup", "update"}))

Rivals(f, g) ==
  \/ Configures(f) /\ Configures(g)
  \/ UnderWay(f) /\ UnderWay(g) /\ Is(f, {"start"}) /\ Is(g, {"stop"})

Crossing == \E f, g \in Flows : f # g /\ Rivals(f, g)

Active(f) == Busy(f) \/ UnderWay(f)

Overlap == \E f \in Flows : Active(f) /\ (updateDue \/ \E g \in Flows \ {f} : Active(g))

SessionNext ==
  /\ \/ \E f \in Flows : Start(f) \/ Request(f) \/ UpdateClashConfig(f) \/ FlowStep(f)
     \/ ToggleTun \/ UpdateRunTime
     \/ \E f \in Flows : CallStep(f) /\ UNCHANGED <<session, history>>
  /\ crossed' = (crossed \/ Crossing')
  /\ overlapped' = (overlapped \/ Overlap')
  /\ UNCHANGED raced

SessionSpec == SessionInit /\ [][SessionNext]_sessionVars

-----------------------------------------------------------------------------
Quiet == alive /\ \A f \in Flows : ~Active(f)

\* Started means that the core runs, once no flow and no call is under way,
\* however the flows overlapped and whatever answers were late: unless a start
\* and a stop were in the core together.
SessionAgrees == Quiet /\ ~crossed => startTime = isRunning

\* The TUN in the configuration of the core is the one the session believes in,
\* unless an error kept it from the core, and one that the user wants, however
\* the flows overlapped.
ConfigFollowsSession ==
  Quiet /\ ~updateDue /\ ~crossed /\ ~stale /\ ~rolledBack
  /\ config \notin {Null, DefaultConf} =>
    (unsent \/ config.tun = ConfOf(realTun).tun) /\ (realTun => want)

\* A setup that fails does not leave the core with the default configuration
\* once another has succeeded, unless the failure of that one was not heard.
RollbackRestores == Quiet /\ ~crossed /\ ~unheard /\ backup # Null => config # DefaultConf

\* A started session that has the permission has its TUN, unless the system
\* could not make one.
TunWhileRunning ==
  Quiet /\ ~overlapped /\ ~updateDue /\ ~rolledBack /\ isRunning /\ realTun =>
    tun = Tun \/ LastTunConf = "off"

\* Also when an earlier stop closed that TUN, if the start could be prepared.
StartRestoresTun == ~restarted /\ ~unprepared => TunWhileRunning

\* "Restart TUN for changes to take effect", says the message with which the
\* restart is offered: the restart brings the TUN back.
RestartRestoresTun == restarted /\ ~unprepared => TunWhileRunning
=============================================================================
