------------------------ MODULE DesktopSessionProofs ------------------------
(***************************************************************************)
(* The session is one of the applications CoreListeners allows: whatever   *)
(* its flows do, the core sees a behaviour of CoreListeners!Spec.  So what *)
(* is proved of the core holds in every session, for any number of flows,  *)
(* and without the exception for shutdowns, since a session sends none.    *)
(* Then what a session makes of the core: once no flow is under way, both  *)
(* agree on what runs, on the configuration and on the TUN.                *)
(***************************************************************************)
EXTENDS DesktopSession, CoreListenersProofs

FlagsAreBoolean ==
  /\ startTime \in BOOLEAN /\ runTime \in BOOLEAN /\ want \in BOOLEAN
  /\ updateDue \in BOOLEAN /\ realTun \in BOOLEAN
  /\ stale \in BOOLEAN /\ rolledBack \in BOOLEAN /\ restarted \in BOOLEAN
  /\ unsent \in BOOLEAN /\ unprepared \in BOOLEAN /\ unheard \in BOOLEAN

CrossingsAreBoolean == crossed \in BOOLEAN /\ overlapped \in BOOLEAN

FlowsTyped ==
  /\ flow \in [Flows -> FlowRecord]
  /\ backup \in Conf \union {Null}
  /\ restartLock \in Flows \union {Null}

SessionTyped == FlagsAreBoolean /\ FlowsTyped

\* A session sends no shutdown, so none can race.
NoShutdown == raced = FALSE /\ \A c \in Calls : call[c].kind # "shutdown"

\* With CoreInv this is inductive.
SessionInv == SessionTyped /\ CrossingsAreBoolean /\ NoShutdown

LEMMA SessionTypesInParts ==
  SessionTypeOK <=> TypeOK /\ SessionTyped /\ CrossingsAreBoolean
BY DEF SessionTypeOK, SessionTyped, FlagsAreBoolean, FlowsTyped, CrossingsAreBoolean

-----------------------------------------------------------------------------
(* Moves of a flow. *)

LEMMA NoFlowType == NoFlow \in FlowRecord
BY DEF NoFlow, FlowRecord, FlowPcs

LEMMA FreshType ==
  ASSUME NEW todo \in Seq(Phases)
  PROVE Fresh(todo) \in FlowRecord
BY NoFlowType DEF Fresh, FlowRecord

LEMMA EnterTyped ==
  ASSUME flow \in [Flows -> FlowRecord], NEW f \in Flows, NEW pc \in FlowPcs, Enter(f, pc)
  PROVE flow' \in [Flows -> FlowRecord]
BY DEF Enter, FlowRecord

LEMMA PhaseDoneTyped ==
  ASSUME flow \in [Flows -> FlowRecord], NEW f \in Flows, Busy(f), PhaseDone(f)
  PROVE flow' \in [Flows -> FlowRecord]
<1>1. Tail(flow[f].todo) \in Seq(Phases)
  BY DEF Busy, FlowRecord
<1> QED BY <1>1, FreshType DEF PhaseDone

LEMMA BecomeTyped ==
  ASSUME flow \in [Flows -> FlowRecord], NEW f \in Flows, NEW phase \in Phases,
         Busy(f), Become(f, phase)
  PROVE flow' \in [Flows -> FlowRecord]
<1>1. Tail(flow[f].todo) \in Seq(Phases)
  BY DEF Busy, FlowRecord
<1>2. <<phase>> \o Tail(flow[f].todo) \in Seq(Phases)
  BY <1>1
<1> QED BY <1>2, FreshType DEF Become

LEMMA LaunchTyped ==
  ASSUME flow \in [Flows -> FlowRecord], NEW f \in Flows, NEW todo \in Seq(Phases),
         Launch(f, todo)
  PROVE flow' \in [Flows -> FlowRecord]
BY FreshType DEF Launch

\* What a flow may be launched with.
LEMMA TodoTypes ==
  {<<"quiet", "start", "tun">>, <<"setup", "start">>, <<"start">>, <<"stop">>,
   <<"restart">>, <<"setup">>, <<"update">>} \subseteq Seq(Phases)
BY DEF Phases

LEMMA RestartDoneTyped ==
  ASSUME flow \in [Flows -> FlowRecord], NEW f \in Flows, Busy(f), RestartDone(f)
  PROVE flow' \in [Flows -> FlowRecord] /\ restartLock' \in Flows \union {Null}
<1>1. \A g \in Flows : g = f \/ In(g, {"restart"}, "join")
                         => Fresh(Tail(flow[g].todo)) \in FlowRecord
  <2> SUFFICES ASSUME NEW g \in Flows, Busy(g)
               PROVE Fresh(Tail(flow[g].todo)) \in FlowRecord
    BY DEF In
  <2>1. Tail(flow[g].todo) \in Seq(Phases)
    BY DEF Busy, FlowRecord
  <2> QED BY <2>1, FreshType
<1> QED BY <1>1 DEF RestartDone

LEMMA ConfOfType ==
  \A real \in BOOLEAN :
    /\ ConfOf(real) = [mixed |-> Port, tun |-> IF real THEN Tun ELSE "off",
                       inbound |-> "none", tunnels |-> {}]
    /\ ConfOf(real) \in Conf
<1> SUFFICES ASSUME NEW real \in BOOLEAN
             PROVE  /\ ConfOf(real) = [mixed |-> Port, tun |-> IF real THEN Tun ELSE "off",
                                       inbound |-> "none", tunnels |-> {}]
                    /\ ConfOf(real) \in Conf
  OBVIOUS
<1> DEFINE asked == IF real THEN Tun ELSE "off"
<1>1. asked \in Tuns \union {"off"} /\ Port \in Ports
  BY SessionAssumption
<1>2. ConfOf(real) = [DefaultConf EXCEPT !.mixed = Port, !.tun = asked]
  BY DEF ConfOf
<1> HIDE DEF asked
<1>3. ConfOf(real) = [mixed |-> Port, tun |-> asked, inbound |-> "none", tunnels |-> {}]
  BY <1>2 DEF DefaultConf
<1>4. ConfOf(real) \in Conf
  BY <1>1, <1>3 DEF Conf
<1> QED BY <1>3, <1>4 DEF asked

-----------------------------------------------------------------------------
(* What a step of the session is to the core. *)

\* What an update can ask for.
Unlistened(conf) == conf.inbound = "none" /\ conf.tunnels = {}

Calling ==
  \E f \in Flows, kind \in Kinds \ {"shutdown"}, conf \in Conf, ok \in BOOLEAN :
    Call(f, kind, conf, ok) /\ (kind = "update" => Unlistened(conf))

\* A flow calls the core, or leaves it alone.
Client == Calling \/ UNCHANGED coreVars

LEMMA CallIsClient ==
  ASSUME NEW f \in Flows, NEW kind \in {"start", "stop", "setup", "update"}, NEW conf \in Conf,
         NEW ok \in BOOLEAN, Call(f, kind, conf, ok), kind = "update" => Unlistened(conf)
  PROVE Client
<1>1. kind \in Kinds \ {"shutdown"}
  BY DEF Kinds
<1> QED BY <1>1, Zenon DEF Client, Calling

LEMMA StartCalls ==
  ASSUME NEW f \in Flows, HandleStart(f) \/ HandleStop(f)
  PROVE Client
BY DefaultConfType, CallIsClient DEF HandleStart, HandleStop

\* A choice of the TUN is sent, or noted for later.
LEMMA ChooseStep ==
  ASSUME SessionTyped, NEW f \in Flows, NEW enable \in BOOLEAN, Choose(f, enable)
  PROVE /\ flow' \in [Flows -> FlowRecord] /\ realTun' \in BOOLEAN /\ unsent' \in BOOLEAN
        /\ Client
<1> USE DEF SessionTyped, FlowsTyped
<1>0. unsent \in BOOLEAN
  BY DEF FlagsAreBoolean
<1>1. CASE /\ In(f, {"setup", "quiet"}, flow[f].pc)
           /\ \E ok \in BOOLEAN :
                flow' = [flow EXCEPT ![f].pc = "send", ![f].real = enable, ![f].ok = ok]
           /\ UNCHANGED <<coreVars, unsent>>
  <2>1. PICK ok \in BOOLEAN :
          flow' = [flow EXCEPT ![f].pc = "send", ![f].real = enable, ![f].ok = ok]
    BY <1>1
  <2> DEFINE chosen == [flow[f] EXCEPT !.pc = "send", !.real = enable, !.ok = ok]
  <2>2. chosen \in FlowRecord
    BY DEF FlowRecord, FlowPcs
  <2>3. flow' = [flow EXCEPT ![f] = chosen]
    BY <2>1
  <2> QED BY <1>0, <1>1, <2>2, <2>3 DEF Choose, Client
<1>2. CASE Call(f, "update", ConfOf(enable), TRUE) /\ Enter(f, "reply") /\ unsent' = FALSE
  <2>1. ConfOf(enable) \in Conf /\ Unlistened(ConfOf(enable))
    BY ConfOfType DEF Unlistened
  <2>2. Client
    BY <1>2, <2>1 DEF Client, Calling, Kinds
  <2>3. flow' \in [Flows -> FlowRecord]
    BY <1>2, EnterTyped DEF FlowPcs
  <2> QED BY <1>2, <2>2, <2>3 DEF Choose
<1>3. CASE In(f, {"tun"}, flow[f].pc) /\ Become(f, "update") /\ UNCHANGED <<coreVars, unsent>>
  BY <1>0, <1>3, BecomeTyped DEF Choose, In, Phases, Client
<1> QED BY <1>1, <1>2, <1>3 DEF Choose

-----------------------------------------------------------------------------
(* Every action of the session keeps its types and is a client of the core. *)

Kept == SessionTyped' /\ Client

LEMMA FlowsDoKept ==
  ASSUME FlagsAreBoolean', flow' \in [Flows -> FlowRecord],
         backup' \in Conf \union {Null}, restartLock' \in Flows \union {Null}, Client
  PROVE Kept
BY DEF Kept, SessionTyped, FlowsTyped

LEMMA UserKept ==
  ASSUME SessionTyped, NEW f \in Flows,
         Start(f) \/ Request(f) \/ UpdateClashConfig(f)
  PROVE Kept
<1> USE DEF SessionTyped, FlowsTyped
<1>1. CASE Start(f)
  <2>1. flow' \in [Flows -> FlowRecord]
    BY <1>1, LaunchTyped, TodoTypes DEF Start
  <2>2. FlagsAreBoolean'
    BY <1>1 DEF Start, FlagsAreBoolean
  <2> QED BY <1>1, <2>1, <2>2, FlowsDoKept DEF Start, Client
<1>2. CASE Request(f)
  <2>1. flow' \in [Flows -> FlowRecord]
    BY <1>2, LaunchTyped, TodoTypes DEF Request
  <2>2. FlagsAreBoolean'
    BY <1>2 DEF Request, FlagsAreBoolean, history
  <2> QED BY <1>2, <2>1, <2>2, FlowsDoKept DEF Request, Client
<1>3. CASE UpdateClashConfig(f)
  <2>1. flow' \in [Flows -> FlowRecord]
    BY <1>3, LaunchTyped, TodoTypes DEF UpdateClashConfig
  <2>2. FlagsAreBoolean'
    BY <1>3 DEF UpdateClashConfig, FlagsAreBoolean, history
  <2> QED BY <1>3, <2>1, <2>2, FlowsDoKept DEF UpdateClashConfig, Client
<1> QED BY <1>1, <1>2, <1>3

LEMMA TunKept ==
  ASSUME SessionTyped, NEW f \in Flows, RequestAdmin(f) \/ AuthorizeCore(f)
  PROVE Kept
<1> USE DEF SessionTyped, FlowsTyped
<1>1. CASE RequestAdmin(f)
  <2>1. Asked(f) \in BOOLEAN
    BY DEF Asked, In
  <2>2. /\ flow' \in [Flows -> FlowRecord] /\ realTun' \in BOOLEAN /\ unsent' \in BOOLEAN
        /\ Client
    <3>1. CASE Enter(f, "ask") /\ UNCHANGED <<coreVars, realTun, unsent>>
      BY <3>1, EnterTyped DEF FlowPcs, Client, FlagsAreBoolean
    <3>2. CASE Choose(f, Asked(f))
      BY <2>1, <3>2, ChooseStep
    <3> QED BY <1>1, <3>1, <3>2 DEF RequestAdmin
  <2>3. FlagsAreBoolean'
    BY <1>1, <2>2 DEF RequestAdmin, FlagsAreBoolean, history
  <2> QED BY <1>1, <2>2, <2>3, FlowsDoKept DEF RequestAdmin
<1>2. CASE AuthorizeCore(f)
  <2>1. Busy(f)
    BY <1>2 DEF AuthorizeCore, In
  <2>2. /\ flow' \in [Flows -> FlowRecord] /\ realTun' \in BOOLEAN /\ unsent' \in BOOLEAN
        /\ Client
    <3>1. ASSUME NEW enable \in BOOLEAN, Choose(f, enable)
          PROVE /\ flow' \in [Flows -> FlowRecord] /\ realTun' \in BOOLEAN /\ unsent' \in BOOLEAN
                /\ Client
      BY <3>1, ChooseStep
    <3>2. CASE Become(f, "restart") /\ UNCHANGED <<coreVars, realTun, stale, unsent>>
      BY <2>1, <3>2, BecomeTyped DEF Phases, Client, FlagsAreBoolean
    <3> QED BY <1>2, <3>1, <3>2 DEF AuthorizeCore
  <2>3. stale' \in BOOLEAN
    BY <1>2 DEF AuthorizeCore, FlagsAreBoolean
  <2>4. FlagsAreBoolean'
    BY <1>2, <2>2, <2>3 DEF AuthorizeCore, FlagsAreBoolean
  <2> QED BY <1>2, <2>2, <2>4, FlowsDoKept DEF AuthorizeCore
<1> QED BY <1>1, <1>2

LEMMA SetupKept ==
  ASSUME SessionTyped, NEW f \in Flows,
         SendSetup(f) \/ PhaseFails(f) \/ SetupReplied(f) \/ PhaseReplied(f)
  PROVE Kept
<1> USE DEF SessionTyped, FlowsTyped
<1>0. flow[f].real \in BOOLEAN /\ flow[f].ok \in BOOLEAN
  BY DEF FlowRecord
<1>c. ConfOf(flow[f].real) \in Conf
  BY <1>0, ConfOfType
<1>1. CASE SendSetup(f)
  <2>1. flow' \in [Flows -> FlowRecord]
    BY <1>1, EnterTyped DEF SendSetup, FlowPcs
  <2>2. FlagsAreBoolean'
    BY <1>1 DEF SendSetup, FlagsAreBoolean
  <2>3. Client
    BY <1>0, <1>1, <1>c DEF SendSetup, Client, Calling, Kinds
  <2> QED BY <1>1, <2>1, <2>2, <2>3, FlowsDoKept DEF SendSetup
<1>2. CASE SetupReplied(f)
  <2> Busy(f)
    BY <1>2 DEF SetupReplied, In
  <2>1. /\ flow' \in [Flows -> FlowRecord] /\ Client
        /\ backup' \in Conf \union {Null} /\ rolledBack' \in BOOLEAN /\ unheard' \in BOOLEAN
    <3>1. CASE /\ backup' = ConfOf(flow[f].real) /\ unheard' = FALSE /\ PhaseDone(f)
               /\ UNCHANGED <<coreVars, rolledBack>>
      BY <1>c, <3>1, PhaseDoneTyped DEF Client, FlagsAreBoolean
    <3>2. CASE PhaseDone(f) /\ UNCHANGED <<coreVars, backup, rolledBack, unheard>>
      BY <3>2, PhaseDoneTyped DEF Client, FlagsAreBoolean
    <3>3. CASE /\ backup # Null /\ Call(f, "setup", backup, ~unheard) /\ Enter(f, "rollback")
               /\ rolledBack' = TRUE /\ UNCHANGED <<backup, unheard>>
      <4>1. Client
        <5>1. backup \in Conf
          BY <3>3, Zenon
        <5>2. (~unheard) \in BOOLEAN
          BY DEF FlagsAreBoolean
        <5>3. Call(f, "setup", backup, ~unheard)
          BY <3>3, Zenon
        <5> QED BY <5>1, <5>2, <5>3, CallIsClient, Zenon
      <4> QED BY <3>3, <4>1, EnterTyped DEF FlowPcs, FlagsAreBoolean
    <3> QED BY <1>2, <3>1, <3>2, <3>3 DEF SetupReplied
  <2>2. FlagsAreBoolean'
    BY <1>2, <2>1 DEF SetupReplied, FlagsAreBoolean
  <2> QED BY <1>2, <2>1, <2>2, FlowsDoKept DEF SetupReplied
<1>3. CASE PhaseReplied(f)
  <2>1. flow' \in [Flows -> FlowRecord]
    BY <1>3, PhaseDoneTyped DEF PhaseReplied, In
  <2>2. FlagsAreBoolean'
    BY <1>3 DEF PhaseReplied, FlagsAreBoolean, history
  <2> QED BY <1>3, <2>1, <2>2, FlowsDoKept DEF PhaseReplied, Client
<1>4. CASE PhaseFails(f)
  <2>1. flow' \in [Flows -> FlowRecord]
    BY <1>4, PhaseDoneTyped DEF PhaseFails, In
  <2>2. FlagsAreBoolean'
    BY <1>4, Zenon DEF PhaseFails, FlagsAreBoolean
  <2> QED BY <1>4, <2>1, <2>2, FlowsDoKept DEF PhaseFails, Client
<1> QED BY <1>1, <1>2, <1>3, <1>4

\* The flow that no longer waits goes on under another name.
LEMMA TimesOutKept ==
  ASSUME SessionTyped, NEW f \in Flows, InvokeTimesOut(f)
  PROVE Kept
<1> USE DEF SessionTyped, FlowsTyped
<1>0. flow[f] \in FlowRecord /\ flow[f].real \in BOOLEAN /\ flow[f].ok \in BOOLEAN /\ Busy(f)
  BY DEF FlowRecord, InvokeTimesOut
<1>1. flow' \in [Flows -> FlowRecord] /\ restartLock' \in Flows \union {Null}
  <2> DEFINE rest == IF Configuring(f) THEN Fresh(Tail(flow[f].todo)) ELSE flow[f]
  <2>1. rest \in FlowRecord
    <3>1. Tail(flow[f].todo) \in Seq(Phases)
      BY <1>0 DEF Busy, FlowRecord
    <3> QED BY <1>0, <3>1, FreshType
  <2>2. PICK g \in Flows : /\ flow' = [flow EXCEPT ![f] = NoFlow, ![g] = rest]
                           /\ restartLock' = IF restartLock = f THEN g ELSE restartLock
    BY DEF InvokeTimesOut
  <2> HIDE DEF rest
  <2> QED BY <2>1, <2>2, NoFlowType
<1>2. backup' \in Conf \union {Null}
  BY <1>0, ConfOfType DEF InvokeTimesOut
<1>3. unheard' \in BOOLEAN
  BY <1>0, Zenon DEF InvokeTimesOut, FlagsAreBoolean
<1>4. FlagsAreBoolean'
  BY <1>3 DEF InvokeTimesOut, FlagsAreBoolean
<1> QED BY <1>1, <1>2, <1>4, FlowsDoKept DEF InvokeTimesOut, Client

LEMMA RunKept ==
  ASSUME SessionTyped, NEW f \in Flows, StartPhase(f) \/ StopPhase(f) \/ StopReplied(f)
  PROVE Kept
<1> USE DEF SessionTyped, FlowsTyped
<1>1. CASE StartPhase(f)
  <2>1. flow' \in [Flows -> FlowRecord]
    BY <1>1, EnterTyped DEF StartPhase, FlowPcs
  <2>2. FlagsAreBoolean'
    BY <1>1 DEF StartPhase, HandleStart, FlagsAreBoolean, history
  <2> QED BY <1>1, <2>1, <2>2, StartCalls, FlowsDoKept DEF StartPhase
<1>2. CASE StopPhase(f)
  <2>1. flow' \in [Flows -> FlowRecord]
    BY <1>2, EnterTyped DEF StopPhase, FlowPcs
  <2>2. FlagsAreBoolean'
    BY <1>2 DEF StopPhase, HandleStop, FlagsAreBoolean, history
  <2> QED BY <1>2, <2>1, <2>2, StartCalls, FlowsDoKept DEF StopPhase
<1>3. CASE StopReplied(f)
  <2>1. flow' \in [Flows -> FlowRecord]
    BY <1>3, PhaseDoneTyped DEF StopReplied, In
  <2>2. FlagsAreBoolean'
    BY <1>3 DEF StopReplied, FlagsAreBoolean, history
  <2> QED BY <1>3, <2>1, <2>2, FlowsDoKept DEF StopReplied, Client
<1> QED BY <1>1, <1>2, <1>3

LEMMA RestartKept ==
  ASSUME SessionTyped, NEW f \in Flows,
         RestartCore(f) \/ RestartStopped(f) \/ RestartResume(f) \/ RestartStarted(f)
  PROVE Kept
<1> USE DEF SessionTyped, FlowsTyped
<1>1. CASE RestartCore(f)
  <2>1. CASE restartLock # Null
    <3>1. flow' \in [Flows -> FlowRecord]
      BY <1>1, <2>1, EnterTyped DEF RestartCore, FlowPcs
    <3>2. FlagsAreBoolean'
      BY <1>1, <2>1 DEF RestartCore, FlagsAreBoolean
    <3> QED BY <1>1, <2>1, <3>1, <3>2, FlowsDoKept DEF RestartCore, Client
  <2>2. CASE restartLock = Null
    <3> DEFINE step == IF runTime THEN "reply" ELSE "pause"
               begun == [flow[f] EXCEPT !.was = runTime, !.pc = step]
    <3>1. begun \in FlowRecord
      BY DEF FlagsAreBoolean, FlowRecord, FlowPcs
    <3>2. flow' = [flow EXCEPT ![f] = begun]
      BY <1>1, <2>2 DEF RestartCore
    <3>3. flow' \in [Flows -> FlowRecord]
      BY <3>1, <3>2
    <3>4. FlagsAreBoolean'
      BY <1>1, <2>2 DEF RestartCore, HandleStop, FlagsAreBoolean
    <3>5. Client
      BY <1>1, <2>2, StartCalls DEF RestartCore, Client
    <3> QED BY <1>1, <2>2, <3>3, <3>4, <3>5, FlowsDoKept DEF RestartCore
  <2> QED BY <2>1, <2>2
<1>2. CASE RestartStopped(f)
  <2>1. flow' \in [Flows -> FlowRecord]
    BY <1>2, EnterTyped DEF RestartStopped, FlowPcs
  <2>2. FlagsAreBoolean'
    BY <1>2 DEF RestartStopped, FlagsAreBoolean, history
  <2> QED BY <1>2, <2>1, <2>2, FlowsDoKept DEF RestartStopped, Client
<1>3. CASE RestartResume(f)
  <2>1. CASE flow[f].was
    <3>1. flow' \in [Flows -> FlowRecord]
      BY <1>3, <2>1, EnterTyped DEF RestartResume, FlowPcs
    <3>2. FlagsAreBoolean'
      BY <1>3, <2>1 DEF RestartResume, HandleStart, FlagsAreBoolean, history
    <3> QED BY <1>3, <2>1, <3>1, <3>2, StartCalls, FlowsDoKept DEF RestartResume
  <2>2. CASE ~flow[f].was
    <3>1. flow' \in [Flows -> FlowRecord] /\ restartLock' \in Flows \union {Null}
      BY <1>3, <2>2, RestartDoneTyped DEF RestartResume, In
    <3>2. FlagsAreBoolean'
      BY <1>3, <2>2 DEF RestartResume, FlagsAreBoolean, history
    <3> QED BY <1>3, <2>2, <3>1, <3>2, FlowsDoKept DEF RestartResume, Client
  <2> QED BY <2>1, <2>2
<1>4. CASE RestartStarted(f)
  <2>1. flow' \in [Flows -> FlowRecord] /\ restartLock' \in Flows \union {Null}
    BY <1>4, RestartDoneTyped DEF RestartStarted, In
  <2>2. FlagsAreBoolean'
    BY <1>4 DEF RestartStarted, FlagsAreBoolean, history
  <2> QED BY <1>4, <2>1, <2>2, FlowsDoKept DEF RestartStarted, Client
<1> QED BY <1>1, <1>2, <1>3, <1>4

-----------------------------------------------------------------------------
(* What the core sees. *)

\* A step of the core moves an action on, ends it, or ends the process.
LEMMA CallStepMoves ==
  ASSUME NEW c \in Calls, CallStep(c)
  PROVE (\E pc : Goto(c, pc)) \/ Finish(c) \/ UNCHANGED call
<1>1. CASE StartListener(c) \/ StopListener(c) \/ SetupConfig(c) \/ UpdateConfig(c)
  BY <1>1 DEF StartListener, StopListener, SetupConfig, UpdateConfig
<1>2. CASE InnerLoading(c) \/ OnRunning(c) \/ PatchInboundListeners(c) \/ CheckMixed(c)
             \/ CompareMixed(c)
  BY <1>2 DEF InnerLoading, OnRunning, PatchInboundListeners, CheckMixed, CompareMixed, Panic
<1>3. CASE CloseMixed(c) \/ ClearMixed(c) \/ BindMixed(c)
  BY <1>3 DEF CloseMixed, ClearMixed, BindMixed, Panic
<1>4. CASE RecreateTun(c) \/ StopTun(c) \/ Unlock(c)
  BY <1>4 DEF RecreateTun, StopTun, Unlock
<1> QED BY <1>1, <1>2, <1>3, <1>4 DEF CallStep

\* Neither a client nor a step of the core brings a shutdown.
LEMMA NoShutdownComes ==
  ASSUME Table, NoShutdown, UNCHANGED raced, Client \/ \E c \in Calls : CallStep(c)
  PROVE NoShutdown'
<1>1. ASSUME NEW c \in Calls, NEW pc, Goto(c, pc) PROVE NoShutdown'
  BY <1>1 DEF Goto, NoShutdown, Table, CallRecord
<1>2. ASSUME NEW c \in Calls, Finish(c) PROVE NoShutdown'
  BY <1>2 DEF Finish, NoCall, NoShutdown, Table
<1>3. CASE UNCHANGED call
  BY <1>3 DEF NoShutdown
<1>4. ASSUME NEW c \in Calls, CallStep(c) PROVE NoShutdown'
  BY <1>1, <1>2, <1>3, <1>4, CallStepMoves
<1>5. CASE Calling
  BY <1>5 DEF Calling, Call, Spawn, NoShutdown, Table
<1> QED BY <1>3, <1>4, <1>5 DEF Client, coreVars

\* A step of the session is a step of CoreListeners or leaves the core alone.
LEMMA CoreSees ==
  ASSUME NoShutdown', UNCHANGED raced, Client \/ \E c \in Calls : CallStep(c)
  PROVE [Next]_vars
<1>1. ~Racing'
  BY DEF NoShutdown, Racing, ShuttingDown, Is
<1>2. CASE UNCHANGED coreVars
  BY <1>2 DEF vars
<1>3. CASE Calling
  <2>1. PICK f \in Flows, kind \in Kinds \ {"shutdown"}, conf \in Conf, ok \in BOOLEAN :
          Call(f, kind, conf, ok) /\ (kind = "update" => Unlistened(conf))
    BY <1>3 DEF Calling
  <2> DEFINE sent == IF ok THEN conf ELSE DefaultConf
  <2>2. /\ sent \in Conf /\ (~ok => sent = DefaultConf)
        /\ kind = "update" => sent.inbound = "none" /\ sent.tunnels = {}
        /\ Spawn(f, kind, sent, ok)
        /\ UNCHANGED <<settings, runLock, sockets, profileVars, tunVars, status, dozing, alive>>
    BY <2>1, DefaultConfType DEF Call, Unlistened, DefaultConf
  <2> HIDE DEF sent
  <2>3. Arrive(f)
    BY <2>1, <2>2 DEF Arrive
  <2>4. CoreStep
    BY <2>3 DEF CoreStep, Flows
  <2> QED BY <1>1, <2>4 DEF Next, NoShutdown
<1>4. ASSUME NEW c \in Calls, CallStep(c) PROVE [Next]_vars
  BY <1>1, <1>4 DEF CoreStep, Next, NoShutdown
<1> QED BY <1>2, <1>3, <1>4 DEF Client

-----------------------------------------------------------------------------
(* The theorems. *)

LEMMA SessionInitInv == SessionInit => CoreInv /\ SessionInv
<1> SUFFICES ASSUME SessionInit PROVE CoreInv /\ SessionInv
  OBVIOUS
<1>1. CoreInv
  BY InitInv DEF SessionInit
<1>2. FlagsAreBoolean /\ CrossingsAreBoolean
  BY Zenon DEF SessionInit, FlagsAreBoolean, CrossingsAreBoolean
<1>3. FlowsTyped
  BY NoFlowType DEF SessionInit, FlowsTyped
<1>4. NoShutdown
  BY DEF SessionInit, CoreInit, NoCall, NoShutdown
<1> QED BY <1>1, <1>2, <1>3, <1>4 DEF SessionInv, SessionTyped

LEMMA SessionStep ==
  CoreInv /\ SessionInv /\ [SessionNext]_sessionVars => SessionInv' /\ [Next]_vars
<1> SUFFICES ASSUME CoreInv, SessionInv, [SessionNext]_sessionVars
             PROVE SessionInv' /\ [Next]_vars
  OBVIOUS
<1>0. Table /\ SessionTyped /\ CrossingsAreBoolean /\ NoShutdown
  BY InParts DEF SessionInv
<1>1. CASE SessionNext
  <2>1. SessionTyped' /\ (Client \/ \E c \in Calls : CallStep(c))
    <3>1. ASSUME NEW f \in Flows,
                 Start(f) \/ Request(f) \/ UpdateClashConfig(f) \/ FlowStep(f)
          PROVE Kept
      BY <1>0, <3>1, UserKept, TunKept, SetupKept, TimesOutKept, RunKept, RestartKept
      DEF FlowStep
    <3>2. ASSUME ToggleTun \/ UpdateRunTime PROVE Kept
      <4>1. FlagsAreBoolean'
        BY <1>0, <3>2 DEF ToggleTun, UpdateRunTime, SessionTyped, FlagsAreBoolean, history
      <4>2. FlowsTyped' /\ Client
        BY <1>0, <3>2 DEF ToggleTun, UpdateRunTime, SessionTyped, FlowsTyped, Client
      <4> QED BY <4>1, <4>2 DEF Kept, SessionTyped
    <3>3. ASSUME NEW f \in Flows, CallStep(f), UNCHANGED <<session, history>>
          PROVE SessionTyped' /\ \E c \in Calls : CallStep(c)
      BY <1>0, <3>3 DEF SessionTyped, FlagsAreBoolean, FlowsTyped, session, history, Flows
    <3> QED BY <1>1, <3>1, <3>2, <3>3 DEF SessionNext, Kept
  <2>2. crossed' \in BOOLEAN /\ overlapped' \in BOOLEAN /\ UNCHANGED raced
    BY <1>0, <1>1 DEF SessionNext, CrossingsAreBoolean
  <2>3. NoShutdown'
    BY <1>0, <2>1, <2>2, NoShutdownComes
  <2>4. [Next]_vars
    BY <2>1, <2>2, <2>3, CoreSees
  <2> QED BY <2>1, <2>2, <2>3, <2>4 DEF SessionInv, CrossingsAreBoolean
<1>2. CASE UNCHANGED sessionVars
  <2>1. UNCHANGED vars
    BY <1>2 DEF sessionVars
  <2>2. SessionTyped' /\ CrossingsAreBoolean'
    BY <1>0, <1>2 DEF sessionVars, session, history, crossings, SessionTyped,
      FlagsAreBoolean, FlowsTyped, CrossingsAreBoolean
  <2>3. NoShutdown'
    BY <1>0, <2>1 DEF vars, coreVars, NoShutdown
  <2> QED BY <2>1, <2>2, <2>3 DEF SessionInv
<1> QED BY <1>1, <1>2

LEMMA SessionInvariant == SessionSpec => [](CoreInv /\ SessionInv)
<1>1. (CoreInv /\ SessionInv) /\ [SessionNext]_sessionVars => (CoreInv /\ SessionInv)'
  BY SessionStep, NextInv
<1> QED BY <1>1, SessionInitInv, PTL DEF SessionSpec

\* A session is one of the applications of CoreListeners: its flows call the
\* core only as the core can be called, one call of a flow at a time, with
\* configurations it can hold (controller.dart, state.dart).
THEOREM SessionDrivesCore == SessionSpec => Spec
<1>1. SessionInit => CoreInit
  BY DEF SessionInit
<1>2. CoreInv /\ SessionInv /\ [SessionNext]_sessionVars => [Next]_vars
  BY SessionStep
<1> QED BY <1>1, <1>2, SessionInvariant, PTL DEF SessionSpec, Spec

\* Session and core keep their types.
THEOREM SessionTypeCorrect == SessionSpec => []SessionTypeOK
<1>1. CoreInv /\ SessionInv => SessionTypeOK
  BY SessionTypesInParts DEF CoreInv, SessionInv
<1> QED BY <1>1, SessionInvariant, PTL

\* No flow of a session ends the process of the core, but by an update before
\* the first setup; the exception for shutdowns is gone.
THEOREM SessionKeepsCore == SessionSpec => [](alive \/ config = Null)
<1>1. CoreInv /\ SessionInv => alive \/ config = Null
  BY DEF CoreInv, SessionInv, NoShutdown, DiesOnlyEarly
<1> QED BY <1>1, SessionInvariant, PTL

\* When no action holds the core and the session has stopped it, neither its
\* mixed port nor its TUN is left (listener.StopListener); what a profile may
\* have opened besides is not closed.
THEOREM SessionStopCloses ==
  SessionSpec => [](AtRest /\ ~isRunning => mixed = 0 /\ open = {} /\ tun = "off")
<1>1. SessionSpec => [](CoreInv /\ SessionInv) /\ []StoppedMeansClosed
  BY SessionInvariant, SessionDrivesCore, StopCloses
<1>2. SessionInv /\ StoppedMeansClosed =>
        (AtRest /\ ~isRunning => mixed = 0 /\ open = {} /\ tun = "off")
  BY DEF SessionInv, NoShutdown, StoppedMeansClosed
<1> QED BY <1>1, <1>2, PTL
-----------------------------------------------------------------------------
(* What a session does with the core.  Four groups of invariants, each of  *)
(* which rests on the ones before it.                                      *)

Phase(f) == Head(flow[f].todo)

At2(f, phases, pcs) == Busy(f) /\ Phase(f) \in phases /\ flow[f].pc \in pcs

Waiting(f) == call[f].pc = "lock"

\* What a flow can still have to do.
Todos ==
  {<<>>, <<"quiet", "start", "tun">>, <<"start", "tun">>, <<"tun">>, <<"setup", "start">>,
   <<"start">>, <<"setup">>, <<"update">>, <<"restart">>, <<"restart", "start">>, <<"stop">>}

TodosFit == \A f \in Flows : flow[f].todo \in Todos

\* What is in the core is what its flow waits for, unless it no longer waits.
CallsFit ==
  \A f \in Flows : UnderWay(f) =>
    \/ ~Busy(f)
    \/ call[f].kind = "setup" /\ At2(f, {"setup", "quiet"}, {"reply", "rollback"})
    \/ call[f].kind = "update" /\ At2(f, {"update"}, {"reply"})
    \/ call[f].kind = "start" /\ (At2(f, {"start"}, {"reply"}) \/ At2(f, {"restart"}, {"starting"}))
    \/ call[f].kind = "stop" /\ At2(f, {"stop", "restart"}, {"reply"})

Uncrossed == crossed \/ ~Crossing

Apart == overlapped \/ ~Overlap

FlowInv == TodosFit /\ CallsFit /\ Uncrossed /\ Apart

\* A start or stop in the core is the last the session asked for; until it has
\* been served session and core may differ.
AgreeFits ==
  ~crossed =>
    /\ \A f \in Flows : UnderWay(f) =>
         (call[f].kind = "start" => startTime) /\ (call[f].kind = "stop" => ~startTime)
    /\ startTime # isRunning =>
         \E f \in Flows : Waiting(f) /\ call[f].kind = IF startTime THEN "start" ELSE "stop"

UserConfs == {ConfOf(TRUE), ConfOf(FALSE)}

Setting(f, pcs) == At2(f, {"setup", "quiet"}, pcs)

\* A call that brings a configuration waits for the core.
Sets(f) == Waiting(f) /\ call[f].kind \in {"setup", "update"}

\* What waits is what a flow chose, or the backup, or cannot be parsed.
ChoiceFits(f) ==
  /\ Sets(f) => \/ call[f].ok /\ call[f].conf \in UserConfs
                \/ ~call[f].ok /\ call[f].kind = "setup" /\ call[f].conf = DefaultConf
  /\ Waiting(f) /\ Setting(f, {"reply"}) => (call[f].ok <=> flow[f].ok)
  /\ Setting(f, {"rollback"}) => rolledBack

ChoicesFit ==
  /\ backup \in UserConfs \union {Null}
  /\ config \in UserConfs \union {DefaultConf, Null}
  /\ \A f \in Flows : ChoiceFits(f)

\* A setup that failed is about to be undone.
Repairs(f) ==
  \/ Setting(f, {"reply"}) /\ ~flow[f].ok
  \/ Waiting(f) /\ call[f].kind = "setup" /\ call[f].ok

RepairFits ==
  ~crossed =>
    /\ \A f \in Flows :
         /\ Setting(f, {"reply"}) /\ flow[f].ok /\ ~Waiting(f) => config \notin {DefaultConf, Null}
         /\ Sets(f) /\ ~call[f].ok => unheard \/ (Setting(f, {"reply"}) /\ ~flow[f].ok)
    /\ backup # Null /\ config = DefaultConf => unheard \/ \E f \in Flows : Repairs(f)

\* The session's choice of the TUN is about to be brought to the core, or the
\* default configuration instead.
Brings(f) ==
  \/ Setting(f, {"send"}) /\ flow[f].real = realTun
  \/ At2(f, {"update"}, {"begin"}) /\ realTun
  \/ Sets(f) /\ (call[f].ok => call[f].conf = ConfOf(realTun))

\* The configuration, or one on its way to the core, has the TUN the session
\* believes in, or somebody will bring it, unless an error kept it back.
FollowFits ==
  ~crossed /\ ~stale /\ ~rolledBack =>
    /\ \/ unsent \/ config \in {Null, DefaultConf} \/ config = ConfOf(realTun)
       \/ \E f \in Flows : Brings(f)
    /\ \A f \in Flows : Sets(f) => unsent \/ \E g \in Flows : Brings(g)
    /\ realTun /\ ~want =>
         updateDue \/ \E f \in Flows : At2(f, {"update"}, {"begin"})

ConfigInv == AgreeFits /\ ChoicesFit /\ RepairFits /\ FollowFits
-----------------------------------------------------------------------------
\* A TUN that was closed behind ReCreateTun's back.
Closed == LastTunConf # "off" /\ tun = "off"

TunsFit ==
  /\ config = Null => LastTunConf = "off" /\ tun = "off"
  /\ config = Null \/ config.tun \in {"off", Tun}
  /\ LastTunConf \in {"off", Tun}

\* What a start can still have to do: before its setup, before the TUN.
Prepares == {<<"quiet", "start", "tun">>, <<"setup", "start">>}
MakesTun == {<<"quiet", "start", "tun">>, <<"start", "tun">>, <<"tun">>}

\* A flow beside which no other is under way.
SerialOf(f) ==
  Busy(f) =>
    /\ flow[f].pc = "ask" => want /\ ~realTun
    /\ flow[f].todo \in MakesTun => want
    /\ flow[f].todo = <<"setup", "start">> => ~want
    /\ flow[f].todo # <<"restart", "start">>
    /\ Setting(f, {"send"}) => flow[f].real = realTun
    /\ At2(f, {"restart"}, {"reply", "starting"}) => restarted
    /\ At2(f, {"restart"}, {"pause"}) /\ flow[f].was => restarted

\* A call that no flow waits for.
Orphan(f) == UnderWay(f) /\ ~Busy(f)

SerialFits ==
  ~overlapped =>
    /\ ~crossed /\ ~stale
    /\ \A f \in Flows : SerialOf(f) /\ (Orphan(f) => call[f].kind \in {"setup", "update"})

\* A TUN that is not wanted is not in the configuration, once the update that
\* follows the choice has come to the core.
UnwantedFits ==
  ~overlapped /\ ~rolledBack /\ ~want =>
    /\ \A f \in Flows : /\ Sets(f) => call[f].conf.tun = "off"
                        /\ Setting(f, {"send"}) => ~flow[f].real
    /\ \/ updateDue \/ config = Null \/ config.tun = "off"
       \/ \E f \in Flows : Sets(f) \/ At2(f, {"update"}, {"begin"})

\* A start is prepared without a TUN, so that ReCreateTun forgets the one that
\* a stop closed.
Forgets(f) ==
  Busy(f) =>
    /\ flow[f].todo \in Prepares =>
         /\ flow[f].pc = "send" => ~flow[f].real
         /\ flow[f].pc = "reply" /\ Waiting(f) => call[f].conf.tun = "off"
         /\ flow[f].pc = "reply" /\ ~Waiting(f) => config # Null /\ config.tun = "off"
    /\ Phase(f) = "start" => unprepared \/ config = Null \/ config.tun = "off"

\* f is starting and has still to come to ReCreateTun.
Remakes(f) ==
  /\ Busy(f)
  /\ \/ flow[f].todo \in Prepares
     \/ Phase(f) = "start" /\ flow[f].pc = "begin"
     \/ /\ Phase(f) = "start" /\ flow[f].pc = "reply" /\ call[f].kind = "start"
        /\ Waiting(f) \/ Recreating(f)

RestoreFits ==
  ~overlapped /\ ~rolledBack =>
    /\ \A f \in Flows : Forgets(f)
    /\ isRunning /\ Closed /\ ~restarted /\ ~unprepared => \E f \in Flows : Remakes(f)

SerialInv == TunsFit /\ SerialFits /\ UnwantedFits /\ RestoreFits

LEMMA SeqEqual ==
  ASSUME NEW S, NEW s \in Seq(S), NEW t \in Seq(S), Len(s) = Len(t),
         \A i \in 1 .. Len(s) : s[i] = t[i]
  PROVE  s = t
OBVIOUS

\* The sequences of phases, spelled out.
LEMMA TodoHeads ==
  /\ Head(<<"quiet", "start", "tun">>) = "quiet" /\ Head(<<"start", "tun">>) = "start"
  /\ Head(<<"setup", "start">>) = "setup" /\ Head(<<"restart", "start">>) = "restart"
  /\ \A phase : Head(<<phase>>) = phase /\ Tail(<<phase>>) = <<>>
  /\ Tail(<<"quiet", "start", "tun">>) = <<"start", "tun">>
  /\ Tail(<<"start", "tun">>) = <<"tun">>
  /\ Tail(<<"setup", "start">>) = <<"start">> /\ Tail(<<"restart", "start">>) = <<"start">>
OBVIOUS

LEMMA TodoTails ==
  \A todo \in Todos : todo # <<>> => Tail(todo) \in Todos
BY TodoHeads DEF Todos

LEMMA TodoRestarts ==
  \A todo \in Todos : todo # <<>> /\ Head(todo) \in {"setup", "tun", "update"} =>
    <<"restart">> \o Tail(todo) \in Todos
<1>1. <<"restart">> \o <<>> = <<"restart">>
  OBVIOUS
<1>2. <<"restart">> \o <<"start">> = <<"restart", "start">>
  <2> DEFINE s == <<"restart">> \o <<"start">>
             t == <<"restart", "start">>
  <2>1. s \in Seq({"restart", "start"}) /\ Len(s) = 2 /\ s[1] = "restart" /\ s[2] = "start"
    OBVIOUS
  <2>2. t \in Seq({"restart", "start"}) /\ Len(t) = 2 /\ t[1] = "restart" /\ t[2] = "start"
    OBVIOUS
  <2> HIDE DEF s, t
  <2>3. Len(s) = Len(t) /\ \A i \in 1 .. Len(s) : s[i] = t[i]
    BY <2>1, <2>2
  <2>4. s = t
    BY <2>1, <2>2, <2>3, SeqEqual
  <2> QED
    BY <2>4 DEF s, t
<1>3. \A todo \in Todos : todo # <<>> /\ Head(todo) \in {"setup", "tun", "update"} =>
        Tail(todo) = <<>> \/ Tail(todo) = <<"start">>
  BY TodoHeads DEF Todos
<1>4. <<"restart">> \in Todos /\ <<"restart", "start">> \in Todos
  BY DEF Todos
<1> QED
  BY <1>1, <1>2, <1>3, <1>4

LEMMA TodoUpdates ==
  \A todo \in Todos : todo # <<>> /\ Head(todo) = "tun" =>
    <<"update">> \o Tail(todo) = <<"update">>
<1>1. <<"update">> \o <<>> = <<"update">>
  OBVIOUS
<1> QED
  BY <1>1, TodoHeads DEF Todos

\* A step that changes the record of f and of no other flow.
Alters(f, record) ==
  /\ flow'[f] = record
  /\ \A g \in Flows \ {f} : flow'[g] = flow[g]

LEMMA FreshFields ==
  ASSUME NEW todo
  PROVE  /\ Fresh(todo).todo = todo /\ Fresh(todo).pc = "begin"
         /\ Fresh(todo).real = FALSE /\ Fresh(todo).ok = TRUE /\ Fresh(todo).was = FALSE
BY DEF Fresh, NoFlow

LEMMA EnterAlters ==
  ASSUME SessionTyped, NEW f \in Flows, NEW pc \in FlowPcs, Enter(f, pc)
  PROVE  /\ Alters(f, [flow[f] EXCEPT !.pc = pc])
         /\ flow'[f].todo = flow[f].todo /\ flow'[f].pc = pc /\ flow'[f].real = flow[f].real
         /\ flow'[f].ok = flow[f].ok /\ flow'[f].was = flow[f].was
BY DEF SessionTyped, FlowsTyped, FlowRecord, Enter, Alters

LEMMA LaunchAlters ==
  ASSUME SessionTyped, NEW f \in Flows, NEW todo, Launch(f, todo)
  PROVE  alive /\ flow[f].todo = <<>> /\ ~UnderWay(f) /\ Alters(f, Fresh(todo))
BY DEF SessionTyped, FlowsTyped, Launch, Alters, Busy

LEMMA PhaseDoneAlters ==
  ASSUME SessionTyped, NEW f \in Flows, PhaseDone(f)
  PROVE  Alters(f, Fresh(Tail(flow[f].todo)))
BY DEF SessionTyped, FlowsTyped, PhaseDone, Alters

LEMMA BecomeAlters ==
  ASSUME SessionTyped, NEW f \in Flows, NEW phase, Become(f, phase)
  PROVE  Alters(f, Fresh(<<phase>> \o Tail(flow[f].todo)))
BY DEF SessionTyped, FlowsTyped, Become, Alters

\* What the core gets.
Sends(f, kind, conf, ok) ==
  /\ ~UnderWay(f) /\ alive /\ alive' = alive
  /\ UNCHANGED <<settings, tunVars>>
  /\ \A g \in Flows \ {f} : call'[g] = call[g]
  /\ call'[f].kind = kind /\ call'[f].conf = conf /\ call'[f].ok = ok /\ call'[f].pc = "lock"

LEMMA CallSends ==
  ASSUME Table, NEW f \in Flows, NEW kind \in Kinds \ {"shutdown"}, NEW conf, NEW ok,
         Call(f, kind, conf, ok)
  PROVE  /\ Sends(f, kind, IF ok THEN conf ELSE DefaultConf, ok)
         /\ ok = TRUE => Sends(f, kind, conf, TRUE)
<1> DEFINE sent == IF ok THEN conf ELSE DefaultConf
           new == [kind |-> kind, conf |-> sent, ok |-> ok, pc |-> "lock"]
<1>1. call' = [call EXCEPT ![f] = new]
  BY DEF Call, Spawn
<1>2. new.kind = kind /\ new.conf = sent /\ new.ok = ok /\ new.pc = "lock"
  OBVIOUS
<1>4. ok = TRUE => sent = conf
  OBVIOUS
<1> HIDE DEF new
<1>3. call'[f] = new /\ \A g \in Flows \ {f} : call'[g] = call[g]
  BY <1>1 DEF Table, Flows
<1> HIDE DEF sent
<1>5. Sends(f, kind, sent, ok)
  BY <1>2, <1>3 DEF Call, Spawn, Sends
<1> QED
  BY <1>4, <1>5 DEF sent

\* What the session sees of a step of the core.
Serves(c) ==
  /\ Waiting(c)
  /\ call'[c].pc \notin {"idle", "lock"} /\ call'[c].kind = call[c].kind
  /\ call[c].kind = "start" => isRunning' = TRUE /\ config' = config
  /\ call[c].kind = "stop" => isRunning' = FALSE /\ config' = config
  /\ call[c].kind = "setup" =>
       isRunning' = isRunning /\ config' = IF call[c].ok THEN call[c].conf ELSE DefaultConf
  /\ call[c].kind = "update" =>
       isRunning' = isRunning /\ config # Null /\ config' = Updated(call[c].conf)

Proceeds(c) ==
  /\ UnderWay(c) /\ ~Waiting(c) /\ UNCHANGED settings
  /\ \/ call'[c].pc = "idle"
     \/ call'[c].pc \notin {"idle", "lock"} /\ call'[c].kind = call[c].kind

Dies == UNCHANGED <<settings, call>> /\ alive' = FALSE

Seen(c) ==
  /\ alive
  /\ \A d \in Flows \ {c} : call'[d] = call[d]
  /\ Dies \/ (alive' = alive /\ (Serves(c) \/ Proceeds(c)))

LEMMA GotoSeen ==
  ASSUME Table, NEW c \in Flows, NEW pc, Goto(c, pc)
  PROVE  /\ \A d \in Flows \ {c} : call'[d] = call[d]
         /\ call'[c].pc = pc /\ call'[c].kind = call[c].kind
BY DEF Table, CallRecord, Goto, Flows

LEMMA FinishSeen ==
  ASSUME Table, NEW c \in Flows, Finish(c)
  PROVE  /\ \A d \in Flows \ {c} : call'[d] = call[d]
         /\ call'[c].pc = "idle"
BY DEF Table, CallRecord, Finish, Flows, NoCall

LEMMA CoreSeen ==
  ASSUME Table, NoShutdown, NEW c \in Flows, CallStep(c)
  PROVE  Seen(c)
<1> USE DEF At, Flows
<1>1. CASE StartListener(c) \/ StopListener(c)
  BY <1>1, GotoSeen DEF StartListener, StopListener, Lock, Is, RefreshFrom, Seen, Serves, Waiting
<1>2. CASE SetupConfig(c)
  <2>1. /\ alive /\ alive' = alive /\ call[c].kind = "setup" /\ Waiting(c)
        /\ isRunning' = isRunning
        /\ config' = IF call[c].ok THEN call[c].conf ELSE DefaultConf
        /\ Goto(c, "load")
    BY <1>2 DEF SetupConfig, Lock, Is, Waiting
  <2> QED
    BY <2>1, GotoSeen DEF Seen, Serves
<1>3. CASE UpdateConfig(c)
  <2>1. CASE config = Null
    BY <1>3, <2>1 DEF UpdateConfig, Lock, Seen, Dies, settings
  <2>2. CASE config # Null
    <3>1. /\ alive /\ alive' = alive /\ call[c].kind = "update" /\ Waiting(c)
          /\ isRunning' = isRunning /\ config' = Updated(call[c].conf)
          /\ Goto(c, RefreshFrom(isRunning, config'))
      BY <1>3, <2>2 DEF UpdateConfig, Lock, Is, Waiting
    <3>2. RefreshFrom(isRunning, config') \notin {"idle", "lock"}
      BY DEF RefreshFrom
    <3> QED
      BY <2>2, <3>1, <3>2, GotoSeen DEF Seen, Serves
  <2> QED
    BY <2>1, <2>2
<1>4. CASE InnerLoading(c) \/ OnRunning(c) \/ PatchInboundListeners(c)
  BY <1>4, GotoSeen
  DEF InnerLoading, OnRunning, PatchInboundListeners, RefreshFrom, Seen, Proceeds, UnderWay,
      Waiting
<1>5. CASE CheckMixed(c)
  <2> DEFINE next == IF mixed = 0 THEN IF Refreshing(c) THEN "bind" ELSE "tun"
                                  ELSE IF Refreshing(c) THEN "compare" ELSE "close"
  <2>1. Goto(c, next) /\ alive /\ call[c].pc = "check" /\ UNCHANGED <<settings, alive>>
    BY <1>5 DEF CheckMixed
  <2>2. next \notin {"idle", "lock"}
    OBVIOUS
  <2> HIDE DEF next
  <2> QED
    BY <2>1, <2>2, GotoSeen DEF Seen, Proceeds, UnderWay, Waiting
<1>6. CASE CompareMixed(c) \/ CloseMixed(c)
  BY <1>6, GotoSeen DEF CompareMixed, CloseMixed, Panic, Seen, Dies, Proceeds, UnderWay, Waiting
<1>7. CASE ClearMixed(c) \/ BindMixed(c) \/ RecreateTun(c)
  BY <1>7, GotoSeen DEF ClearMixed, BindMixed, RecreateTun, Seen, Proceeds, UnderWay, Waiting
<1>8. CASE StopTun(c) \/ Unlock(c)
  BY <1>8, GotoSeen, FinishSeen DEF StopTun, Unlock, Seen, Proceeds, UnderWay, Waiting
<1> QED
  BY <1>1, <1>2, <1>3, <1>4, <1>5, <1>6, <1>7, <1>8 DEF CallStep

-----------------------------------------------------------------------------
(* FlowInv. *)

\* Every step keeps count of rivals and of overlapping flows.
Counted == crossed' = (crossed \/ Crossing') /\ overlapped' = (overlapped \/ Overlap')

LEMMA CountedFits ==
  ASSUME Counted
  PROVE  Uncrossed' /\ Apart' /\ (crossed => crossed') /\ (overlapped => overlapped')
BY Zenon DEF Counted, Uncrossed, Apart

\* What is known at the begin of a step.
Settled == SessionTyped /\ NoShutdown /\ Table /\ FlowInv /\ Counted

LEMMA FlowFitsByParts ==
  ASSUME Counted, TodosFit', CallsFit'
  PROVE  FlowInv'
BY CountedFits DEF FlowInv

\* A flow that neither calls the core nor waits for it changes its record.
LEMMA IdleFlowFits ==
  ASSUME Settled, NEW f \in Flows, NEW record, Alters(f, record), UNCHANGED call,
         ~UnderWay(f), record.todo \in Todos
  PROVE  FlowInv'
<1>1. TodosFit'
  BY DEF Settled, FlowInv, TodosFit, Alters
<1>2. CallsFit'
  BY DEF Settled, FlowInv, CallsFit, Alters, UnderWay, At2, Busy, Phase
<1> QED
  BY <1>1, <1>2, FlowFitsByParts DEF Settled

\* A flow calls the core and waits for it.
LEMMA CallingFlowFits ==
  ASSUME Settled, NEW f \in Flows, NEW record, Alters(f, record),
         NEW kind, NEW conf, NEW ok, Sends(f, kind, conf, ok), record.todo \in Todos,
         \/ kind = "setup" /\ At2(f, {"setup", "quiet"}, {"reply", "rollback"})'
         \/ kind = "update" /\ At2(f, {"update"}, {"reply"})'
         \/ kind = "start" /\ (At2(f, {"start"}, {"reply"}) \/ At2(f, {"restart"}, {"starting"}))'
         \/ kind = "stop" /\ At2(f, {"stop", "restart"}, {"reply"})'
  PROVE  FlowInv'
<1>1. TodosFit'
  BY DEF Settled, FlowInv, TodosFit, Alters
<1>2. CallsFit'
  BY DEF Settled, FlowInv, CallsFit, Alters, Sends, UnderWay, At2, Busy, Phase
<1> QED
  BY <1>1, <1>2, FlowFitsByParts DEF Settled

\* A flow in a phase whose call has been answered, or that has not called.
LEMMA NotUnderWay ==
  ASSUME CallsFit, NEW f \in Flows, Busy(f),
         flow[f].pc \in {"begin", "ask", "send", "join", "pause"}
  PROVE  ~UnderWay(f)
BY DEF CallsFit, At2, Busy

LEMMA UserFlowFits ==
  ASSUME Settled, NEW f \in Flows, Start(f) \/ Request(f) \/ UpdateClashConfig(f)
  PROVE  FlowInv'
<1>1. PICK todo \in Todos : Launch(f, todo)
  BY DEF Start, Request, UpdateClashConfig, Todos
<1>2. ~UnderWay(f) /\ Alters(f, Fresh(todo))
  BY <1>1, LaunchAlters DEF Settled
<1>3. UNCHANGED call
  BY DEF Start, Request, UpdateClashConfig, coreVars
<1> QED
  BY <1>2, <1>3, FreshFields, IdleFlowFits

\* The three things that become of a choice.
LEMMA ChooseCases ==
  ASSUME SessionTyped, Table, NEW f \in Flows, NEW enable \in BOOLEAN, Choose(f, enable)
  PROVE  /\ realTun' = enable
         /\ \/ /\ In(f, {"setup", "quiet"}, flow[f].pc) /\ UNCHANGED <<coreVars, unsent>>
               /\ \E ok \in BOOLEAN :
                    Alters(f, [flow[f] EXCEPT !.pc = "send", !.real = enable, !.ok = ok])
            \/ /\ In(f, {"update"}, flow[f].pc)
               /\ Sends(f, "update", ConfOf(enable), TRUE)
               /\ Enter(f, "reply")
            \/ /\ In(f, {"tun"}, flow[f].pc) /\ UNCHANGED <<coreVars, unsent>>
               /\ Become(f, "update")
<1>1. CASE /\ In(f, {"setup", "quiet"}, flow[f].pc)
           /\ \E ok \in BOOLEAN :
                flow' = [flow EXCEPT ![f].pc = "send", ![f].real = enable, ![f].ok = ok]
           /\ UNCHANGED <<coreVars, unsent>>
  <2>1. PICK ok \in BOOLEAN :
          flow' = [flow EXCEPT ![f].pc = "send", ![f].real = enable, ![f].ok = ok]
    BY <1>1
  <2>2. Alters(f, [flow[f] EXCEPT !.pc = "send", !.real = enable, !.ok = ok])
    BY <2>1 DEF SessionTyped, FlowsTyped, Alters
  <2> QED
    BY <1>1, <2>2 DEF Choose
<1>2. CASE In(f, {"update"}, flow[f].pc) /\ Call(f, "update", ConfOf(enable), TRUE)
             /\ Enter(f, "reply")
  <2>1. Sends(f, "update", ConfOf(enable), TRUE)
    BY <1>2, CallSends DEF Kinds
  <2> QED
    BY <1>2, <2>1 DEF Choose
<1>3. CASE In(f, {"tun"}, flow[f].pc) /\ Become(f, "update") /\ UNCHANGED <<coreVars, unsent>>
  BY <1>3 DEF Choose
<1> QED
  BY <1>1, <1>2, <1>3 DEF Choose

LEMMA ChooseFits ==
  ASSUME Settled, NEW f \in Flows, NEW enable \in BOOLEAN, Choose(f, enable),
         flow[f].pc \in {"begin", "ask"}
  PROVE  FlowInv'
<1>0. flow[f].todo \in Todos /\ ~UnderWay(f)
  BY NotUnderWay DEF Choose, In, Settled, FlowInv, TodosFit
<1>1. ASSUME In(f, {"setup", "quiet"}, flow[f].pc), UNCHANGED coreVars, NEW ok \in BOOLEAN,
             Alters(f, [flow[f] EXCEPT !.pc = "send", !.real = enable, !.ok = ok])
      PROVE  FlowInv'
  <2> DEFINE record == [flow[f] EXCEPT !.pc = "send", !.real = enable, !.ok = ok]
  <2>1. record.todo = flow[f].todo
    BY DEF Settled, SessionTyped, FlowsTyped, FlowRecord
  <2> HIDE DEF record
  <2>2. Alters(f, record)
    BY <1>1 DEF record
  <2> QED
    BY <1>0, <1>1, <2>1, <2>2, IdleFlowFits DEF coreVars
<1>2. CASE In(f, {"update"}, flow[f].pc) /\ Sends(f, "update", ConfOf(enable), TRUE)
             /\ Enter(f, "reply")
  <2>1. /\ Alters(f, [flow[f] EXCEPT !.pc = "reply"])
        /\ flow'[f].todo = flow[f].todo /\ flow'[f].pc = "reply"
    BY <1>2, EnterAlters DEF Settled, FlowPcs
  <2>2. At2(f, {"update"}, {"reply"})'
    BY <1>2, <2>1 DEF At2, Busy, Phase, In
  <2> QED
    BY <1>0, <1>2, <2>1, <2>2, CallingFlowFits DEF Alters
<1>3. CASE In(f, {"tun"}, flow[f].pc) /\ UNCHANGED coreVars /\ Become(f, "update")
  <2>1. Alters(f, Fresh(<<"update">>))
    BY <1>0, <1>3, BecomeAlters, TodoUpdates DEF Settled, In, Busy
  <2>2. <<"update">> \in Todos
    BY DEF Todos
  <2> QED
    BY <1>0, <1>3, <2>1, <2>2, FreshFields, IdleFlowFits DEF coreVars
<1> QED
  BY <1>1, <1>2, <1>3, ChooseCases DEF Settled

LEMMA TunFlowFits ==
  ASSUME Settled, NEW f \in Flows, RequestAdmin(f) \/ AuthorizeCore(f)
  PROVE  FlowInv'
<1>0. flow[f].todo \in Todos
  BY DEF Settled, FlowInv, TodosFit
<1>1. CASE RequestAdmin(f)
  <2>1. flow[f].pc = "begin" /\ Asked(f) \in BOOLEAN /\ Busy(f)
    BY <1>1 DEF RequestAdmin, In, Asked
  <2>2. CASE Enter(f, "ask") /\ UNCHANGED coreVars
    <3>1. /\ Alters(f, [flow[f] EXCEPT !.pc = "ask"])
          /\ flow'[f].todo = flow[f].todo
      BY <2>2, EnterAlters DEF Settled, FlowPcs
    <3> QED
      BY <1>0, <2>1, <2>2, <3>1, NotUnderWay, IdleFlowFits
      DEF coreVars, Settled, FlowInv, Alters
  <2>3. CASE Choose(f, Asked(f))
    BY <2>1, <2>3, ChooseFits
  <2> QED
    BY <1>1, <2>2, <2>3 DEF RequestAdmin
<1>2. CASE AuthorizeCore(f)
  <2>1. flow[f].pc = "ask" /\ Busy(f) /\ Phase(f) \in {"setup", "tun", "update"}
    BY <1>2 DEF AuthorizeCore, In, Phase
  <2>2. CASE Choose(f, TRUE) \/ Choose(f, FALSE)
    BY <2>1, <2>2, ChooseFits
  <2>3. CASE Become(f, "restart") /\ UNCHANGED coreVars
    <3> DEFINE todo == <<"restart">> \o Tail(flow[f].todo)
    <3>1. todo \in Todos
      BY <1>0, <2>1, TodoRestarts DEF Busy, Phase
    <3>2. Alters(f, Fresh(todo))
      BY <2>3, BecomeAlters DEF Settled
    <3> HIDE DEF todo
    <3>3. ~UnderWay(f)
      BY <2>1, NotUnderWay DEF Settled, FlowInv
    <3>4. Fresh(todo).todo \in Todos
      BY <3>1, FreshFields
    <3>5. UNCHANGED call
      BY <2>3 DEF coreVars
    <3> QED
      BY <3>2, <3>3, <3>4, <3>5, IdleFlowFits
      DEF coreVars, Settled, FlowInv
  <2> QED
    BY <1>2, <2>2, <2>3 DEF AuthorizeCore
<1> QED
  BY <1>1, <1>2

\* A phase ends.
LEMMA PhaseDoneFits ==
  ASSUME Settled, NEW f \in Flows, Busy(f), ~UnderWay(f), PhaseDone(f), UNCHANGED call
  PROVE  FlowInv'
<1>1. Tail(flow[f].todo) \in Todos
  BY TodoTails DEF Settled, FlowInv, TodosFit, Busy
<1> QED
  BY <1>1, PhaseDoneAlters, FreshFields, IdleFlowFits DEF Settled

\* A flow calls the core and enters the place where it waits.
LEMMA CallEnterFits ==
  ASSUME Settled, NEW f \in Flows, Busy(f), NEW kind, NEW conf, NEW ok,
         Sends(f, kind, conf, ok), NEW pc \in FlowPcs, Enter(f, pc),
         \/ kind = "setup" /\ Phase(f) \in {"setup", "quiet"} /\ pc \in {"reply", "rollback"}
         \/ kind = "start" /\ Phase(f) = "start" /\ pc = "reply"
         \/ kind = "start" /\ Phase(f) = "restart" /\ pc = "starting"
         \/ kind = "stop" /\ Phase(f) = "stop" /\ pc = "reply"
  PROVE  FlowInv'
<1>1. /\ Alters(f, [flow[f] EXCEPT !.pc = pc])
      /\ flow'[f].todo = flow[f].todo /\ flow'[f].pc = pc
  BY EnterAlters DEF Settled
<1>2. flow[f].todo \in Todos
  BY DEF Settled, FlowInv, TodosFit
<1> DEFINE record == [flow[f] EXCEPT !.pc = pc]
<1>3. Alters(f, record) /\ record.todo \in Todos
  BY <1>1, <1>2 DEF Alters
<1> HIDE DEF record
<1> QED
  BY <1>1, <1>3, CallingFlowFits DEF At2, Busy, Phase

LEMMA SetupFlowFits ==
  ASSUME Settled, NEW f \in Flows,
         SendSetup(f) \/ PhaseFails(f) \/ SetupReplied(f) \/ PhaseReplied(f)
  PROVE  FlowInv'
<1> USE DEF In, Phase, FlowPcs, Kinds
<1>1. CASE SendSetup(f)
  <2>1. Sends(f, "setup", IF flow[f].ok THEN ConfOf(flow[f].real) ELSE DefaultConf, flow[f].ok)
    BY <1>1, CallSends DEF SendSetup, Settled
  <2> QED
    BY <1>1, <2>1, CallEnterFits DEF SendSetup
<1>2. CASE SetupReplied(f)
  <2>1. Busy(f) /\ ~UnderWay(f) /\ Phase(f) \in {"setup", "quiet"}
    BY <1>2 DEF SetupReplied, Replied
  <2>2. CASE PhaseDone(f) /\ UNCHANGED coreVars
    BY <2>1, <2>2, PhaseDoneFits DEF coreVars
  <2>3. CASE Call(f, "setup", backup, ~unheard) /\ Enter(f, "rollback")
    <3> DEFINE ok == ~unheard
    <3>1. Call(f, "setup", backup, ok)
      BY <2>3, Zenon
    <3> HIDE DEF ok
    <3>2. Sends(f, "setup", IF ok THEN backup ELSE DefaultConf, ok)
      BY <3>1, CallSends DEF Settled
    <3> QED
      BY <2>1, <2>3, <3>2, CallEnterFits
  <2> QED
    BY <1>2, <2>2, <2>3 DEF SetupReplied
<1>3. CASE PhaseReplied(f)
  BY <1>3, PhaseDoneFits DEF PhaseReplied, Replied, coreVars
<1>4. CASE PhaseFails(f)
  <2>1. Busy(f) /\ flow[f].pc \in {"begin", "ask", "send"}
    BY <1>4 DEF PhaseFails
  <2>2. ~UnderWay(f)
    BY <2>1, NotUnderWay DEF Settled, FlowInv
  <2> QED
    BY <1>4, <2>1, <2>2, PhaseDoneFits DEF PhaseFails, coreVars
<1> QED
  BY <1>1, <1>2, <1>3, <1>4

\* A flow goes on as g while its call stays in the core under the name f.
Goes(f, g) ==
  /\ Busy(f) /\ UnderWay(f) /\ ~Busy(g) /\ ~UnderWay(g) /\ f # g
  /\ flow'[f] = NoFlow
  /\ flow'[g] = IF Configuring(f) THEN Fresh(Tail(flow[f].todo)) ELSE flow[f]
  /\ \A h \in Flows \ {f, g} : flow'[h] = flow[h]

LEMMA TimesOutGoes ==
  ASSUME SessionTyped, NEW f \in Flows, InvokeTimesOut(f)
  PROVE  \E g \in Flows : Goes(f, g)
<1> DEFINE rest == IF Configuring(f) THEN Fresh(Tail(flow[f].todo)) ELSE flow[f]
<1>1. PICK g \in Flows : /\ ~Busy(g) /\ ~UnderWay(g)
                         /\ flow' = [flow EXCEPT ![f] = NoFlow, ![g] = rest]
  BY DEF InvokeTimesOut
<1> HIDE DEF rest
<1>2. Busy(f) /\ UnderWay(f) /\ f # g
  BY <1>1 DEF InvokeTimesOut
<1>3. /\ flow'[f] = NoFlow /\ flow'[g] = rest
      /\ \A h \in Flows \ {f, g} : flow'[h] = flow[h]
  BY <1>1, <1>2 DEF SessionTyped, FlowsTyped
<1> QED
  BY <1>1, <1>2, <1>3 DEF Goes, rest

LEMMA TimesOutFits ==
  ASSUME Settled, NEW f \in Flows, InvokeTimesOut(f)
  PROVE  FlowInv'
<1>1. PICK g \in Flows : Goes(f, g)
  BY TimesOutGoes DEF Settled
<1>2. UNCHANGED call
  BY DEF InvokeTimesOut, coreVars
<1>3. flow'[g].todo \in Todos /\ flow'[f].todo = <<>>
  <2>1. flow[f].todo \in Todos /\ Tail(flow[f].todo) \in Todos
    BY <1>1, TodoTails DEF Goes, Busy, Settled, FlowInv, TodosFit
  <2>2. Fresh(Tail(flow[f].todo)).todo = Tail(flow[f].todo)
    BY FreshFields
  <2>3. flow'[g] \in {Fresh(Tail(flow[f].todo)), flow[f]} /\ flow'[f] = NoFlow
    BY <1>1 DEF Goes
  <2> QED
    BY <2>1, <2>2, <2>3 DEF NoFlow
<1>4. TodosFit'
  BY <1>1, <1>3 DEF Goes, Settled, FlowInv, TodosFit, Todos
<1>5. CallsFit'
  BY <1>1, <1>2, <1>3 DEF Goes, Settled, FlowInv, CallsFit, UnderWay, At2, Busy, Phase
<1> QED
  BY <1>4, <1>5, FlowFitsByParts DEF Settled

LEMMA StartStopSends ==
  ASSUME Table, NEW f \in Flows
  PROVE  /\ HandleStart(f) => startTime' = TRUE /\ Sends(f, "start", DefaultConf, TRUE)
         /\ HandleStop(f) => startTime' = FALSE /\ Sends(f, "stop", DefaultConf, TRUE)
<1>1. ASSUME HandleStart(f) PROVE Sends(f, "start", DefaultConf, TRUE)
  BY <1>1, CallSends DEF HandleStart, Kinds
<1>2. ASSUME HandleStop(f) PROVE Sends(f, "stop", DefaultConf, TRUE)
  BY <1>2, CallSends DEF HandleStop, Kinds
<1> QED
  BY <1>1, <1>2 DEF HandleStart, HandleStop

LEMMA RunFlowFits ==
  ASSUME Settled, NEW f \in Flows, StartPhase(f) \/ StopPhase(f) \/ StopReplied(f)
  PROVE  FlowInv'
<1> USE DEF In, Phase, FlowPcs
<1>1. CASE StartPhase(f)
  BY <1>1, StartStopSends, CallEnterFits DEF StartPhase, Settled
<1>2. CASE StopPhase(f)
  BY <1>2, StartStopSends, CallEnterFits DEF StopPhase, Settled
<1>3. CASE StopReplied(f)
  BY <1>3, PhaseDoneFits DEF StopReplied, Replied, coreVars
<1> QED
  BY <1>1, <1>2, <1>3

\* What the end of a restart does to the flows.
LEMMA RestartDoneMoves ==
  ASSUME SessionTyped, NEW f \in Flows, RestartDone(f)
  PROVE  /\ flow'[f] = Fresh(Tail(flow[f].todo))
         /\ \A g \in Flows \ {f} :
              \/ flow'[g] = flow[g]
              \/ At2(g, {"restart"}, {"join"}) /\ flow'[g] = Fresh(Tail(flow[g].todo))
BY DEF SessionTyped, FlowsTyped, RestartDone, At2, In, Phase

LEMMA RestartDoneFits ==
  ASSUME Settled, NEW f \in Flows, Busy(f), ~UnderWay(f), RestartDone(f), UNCHANGED call
  PROVE  FlowInv'
<1>1. \A g \in Flows : Busy(g) => Tail(flow[g].todo) \in Todos
  BY TodoTails DEF Settled, FlowInv, TodosFit, Busy
<1>2. ASSUME NEW g \in Flows
      PROVE  flow'[g] = flow[g] \/ (~UnderWay(g) /\ flow'[g].todo \in Todos)
  <2>1. CASE g = f
    <3>1. flow'[f] = Fresh(Tail(flow[f].todo))
      BY RestartDoneMoves DEF Settled
    <3>2. Fresh(Tail(flow[f].todo)).todo = Tail(flow[f].todo)
      BY FreshFields
    <3>3. Tail(flow[f].todo) \in Todos
      BY <1>1
    <3> QED
      BY <2>1, <3>1, <3>2, <3>3
  <2>2. CASE At2(g, {"restart"}, {"join"}) /\ flow'[g] = Fresh(Tail(flow[g].todo))
    <3>1. ~UnderWay(g)
      BY <2>2, NotUnderWay DEF At2, Settled, FlowInv
    <3>2. Tail(flow[g].todo) \in Todos
      BY <1>1, <2>2 DEF At2
    <3>3. Fresh(Tail(flow[g].todo)).todo = Tail(flow[g].todo)
      BY FreshFields
    <3> QED
      BY <2>2, <3>1, <3>2, <3>3
  <2>3. CASE flow'[g] = flow[g]
    BY <2>3
  <2> QED
    BY <2>1, <2>2, <2>3, RestartDoneMoves DEF Settled
<1>3. TodosFit'
  BY <1>2 DEF Settled, FlowInv, TodosFit
<1>4. CallsFit'
  BY <1>2 DEF Settled, FlowInv, CallsFit, UnderWay, At2, Busy, Phase
<1> QED
  BY <1>3, <1>4, FlowFitsByParts DEF Settled

\* The flow that restarts the core.
LEMMA RestartCoreMoves ==
  ASSUME Settled, NEW f \in Flows, RestartCore(f)
  PROVE  \/ /\ restartLock # Null /\ Enter(f, "join") /\ UNCHANGED <<coreVars, startTime, restarted>>
         \/ /\ \E pc \in {"reply", "pause"} : 
                 Alters(f, [flow[f] EXCEPT !.was = runTime, !.pc = pc])
            /\ flow'[f].todo = flow[f].todo /\ flow'[f].was = runTime
            /\ flow'[f].pc = IF runTime THEN "reply" ELSE "pause"
            /\ runTime => restarted' = TRUE /\ startTime' = FALSE
                          /\ Sends(f, "stop", DefaultConf, TRUE)
            /\ ~runTime => UNCHANGED <<coreVars, startTime, restarted>>
<1>1. CASE restartLock # Null
  BY <1>1 DEF RestartCore
<1>2. CASE restartLock = Null
  <2> DEFINE step == IF runTime THEN "reply" ELSE "pause"
  <2>1. flow' = [flow EXCEPT ![f] = [flow[f] EXCEPT !.was = runTime, !.pc = step]]
    BY <1>2 DEF RestartCore
  <2>2. /\ Alters(f, [flow[f] EXCEPT !.was = runTime, !.pc = step])
        /\ flow'[f].todo = flow[f].todo /\ flow'[f].was = runTime /\ flow'[f].pc = step
    BY <2>1 DEF Settled, SessionTyped, FlowsTyped, FlowRecord, Alters
  <2>3. /\ runTime => restarted' = TRUE /\ startTime' = FALSE /\ Sends(f, "stop", DefaultConf, TRUE)
        /\ ~runTime => UNCHANGED <<coreVars, startTime, restarted>>
    BY <1>2, StartStopSends DEF RestartCore, Settled
  <2> QED
    BY <2>2, <2>3
<1> QED
  BY <1>1, <1>2

LEMMA RestartFlowFits ==
  ASSUME Settled, NEW f \in Flows,
         RestartCore(f) \/ RestartStopped(f) \/ RestartResume(f) \/ RestartStarted(f)
  PROVE  FlowInv'
<1>0. flow[f].todo \in Todos /\ Busy(f) /\ Phase(f) = "restart"
  BY DEF RestartCore, RestartStopped, RestartResume, RestartStarted, In, Phase,
     Settled, FlowInv, TodosFit
<1>1. CASE RestartCore(f)
  <2>0. ~UnderWay(f)
    BY <1>1, NotUnderWay DEF RestartCore, In, Settled, FlowInv
  <2>1. CASE Enter(f, "join") /\ UNCHANGED coreVars
    <3>1. Alters(f, [flow[f] EXCEPT !.pc = "join"]) /\ flow'[f].todo = flow[f].todo
      BY <2>1, EnterAlters DEF Settled, FlowPcs
    <3> QED
      BY <1>0, <2>0, <2>1, <3>1, IdleFlowFits DEF coreVars, Alters
  <2>2. ASSUME NEW record, Alters(f, record), flow'[f].todo = flow[f].todo,
               flow'[f].pc = "reply", Sends(f, "stop", DefaultConf, TRUE)
        PROVE  FlowInv'
    BY <1>0, <2>2, CallingFlowFits DEF Alters, At2, Busy, Phase
  <2>3. ASSUME NEW record, Alters(f, record), flow'[f].todo = flow[f].todo, UNCHANGED coreVars
        PROVE  FlowInv'
    BY <1>0, <2>0, <2>3, IdleFlowFits DEF coreVars, Alters
  <2> QED
    BY <1>1, <2>1, <2>2, <2>3, RestartCoreMoves
<1>2. CASE RestartStopped(f)
  <2>1. Alters(f, [flow[f] EXCEPT !.pc = "pause"]) /\ flow'[f].todo = flow[f].todo
    BY <1>2, EnterAlters DEF RestartStopped, Settled, FlowPcs
  <2> QED
    BY <1>0, <1>2, <2>1, IdleFlowFits DEF RestartStopped, Replied, coreVars, Alters
<1>3. CASE RestartResume(f)
  <2>1. CASE flow[f].was
    BY <1>0, <1>3, <2>1, StartStopSends, CallEnterFits DEF RestartResume, Settled, FlowPcs
  <2>2. CASE ~flow[f].was
    BY <1>0, <1>3, <2>2, RestartDoneFits, NotUnderWay
    DEF RestartResume, In, coreVars, Settled, FlowInv
  <2> QED
    BY <2>1, <2>2
<1>4. CASE RestartStarted(f)
  BY <1>0, <1>4, RestartDoneFits DEF RestartStarted, Replied, coreVars
<1> QED
  BY <1>1, <1>2, <1>3, <1>4

LEMMA CoreFlowFits ==
  ASSUME Settled, NEW c \in Flows, Seen(c), UNCHANGED session
  PROVE  FlowInv'
<1>1. TodosFit'
  BY DEF Settled, FlowInv, TodosFit, session
<1>2. CallsFit'
  <2>1. \A g \in Flows : UnderWay(g)' => UnderWay(g) /\ call'[g].kind = call[g].kind
    BY DEF Seen, Dies, Serves, Proceeds, Waiting, UnderWay
  <2>2. UNCHANGED flow
    BY DEF session
  <2> QED
    BY <2>1, <2>2 DEF Settled, FlowInv, CallsFit, At2, Busy, Phase
<1> QED
  BY <1>1, <1>2, FlowFitsByParts DEF Settled

-----------------------------------------------------------------------------
(* ConfigInv. *)

LEMMA UserConfsFacts ==
  \A conf \in UserConfs : conf \in Conf /\ conf # DefaultConf /\ conf # Null
<1> SUFFICES ASSUME NEW real \in BOOLEAN
             PROVE  ConfOf(real) \in Conf /\ ConfOf(real) # DefaultConf /\ ConfOf(real) # Null
  BY DEF UserConfs
<1>1. ConfOf(real) \in Conf
  BY ConfOfType
<1>2. ConfOf(real).mixed = Port /\ DefaultConf.mixed = 0
  BY DEF ConfOf, DefaultConf
<1>3. Port # 0
  BY SessionAssumption, CoreAssumption
<1> QED
  BY <1>1, <1>2, <1>3, ConfNotNull

\* Two flows or calls that configure the core at the same time, or a start and
\* a stop.
LEMMA RivalsCross ==
  ASSUME FlowInv, NEW f \in Flows, NEW g \in Flows, f # g, Rivals(f, g)
  PROVE  crossed
BY DEF FlowInv, Uncrossed, Crossing

\* While one configuration is in the core, no other flow waits for one, and no
\* other call brings one.
LEMMA ConfiguresAlone ==
  ASSUME FlowInv, alive, ~crossed, NEW c \in Flows, NEW g \in Flows \ {c},
         \/ At2(c, {"setup", "quiet", "update"}, {"reply", "rollback"})
         \/ UnderWay(c) /\ call[c].kind \in {"setup", "update"}
  PROVE  /\ ~At2(g, {"setup", "quiet", "update"}, {"reply", "rollback"})
         /\ UnderWay(g) => call[g].kind \notin {"setup", "update"}
<1>1. \A f \in Flows :
        \/ At2(f, {"setup", "quiet", "update"}, {"reply", "rollback"})
        \/ UnderWay(f) /\ call[f].kind \in {"setup", "update"}
        => Configures(f)
  BY DEF Configures, Configuring, In, At2, Phase, Is
<1> QED
  BY <1>1, RivalsCross DEF Rivals

\* g has nothing to do with configurations, neither before the step nor after.
Aside(g) ==
  /\ ~UnderWay(g)
  /\ ~Brings(g) \/ unsent'
  /\ ~Repairs(g) \/ backup = Null
  /\ ~At2(g, {"update"}, {"begin"}) \/ ~realTun \/ want
  /\ flow'[g].pc \notin {"reply", "rollback"}

LEMMA AsideConfig ==
  ASSUME Settled, ConfigInv, \A g \in Flows : flow'[g] = flow[g] \/ Aside(g),
         UNCHANGED <<call, settings, startTime, want, updateDue, realTun, backup, rolledBack,
                     unheard>>,
         stale => stale', unsent => unsent'
  PROVE  ConfigInv'
<1> USE DEF Settled, ConfigInv, settings
<1>1. crossed => crossed'
  BY CountedFits
<1>2. AgreeFits'
  BY <1>1 DEF AgreeFits, UnderWay, Waiting
<1>3. \A g \in Flows : (Waiting(g)' <=> Waiting(g)) /\ (Sets(g)' <=> Sets(g))
  BY DEF Waiting, Sets
<1>4. \A g \in Flows : flow'[g] # flow[g] => ~Setting(g, {"reply"})' /\ ~Setting(g, {"rollback"})'
                                             /\ ~Waiting(g)
  BY DEF Aside, Setting, At2, UnderWay, Waiting
<1>5. \A g \in Flows : flow'[g] = flow[g] =>
        /\ Setting(g, {"reply"})' <=> Setting(g, {"reply"})
        /\ Setting(g, {"rollback"})' <=> Setting(g, {"rollback"})
        /\ Repairs(g)' <=> Repairs(g)
        /\ Brings(g)' <=> Brings(g)
        /\ At2(g, {"update"}, {"begin"})' <=> At2(g, {"update"}, {"begin"})
  BY DEF Setting, At2, Busy, Phase, Repairs, Brings, Waiting, Sets
<1>6. ChoicesFit'
  <2> SUFFICES ASSUME NEW g \in Flows, ChoiceFits(g) PROVE ChoiceFits(g)'
    BY DEF ChoicesFit
  <2>1. CASE flow'[g] = flow[g]
    BY <1>3, <1>5, <2>1 DEF ChoiceFits
  <2>2. CASE flow'[g] # flow[g]
    BY <1>3, <1>4, <2>2 DEF ChoiceFits, Sets
  <2> QED
    BY <2>1, <2>2
<1>7. RepairFits'
  <2>1. \A g \in Flows : Repairs(g) => Repairs(g)' \/ backup = Null
    BY <1>5 DEF Aside
  <2>2. ~crossed' => \A g \in Flows :
          /\ Setting(g, {"reply"})' /\ flow'[g].ok /\ ~Waiting(g)' => config' \notin {DefaultConf, Null}
          /\ Sets(g)' /\ ~call'[g].ok => unheard' \/ (Setting(g, {"reply"})' /\ ~flow'[g].ok)
    <3> SUFFICES ASSUME ~crossed', NEW g \in Flows
                 PROVE  /\ Setting(g, {"reply"})' /\ flow'[g].ok /\ ~Waiting(g)'
                             => config' \notin {DefaultConf, Null}
                        /\ Sets(g)' /\ ~call'[g].ok
                             => unheard' \/ (Setting(g, {"reply"})' /\ ~flow'[g].ok)
      OBVIOUS
    <3>1. CASE flow'[g] = flow[g]
      BY <1>1, <1>3, <1>5, <3>1 DEF RepairFits
    <3>2. CASE flow'[g] # flow[g]
      BY <1>3, <1>4, <3>2 DEF Sets
    <3> QED
      BY <3>1, <3>2
  <2> QED
    BY <1>1, <2>1, <2>2 DEF RepairFits
<1>8. FollowFits'
  <2>1. \A g \in Flows : Brings(g) => Brings(g)' \/ unsent'
    BY <1>5 DEF Aside
  <2>2. \A g \in Flows : At2(g, {"update"}, {"begin"}) =>
          At2(g, {"update"}, {"begin"})' \/ ~realTun \/ want
    BY <1>5 DEF Aside
  <2> QED
    BY <1>1, <1>3, <2>1, <2>2 DEF FollowFits
<1> QED
  BY <1>2, <1>6, <1>7, <1>8

\* One flow calls the core; whatever it calls, the flows beside it and their
\* calls stay.
LEMMA OthersStay ==
  ASSUME NEW f \in Flows, NEW g \in Flows \ {f}, flow'[g] = flow[g], call'[g] = call[g],
         UNCHANGED realTun
  PROVE  /\ Waiting(g)' <=> Waiting(g)
         /\ UnderWay(g)' <=> UnderWay(g)
         /\ Setting(g, {"reply"})' <=> Setting(g, {"reply"})
         /\ Setting(g, {"rollback"})' <=> Setting(g, {"rollback"})
         /\ Repairs(g)' <=> Repairs(g)
         /\ Brings(g)' <=> Brings(g)
         /\ Sets(g)' <=> Sets(g)
         /\ At2(g, {"update"}, {"begin"})' <=> At2(g, {"update"}, {"begin"})
BY DEF Setting, At2, Busy, Phase, Repairs, Brings, Waiting, UnderWay, Sets

LEMMA ChoicesStay ==
  ASSUME ChoicesFit, NEW f \in Flows,
         \A g \in Flows \ {f} : flow'[g] = flow[g] /\ call'[g] = call[g],
         backup' \in UserConfs \union {Null}, config' \in UserConfs \union {DefaultConf, Null},
         rolledBack => rolledBack', ChoiceFits(f)'
  PROVE  ChoicesFit'
<1> SUFFICES ASSUME NEW g \in Flows \ {f} PROVE ChoiceFits(g)'
  BY DEF ChoicesFit
<1>1. ChoiceFits(g)
  BY DEF ChoicesFit
<1> QED
  BY <1>1 DEF ChoiceFits, Sets, Waiting, Setting, At2, Busy, Phase

\* A flow that neither sets anything up nor waits for it fits.
LEMMA ChoiceIdle ==
  ASSUME NEW f \in Flows, ~Sets(f)', ~Setting(f, {"reply"})', ~Setting(f, {"rollback"})'
  PROVE  ChoiceFits(f)'
BY DEF ChoiceFits

LEMMA OthersCall ==
  ASSUME NEW f \in Flows, NEW g \in Flows \ {f}, flow'[g] = flow[g], call'[g] = call[g]
  PROVE  /\ Waiting(g)' <=> Waiting(g)
         /\ UnderWay(g)' <=> UnderWay(g)
         /\ Setting(g, {"reply"})' <=> Setting(g, {"reply"})
         /\ Setting(g, {"rollback"})' <=> Setting(g, {"rollback"})
         /\ Repairs(g)' <=> Repairs(g)
         /\ Sets(g)' <=> Sets(g)
         /\ At2(g, {"update"}, {"begin"})' <=> At2(g, {"update"}, {"begin"})
BY DEF Setting, At2, Busy, Phase, Repairs, Waiting, UnderWay, Sets

\* A start or a stop is sent.
LEMMA RunSends ==
  ASSUME Settled, ConfigInv, FlowInv', NEW f \in Flows, NEW record, Alters(f, record),
         NEW kind \in {"start", "stop"}, Sends(f, kind, DefaultConf, TRUE),
         startTime' = (kind = "start"),
         Busy(f), Phase(f) \in {"start", "stop", "restart"}, flow'[f].todo = flow[f].todo,
         UNCHANGED <<want, updateDue, realTun, backup, rolledBack, stale, unsent, unheard>>
  PROVE  ConfigInv'
<1> USE DEF Settled, ConfigInv, settings
<1>1. crossed => crossed'
  BY CountedFits
<1>2. \A g \in Flows \ {f} : flow'[g] = flow[g] /\ call'[g] = call[g]
  BY DEF Alters, Sends
<1>3. /\ ~Waiting(f) /\ Waiting(f)' /\ call'[f].kind = kind /\ UnderWay(f)' /\ ~Sets(f)'
      /\ ~Setting(f, {"reply"})' /\ ~Setting(f, {"rollback"})'
      /\ ~Repairs(f) /\ ~Brings(f) /\ ~At2(f, {"update"}, {"begin"})
  BY DEF Sends, Waiting, UnderWay, Setting, At2, Busy, Phase, Repairs, Brings, Sets
<1>4. AgreeFits'
  <2>1. ~crossed' => \A g \in Flows \ {f} : UnderWay(g)' =>
          ~(call'[g].kind = "start" /\ kind = "stop") /\ ~(call'[g].kind = "stop" /\ kind = "start")
    <3> SUFFICES ASSUME NEW g \in Flows \ {f}, UnderWay(g)', ~crossed',
                        \/ call'[g].kind = "start" /\ kind = "stop"
                        \/ call'[g].kind = "stop" /\ kind = "start"
                 PROVE  FALSE
      OBVIOUS
    <3>1. alive'
      BY DEF Sends
    <3>2. (Rivals(f, g) \/ Rivals(g, f))'
      BY <1>3 DEF Rivals, Is
    <3>3. Crossing'
      BY <3>2 DEF Crossing
    <3> QED
      BY <3>3 DEF Counted
  <2>2. \A g \in Flows : UnderWay(g)' => g = f \/ (UnderWay(g) /\ call'[g].kind = call[g].kind)
    BY <1>2 DEF UnderWay
  <2>3. ~crossed' => \A g \in Flows : UnderWay(g)' =>
          (call'[g].kind = "start" => startTime') /\ (call'[g].kind = "stop" => ~startTime')
    BY <1>3, <2>1, <2>2
  <2>4. startTime' # isRunning' =>
          \E g \in Flows : Waiting(g)' /\ call'[g].kind = IF startTime' THEN "start" ELSE "stop"
    BY <1>3
  <2> QED
    BY <2>3, <2>4 DEF AgreeFits
<1>5. ChoicesFit'
  BY <1>2, <1>3, ChoicesStay, ChoiceIdle DEF ChoicesFit, Sends
<1>6. RepairFits'
  BY <1>1, <1>2, <1>3, OthersStay DEF RepairFits, Sends
<1>7. FollowFits'
  BY <1>1, <1>2, <1>3, OthersStay DEF FollowFits, Sends
<1> QED
  BY <1>4, <1>5, <1>6, <1>7

\* A configuration is sent, so that AgreeFits does not change.
LEMMA AgreeConfigures ==
  ASSUME Settled, AgreeFits, NEW f \in Flows, NEW kind \in {"setup", "update"}, NEW conf, NEW ok,
         Sends(f, kind, conf, ok), UNCHANGED startTime
  PROVE  AgreeFits'
<1>1. crossed => crossed'
  BY CountedFits DEF Settled
<1>2. \A g \in Flows : Waiting(g) => call'[g] = call[g]
  BY DEF Sends, Waiting, UnderWay
<1>3. \A g \in Flows : UnderWay(g)' /\ call'[g].kind \in {"start", "stop"} =>
        UnderWay(g) /\ call'[g].kind = call[g].kind
  BY DEF Sends, UnderWay
<1> QED
  BY <1>1, <1>2, <1>3 DEF AgreeFits, Waiting, Sends, settings

LEMMA SendSetupConfig ==
  ASSUME Settled, ConfigInv, NEW f \in Flows, SendSetup(f)
  PROVE  ConfigInv'
<1> USE DEF Settled, ConfigInv, settings
<1>1. crossed => crossed'
  BY CountedFits
<1>2. Sends(f, "setup", IF flow[f].ok THEN ConfOf(flow[f].real) ELSE DefaultConf, flow[f].ok)
  BY CallSends DEF SendSetup, Kinds
<1>3. /\ Alters(f, [flow[f] EXCEPT !.pc = "reply"])
      /\ flow'[f].todo = flow[f].todo /\ flow'[f].pc = "reply"
      /\ flow'[f].real = flow[f].real /\ flow'[f].ok = flow[f].ok
  BY EnterAlters DEF SendSetup, FlowPcs
<1>4. \A g \in Flows \ {f} : flow'[g] = flow[g] /\ call'[g] = call[g]
  BY <1>2, <1>3 DEF Alters, Sends
<1>5. Setting(f, {"send"}) /\ Setting(f, {"reply"})' /\ ~Setting(f, {"rollback"})'
  BY <1>3 DEF SendSetup, Setting, At2, In, Busy, Phase
<1>6. ~Repairs(f) /\ Waiting(f)' /\ ~At2(f, {"update"}, {"begin"}) /\ Sets(f)'
  BY <1>2, <1>5 DEF Repairs, Setting, Waiting, Sends, At2, UnderWay, Sets
<1>7. ConfOf(flow[f].real) \in UserConfs
  BY DEF UserConfs, SessionTyped, FlowsTyped, FlowRecord
<1>8. UNCHANGED <<startTime, want, updateDue, realTun, backup, rolledBack, unheard>>
  BY DEF SendSetup
<1>9. ChoicesFit'
  <2>1. ChoiceFits(f)'
    BY <1>2, <1>3, <1>5, <1>7 DEF ChoiceFits, Sends
  <2> QED
    BY <1>2, <1>4, <1>8, <2>1, ChoicesStay DEF ChoicesFit, Sends
<1>10. RepairFits'
  BY <1>1, <1>2, <1>3, <1>4, <1>5, <1>6, <1>8, OthersStay DEF RepairFits, Sends
<1>11. FollowFits'
  <2>1. ~stale' => Brings(f)'
    BY <1>2, <1>6, <1>8 DEF SendSetup, Brings, Sends
  <2>2. stale => stale'
    BY DEF SendSetup
  <2> QED
    BY <1>1, <1>4, <1>6, <1>8, <2>1, <2>2, OthersStay DEF FollowFits
<1> QED
  BY <1>2, <1>8, <1>9, <1>10, <1>11, AgreeConfigures

LEMMA SetupRepliedConfig ==
  ASSUME Settled, ConfigInv, NEW f \in Flows, SetupReplied(f)
  PROVE  ConfigInv'
<1> USE DEF Settled, ConfigInv, settings
<1>1. crossed => crossed'
  BY CountedFits
<1>2. Setting(f, {"reply"}) /\ ~UnderWay(f) /\ ~Waiting(f) /\ ~Brings(f)
      /\ ~At2(f, {"update"}, {"begin"})
  BY DEF SetupReplied, Replied, Setting, At2, In, Phase, Waiting, UnderWay, Brings, Sets
<1>3. UNCHANGED <<startTime, want, updateDue, realTun, stale, unsent>>
  BY DEF SetupReplied
<1>4. CASE flow[f].ok /\ backup' = ConfOf(flow[f].real) /\ unheard' = FALSE /\ PhaseDone(f)
           /\ UNCHANGED <<coreVars, rolledBack>>
  <2>0. Alters(f, Fresh(Tail(flow[f].todo)))
    BY <1>4, PhaseDoneAlters
  <2>1. flow'[f].pc = "begin" /\ \A g \in Flows \ {f} : flow'[g] = flow[g]
    BY <2>0, FreshFields DEF Alters
  <2>2. \A g \in Flows \ {f} : flow'[g] = flow[g] /\ call'[g] = call[g]
    BY <1>4, <2>1 DEF coreVars
  <2>3. ~Setting(f, {"reply"})' /\ ~Setting(f, {"rollback"})' /\ ~Waiting(f)' /\ ~Sets(f)'
    BY <1>2, <1>4, <2>1 DEF Setting, At2, coreVars, Waiting, Sets
  <2>4. backup' \in UserConfs
    BY <1>4 DEF UserConfs, SessionTyped, FlowsTyped, FlowRecord
  <2>5. AgreeFits'
    BY <1>1, <1>3, <1>4 DEF AgreeFits, coreVars, UnderWay, Waiting
  <2>6. ChoicesFit'
    BY <1>3, <1>4, <2>2, <2>3, <2>4, ChoicesStay, ChoiceIdle DEF ChoicesFit, coreVars
  <2>7. RepairFits'
    <3> SUFFICES ASSUME ~crossed PROVE RepairFits'
      BY <1>1 DEF RepairFits
    <3>1. config \notin {DefaultConf, Null}
      BY <1>2, <1>4 DEF RepairFits
    <3>2. \A g \in Flows \ {f} : ~Sets(g)
      BY <1>2, ConfiguresAlone DEF Sets, Setting, At2, UnderWay, Waiting, SetupReplied, In
    <3> QED
      BY <1>3, <1>4, <2>2, <2>3, <3>1, <3>2, OthersStay DEF RepairFits, coreVars
  <2>8. FollowFits'
    BY <1>1, <1>2, <1>3, <1>4, <2>2, <2>3, OthersStay DEF FollowFits, coreVars
  <2> QED
    BY <2>5, <2>6, <2>7, <2>8
<1>5. CASE ~flow[f].ok /\ backup = Null /\ PhaseDone(f)
           /\ UNCHANGED <<coreVars, backup, rolledBack, unheard>>
  <2>0. Alters(f, Fresh(Tail(flow[f].todo)))
    BY <1>5, PhaseDoneAlters
  <2>1. flow'[f].pc = "begin" /\ \A g \in Flows \ {f} : flow'[g] = flow[g]
    BY <2>0, FreshFields DEF Alters
  <2>2. Aside(f)
    BY <1>2, <1>5, <2>1 DEF Aside
  <2> QED
    BY <1>3, <1>5, <2>1, <2>2, AsideConfig DEF coreVars
<1>6. CASE /\ ~flow[f].ok /\ backup # Null /\ Call(f, "setup", backup, ~unheard)
           /\ Enter(f, "rollback") /\ rolledBack' = TRUE /\ UNCHANGED <<backup, unheard>>
  <2> DEFINE ok == ~unheard
  <2>0. Call(f, "setup", backup, ok)
    BY <1>6, Zenon
  <2>a. ok <=> ~unheard
    OBVIOUS
  <2> HIDE DEF ok
  <2>1. Sends(f, "setup", IF ok THEN backup ELSE DefaultConf, ok)
    BY <2>0, CallSends DEF Kinds
  <2>2. /\ Alters(f, [flow[f] EXCEPT !.pc = "rollback"])
        /\ flow'[f].todo = flow[f].todo /\ flow'[f].pc = "rollback"
    BY <1>6, EnterAlters DEF FlowPcs
  <2>3. \A g \in Flows \ {f} : flow'[g] = flow[g] /\ call'[g] = call[g]
    BY <2>1, <2>2 DEF Alters, Sends
  <2>4. ~Setting(f, {"reply"})' /\ (unheard \/ Repairs(f)')
    BY <1>2, <2>1, <2>2, <2>a DEF Setting, At2, Repairs, Sends, Waiting, Busy, Phase
  <2>5. ChoicesFit'
    <3>1. ChoiceFits(f)'
      BY <1>6, <2>1, <2>4, <2>a DEF ChoiceFits, Sends, ChoicesFit
    <3> QED
      BY <1>6, <2>1, <2>3, <3>1, ChoicesStay DEF ChoicesFit, Sends
  <2>6. RepairFits'
    BY <1>1, <1>3, <1>6, <2>1, <2>3, <2>4, <2>a, OthersStay DEF RepairFits, Sends
  <2>7. FollowFits'
    BY <1>6 DEF FollowFits
  <2> QED
    BY <1>3, <2>1, <2>5, <2>6, <2>7, AgreeConfigures
<1> QED
  BY <1>4, <1>5, <1>6 DEF SetupReplied

\* A choice, if it is not stale: a TUN is chosen only while it is wanted, or
\* was there already, and the choice that follows a start is not given up.
LEMMA ChooseConfig ==
  ASSUME Settled, ConfigInv, NEW f \in Flows, NEW enable \in BOOLEAN, Choose(f, enable),
         flow[f].pc \in {"begin", "ask"}, stale => stale',
         UNCHANGED <<startTime, want, updateDue, backup, rolledBack, unheard>>,
         enable /\ ~want => (realTun /\ ~At2(f, {"update"}, {"begin"})) \/ stale',
         Phase(f) = "tun" /\ ~enable => ~realTun \/ stale'
  PROVE  ConfigInv'
<1> USE DEF Settled, ConfigInv, settings
<1>0. flow[f].todo \in Todos /\ ~UnderWay(f) /\ ~Waiting(f) /\ ~Repairs(f)
  BY NotUnderWay DEF Choose, In, FlowInv, TodosFit, UnderWay, Waiting, Repairs, Setting, At2
<1>1. (crossed => crossed') /\ realTun' = enable
  BY CountedFits, ChooseCases
<1>2. ASSUME In(f, {"setup", "quiet"}, flow[f].pc), UNCHANGED <<coreVars, unsent>>,
             NEW ok \in BOOLEAN,
             Alters(f, [flow[f] EXCEPT !.pc = "send", !.real = enable, !.ok = ok])
      PROVE  ConfigInv'
  <2>1. /\ flow'[f].todo = flow[f].todo /\ flow'[f].pc = "send" /\ flow'[f].real = enable
        /\ \A g \in Flows \ {f} : flow'[g] = flow[g] /\ call'[g] = call[g]
    BY <1>2 DEF SessionTyped, FlowsTyped, FlowRecord, Alters, coreVars
  <2>2. /\ Brings(f)' /\ ~Setting(f, {"reply"})' /\ ~Setting(f, {"rollback"})' /\ ~Waiting(f)'
        /\ ~At2(f, {"update"}, {"begin"}) /\ ~Sets(f)'
    BY <1>0, <1>1, <1>2, <2>1
    DEF Brings, Setting, At2, Busy, Phase, In, Waiting, coreVars, Sets
  <2>3. AgreeFits'
    BY <1>1, <1>2 DEF AgreeFits, coreVars, UnderWay, Waiting
  <2>4. ChoicesFit'
    BY <1>2, <2>1, <2>2, ChoicesStay, ChoiceIdle DEF ChoicesFit, coreVars
  <2>5. RepairFits'
    BY <1>0, <1>1, <1>2, <2>1, <2>2, OthersCall DEF RepairFits, coreVars
  <2>6. FollowFits'
    BY <1>1, <2>1, <2>2, OthersCall DEF FollowFits
  <2> QED
    BY <2>3, <2>4, <2>5, <2>6
<1>3. CASE In(f, {"update"}, flow[f].pc) /\ Sends(f, "update", ConfOf(enable), TRUE)
             /\ Enter(f, "reply")
  <2>1. /\ Alters(f, [flow[f] EXCEPT !.pc = "reply"])
        /\ flow'[f].todo = flow[f].todo /\ flow'[f].pc = "reply"
    BY <1>3, EnterAlters DEF FlowPcs
  <2>2. \A g \in Flows \ {f} : flow'[g] = flow[g] /\ call'[g] = call[g]
    BY <1>3, <2>1 DEF Alters, Sends
  <2>3. Brings(f)' /\ ~Setting(f, {"reply"})' /\ ~Setting(f, {"rollback"})'
    BY <1>1, <1>3, <2>1 DEF Brings, Setting, At2, Busy, Phase, In, Waiting, Sends, Sets
  <2>4. ConfOf(enable) \in UserConfs
    BY DEF UserConfs
  <2>5. ChoicesFit'
    <3>1. ChoiceFits(f)'
      BY <1>3, <2>3, <2>4 DEF ChoiceFits, Sends
    <3> QED
      BY <1>3, <2>2, <3>1, ChoicesStay DEF ChoicesFit, Sends
  <2>6. RepairFits'
    BY <1>0, <1>1, <1>3, <2>2, <2>3, OthersCall DEF RepairFits, Sends
  <2>7. FollowFits'
    BY <1>1, <2>2, <2>3, OthersCall DEF FollowFits
  <2> QED
    BY <1>3, <2>5, <2>6, <2>7, AgreeConfigures
<1>4. CASE In(f, {"tun"}, flow[f].pc) /\ UNCHANGED <<coreVars, unsent>> /\ Become(f, "update")
  <2>1. Alters(f, Fresh(<<"update">>))
    BY <1>0, <1>4, BecomeAlters, TodoUpdates DEF In, Busy
  <2>2. /\ flow'[f].todo = <<"update">> /\ flow'[f].pc = "begin"
        /\ \A g \in Flows \ {f} : flow'[g] = flow[g] /\ call'[g] = call[g]
    BY <1>4, <2>1, FreshFields DEF Alters, coreVars
  <2>3. At2(f, {"update"}, {"begin"})' /\ ~Setting(f, {"reply"})' /\ ~Setting(f, {"rollback"})'
    BY <2>2, TodoHeads DEF At2, Setting, Busy, Phase
  <2>4. ~Waiting(f)' /\ Phase(f) = "tun" /\ ~Brings(f) /\ ~Sets(f)'
    BY <1>0, <1>4 DEF Waiting, coreVars, In, Phase, Brings, Setting, At2, Sets
  <2>5. AgreeFits'
    BY <1>1, <1>4 DEF AgreeFits, coreVars, UnderWay, Waiting
  <2>6. ChoicesFit'
    BY <1>4, <2>2, <2>3, <2>4, ChoicesStay, ChoiceIdle DEF ChoicesFit, coreVars
  <2>7. RepairFits'
    BY <1>0, <1>1, <1>4, <2>2, <2>3, <2>4, OthersCall DEF RepairFits, coreVars
  <2>8. FollowFits'
    <3>1. CASE enable
      <4>1. Brings(f)'
        BY <1>1, <2>3, <3>1 DEF Brings
      <4> QED
        BY <2>3, <4>1 DEF FollowFits
    <3>2. CASE ~enable /\ ~realTun
      BY <1>1, <1>4, <2>2, <2>4, <3>2, OthersStay DEF FollowFits, coreVars, SessionTyped,
         FlagsAreBoolean
    <3>3. CASE ~enable /\ stale'
      BY <3>3 DEF FollowFits
    <3> QED
      BY <2>4, <3>1, <3>2, <3>3
  <2> QED
    BY <2>5, <2>6, <2>7, <2>8
<1> QED
  BY <1>2, <1>3, <1>4, ChooseCases

\* Where a flow has nothing to do with configurations.
LEMMA AsideFacts ==
  ASSUME NEW f \in Flows, ~UnderWay(f), flow'[f].pc \notin {"reply", "rollback"},
         \/ flow[f].todo = <<>> \/ flow[f].pc \in {"ask", "rollback", "join", "pause", "starting"}
         \/ flow[f].pc = "begin" /\ (Phase(f) # "update" \/ ~realTun)
         \/ flow[f].pc = "reply" /\ Phase(f) \notin {"setup", "quiet"}
  PROVE  Aside(f)
BY DEF Aside, UnderWay, Waiting, Brings, Repairs, Setting, At2, Busy, Sets

LEMMA UserConfig ==
  ASSUME Settled, ConfigInv, NEW f \in Flows, Start(f) \/ Request(f)
  PROVE  ConfigInv'
<1>1. PICK todo \in Todos : Launch(f, todo)
  BY DEF Start, Request, Todos
<1>2. flow[f].todo = <<>> /\ Alters(f, Fresh(todo)) /\ ~UnderWay(f)
  BY <1>1, LaunchAlters DEF Settled
<1>3. flow'[f].pc = "begin" /\ \A g \in Flows \ {f} : flow'[g] = flow[g]
  BY <1>2, FreshFields DEF Alters
<1>4. Aside(f)
  BY <1>2, <1>3, AsideFacts
<1> QED
  BY <1>3, <1>4, AsideConfig DEF Start, Request, coreVars, history

\* The update that a change of the settings asked for.
LEMMA UpdateClashConfigConfig ==
  ASSUME Settled, ConfigInv, NEW f \in Flows, UpdateClashConfig(f)
  PROVE  ConfigInv'
<1> USE DEF Settled, ConfigInv, settings
<1>1. /\ flow[f].todo = <<>> /\ Alters(f, Fresh(<<"update">>)) /\ UNCHANGED coreVars
      /\ ~UnderWay(f)
  BY LaunchAlters DEF UpdateClashConfig
<1>2. /\ flow'[f].todo = <<"update">> /\ flow'[f].pc = "begin"
      /\ \A g \in Flows \ {f} : flow'[g] = flow[g] /\ call'[g] = call[g]
  <2>1. flow'[f] = Fresh(<<"update">>) /\ \A g \in Flows \ {f} : flow'[g] = flow[g]
    BY <1>1 DEF Alters
  <2>2. \A g \in Flows : call'[g] = call[g]
    BY <1>1 DEF coreVars
  <2>3. Fresh(<<"update">>).todo = <<"update">> /\ Fresh(<<"update">>).pc = "begin"
    BY FreshFields
  <2> QED
    BY <2>1, <2>2, <2>3
<1>3. (crossed => crossed') /\ ~Waiting(f) /\ ~Waiting(f)' /\ ~Sets(f)'
  BY <1>1, CountedFits DEF Waiting, UnderWay, coreVars, Sets
<1>4. ~Brings(f) /\ ~Repairs(f)
  BY <1>1, <1>3 DEF Brings, Repairs, Setting, At2, Busy, Sets
<1>5. At2(f, {"update"}, {"begin"})' /\ ~Setting(f, {"reply"})' /\ ~Setting(f, {"rollback"})'
  BY <1>2, TodoHeads DEF At2, Setting, Busy, Phase
<1>6. UNCHANGED <<startTime, want, realTun, backup, stale, rolledBack, unsent, unheard>>
  BY DEF UpdateClashConfig, history
<1>7. AgreeFits'
  BY <1>1, <1>3, <1>6 DEF AgreeFits, coreVars, UnderWay, Waiting
<1>8. ChoicesFit'
  BY <1>1, <1>2, <1>3, <1>5, <1>6, ChoicesStay, ChoiceIdle DEF ChoicesFit, coreVars, Sets
<1>9. RepairFits'
  BY <1>1, <1>2, <1>3, <1>4, <1>5, <1>6, OthersStay DEF RepairFits, coreVars
<1>10. FollowFits'
  BY <1>1, <1>2, <1>3, <1>4, <1>5, <1>6, OthersStay DEF FollowFits, coreVars
<1> QED
  BY <1>7, <1>8, <1>9, <1>10

\* The settings change, and the update that follows is due.
LEMMA ToggleConfig ==
  ASSUME Settled, ConfigInv, ToggleTun
  PROVE  ConfigInv'
<1> USE DEF Settled, ConfigInv, settings
<1>1. /\ UNCHANGED <<coreVars, startTime, realTun, backup, flow, stale, rolledBack, unsent,
                     unheard>>
      /\ updateDue' /\ (crossed => crossed')
  BY CountedFits DEF ToggleTun, history
<1>2. \A g \in Flows :
        /\ Waiting(g)' <=> Waiting(g)
        /\ UnderWay(g)' <=> UnderWay(g)
        /\ \A pcs : Setting(g, pcs)' <=> Setting(g, pcs)
        /\ Repairs(g)' <=> Repairs(g)
        /\ Brings(g)' <=> Brings(g)
        /\ Sets(g)' <=> Sets(g)
  BY <1>1 DEF coreVars, Waiting, UnderWay, Setting, At2, Busy, Phase, Repairs, Brings, Sets
<1>3. AgreeFits' /\ ChoicesFit'
  BY <1>1, <1>2 DEF AgreeFits, ChoicesFit, ChoiceFits, coreVars
<1>4. RepairFits' /\ FollowFits'
  BY <1>1, <1>2 DEF RepairFits, FollowFits, coreVars
<1> QED
  BY <1>3, <1>4

LEMMA TunConfig ==
  ASSUME Settled, ConfigInv, NEW f \in Flows, RequestAdmin(f) \/ AuthorizeCore(f)
  PROVE  ConfigInv'
<1> USE DEF Settled
<1>1. CASE RequestAdmin(f)
  <2>1. /\ flow[f].pc = "begin" /\ Asked(f) \in BOOLEAN /\ ~UnderWay(f)
        /\ UNCHANGED <<startTime, want, updateDue, backup, rolledBack, stale, unheard>>
    BY <1>1, NotUnderWay DEF RequestAdmin, In, Asked, FlowInv
  <2>2. CASE Asked(f) /\ ~realTun
    <3>1. Enter(f, "ask") /\ UNCHANGED <<coreVars, realTun, unsent>>
      BY <1>1, <2>2 DEF RequestAdmin
    <3>2. flow'[f].pc = "ask" /\ Alters(f, [flow[f] EXCEPT !.pc = "ask"])
      BY <3>1, EnterAlters DEF FlowPcs
    <3>3. Aside(f)
      BY <2>1, <2>2, <3>2, AsideFacts
    <3> QED
      BY <2>1, <3>1, <3>2, <3>3, AsideConfig DEF Alters, coreVars
  <2>3. CASE ~(Asked(f) /\ ~realTun)
    <3>1. Choose(f, Asked(f))
      BY <1>1, <2>3 DEF RequestAdmin
    <3>2. Asked(f) /\ ~want => realTun /\ Phase(f) = "tun"
      BY <2>3 DEF Asked, In, Phase
    <3>3. Phase(f) = "tun" => Asked(f)
      BY <1>1 DEF RequestAdmin, Asked, In, Phase
    <3>4. Phase(f) = "tun" => ~At2(f, {"update"}, {"begin"})
      BY DEF At2
    <3> QED
      BY <2>1, <3>1, <3>2, <3>3, <3>4, ChooseConfig
  <2> QED
    BY <2>2, <2>3
<1>2. CASE AuthorizeCore(f)
  <2>1. /\ flow[f].pc = "ask" /\ ~UnderWay(f) /\ ~At2(f, {"update"}, {"begin"})
        /\ UNCHANGED <<startTime, want, updateDue, backup, rolledBack, unheard>>
    BY <1>2, NotUnderWay DEF AuthorizeCore, In, FlowInv, At2
  <2>2. CASE Choose(f, TRUE) /\ stale' = (stale \/ ~want)
    BY <2>1, <2>2, ChooseConfig
  <2>3. CASE Choose(f, FALSE) /\ stale' = (stale \/ realTun)
    BY <2>1, <2>3, ChooseConfig
  <2>4. CASE Become(f, "restart") /\ UNCHANGED <<coreVars, realTun, stale, unsent>>
    <3>1. Alters(f, Fresh(<<"restart">> \o Tail(flow[f].todo)))
      BY <2>4, BecomeAlters
    <3>2. flow'[f].pc = "begin" /\ \A g \in Flows \ {f} : flow'[g] = flow[g]
      BY <3>1, FreshFields DEF Alters
    <3>3. Aside(f)
      BY <2>1, <3>2, AsideFacts
    <3> QED
      BY <2>1, <2>4, <3>2, <3>3, AsideConfig DEF coreVars
  <2> QED
    BY <1>2, <2>2, <2>3, <2>4 DEF AuthorizeCore
<1> QED
  BY <1>1, <1>2

LEMMA RepliedConfig ==
  ASSUME Settled, ConfigInv, NEW f \in Flows, PhaseReplied(f) \/ StopReplied(f)
  PROVE  ConfigInv'
<1>1. /\ PhaseDone(f) /\ ~UnderWay(f)
      /\ flow[f].pc = "rollback" \/ (flow[f].pc = "reply" /\ Phase(f) \notin {"setup", "quiet"})
      /\ UNCHANGED <<coreVars, startTime, want, updateDue, realTun, backup, stale, rolledBack,
                     unsent, unheard>>
  BY DEF PhaseReplied, StopReplied, Replied, In, Phase, history
<1>2. Alters(f, Fresh(Tail(flow[f].todo)))
  BY <1>1, PhaseDoneAlters DEF Settled
<1>3. flow'[f].pc = "begin" /\ \A g \in Flows \ {f} : flow'[g] = flow[g]
  BY <1>2, FreshFields DEF Alters
<1>4. Aside(f)
  BY <1>1, <1>3, AsideFacts
<1> QED
  BY <1>1, <1>3, <1>4, AsideConfig DEF coreVars

LEMMA RunConfig ==
  ASSUME Settled, ConfigInv, FlowInv', NEW f \in Flows, StartPhase(f) \/ StopPhase(f)
  PROVE  ConfigInv'
<1>1. /\ Busy(f) /\ Phase(f) \in {"start", "stop"} /\ Enter(f, "reply")
      /\ UNCHANGED <<want, updateDue, realTun, backup, rolledBack, stale, unsent, unheard>>
  BY DEF StartPhase, StopPhase, In, Phase, history
<1>2. Alters(f, [flow[f] EXCEPT !.pc = "reply"]) /\ flow'[f].todo = flow[f].todo
  BY <1>1, EnterAlters DEF Settled, FlowPcs
<1>3. \/ Sends(f, "start", DefaultConf, TRUE) /\ startTime' = TRUE
      \/ Sends(f, "stop", DefaultConf, TRUE) /\ startTime' = FALSE
  BY StartStopSends DEF StartPhase, StopPhase, Settled
<1> QED
  BY <1>1, <1>2, <1>3, RunSends

LEMMA RestartDoneConfig ==
  ASSUME Settled, ConfigInv, NEW f \in Flows, ~UnderWay(f), RestartDone(f),
         Phase(f) = "restart", flow[f].pc \in {"pause", "starting"},
         UNCHANGED <<coreVars, startTime, want, updateDue, realTun, backup, stale, rolledBack,
                     unsent, unheard>>
  PROVE  ConfigInv'
<1>1. \A g \in Flows : flow'[g] = flow[g] \/ Aside(g)
  <2> SUFFICES ASSUME NEW g \in Flows, flow'[g] # flow[g] PROVE Aside(g)
    OBVIOUS
  <2>1. ~UnderWay(g) /\ flow[g].pc \in {"pause", "starting", "join"} /\ flow'[g].pc = "begin"
    <3>1. CASE g = f
      <4>1. flow'[f] = Fresh(Tail(flow[f].todo))
        BY RestartDoneMoves DEF Settled
      <4>2. Fresh(Tail(flow[f].todo)).pc = "begin"
        BY FreshFields
      <4>3. flow'[f].pc = "begin"
        BY <4>1, <4>2
      <4> QED
        BY <3>1, <4>3
    <3>2. CASE g # f
      <4>1. At2(g, {"restart"}, {"join"}) /\ flow'[g] = Fresh(Tail(flow[g].todo))
        BY <3>2, RestartDoneMoves DEF Settled
      <4>2. flow[g].pc = "join" /\ ~UnderWay(g)
        BY <4>1, NotUnderWay DEF Settled, FlowInv, At2
      <4>3. Fresh(Tail(flow[g].todo)).pc = "begin"
        BY FreshFields
      <4> QED
        BY <4>1, <4>2, <4>3
    <3> QED
      BY <3>1, <3>2
  <2> QED
    BY <2>1, AsideFacts
<1> QED
  BY <1>1, AsideConfig DEF coreVars

LEMMA RestartConfig ==
  ASSUME Settled, ConfigInv, FlowInv', NEW f \in Flows,
         RestartCore(f) \/ RestartStopped(f) \/ RestartResume(f) \/ RestartStarted(f)
  PROVE  ConfigInv'
<1>0. /\ Busy(f) /\ Phase(f) = "restart"
      /\ UNCHANGED <<want, updateDue, realTun, backup, stale, rolledBack, unsent, unheard>>
  BY DEF RestartCore, RestartStopped, RestartResume, RestartStarted, In, Phase, history
<1>1. CASE RestartCore(f)
  <2>0. flow[f].pc = "begin" /\ ~UnderWay(f)
    BY <1>1, NotUnderWay DEF RestartCore, In, Settled, FlowInv
  <2>1. CASE Enter(f, "join") /\ UNCHANGED <<coreVars, startTime>>
    <3>1. Alters(f, [flow[f] EXCEPT !.pc = "join"]) /\ flow'[f].pc = "join"
      BY <2>1, EnterAlters DEF Settled, FlowPcs
    <3>2. Aside(f)
      BY <1>0, <2>0, <3>1, AsideFacts
    <3> QED
      BY <1>0, <2>1, <3>1, <3>2, AsideConfig DEF Alters, coreVars
  <2>2. ASSUME NEW record, Alters(f, record), flow'[f].todo = flow[f].todo,
               Sends(f, "stop", DefaultConf, TRUE), startTime' = FALSE
        PROVE  ConfigInv'
    BY <1>0, <2>2, RunSends
  <2>3. ASSUME NEW record, Alters(f, record), flow'[f].pc = "pause",
               UNCHANGED <<coreVars, startTime>>
        PROVE  ConfigInv'
    <3>1. Aside(f)
      BY <1>0, <2>0, <2>3, AsideFacts
    <3> QED
      BY <1>0, <2>3, <3>1, AsideConfig DEF Alters, coreVars
  <2> QED
    BY <1>1, <2>1, <2>2, <2>3, RestartCoreMoves
<1>2. CASE RestartStopped(f)
  <2>1. Alters(f, [flow[f] EXCEPT !.pc = "pause"]) /\ flow'[f].pc = "pause"
    BY <1>2, EnterAlters DEF RestartStopped, Settled, FlowPcs
  <2>2. Aside(f)
    BY <1>0, <1>2, <2>1, AsideFacts DEF RestartStopped, Replied, In
  <2> QED
    BY <1>0, <1>2, <2>1, <2>2, AsideConfig DEF RestartStopped, Alters, coreVars
<1>3. CASE RestartResume(f)
  <2>1. CASE flow[f].was
    <3>1. Sends(f, "start", DefaultConf, TRUE) /\ startTime' = TRUE /\ Enter(f, "starting")
      BY <1>3, <2>1, StartStopSends DEF RestartResume, Settled
    <3>2. Alters(f, [flow[f] EXCEPT !.pc = "starting"]) /\ flow'[f].todo = flow[f].todo
      BY <3>1, EnterAlters DEF Settled, FlowPcs
    <3> QED
      BY <1>0, <3>1, <3>2, RunSends
  <2>2. CASE ~flow[f].was
    BY <1>0, <1>3, <2>2, RestartDoneConfig, NotUnderWay
    DEF RestartResume, In, Settled, FlowInv
  <2> QED
    BY <2>1, <2>2
<1>4. CASE RestartStarted(f)
  BY <1>0, <1>4, RestartDoneConfig DEF RestartStarted, Replied, In
<1> QED
  BY <1>1, <1>2, <1>3, <1>4

\* A phase that fails keeps what it had to bring.
LEMMA FailsConfig ==
  ASSUME Settled, ConfigInv, NEW f \in Flows, PhaseFails(f)
  PROVE  ConfigInv'
<1>1. /\ PhaseDone(f) /\ Busy(f) /\ flow[f].pc \in {"begin", "send", "ask"}
      /\ flow[f].pc = "begin" => Phase(f) \in {"setup", "quiet"}
      /\ unsent' = (unsent \/ flow[f].pc = "send")
      /\ UNCHANGED <<coreVars, startTime, want, updateDue, realTun, backup, stale, rolledBack,
                     unheard>>
  BY DEF PhaseFails, In, Phase
<1>2. ~UnderWay(f)
  BY <1>1, NotUnderWay DEF Settled, FlowInv
<1>3. Alters(f, Fresh(Tail(flow[f].todo)))
  BY <1>1, PhaseDoneAlters DEF Settled
<1>4. flow'[f].pc = "begin" /\ \A g \in Flows \ {f} : flow'[g] = flow[g]
  BY <1>3, FreshFields DEF Alters
<1>5. Aside(f)
  BY <1>1, <1>2, <1>4 DEF Aside, UnderWay, Waiting, Brings, Repairs, Setting, At2, Busy, Sets
<1> QED
  BY <1>1, <1>4, <1>5, AsideConfig DEF coreVars

\* A flow no longer waits for its call, which stays in the core: a setup that
\* succeeded has been noted as the backup, one that did not as unheard.
LEMMA TimesOutConfig ==
  ASSUME Settled, ConfigInv, NEW f \in Flows, InvokeTimesOut(f)
  PROVE  ConfigInv'
<1> USE DEF Settled, ConfigInv, settings
<1>0. PICK g \in Flows : Goes(f, g)
  BY TimesOutGoes
<1>1. /\ UNCHANGED <<coreVars, startTime, want, updateDue, realTun, stale, rolledBack, unsent>>
      /\ alive /\ (crossed => crossed')
  BY CountedFits DEF InvokeTimesOut
<1>2. /\ Busy(f) /\ UnderWay(f) /\ ~Busy(g) /\ ~UnderWay(g) /\ f # g /\ flow'[f].todo = <<>>
      /\ flow'[g] = flow[f] \/ flow'[g].pc = "begin"
      /\ \A h \in Flows \ {f, g} : flow'[h] = flow[h]
  <2>1. Fresh(Tail(flow[f].todo)).pc = "begin"
    BY FreshFields
  <2>2. NoFlow.todo = <<>>
    BY DEF NoFlow
  <2> QED
    BY <1>0, <2>1, <2>2 DEF Goes
<1>3. \A h \in Flows :
        /\ Waiting(h)' <=> Waiting(h)
        /\ UnderWay(h)' <=> UnderWay(h)
        /\ Sets(h)' <=> Sets(h)
        /\ call'[h] = call[h]
  BY <1>1 DEF coreVars, Waiting, UnderWay, Sets
<1>4. /\ flow[f].pc \in {"reply", "rollback", "starting"}
      /\ UnderWay(f) /\ Setting(f, {"reply", "rollback"}) => call[f].kind = "setup"
      /\ UnderWay(f) /\ ~Setting(f, {"reply", "rollback"}) => call[f].kind # "setup"
  BY <1>2 DEF FlowInv, CallsFit, At2, Setting
<1>5. Setting(f, {"reply", "rollback"}) => Configuring(f)
  BY <1>1 DEF Setting, At2, Configuring, In, Phase
<1>6. \A h \in {f, g} :
        /\ ~Setting(h, {"reply"})' /\ ~Setting(h, {"rollback"})'
        /\ ~At2(h, {"update"}, {"begin"})
        /\ Brings(h) => Brings(h)'
  <2>1. ~Setting(f, {"reply"})' /\ ~Setting(f, {"rollback"})'
    BY <1>2 DEF Setting, At2, Busy
  <2>2. ~Setting(g, {"reply"})' /\ ~Setting(g, {"rollback"})'
    <3>1. CASE Configuring(f)
      <4>1. flow'[g].pc = "begin"
        BY <1>0, <3>1, FreshFields DEF Goes
      <4> QED
        BY <4>1 DEF Setting, At2
    <3>2. CASE ~Configuring(f)
      <4>1. flow'[g] = flow[f]
        BY <1>0, <3>2 DEF Goes
      <4> QED
        BY <1>5, <3>2, <4>1 DEF Setting, At2, Busy, Phase
    <3> QED
      BY <3>1, <3>2
  <2>3. ~At2(f, {"update"}, {"begin"}) /\ ~At2(g, {"update"}, {"begin"})
    BY <1>2, <1>4 DEF At2
  <2>4. (Brings(f) => Brings(f)') /\ (Brings(g) => Brings(g)')
    BY <1>1, <1>2, <1>3, <1>4 DEF Brings, Setting, At2
  <2> QED
    BY <2>1, <2>2, <2>3, <2>4
<1>7. \A h \in Flows \ {f, g} :
        /\ Setting(h, {"reply"})' <=> Setting(h, {"reply"})
        /\ Setting(h, {"rollback"})' <=> Setting(h, {"rollback"})
        /\ At2(h, {"update"}, {"begin"})' <=> At2(h, {"update"}, {"begin"})
        /\ Repairs(h) => Repairs(h)'
        /\ Brings(h) => Brings(h)'
  BY <1>1, <1>2, <1>3 DEF Setting, At2, Busy, Phase, Repairs, Brings
<1>8. \/ /\ Setting(f, {"reply"}) /\ backup' = ConfOf(flow[f].real)
         /\ unheard' = ~flow[f].ok
      \/ ~Setting(f, {"reply"}) /\ UNCHANGED <<backup, unheard>>
  BY DEF InvokeTimesOut, In, Setting, At2, Phase
<1>9. AgreeFits'
  BY <1>1, <1>3 DEF AgreeFits, coreVars
<1>10. ChoicesFit'
  <2>1. backup' \in UserConfs \union {Null}
    BY <1>8 DEF ChoicesFit, UserConfs, SessionTyped, FlowsTyped, FlowRecord
  <2>2. ASSUME NEW h \in Flows PROVE ChoiceFits(h)'
    <3>1. ChoiceFits(h)
      BY DEF ChoicesFit
    <3>2. CASE h \in {f, g}
      BY <1>3, <1>6, <3>1, <3>2 DEF ChoiceFits
    <3>3. CASE h \notin {f, g}
      BY <1>1, <1>2, <1>3, <1>7, <3>1, <3>3 DEF ChoiceFits
    <3> QED
      BY <3>2, <3>3
  <2> QED
    BY <1>1, <2>1, <2>2 DEF ChoicesFit, coreVars
<1>11. RepairFits'
  <2> SUFFICES ASSUME ~crossed PROVE RepairFits'
    BY <1>1 DEF RepairFits
  <2>0. UNCHANGED config
    BY <1>1 DEF coreVars
  <2>1. ASSUME NEW h \in Flows, Setting(h, {"reply"})', flow'[h].ok, ~Waiting(h)'
        PROVE  config \notin {DefaultConf, Null}
    BY <1>2, <1>3, <1>6, <1>7, <2>1 DEF RepairFits
  <2>2. CASE Setting(f, {"reply"})
    <3>1. \A h \in Flows \ {f} : ~Sets(h)
      BY <1>1, <2>2, ConfiguresAlone DEF Sets, Setting, At2, UnderWay, Waiting
    <3>2. Sets(f) => (call[f].ok <=> flow[f].ok)
      BY <2>2 DEF ChoicesFit, ChoiceFits, Sets
    <3>3. \A h \in Flows : Sets(h)' /\ ~call'[h].ok => unheard'
      BY <1>3, <1>8, <2>2, <3>1, <3>2
    <3>4. config = DefaultConf => unheard' \/ Repairs(f)'
      <4>1. CASE Waiting(f)
        BY <1>2, <1>3, <1>4, <1>8, <2>2, <3>2, <4>1 DEF Sets, Repairs, Setting, At2
      <4>2. CASE ~Waiting(f)
        BY <1>8, <2>2, <4>2 DEF RepairFits
      <4> QED
        BY <4>1, <4>2
    <3> QED
      BY <2>0, <2>1, <3>3, <3>4 DEF RepairFits
  <2>3. CASE ~Setting(f, {"reply"})
    <3>1. UNCHANGED <<backup, unheard>>
      BY <1>8, <2>3
    <3>2. ASSUME NEW h \in Flows, Sets(h)', ~call'[h].ok
          PROVE  unheard' \/ (Setting(h, {"reply"})' /\ ~flow'[h].ok)
      <4>1. unheard \/ (Setting(h, {"reply"}) /\ ~flow[h].ok)
        BY <1>3, <3>2 DEF RepairFits
      <4>2. CASE h = f
        BY <2>3, <3>1, <4>1, <4>2
      <4>3. CASE h = g
        BY <1>2, <3>1, <4>1, <4>3 DEF Setting, At2
      <4>4. CASE h \notin {f, g}
        BY <1>2, <1>7, <3>1, <4>1, <4>4
      <4> QED
        BY <4>2, <4>3, <4>4
    <3>3. \A h \in {f, g} : Repairs(h) => Repairs(h)'
      BY <1>2, <1>3, <2>3 DEF Repairs, Setting, At2
    <3> QED
      BY <1>7, <2>0, <2>1, <3>1, <3>2, <3>3 DEF RepairFits
  <2> QED
    BY <2>2, <2>3
<1>12. FollowFits'
  <2>1. \A h \in Flows : Brings(h) => Brings(h)'
    BY <1>6, <1>7
  <2>2. \A h \in Flows : At2(h, {"update"}, {"begin"}) => At2(h, {"update"}, {"begin"})'
    BY <1>6, <1>7
  <2> QED
    BY <1>1, <1>3, <2>1, <2>2 DEF FollowFits, coreVars
<1> QED
  BY <1>9, <1>10, <1>11, <1>12

\* The step of the core leaves the configuration.
LEMMA CoreRunConfig ==
  ASSUME Settled, ConfigInv, NEW c \in Flows, Seen(c), UNCHANGED <<session, history>>,
         Dies \/ Proceeds(c) \/ (Serves(c) /\ call[c].kind \in {"start", "stop"})
  PROVE  ConfigInv'
<1> USE DEF Settled, ConfigInv
<1>1. /\ crossed => crossed'
      /\ UNCHANGED <<config, flow, startTime, want, updateDue, realTun, backup, stale, rolledBack,
                     unsent, unheard>>
  BY CountedFits DEF Dies, Proceeds, Serves, settings, session, history
<1>2. \A g \in Flows :
        /\ Waiting(g)' => Waiting(g) /\ call'[g] = call[g]
        /\ UnderWay(g)' => UnderWay(g) /\ call'[g].kind = call[g].kind
  BY DEF Seen, Dies, Proceeds, Serves, Waiting, UnderWay
<1>3. \A g \in Flows :
        /\ Sets(g)' <=> Sets(g)
        /\ Sets(g) => Waiting(g)' /\ call'[g] = call[g]
        /\ Waiting(g) /\ Setting(g, {"reply"}) => Waiting(g)'
  <2>1. \A g \in Flows : Sets(g) => Waiting(g)' /\ call'[g] = call[g]
    BY DEF Seen, Dies, Proceeds, Serves, Waiting, Sets
  <2>2. \A g \in Flows : Sets(g)' => Sets(g)
    BY <1>2 DEF Sets
  <2>3. \A g \in Flows : Waiting(g) /\ Setting(g, {"reply"}) => Sets(g)
    BY DEF Sets, Setting, At2, FlowInv, CallsFit, UnderWay, Waiting
  <2> QED
    BY <2>1, <2>2, <2>3 DEF Sets
<1>5. \A g \in Flows :
        /\ Setting(g, {"reply"})' <=> Setting(g, {"reply"})
        /\ Setting(g, {"rollback"})' <=> Setting(g, {"rollback"})
        /\ At2(g, {"update"}, {"begin"})' <=> At2(g, {"update"}, {"begin"})
        /\ Repairs(g) => Repairs(g)'
        /\ Brings(g) => Brings(g)'
  BY <1>1, <1>3 DEF Setting, At2, Busy, Phase, Repairs, Brings, Sets
<1>6. AgreeFits'
  <2>1. CASE Dies \/ Proceeds(c)
    <3>1. UNCHANGED isRunning /\ \A g \in Flows : Waiting(g) => Waiting(g)' /\ call'[g] = call[g]
      BY <2>1 DEF Seen, Dies, Proceeds, settings, Waiting
    <3> QED
      BY <1>1, <1>2, <3>1 DEF AgreeFits
  <2>2. CASE Serves(c) /\ call[c].kind \in {"start", "stop"}
    <3>1. ~crossed => startTime = isRunning'
      BY <2>2 DEF AgreeFits, Serves, Waiting, UnderWay, SessionTyped, FlagsAreBoolean
    <3> QED
      BY <1>1, <1>2, <3>1 DEF AgreeFits
  <2> QED
    BY <2>1, <2>2
<1>7. ChoicesFit'
  <2> SUFFICES ASSUME NEW g \in Flows, ChoiceFits(g) PROVE ChoiceFits(g)'
    BY <1>1 DEF ChoicesFit
  <2> QED
    BY <1>1, <1>2, <1>3, <1>5 DEF ChoiceFits
<1>8. RepairFits'
  BY <1>1, <1>3, <1>5 DEF RepairFits
<1>9. FollowFits'
  BY <1>1, <1>3, <1>5 DEF FollowFits
<1> QED
  BY <1>6, <1>7, <1>8, <1>9

\* No configuration of a session has listeners of the profile, so that an update
\* brings all of it.
LEMMA UpdateBrings ==
  ASSUME NEW conf \in UserConfs, config \in UserConfs \union {DefaultConf}
  PROVE  Updated(conf) = conf
<1>1. \A other \in UserConfs \union {DefaultConf} : other.inbound = "none" /\ other.tunnels = {}
  <2>1. \A real \in BOOLEAN : ConfOf(real).inbound = "none" /\ ConfOf(real).tunnels = {}
    BY ConfOfType
  <2>2. DefaultConf.inbound = "none" /\ DefaultConf.tunnels = {}
    BY DEF DefaultConf
  <2> QED
    BY <2>1, <2>2 DEF UserConfs
<1>2. PICK real \in BOOLEAN : conf = ConfOf(real)
  BY DEF UserConfs
<1>3. config.inbound = "none" /\ config.tunnels = {}
  BY <1>1
<1> DEFINE asked == IF real THEN Tun ELSE "off"
<1>4. conf = [mixed |-> Port, tun |-> asked, inbound |-> "none", tunnels |-> {}]
  BY <1>2, ConfOfType
<1> HIDE DEF asked
<1>5. Updated(conf) = [conf EXCEPT !.inbound = "none", !.tunnels = {}]
  BY <1>3 DEF Updated
<1>6. [conf EXCEPT !.inbound = "none"] = conf
  BY <1>4
<1>7. [conf EXCEPT !.tunnels = {}] = conf
  BY <1>4
<1> QED
  BY <1>5, <1>6, <1>7

\* The core takes a configuration: the one session and flows believe in, or the
\* default one in the place of one that is broken.
LEMMA CoreSetsConfig ==
  ASSUME Settled, ConfigInv, NEW c \in Flows, Seen(c), UNCHANGED <<session, history>>,
         Serves(c), call[c].kind \in {"setup", "update"}
  PROVE  ConfigInv'
<1> USE DEF Settled, ConfigInv
<1>1. /\ crossed => crossed'
      /\ UNCHANGED <<isRunning, flow, startTime, want, updateDue, realTun, backup, stale, rolledBack,
                     unsent, unheard>>
  BY CountedFits DEF Serves, session, history
<1>2. /\ alive /\ Waiting(c) /\ UnderWay(c) /\ ~Waiting(c)' /\ call'[c].kind = call[c].kind
      /\ \A g \in Flows \ {c} : call'[g] = call[g]
      /\ Sets(c) /\ ~Sets(c)'
  BY DEF Seen, Serves, Waiting, UnderWay, Sets
<1>3. /\ call[c].ok => call[c].conf \in UserConfs
      /\ ~call[c].ok => call[c].kind = "setup"
      /\ Setting(c, {"reply"}) => (call[c].ok <=> flow[c].ok)
  BY <1>2 DEF ChoicesFit, ChoiceFits
<1>4. call[c].ok => config' = call[c].conf
  <2>1. CASE call[c].kind = "setup"
    BY <2>1 DEF Serves
  <2>2. CASE call[c].kind = "update" /\ call[c].ok
    <3>1. config \in UserConfs \union {DefaultConf} /\ config' = Updated(call[c].conf)
      BY <2>2 DEF Serves, ChoicesFit
    <3> QED
      BY <1>3, <2>2, <3>1, UpdateBrings
  <2> QED
    BY <2>1, <2>2
<1>5. ~call[c].ok => config' = DefaultConf
  BY <1>3 DEF Serves
<1>6. call[c].ok => config' \in UserConfs /\ config' # DefaultConf /\ config' # Null
  BY <1>3, <1>4, UserConfsFacts
<1>7. \A g \in Flows \ {c} :
        /\ Waiting(g)' <=> Waiting(g)
        /\ UnderWay(g)' <=> UnderWay(g)
        /\ Setting(g, {"reply"})' <=> Setting(g, {"reply"})
        /\ Setting(g, {"rollback"})' <=> Setting(g, {"rollback"})
        /\ Repairs(g)' <=> Repairs(g)
        /\ Brings(g)' <=> Brings(g)
        /\ Sets(g)' <=> Sets(g)
  BY <1>1, <1>2, OthersStay
<1>8. /\ Setting(c, {"reply"})' <=> Setting(c, {"reply"})
      /\ Setting(c, {"rollback"})' <=> Setting(c, {"rollback"})
      /\ \A g \in Flows : At2(g, {"update"}, {"begin"})' <=> At2(g, {"update"}, {"begin"})
  BY <1>1 DEF Setting, At2, Busy, Phase
<1>9. ~crossed => \A g \in Flows \ {c} : ~Setting(g, {"reply"}) /\ ~Sets(g)
  BY <1>2, ConfiguresAlone DEF Setting, At2, Waiting, UnderWay, Sets
<1>10. AgreeFits'
  <2>1. \A g \in Flows : UnderWay(g)' => UnderWay(g) /\ call'[g].kind = call[g].kind
    BY <1>2, <1>7
  <2>2. \A g \in Flows : Waiting(g) /\ call[g].kind \in {"start", "stop"} =>
          Waiting(g)' /\ call'[g].kind = call[g].kind
    BY <1>2, <1>7
  <2> QED
    BY <1>1, <2>1, <2>2 DEF AgreeFits
<1>11. ChoicesFit'
  <2>1. config' \in UserConfs \union {DefaultConf, Null}
    BY <1>5, <1>6
  <2>2. ChoiceFits(c)'
    BY <1>1, <1>2, <1>8 DEF ChoiceFits, ChoicesFit
  <2> QED
    BY <1>1, <1>2, <2>1, <2>2, ChoicesStay DEF ChoicesFit
<1>12. RepairFits'
  <2> SUFFICES ASSUME ~crossed PROVE RepairFits'
    BY <1>1 DEF RepairFits
  <2>1. \A f \in Flows : Setting(f, {"reply"})' => f = c
    BY <1>7, <1>9
  <2>2. Setting(c, {"reply"})' /\ flow'[c].ok => config' \notin {DefaultConf, Null}
    BY <1>1, <1>3, <1>6, <1>8
  <2>3. \A f \in Flows : ~Sets(f)'
    BY <1>2, <1>7, <1>9
  <2>4. config' = DefaultConf => unheard' \/ Repairs(c)'
    <3>1. ~call[c].ok => unheard \/ (Setting(c, {"reply"}) /\ ~flow[c].ok)
      BY <1>2 DEF RepairFits
    <3> QED
      BY <1>1, <1>6, <1>8, <3>1 DEF Repairs
  <2> QED
    BY <2>1, <2>2, <2>3, <2>4 DEF RepairFits
<1>13. FollowFits'
  <2> SUFFICES ASSUME ~crossed, ~stale, ~rolledBack PROVE FollowFits'
    BY <1>1 DEF FollowFits
  <2>1. unsent \/ config' = DefaultConf \/ config' = ConfOf(realTun) \/ \E g \in Flows : Brings(g)'
    <3>1. CASE ~call[c].ok
      BY <1>5, <3>1
    <3>2. CASE call[c].ok
      <4>1. unsent \/ \E g \in Flows : Brings(g)
        BY <1>2 DEF FollowFits
      <4>2. Brings(c) => Brings(c)' \/ call[c].conf = ConfOf(realTun)
        BY <1>1, <3>2 DEF Brings, Setting, At2, Busy, Phase
      <4> QED
        BY <1>4, <1>7, <3>2, <4>1, <4>2
    <3> QED
      BY <3>1, <3>2
  <2>2. \A f \in Flows : ~Sets(f)'
    BY <1>2, <1>7, <1>9
  <2>3. realTun /\ ~want => updateDue \/ \E f \in Flows : At2(f, {"update"}, {"begin"})'
    BY <1>8 DEF FollowFits
  <2> QED
    BY <1>1, <2>1, <2>2, <2>3 DEF FollowFits
<1> QED
  BY <1>10, <1>11, <1>12, <1>13

LEMMA CoreConfig ==
  ASSUME Settled, ConfigInv, NEW c \in Flows, CallStep(c), UNCHANGED <<session, history>>
  PROVE  ConfigInv'
<1>1. Seen(c)
  BY CoreSeen DEF Settled
<1>2. Serves(c) => call[c].kind \in {"start", "stop", "setup", "update"}
  BY DEF Settled, Table, NoShutdown, CallRecord, Kinds, Flows
<1> QED
  BY <1>1, <1>2, CoreRunConfig, CoreSetsConfig DEF Seen

-----------------------------------------------------------------------------
(* FlowInv and ConfigInv hold of every session. *)

LEMMA SessionInitFlows == SessionInit => FlowInv /\ ConfigInv
<1> SUFFICES ASSUME SessionInit PROVE FlowInv /\ ConfigInv
  OBVIOUS
<1>1. /\ \A f \in Flows : flow[f].todo = <<>> /\ call[f].pc = "idle"
      /\ startTime = isRunning /\ backup = Null /\ config = Null /\ realTun = FALSE
      /\ crossed = FALSE /\ overlapped = FALSE
  BY DEF SessionInit, CoreInit, NoFlow, NoCall, Flows
<1>2. \A f \in Flows : ~Busy(f) /\ ~UnderWay(f) /\ ~Waiting(f)
  BY <1>1 DEF Busy, UnderWay, Waiting
<1>3. FlowInv
  BY <1>1, <1>2 DEF FlowInv, TodosFit, Todos, CallsFit, Uncrossed, Crossing, Rivals, Configures,
     Configuring, In, Apart, Overlap, Active
<1>4. ConfigInv
  BY <1>1, <1>2 DEF ConfigInv, AgreeFits, ChoicesFit, ChoiceFits, RepairFits, FollowFits, Setting,
     At2, Sets
<1> QED
  BY <1>3, <1>4

\* What a step of the session can be.
StepOf(f) ==
  \/ Start(f) \/ Request(f) \/ UpdateClashConfig(f) \/ FlowStep(f)
  \/ CallStep(f) /\ UNCHANGED <<session, history>>

LEMMA SessionSteps ==
  ASSUME SessionNext
  PROVE  Counted /\ ((\E f \in Flows : StepOf(f)) \/ ToggleTun \/ UpdateRunTime)
BY DEF SessionNext, Counted, StepOf

LEMMA FlowNext ==
  ASSUME CoreInv, SessionInv, FlowInv, [SessionNext]_sessionVars
  PROVE  FlowInv'
<1>1. CASE SessionNext
  <2>1. Settled
    BY <1>1, InParts, SessionSteps DEF SessionInv, Settled
  <2>2. ASSUME NEW f \in Flows, StepOf(f) PROVE FlowInv'
    <3>1. CASE Start(f) \/ Request(f) \/ UpdateClashConfig(f)
      BY <2>1, <3>1, UserFlowFits
    <3>2. CASE FlowStep(f)
      BY <2>1, <3>2, TunFlowFits, SetupFlowFits, TimesOutFits, RunFlowFits, RestartFlowFits
      DEF FlowStep
    <3>3. CASE CallStep(f) /\ UNCHANGED <<session, history>>
      BY <2>1, <3>3, CoreSeen, CoreFlowFits DEF Settled
    <3> QED
      BY <2>2, <3>1, <3>2, <3>3 DEF StepOf
  <2>3. CASE ToggleTun \/ UpdateRunTime
    <3>1. UNCHANGED <<flow, call>>
      BY <2>3 DEF ToggleTun, UpdateRunTime, coreVars
    <3>2. TodosFit' /\ CallsFit'
      BY <3>1 DEF FlowInv, TodosFit, CallsFit, At2, Busy, Phase, UnderWay
    <3> QED
      BY <2>1, <3>2, FlowFitsByParts DEF Settled
  <2> QED
    BY <1>1, <2>2, <2>3, SessionSteps
<1>2. CASE UNCHANGED sessionVars
  <2> SUFFICES ASSUME UNCHANGED sessionVars PROVE FlowInv'
    BY <1>2
  <2>0. UNCHANGED <<flow, call, alive, updateDue, crossed, overlapped>>
    BY DEF sessionVars, session, crossings, vars, coreVars
  <2>1. TodosFit' /\ CallsFit'
    BY <2>0 DEF FlowInv, TodosFit, CallsFit, At2, Busy, Phase, UnderWay
  <2>2. Uncrossed'
    <3>1. \A f \in Flows : Configures(f)' => Configures(f)
      BY <2>0 DEF Configures, Configuring, In, Busy, UnderWay, Is
    <3>2. \A f \in Flows : UnderWay(f)' => UnderWay(f)
      BY <2>0 DEF UnderWay
    <3>3. \A f \in Flows : \A kinds : Is(f, kinds)' => Is(f, kinds)
      BY <2>0 DEF Is
    <3>4. Crossing' => Crossing
      BY <3>1, <3>2, <3>3 DEF Crossing, Rivals
    <3> QED
      BY <2>0, <3>4 DEF FlowInv, Uncrossed
  <2>3. Apart'
    BY <2>0 DEF FlowInv, Apart, Overlap, Active, Busy, UnderWay
  <2> QED
    BY <2>1, <2>2, <2>3 DEF FlowInv
<1> QED
  BY <1>1, <1>2

LEMMA ConfigNext ==
  ASSUME CoreInv, SessionInv, FlowInv, FlowInv', ConfigInv, [SessionNext]_sessionVars
  PROVE  ConfigInv'
<1>1. CASE SessionNext
  <2>1. Settled
    BY <1>1, InParts, SessionSteps DEF SessionInv, Settled
  <2>2. ASSUME NEW f \in Flows, StepOf(f) PROVE ConfigInv'
    <3>1. CASE Start(f) \/ Request(f) \/ UpdateClashConfig(f)
      BY <2>1, <3>1, UserConfig, UpdateClashConfigConfig
    <3>2. CASE FlowStep(f)
      <4>1. CASE RequestAdmin(f) \/ AuthorizeCore(f) \/ SendSetup(f) \/ SetupReplied(f)
        BY <2>1, <4>1, TunConfig, SendSetupConfig, SetupRepliedConfig
      <4>2. CASE PhaseReplied(f) \/ StopReplied(f) \/ StartPhase(f) \/ StopPhase(f)
        BY <2>1, <4>2, RepliedConfig, RunConfig
      <4>4. CASE PhaseFails(f) \/ InvokeTimesOut(f)
        BY <2>1, <4>4, FailsConfig, TimesOutConfig
      <4>3. CASE RestartCore(f) \/ RestartStopped(f) \/ RestartResume(f) \/ RestartStarted(f)
        BY <2>1, <4>3, RestartConfig
      <4> QED
        BY <3>2, <4>1, <4>2, <4>3, <4>4 DEF FlowStep
    <3>3. CASE CallStep(f) /\ UNCHANGED <<session, history>>
      BY <2>1, <3>3, CoreConfig
    <3> QED
      BY <2>2, <3>1, <3>2, <3>3 DEF StepOf
  <2>3. CASE ToggleTun
    BY <2>1, <2>3, ToggleConfig
  <2>4. CASE UpdateRunTime
    BY <2>1, <2>4, AsideConfig DEF UpdateRunTime, coreVars, history
  <2> QED
    BY <1>1, <2>2, <2>3, <2>4, SessionSteps
<1>2. CASE UNCHANGED sessionVars
  <2>1. UNCHANGED <<session, history, crossings, coreVars>>
    BY <1>2 DEF sessionVars, vars
  <2>2. \A g \in Flows :
          /\ Waiting(g)' <=> Waiting(g)
          /\ UnderWay(g)' <=> UnderWay(g)
          /\ \A pcs : Setting(g, pcs)' <=> Setting(g, pcs)
          /\ At2(g, {"update"}, {"begin"})' <=> At2(g, {"update"}, {"begin"})
          /\ Repairs(g)' <=> Repairs(g)
          /\ Brings(g)' <=> Brings(g)
          /\ Sets(g)' <=> Sets(g)
    BY <2>1 DEF session, coreVars, Waiting, UnderWay, Setting, At2, Busy, Phase, Repairs, Brings,
       Sets
  <2>3. AgreeFits' /\ ChoicesFit'
    BY <2>1, <2>2 DEF ConfigInv, AgreeFits, ChoicesFit, ChoiceFits, session, history, crossings,
       coreVars, settings
  <2>4. RepairFits' /\ FollowFits'
    BY <2>1, <2>2 DEF ConfigInv, RepairFits, FollowFits, session, history, crossings, coreVars,
       settings
  <2> QED
    BY <2>3, <2>4 DEF ConfigInv
<1> QED
  BY <1>1, <1>2

LEMMA ConfigInvariant == SessionSpec => [](CoreInv /\ SessionInv /\ FlowInv /\ ConfigInv)
<1>1. (CoreInv /\ SessionInv /\ FlowInv /\ ConfigInv) /\ [SessionNext]_sessionVars
        => (CoreInv /\ SessionInv /\ FlowInv /\ ConfigInv)'
  BY SessionStep, NextInv, FlowNext, ConfigNext
<1> QED
  BY <1>1, SessionInitInv, SessionInitFlows, PTL DEF SessionSpec

\* Nobody waits for the core once no flow and no call is under way.
LEMMA QuietFacts ==
  ASSUME Quiet
  PROVE  \A f \in Flows : ~Busy(f) /\ ~UnderWay(f) /\ ~Waiting(f)
BY DEF Quiet, Active, UnderWay, Waiting

\* Once no flow and no call is under way the session is started exactly if the
\* core runs (controller.dart, state.dart): whatever the flows did, whatever
\* failed or was answered late and in whatever order the core served them, unless
\* a start and a stop, or two configurations, were in the core at the same time.
THEOREM StartedMeansRunning == SessionSpec => []SessionAgrees
<1>1. FlowInv /\ ConfigInv => SessionAgrees
  BY QuietFacts DEF SessionAgrees, ConfigInv, AgreeFits
<1> QED
  BY <1>1, ConfigInvariant, PTL

\* The configuration of the core has the TUN the session believes in, and the
\* user wants it, once every flow has ended and no update is due, unless what
\* should have brought it failed before it called the core (controller.dart).
THEOREM TunFollowsSession == SessionSpec => []ConfigFollowsSession
<1>1. FlowInv /\ ConfigInv => ConfigFollowsSession
  <2> SUFFICES ASSUME FlowInv, ConfigInv, Quiet, ~updateDue, ~crossed, ~stale, ~rolledBack,
                      config \notin {Null, DefaultConf}
               PROVE  (unsent \/ config.tun = ConfOf(realTun).tun) /\ (realTun => want)
    BY DEF ConfigFollowsSession
  <2>1. \A f \in Flows : ~Brings(f) /\ ~At2(f, {"update"}, {"begin"})
    BY QuietFacts DEF Brings, Setting, At2, Sets
  <2> QED
    BY <2>1 DEF ConfigInv, FollowFits
<1> QED
  BY <1>1, ConfigInvariant, PTL

\* Once a setup has succeeded no setup that fails leaves the core with the
\* default configuration: the backup is set up in its place, unless it was one
\* that failed too late to be heard (clash/interface.dart).
THEOREM FailedSetupIsUndone == SessionSpec => []RollbackRestores
<1>1. FlowInv /\ ConfigInv => RollbackRestores
  <2> SUFFICES ASSUME FlowInv, ConfigInv, Quiet, ~crossed, ~unheard, backup # Null
               PROVE  config # DefaultConf
    BY DEF RollbackRestores
  <2>1. \A f \in Flows : ~Repairs(f)
    BY QuietFacts DEF Repairs, Setting, At2
  <2> QED
    BY <2>1 DEF ConfigInv, RepairFits
<1> QED
  BY <1>1, ConfigInvariant, PTL

-----------------------------------------------------------------------------
(* SerialInv: flows that come one after the other. *)

LEMMA TodoDistinct ==
  /\ <<"start">> # <<"start", "tun">> /\ <<"setup">> # <<"setup", "start">>
  /\ <<"restart">> # <<"restart", "start">>
  /\ <<"quiet", "start", "tun">> # <<>> /\ <<"start", "tun">> # <<>> /\ <<"setup", "start">> # <<>>
  /\ <<"restart", "start">> # <<>> /\ \A phase : <<phase>> # <<>>
OBVIOUS

\* What is known of a flow or call that is under way.
LEMMA SerialBefore ==
  ASSUME Settled, SerialInv, ~overlapped', NEW f \in Flows, Active(f)
  PROVE  /\ ~overlapped /\ ~updateDue /\ ~crossed /\ ~stale /\ SerialOf(f)
         /\ Orphan(f) => call[f].kind \in {"setup", "update"}
         /\ ~rolledBack => Forgets(f)
         /\ \A g \in Flows \ {f} : ~Busy(g) /\ ~UnderWay(g) /\ ~Waiting(g)
<1>1. ~overlapped
  BY CountedFits DEF Settled
<1>2. ~updateDue /\ \A g \in Flows \ {f} : ~Active(g)
  BY <1>1 DEF Settled, FlowInv, Apart, Overlap
<1>3. \A g \in Flows \ {f} : ~Busy(g) /\ ~UnderWay(g) /\ ~Waiting(g)
  BY <1>2 DEF Active, UnderWay, Waiting
<1> QED
  BY <1>1, <1>2, <1>3 DEF SerialInv, SerialFits, RestoreFits

\* And of one that is under way now.
LEMMA SerialAfter ==
  ASSUME FlowInv', ~overlapped', NEW f \in Flows, Active(f)'
  PROVE  ~updateDue' /\ \A g \in Flows \ {f} : ~Busy(g)' /\ ~UnderWay(g)'
BY DEF FlowInv, Apart, Overlap, Active

\* A step of the session in which f does something, and not the core.
ActsAlone(f) ==
  /\ Active(f) \/ Active(f)'
  /\ \A g \in Flows \ {f} : flow'[g] = flow[g] \/ (Active(f) /\ Busy(g))
  /\ \A g \in Flows \ {f} : call'[g] = call[g]
  /\ UNCHANGED <<settings, tunVars>>
  /\ rolledBack => rolledBack'

\* The start that is to make the TUN again goes on.
StillRemakes(f) ==
  isRunning /\ Closed /\ ~restarted' /\ ~unprepared' =>
    Remakes(f)' \/ (~restarted /\ ~unprepared /\ ~Remakes(f))

\* f brings no TUN, and what it was to take away it still will.
StillUnwanted(f) ==
  /\ want' = want
  /\ Sets(f)' => call'[f].conf.tun = "off"
  /\ Setting(f, {"send"})' => ~flow'[f].real
  /\ Sets(f) \/ At2(f, {"update"}, {"begin"}) \/ updateDue =>
       Sets(f)' \/ At2(f, {"update"}, {"begin"})' \/ updateDue'

LEMMA OthersIdle ==
  ASSUME Settled, FlowInv', SerialInv, ~overlapped', NEW f \in Flows, ActsAlone(f)
  PROVE  /\ ~overlapped /\ ~crossed'
         /\ \A g \in Flows \ {f} : ~Busy(g) /\ ~UnderWay(g) /\ ~Busy(g)' /\ ~UnderWay(g)'
<1>0. ~overlapped /\ ~crossed
  BY CountedFits DEF Settled, SerialInv, SerialFits
<1>1. \A g \in Flows \ {f} : ~Busy(g) /\ ~UnderWay(g) /\ ~Busy(g)' /\ ~UnderWay(g)'
  <2>1. CASE Active(f)
    <3>1. \A g \in Flows \ {f} : ~Busy(g) /\ ~UnderWay(g)
      BY <2>1, SerialBefore
    <3> QED
      BY <3>1 DEF ActsAlone, Busy, UnderWay
  <2>2. CASE ~Active(f) /\ Active(f)'
    <3>1. \A g \in Flows \ {f} : ~Busy(g)' /\ ~UnderWay(g)'
      BY <2>2, SerialAfter
    <3> QED
      BY <2>2, <3>1 DEF ActsAlone, Busy, UnderWay
  <2> QED
    BY <2>1, <2>2 DEF ActsAlone
<1>2. ~crossed'
  <2>1. \A g \in Flows \ {f} : ~Configures(g)' /\ ~UnderWay(g)'
    BY <1>1 DEF Configures, Configuring, In, Busy
  <2>2. ~Crossing'
    BY <2>1 DEF Crossing, Rivals
  <2> QED
    BY <1>0, <2>2 DEF Settled, Counted
<1> QED
  BY <1>0, <1>1, <1>2

LEMMA SerialByActor ==
  ASSUME Settled, FlowInv', SerialInv, NEW f \in Flows, ActsAlone(f),
         ~overlapped' => ~stale' /\ SerialOf(f)' /\ ~Orphan(f)',
         ~overlapped' /\ ~rolledBack' => Forgets(f)' /\ StillRemakes(f),
         ~overlapped' /\ ~rolledBack' /\ ~want' => StillUnwanted(f)
  PROVE  SerialInv'
<1>0. (Closed' <=> Closed) /\ UNCHANGED <<isRunning, config>>
  BY DEF ActsAlone, Closed, settings, tunVars
<1>1. TunsFit'
  BY <1>0 DEF ActsAlone, SerialInv, TunsFit, tunVars
<1>2. SerialFits'
  <2> SUFFICES ASSUME ~overlapped'
               PROVE  ~crossed' /\ ~stale' /\ \A g \in Flows : SerialOf(g)' /\ ~Orphan(g)'
    BY DEF SerialFits
  <2> QED
    BY OthersIdle DEF SerialOf, Orphan
<1>3. RestoreFits'
  <2> SUFFICES ASSUME ~overlapped', ~rolledBack'
               PROVE  /\ \A g \in Flows : Forgets(g)'
                      /\ isRunning' /\ Closed' /\ ~restarted' /\ ~unprepared' =>
                           \E g \in Flows : Remakes(g)'
    BY DEF RestoreFits
  <2>1. \A g \in Flows : Forgets(g)'
    BY OthersIdle DEF Forgets
  <2>2. ASSUME isRunning, Closed, ~restarted', ~unprepared'
        PROVE  Remakes(f)'
    <3> SUFFICES ASSUME ~restarted, ~unprepared, ~Remakes(f) PROVE FALSE
      BY <2>2 DEF StillRemakes
    <3>1. ~overlapped /\ ~rolledBack /\ \A g \in Flows \ {f} : ~Busy(g)
      BY OthersIdle DEF ActsAlone
    <3>2. \A g \in Flows : ~Remakes(g)
      BY <3>1 DEF Remakes
    <3> QED
      BY <2>2, <3>1, <3>2 DEF SerialInv, RestoreFits
  <2> QED
    BY <1>0, <2>1, <2>2
<1>4. UnwantedFits'
  <2> SUFFICES ASSUME ~overlapped', ~rolledBack', ~want'
               PROVE  /\ \A g \in Flows : /\ Sets(g)' => call'[g].conf.tun = "off"
                                          /\ Setting(g, {"send"})' => ~flow'[g].real
                      /\ \/ updateDue' \/ config' = Null \/ config'.tun = "off"
                         \/ \E g \in Flows : Sets(g)' \/ At2(g, {"update"}, {"begin"})'
    BY DEF UnwantedFits
  <2>1. \A g \in Flows \ {f} : ~Sets(g)' /\ ~Setting(g, {"send"})'
    BY OthersIdle DEF Sets, Waiting, UnderWay, Setting, At2
  <2>2. \A g \in Flows \ {f} : ~Sets(g) /\ ~At2(g, {"update"}, {"begin"})
    BY OthersIdle DEF Sets, Waiting, UnderWay, At2
  <2>3. \/ updateDue \/ config = Null \/ config.tun = "off"
        \/ Sets(f) \/ At2(f, {"update"}, {"begin"})
    BY <2>2, OthersIdle DEF ActsAlone, SerialInv, UnwantedFits, StillUnwanted
  <2> QED
    BY <1>0, <2>1, <2>3 DEF StillUnwanted
<1> QED
  BY <1>1, <1>2, <1>3, <1>4 DEF SerialInv

\* What a flow is launched with.
LEMMA LaunchSerial ==
  ASSUME Settled, FlowInv', SerialInv, NEW f \in Flows, NEW todo \in Todos, todo # <<>>,
         Launch(f, todo), UNCHANGED <<coreVars, want, stale, rolledBack>>,
         todo \in MakesTun => want, todo = <<"setup", "start">> => ~want,
         todo # <<"restart", "start">>,
         \/ todo \in Prepares \/ Head(todo) = "start"
         \/ UNCHANGED <<restarted, unprepared>>,
         updateDue => updateDue' \/ todo = <<"update">>,
         ~overlapped' /\ ~rolledBack' /\ Head(todo) = "start" => config = Null \/ config.tun = "off"
  PROVE  SerialInv'
<1>1. flow[f].todo = <<>> /\ Alters(f, Fresh(todo)) /\ ~UnderWay(f)
  BY LaunchAlters DEF Settled
<1>2. /\ flow'[f].todo = todo /\ flow'[f].pc = "begin"
      /\ \A g \in Flows \ {f} : flow'[g] = flow[g]
  BY <1>1, FreshFields DEF Alters
<1>3. Busy(f)' /\ ~Busy(f) /\ ~UnderWay(f)'
  BY <1>1, <1>2 DEF Busy, UnderWay, coreVars
<1>4. ActsAlone(f)
  BY <1>2, <1>3 DEF ActsAlone, Active, coreVars
<1>5. SerialOf(f)' /\ ~Orphan(f)'
  BY <1>2, <1>3 DEF SerialOf, Setting, At2, Orphan
<1>6. ~overlapped' => ~stale'
  BY CountedFits DEF Settled, SerialInv, SerialFits
<1>7. ~overlapped' /\ ~rolledBack' => Forgets(f)'
  BY <1>2 DEF Forgets, Phase, coreVars, settings
<1>8. StillRemakes(f)
  BY <1>2, <1>3 DEF StillRemakes, Remakes, Phase
<1>9. StillUnwanted(f)
  <2>1. ~Sets(f) /\ ~Sets(f)' /\ ~Setting(f, {"send"})' /\ ~At2(f, {"update"}, {"begin"})
    BY <1>1, <1>2, <1>3 DEF Sets, Waiting, UnderWay, Setting, At2
  <2>2. todo = <<"update">> => At2(f, {"update"}, {"begin"})'
    BY <1>2, <1>3, TodoHeads DEF At2, Phase
  <2> QED
    BY <2>1, <2>2 DEF StillUnwanted
<1> QED
  BY <1>4, <1>5, <1>6, <1>7, <1>8, <1>9, SerialByActor

LEMMA StartSerial ==
  ASSUME Settled, FlowInv', SerialInv, NEW f \in Flows, Start(f)
  PROVE  SerialInv'
<1>0. UNCHANGED <<coreVars, want, stale, rolledBack, updateDue>>
  BY DEF Start
<1>1. CASE want /\ Launch(f, <<"quiet", "start", "tun">>)
  BY <1>0, <1>1, TodoHeads, TodoDistinct, LaunchSerial DEF Todos, Prepares
<1>2. CASE ~want /\ Launch(f, <<"setup", "start">>)
  BY <1>0, <1>2, TodoHeads, TodoDistinct, LaunchSerial DEF Todos, MakesTun, Prepares
<1>3. CASE ~want /\ Launch(f, <<"start">>)
  <2>1. ~overlapped' /\ ~rolledBack' => config = Null \/ config.tun = "off"
    <3> SUFFICES ASSUME ~overlapped', ~rolledBack' PROVE config = Null \/ config.tun = "off"
      OBVIOUS
    <3>0. flow[f].todo = <<>> /\ Alters(f, Fresh(<<"start">>)) /\ ~UnderWay(f)
      BY <1>3, LaunchAlters DEF Settled
    <3>1. flow'[f].todo = <<"start">> /\ \A g \in Flows \ {f} : flow'[g] = flow[g]
      BY <3>0, FreshFields DEF Alters
    <3>2. ~updateDue /\ \A g \in Flows : ~Busy(g) /\ ~UnderWay(g)
      BY <1>0, <3>0, <3>1, TodoDistinct, SerialAfter DEF Active, Busy, UnderWay, coreVars
    <3>3. ~overlapped /\ ~rolledBack
      BY <1>0, CountedFits DEF Settled
    <3>4. \A g \in Flows : ~Sets(g) /\ ~At2(g, {"update"}, {"begin"})
      BY <3>2 DEF Sets, Waiting, UnderWay, At2
    <3> QED
      BY <1>3, <3>2, <3>3, <3>4 DEF SerialInv, UnwantedFits
  <2> QED
    BY <1>0, <1>3, <2>1, TodoHeads, TodoDistinct, LaunchSerial DEF Todos, MakesTun
<1> QED
  BY <1>1, <1>2, <1>3 DEF Start

LEMMA RequestSerial ==
  ASSUME Settled, FlowInv', SerialInv, NEW f \in Flows, Request(f) \/ UpdateClashConfig(f)
  PROVE  SerialInv'
<1>0. UNCHANGED <<coreVars, want, stale, rolledBack, restarted, unprepared>>
  BY DEF Request, UpdateClashConfig, history
<1>1. \A todo \in {<<"stop">>, <<"restart">>, <<"setup">>, <<"update">>} :
        /\ todo \in Todos /\ todo # <<>> /\ Head(todo) # "start"
        /\ todo \notin MakesTun
        /\ todo \notin {<<"setup", "start">>, <<"restart", "start">>}
  BY TodoHeads, TodoDistinct DEF Todos, MakesTun
<1>2. PICK todo \in {<<"stop">>, <<"restart">>, <<"setup">>, <<"update">>} :
        Launch(f, todo) /\ (updateDue => updateDue' \/ todo = <<"update">>)
  BY DEF Request, UpdateClashConfig
<1> QED
  BY <1>0, <1>1, <1>2, LaunchSerial

\* A change of the settings is followed by an update, or comes while no flow is
\* under way.
LEMMA OutsideSerial ==
  ASSUME Settled, FlowInv', SerialInv, ToggleTun \/ UpdateRunTime
  PROVE  SerialInv'
<1>1. /\ UNCHANGED <<coreVars, realTun, flow, stale, rolledBack, restarted, unprepared>>
      /\ ToggleTun => updateDue'
      /\ UpdateRunTime => UNCHANGED <<want, updateDue>>
  BY DEF ToggleTun, UpdateRunTime, history
<1>2. TunsFit'
  BY <1>1 DEF SerialInv, TunsFit, coreVars, settings, tunVars
<1>3. \A g \in Flows :
        /\ (Busy(g)' <=> Busy(g)) /\ (UnderWay(g)' <=> UnderWay(g)) /\ (Orphan(g)' <=> Orphan(g))
        /\ (Sets(g)' <=> Sets(g)) /\ (Setting(g, {"send"})' <=> Setting(g, {"send"}))
        /\ (At2(g, {"update"}, {"begin"})' <=> At2(g, {"update"}, {"begin"}))
        /\ (Forgets(g) => Forgets(g)') /\ (Remakes(g) => Remakes(g)')
        /\ (Configures(g)' <=> Configures(g)) /\ call'[g] = call[g]
  BY <1>1 DEF Busy, UnderWay, Orphan, Sets, Setting, At2, Phase, Waiting, Forgets, Remakes,
     Recreating, Rebinding, Refreshing, Is, Configures, Configuring, In, coreVars, settings
<1>4. ~overlapped' => ~overlapped /\ ~crossed'
  <2>1. Crossing' <=> Crossing
    BY <1>3 DEF Crossing, Rivals, Is
  <2>2. ~Overlap => ~Crossing
    BY DEF Overlap, Crossing, Rivals, Active, Configures, Configuring, In
  <2> QED
    BY <2>1, <2>2, CountedFits DEF Settled, Counted, FlowInv, Apart, SerialInv, SerialFits
<1>5. ~overlapped' /\ ToggleTun => \A g \in Flows : ~Busy(g) /\ ~UnderWay(g)
  BY <1>1, <1>3 DEF FlowInv, Apart, Overlap, Active
<1>6. ~overlapped' => \A g \in Flows : SerialOf(g)'
  <2>1. CASE ToggleTun
    BY <1>3, <1>5, <2>1 DEF SerialOf
  <2>2. CASE UpdateRunTime
    BY <1>1, <1>4, <2>2 DEF SerialInv, SerialFits, SerialOf, Setting, At2, Busy, Phase
  <2> QED
    BY <2>1, <2>2
<1>7. SerialFits'
  BY <1>1, <1>3, <1>4, <1>6 DEF SerialInv, SerialFits
<1>8. UnwantedFits'
  <2>1. CASE ToggleTun
    <3>1. ~overlapped' => \A g \in Flows : ~Sets(g)' /\ ~Setting(g, {"send"})'
      BY <1>3, <1>5, <2>1 DEF Sets, Waiting, UnderWay, Setting, At2
    <3> QED
      BY <1>1, <2>1, <3>1 DEF UnwantedFits
  <2>2. CASE UpdateRunTime
    BY <1>1, <1>3, <1>4, <2>2 DEF SerialInv, UnwantedFits, coreVars, settings
  <2> QED
    BY <2>1, <2>2
<1>9. RestoreFits'
  <2>1. (Closed' <=> Closed) /\ isRunning' = isRunning
    BY <1>1 DEF Closed, coreVars, settings, tunVars
  <2> QED
    BY <1>1, <1>3, <1>4, <2>1 DEF SerialInv, RestoreFits
<1> QED
  BY <1>2, <1>7, <1>8, <1>9 DEF SerialInv

LEMMA TailFacts ==
  \A todo \in Todos : todo # <<>> =>
    /\ Tail(todo) \notin Prepares /\ Tail(todo) # <<"restart", "start">>
    /\ Tail(todo) \in MakesTun => todo \in MakesTun
    /\ Tail(todo) # <<>> /\ Head(Tail(todo)) = "start" =>
         todo \in Prepares \/ todo = <<"restart", "start">>
    /\ todo \in Prepares => Tail(todo) # <<>> /\ Head(Tail(todo)) = "start"
<1> SUFFICES ASSUME NEW todo \in Todos, todo # <<>>
             PROVE  /\ Tail(todo) \notin Prepares /\ Tail(todo) # <<"restart", "start">>
                    /\ Tail(todo) \in MakesTun => todo \in MakesTun
                    /\ Tail(todo) # <<>> /\ Head(Tail(todo)) = "start" =>
                         todo \in Prepares \/ todo = <<"restart", "start">>
                    /\ todo \in Prepares => Tail(todo) # <<>> /\ Head(Tail(todo)) = "start"
  OBVIOUS
<1>1. CASE Tail(todo) = <<>>
  BY <1>1, TodoHeads, TodoDistinct DEF Prepares, MakesTun
<1>2. CASE todo = <<"quiet", "start", "tun">> \/ todo = <<"start", "tun">>
  BY <1>2, TodoHeads, TodoDistinct DEF Prepares, MakesTun
<1>3. CASE todo = <<"setup", "start">> \/ todo = <<"restart", "start">>
  BY <1>3, TodoHeads, TodoDistinct DEF Prepares, MakesTun
<1> QED
  BY <1>1, <1>2, <1>3, TodoHeads DEF Todos

\* A phase ends; what was prepared for a start that follows is in place, unless
\* an error kept it from the core.
LEMMA DoneSerial ==
  ASSUME Settled, FlowInv', SerialInv, NEW f \in Flows, Busy(f), ~UnderWay(f),
         Phase(f) \in {"start", "update"} => flow[f].pc # "begin",
         flow'[f] = Fresh(Tail(flow[f].todo)),
         \A g \in Flows \ {f} : flow'[g] = flow[g] \/ Busy(g),
         UNCHANGED <<coreVars, want, stale, restarted, updateDue>>,
         rolledBack => rolledBack', unprepared => unprepared',
         ~overlapped' /\ ~rolledBack' /\ flow[f].todo \in Prepares =>
           unprepared' \/ config = Null \/ config.tun = "off"
  PROVE  SerialInv'
<1>0. flow[f].todo \in Todos /\ flow[f].todo # <<>>
  BY DEF Settled, FlowInv, TodosFit, Busy
<1>1. flow'[f].todo = Tail(flow[f].todo) /\ flow'[f].pc = "begin"
  BY FreshFields
<1>2. ActsAlone(f) /\ ~UnderWay(f)' /\ ~Orphan(f)'
  BY DEF ActsAlone, Active, UnderWay, Orphan, coreVars
<1>3. ~overlapped' => ~stale' /\ SerialOf(f) /\ SerialOf(f)'
  <2> SUFFICES ASSUME ~overlapped' PROVE ~stale' /\ SerialOf(f) /\ SerialOf(f)'
    OBVIOUS
  <2>1. ~stale /\ SerialOf(f)
    BY SerialBefore DEF Active
  <2>2. /\ flow[f].todo \in MakesTun => want
        /\ flow[f].todo # <<"restart", "start">>
    BY <2>1 DEF SerialOf
  <2>3. SerialOf(f)'
    BY <1>0, <1>1, <2>2, TailFacts DEF SerialOf, Setting, At2, Prepares
  <2> QED
    BY <2>1, <2>3
<1>4. ~overlapped' /\ ~rolledBack' => Forgets(f)'
  BY <1>0, <1>1, <1>3, TailFacts DEF Forgets, Busy, Phase, coreVars, settings, SerialOf
<1>5. StillRemakes(f)
  <2>1. Remakes(f) => flow[f].todo \in Prepares
    BY DEF Remakes, Recreating, Rebinding, UnderWay, Waiting
  <2>2. flow[f].todo \in Prepares => Remakes(f)'
    BY <1>0, <1>1, TailFacts DEF Remakes, Busy, Phase
  <2> QED
    BY <2>1, <2>2 DEF StillRemakes
<1>6. StillUnwanted(f)
  <2>1. ~Sets(f) /\ ~Sets(f)' /\ ~Setting(f, {"send"})' /\ ~At2(f, {"update"}, {"begin"})
    BY <1>1, <1>2 DEF Sets, Waiting, UnderWay, Setting, At2
  <2> QED
    BY <2>1 DEF StillUnwanted
<1> QED
  BY <1>2, <1>3, <1>4, <1>5, <1>6, SerialByActor

\* A choice that is not stale and that asks for a TUN only if one is wanted; a
\* start is prepared without the TUN.
LEMMA ChooseSerial ==
  ASSUME Settled, FlowInv', SerialInv, NEW f \in Flows, NEW enable \in BOOLEAN, Choose(f, enable),
         flow[f].pc \in {"begin", "ask"},
         ~overlapped' => ~stale' /\ (enable => want),
         ~overlapped' /\ flow[f].todo \in Prepares => ~enable,
         UNCHANGED <<want, updateDue, rolledBack, restarted, unprepared>>
  PROVE  SerialInv'
<1> USE DEF Settled
<1>0. flow[f].todo \in Todos /\ realTun' = enable /\ Busy(f)
  BY ChooseCases DEF FlowInv, TodosFit, In
<1>1. ~UnderWay(f) /\ Active(f)
  BY <1>0, NotUnderWay DEF FlowInv, Active
<1>b. ~overlapped' => SerialOf(f)
  BY <1>1, SerialBefore
<1>2. ASSUME In(f, {"setup", "quiet"}, flow[f].pc), UNCHANGED coreVars, NEW ok \in BOOLEAN,
             Alters(f, [flow[f] EXCEPT !.pc = "send", !.real = enable, !.ok = ok])
      PROVE  SerialInv'
  <2>1. /\ flow'[f].todo = flow[f].todo /\ flow'[f].pc = "send" /\ flow'[f].real = enable
        /\ \A g \in Flows \ {f} : flow'[g] = flow[g]
    BY <1>2 DEF SessionTyped, FlowsTyped, FlowRecord, Alters
  <2>2. /\ ActsAlone(f) /\ Phase(f)' \in {"setup", "quiet"} /\ Phase(f) \in {"setup", "quiet"}
        /\ ~Orphan(f)' /\ ~Sets(f) /\ ~At2(f, {"update"}, {"begin"})
    BY <1>1, <1>2, <2>1
    DEF ActsAlone, In, Phase, coreVars, Orphan, UnderWay, Sets, Waiting, At2
  <2>3. ~overlapped' => SerialOf(f)'
    BY <1>0, <1>b, <2>1, <2>2 DEF SerialOf, Busy, Setting, At2
  <2>4. ~overlapped' => Forgets(f)'
    BY <2>1, <2>2 DEF Forgets
  <2>5. StillRemakes(f)
    BY <2>1, <2>2 DEF StillRemakes, Remakes, Busy
  <2>6. ~overlapped' /\ ~want' => StillUnwanted(f)
    BY <1>2, <2>1, <2>2 DEF StillUnwanted, Sets, Waiting, coreVars
  <2> QED
    BY <2>2, <2>3, <2>4, <2>5, <2>6, SerialByActor
<1>3. CASE In(f, {"update"}, flow[f].pc) /\ Sends(f, "update", ConfOf(enable), TRUE)
             /\ Enter(f, "reply")
  <2>1. /\ Alters(f, [flow[f] EXCEPT !.pc = "reply"])
        /\ flow'[f].todo = flow[f].todo /\ flow'[f].pc = "reply"
    BY <1>3, EnterAlters DEF FlowPcs
  <2>2. ActsAlone(f) /\ Phase(f)' = "update" /\ Phase(f) = "update" /\ Busy(f)'
    BY <1>0, <1>1, <1>3, <2>1 DEF ActsAlone, In, Phase, Alters, Sends, Busy
  <2>3. flow[f].todo \notin Prepares
    BY <1>3, TodoHeads DEF Prepares, In, Phase
  <2>4. ~overlapped' => SerialOf(f)' /\ ~Orphan(f)'
    BY <1>0, <1>b, <2>1, <2>2 DEF SerialOf, Busy, Setting, At2, Orphan
  <2>5. Forgets(f)'
    BY <2>1, <2>2, <2>3 DEF Forgets
  <2>6. StillRemakes(f)
    BY <2>2, <2>3 DEF StillRemakes, Remakes
  <2>7. ~overlapped' /\ ~want' => StillUnwanted(f)
    <3>1. ~enable => ConfOf(enable).tun = "off"
      BY ConfOfType
    <3>2. Sets(f)' /\ call'[f].conf = ConfOf(enable) /\ ~Setting(f, {"send"})'
      BY <1>3, <2>1 DEF Sets, Waiting, Sends, Setting, At2
    <3> QED
      BY <3>1, <3>2 DEF StillUnwanted
  <2> QED
    BY <2>2, <2>4, <2>5, <2>6, <2>7, SerialByActor
<1>4. CASE In(f, {"tun"}, flow[f].pc) /\ UNCHANGED <<coreVars, unsent>> /\ Become(f, "update")
  <2>1. Alters(f, Fresh(<<"update">>))
    BY <1>0, <1>4, BecomeAlters, TodoUpdates DEF In, Busy
  <2>2. /\ flow'[f].todo = <<"update">> /\ flow'[f].pc = "begin"
        /\ \A g \in Flows \ {f} : flow'[g] = flow[g]
    BY <2>1, FreshFields DEF Alters
  <2>3. ActsAlone(f) /\ ~Orphan(f)' /\ ~Sets(f)' /\ At2(f, {"update"}, {"begin"})'
    BY <1>1, <1>4, <2>2, TodoHeads, TodoDistinct
    DEF ActsAlone, coreVars, Orphan, UnderWay, Sets, Waiting, At2, Busy, Phase
  <2>4. /\ <<"update">> \notin MakesTun /\ <<"update">> \notin Prepares
        /\ <<"update">> \notin {<<"setup", "start">>, <<"restart", "start">>}
    BY TodoHeads DEF MakesTun, Prepares
  <2>5. SerialOf(f)' /\ Forgets(f)'
    BY <2>2, <2>4, TodoHeads DEF SerialOf, Forgets, Setting, At2, Phase
  <2>6. StillRemakes(f)
    <3>1. ~Remakes(f)
      BY <1>4, TodoHeads DEF Remakes, Prepares, In, Phase
    <3> QED
      BY <3>1 DEF StillRemakes
  <2>7. StillUnwanted(f)
    BY <2>2, <2>3 DEF StillUnwanted, Setting, At2
  <2> QED
    BY <2>3, <2>5, <2>6, <2>7, SerialByActor
<1> QED
  BY <1>2, <1>3, <1>4, ChooseCases

LEMMA TunSerial ==
  ASSUME Settled, FlowInv', SerialInv, NEW f \in Flows, RequestAdmin(f) \/ AuthorizeCore(f)
  PROVE  SerialInv'
<1> USE DEF Settled
<1>0. /\ Busy(f) /\ flow[f].pc \in {"begin", "ask"} /\ flow[f].todo \in Todos
      /\ UNCHANGED <<want, updateDue, rolledBack, restarted, unprepared>>
  BY DEF RequestAdmin, AuthorizeCore, In, FlowInv, TodosFit
<1>a. ~UnderWay(f) /\ Active(f)
  BY <1>0, NotUnderWay DEF FlowInv, Active
<1>1. flow[f].todo \in Prepares => Phase(f) = "quiet" \/ flow[f].todo = <<"setup", "start">>
  BY TodoHeads DEF Prepares, Phase
<1>2. ~overlapped' => ~stale /\ SerialOf(f)
  BY <1>a, SerialBefore
<1>w. ~overlapped' /\ Asked(f) => want
  <2>1. CASE In(f, {"tun"}, "begin")
    <3>1. flow[f].todo = <<"tun">>
      BY <2>1, <1>0, TodoHeads DEF Todos, In, Busy
    <3> QED
      BY <1>0, <1>2, <3>1 DEF MakesTun, SerialOf
  <2> QED
    BY <2>1 DEF Asked
<1>3. CASE RequestAdmin(f) /\ Asked(f) /\ ~realTun
  <2>1. Enter(f, "ask") /\ UNCHANGED <<coreVars, realTun, stale>>
    BY <1>3 DEF RequestAdmin
  <2>2. /\ Alters(f, [flow[f] EXCEPT !.pc = "ask"])
        /\ flow'[f].todo = flow[f].todo /\ flow'[f].pc = "ask"
    BY <2>1, EnterAlters DEF FlowPcs
  <2>3. ActsAlone(f) /\ ~Orphan(f)'
    BY <1>0, <1>a, <2>1, <2>2 DEF ActsAlone, Alters, coreVars, Orphan, UnderWay
  <2>5. ~overlapped' => SerialOf(f)'
    BY <1>0, <1>2, <1>3, <1>w, <2>1, <2>2 DEF SerialOf, Setting, At2
  <2>6. Phase(f) # "start" /\ Phase(f)' = Phase(f)
    BY <1>3, <2>2 DEF RequestAdmin, In, Phase
  <2>7. Forgets(f)'
    BY <2>2, <2>6 DEF Forgets
  <2>8. StillRemakes(f)
    BY <1>0, <2>2, <2>6 DEF StillRemakes, Remakes, Busy
  <2> QED
    BY <1>0, <1>2, <1>3, <1>w, <2>1, <2>3, <2>5, <2>7, <2>8, SerialByActor
<1>4. CASE RequestAdmin(f) /\ ~(Asked(f) /\ ~realTun)
  <2>1. Choose(f, Asked(f)) /\ Asked(f) \in BOOLEAN /\ UNCHANGED stale
    BY <1>4 DEF RequestAdmin, Asked, In
  <2>2. Phase(f) = "quiet" => ~Asked(f)
    BY DEF Asked, In, Phase
  <2>3. ~overlapped' /\ flow[f].todo = <<"setup", "start">> => ~Asked(f)
    BY <1>0, <1>2, TodoHeads DEF SerialOf, Asked, In
  <2> QED
    BY <1>0, <1>1, <1>2, <1>w, <2>1, <2>2, <2>3, ChooseSerial
<1>5. CASE AuthorizeCore(f)
  <2>1. flow[f].pc = "ask" /\ Phase(f) \in {"setup", "tun", "update"}
    BY <1>5 DEF AuthorizeCore, In, Phase
  <2>2. ~overlapped' => want /\ ~realTun /\ flow[f].todo # <<"setup", "start">>
    BY <1>0, <1>2, <2>1 DEF SerialOf
  <2>3. CASE Choose(f, TRUE) /\ stale' = (stale \/ ~want)
    BY <1>0, <1>1, <1>2, <2>1, <2>2, <2>3, ChooseSerial
  <2>4. CASE Choose(f, FALSE) /\ stale' = (stale \/ realTun)
    BY <1>0, <1>1, <1>2, <2>1, <2>2, <2>4, ChooseSerial
  <2>5. CASE Become(f, "restart") /\ UNCHANGED <<coreVars, realTun, stale, unsent>>
    <3> DEFINE todo == <<"restart">> \o Tail(flow[f].todo)
    <3>1. Alters(f, Fresh(todo)) /\ ActsAlone(f)
      BY <1>0, <1>a, <2>5, BecomeAlters DEF ActsAlone, Alters, coreVars
    <3>2. ~overlapped' => todo = <<"restart">>
      <4>1. <<"restart">> \o <<>> = <<"restart">>
        OBVIOUS
      <4>2. ~overlapped' => Tail(flow[f].todo) = <<>>
        <5> DEFINE rest == flow[f].todo
        <5>1. rest \in Todos /\ Head(rest) \in {"setup", "tun", "update"} /\ rest # <<>>
          BY <1>0, <2>1 DEF Phase, Busy
        <5>2. ~overlapped' => rest # <<"setup", "start">>
          BY <2>2
        <5> HIDE DEF rest
        <5>3. ~overlapped' => Tail(rest) = <<>>
          BY <5>1, <5>2, TodoHeads DEF Todos
        <5> QED
          BY <5>3 DEF rest
      <4> QED
        BY <4>1, <4>2
    <3>3. /\ <<"restart">> \notin MakesTun /\ <<"restart">> \notin Prepares
          /\ <<"restart">> \notin {<<"setup", "start">>, <<"restart", "start">>}
      BY TodoHeads, TodoDistinct DEF MakesTun, Prepares
    <3> HIDE DEF todo
    <3>4. ~overlapped' => flow'[f].todo = <<"restart">> /\ flow'[f].pc = "begin"
      BY <3>1, <3>2, FreshFields DEF Alters
    <3>5. ~overlapped' => SerialOf(f)' /\ Forgets(f)'
      BY <3>3, <3>4, TodoHeads DEF SerialOf, Forgets, Setting, At2, Phase
    <3>6. ~Orphan(f)'
      BY <1>a, <2>5 DEF Orphan, UnderWay, coreVars
    <3>7. ~overlapped' => StillRemakes(f)
      <4>1. ~overlapped' => ~Remakes(f)
        BY <1>1, <2>1, <2>2 DEF Remakes
      <4> QED
        BY <1>0, <4>1 DEF StillRemakes
    <3> QED
      BY <1>0, <1>2, <2>2, <2>5, <3>1, <3>5, <3>6, <3>7, SerialByActor
  <2> QED
    BY <1>5, <2>3, <2>4, <2>5 DEF AuthorizeCore
<1> QED
  BY <1>3, <1>4, <1>5

LEMMA SendSetupSerial ==
  ASSUME Settled, FlowInv', SerialInv, NEW f \in Flows, SendSetup(f)
  PROVE  SerialInv'
<1> USE DEF Settled
<1> DEFINE sent == IF flow[f].ok THEN ConfOf(flow[f].real) ELSE DefaultConf
<1>1. Sends(f, "setup", sent, flow[f].ok)
  BY CallSends DEF SendSetup, Kinds
<1>0. ~flow[f].real => sent.tun = "off"
  <2>1. flow[f].real \in BOOLEAN
    BY DEF SessionTyped, FlowsTyped, FlowRecord
  <2>2. ~flow[f].real => ConfOf(flow[f].real).tun = "off"
    BY <2>1, ConfOfType
  <2>3. DefaultConf.tun = "off"
    BY DEF DefaultConf
  <2> QED
    BY <2>2, <2>3
<1> HIDE DEF sent
<1>2. /\ Alters(f, [flow[f] EXCEPT !.pc = "reply"])
      /\ flow'[f].todo = flow[f].todo /\ flow'[f].pc = "reply"
  BY EnterAlters DEF SendSetup, FlowPcs
<1>3. /\ Busy(f) /\ Phase(f) \in {"setup", "quiet"} /\ flow[f].pc = "send"
      /\ UNCHANGED <<want, updateDue, realTun, rolledBack, restarted, unprepared>>
      /\ stale' = (stale \/ flow[f].real # realTun)
  BY DEF SendSetup, In, Phase
<1>4. ActsAlone(f) /\ Phase(f)' = Phase(f) /\ Busy(f)'
  BY <1>1, <1>2, <1>3 DEF ActsAlone, Active, Alters, Sends, Busy, Phase
<1>5. ~overlapped' => ~overlapped /\ ~stale /\ SerialOf(f) /\ (~rolledBack => Forgets(f))
  BY <1>3, SerialBefore DEF Active
<1>6. ~overlapped' => ~stale'
  BY <1>3, <1>5 DEF SerialOf, Setting, At2
<1>7. ~overlapped' => SerialOf(f)' /\ ~Orphan(f)'
  BY <1>2, <1>3, <1>4, <1>5 DEF SerialOf, Setting, At2, Busy, Phase, Orphan
<1>8. ~overlapped' /\ ~rolledBack' => Forgets(f)'
  <2>1. Waiting(f)' /\ (~flow[f].real => call'[f].conf.tun = "off")
    BY <1>0, <1>1 DEF Sends, Waiting
  <2> QED
    BY <1>2, <1>3, <1>4, <1>5, <2>1 DEF Forgets, Busy, Phase
<1>9. StillRemakes(f)
  BY <1>2, <1>3, <1>4 DEF StillRemakes, Remakes
<1>10. ~overlapped' /\ ~rolledBack' /\ ~want' => StillUnwanted(f)
  <2>1. Sets(f)' /\ ~Setting(f, {"send"})' /\ (~flow[f].real => call'[f].conf.tun = "off")
    BY <1>0, <1>1, <1>2 DEF Sends, Sets, Waiting, Setting, At2
  <2>2. ~overlapped' /\ ~rolledBack' /\ ~want' => ~flow[f].real
    BY <1>3, <1>5 DEF SerialInv, UnwantedFits, Setting, At2
  <2> QED
    BY <1>3, <2>1, <2>2 DEF StillUnwanted
<1> QED
  BY <1>4, <1>6, <1>7, <1>8, <1>9, <1>10, SerialByActor

\* An error ends the phase; a setup of a start that wants the TUN is the quiet
\* one, and that of one that does not leaves a configuration without it.
LEMMA FailsSerial ==
  ASSUME Settled, FlowInv', SerialInv, NEW f \in Flows, PhaseFails(f)
  PROVE  SerialInv'
<1> USE DEF Settled
<1>1. /\ Busy(f) /\ flow[f].pc \in {"begin", "ask", "send"} /\ PhaseDone(f)
      /\ Phase(f) \in {"start", "update"} => flow[f].pc # "begin"
      /\ UNCHANGED <<coreVars, want, updateDue, stale, rolledBack, restarted>>
      /\ unprepared => unprepared'
      /\ Phase(f) = "quiet" => unprepared'
  BY DEF PhaseFails, In, Phase
<1>2. ~UnderWay(f) /\ Active(f)
  BY <1>1, NotUnderWay DEF FlowInv, Active
<1>3. /\ flow'[f] = Fresh(Tail(flow[f].todo))
      /\ \A g \in Flows \ {f} : flow'[g] = flow[g]
  BY <1>1, PhaseDoneAlters DEF Alters
<1>4. ~overlapped' /\ ~rolledBack' /\ flow[f].todo \in Prepares =>
        unprepared' \/ config = Null \/ config.tun = "off"
  <2> SUFFICES ASSUME ~overlapped', ~rolledBack', flow[f].todo = <<"setup", "start">>
               PROVE  config = Null \/ config.tun = "off"
    BY <1>1, TodoHeads DEF Prepares, Phase
  <2>1. /\ ~overlapped /\ ~updateDue /\ SerialOf(f)
        /\ \A g \in Flows \ {f} : ~Busy(g) /\ ~Waiting(g)
    BY <1>2, SerialBefore
  <2>2. ~want
    BY <1>1, <2>1 DEF SerialOf
  <2>3. \A g \in Flows : ~Sets(g) /\ ~At2(g, {"update"}, {"begin"})
    BY <1>2, <2>1, TodoHeads DEF Sets, Waiting, UnderWay, At2, Phase
  <2> QED
    BY <1>1, <2>1, <2>2, <2>3 DEF SerialInv, UnwantedFits
<1> QED
  BY <1>1, <1>2, <1>3, <1>4, DoneSerial

LEMMA SetupRepliedSerial ==
  ASSUME Settled, FlowInv', SerialInv, NEW f \in Flows, SetupReplied(f)
  PROVE  SerialInv'
<1> USE DEF Settled
<1>1. /\ Busy(f) /\ Phase(f) \in {"setup", "quiet"} /\ flow[f].pc = "reply"
      /\ ~UnderWay(f) /\ ~Waiting(f) /\ Active(f)
      /\ UNCHANGED <<want, updateDue, realTun, stale, restarted, unprepared>>
  BY DEF SetupReplied, Replied, In, Phase, UnderWay, Waiting, Active
<1>2. ~overlapped' => ~stale /\ SerialOf(f) /\ (~rolledBack => Forgets(f))
  BY <1>1, SerialBefore
<1>3. CASE PhaseDone(f) /\ UNCHANGED <<coreVars, rolledBack>>
  <2>1. /\ flow'[f] = Fresh(Tail(flow[f].todo))
        /\ \A g \in Flows \ {f} : flow'[g] = flow[g]
    BY <1>3, PhaseDoneAlters DEF Alters
  <2>2. ~overlapped' /\ ~rolledBack' /\ flow[f].todo \in Prepares => config.tun = "off"
    BY <1>1, <1>2, <1>3 DEF Forgets
  <2> QED
    BY <1>1, <1>3, <2>1, <2>2, DoneSerial
<1>4. CASE Call(f, "setup", backup, ~unheard) /\ Enter(f, "rollback") /\ rolledBack' = TRUE
  <2> DEFINE ok == ~unheard
  <2>0. Call(f, "setup", backup, ok)
    BY <1>4, Zenon
  <2> HIDE DEF ok
  <2>1. Sends(f, "setup", IF ok THEN backup ELSE DefaultConf, ok)
    BY <2>0, CallSends DEF Kinds
  <2>2. /\ Alters(f, [flow[f] EXCEPT !.pc = "rollback"])
        /\ flow'[f].todo = flow[f].todo /\ flow'[f].pc = "rollback"
    BY <1>4, EnterAlters DEF FlowPcs
  <2>4. /\ rolledBack'
        /\ \A g \in Flows \ {f} : flow'[g] = flow[g] /\ call'[g] = call[g]
        /\ UNCHANGED <<settings, tunVars>>
    BY <1>4, <2>1, <2>2 DEF Alters, Sends
  <2>3. ActsAlone(f)
    BY <1>1, <2>4 DEF ActsAlone
  <2>5. ~overlapped' => SerialOf(f)' /\ ~Orphan(f)'
    BY <1>1, <1>2, <2>2 DEF SerialOf, Setting, At2, Busy, Phase, Orphan
  <2> QED
    BY <1>1, <1>2, <2>3, <2>4, <2>5, SerialByActor
<1> QED
  BY <1>3, <1>4 DEF SetupReplied

LEMMA RepliedSerial ==
  ASSUME Settled, FlowInv', ConfigInv, SerialInv, NEW f \in Flows,
         PhaseReplied(f) \/ StopReplied(f)
  PROVE  SerialInv'
<1> USE DEF Settled
<1>1. /\ PhaseDone(f) /\ ~UnderWay(f) /\ Busy(f) /\ flow[f].pc # "begin"
      /\ UNCHANGED <<coreVars, want, updateDue, stale, rolledBack, restarted, unprepared>>
  BY DEF PhaseReplied, StopReplied, Replied, In, history
<1>2. /\ flow'[f] = Fresh(Tail(flow[f].todo))
      /\ \A g \in Flows \ {f} : flow'[g] = flow[g]
  BY <1>1, PhaseDoneAlters DEF Alters
<1>4. ~rolledBack => flow[f].todo \notin Prepares
  <2>1. Setting(f, {"rollback"}) => rolledBack
    BY DEF ConfigInv, ChoicesFit, ChoiceFits
  <2>2. flow[f].todo \in Prepares => Phase(f) \in {"setup", "quiet"}
    BY TodoHeads DEF Prepares, Phase
  <2> QED
    BY <2>1, <2>2 DEF PhaseReplied, StopReplied, In, Phase, Setting, At2
<1> QED
  BY <1>1, <1>2, <1>4, DoneSerial

LEMMA RunSerial ==
  ASSUME Settled, FlowInv', SerialInv, NEW f \in Flows, StartPhase(f) \/ StopPhase(f)
  PROVE  SerialInv'
<1> USE DEF Settled
<1>1. /\ Busy(f) /\ Active(f) /\ Phase(f) \in {"start", "stop"} /\ flow[f].pc = "begin"
      /\ Enter(f, "reply")
      /\ UNCHANGED <<want, updateDue, realTun, stale, rolledBack, restarted, unprepared>>
  BY DEF StartPhase, StopPhase, In, Phase, history, Active
<1>2. /\ Alters(f, [flow[f] EXCEPT !.pc = "reply"])
      /\ flow'[f].todo = flow[f].todo /\ flow'[f].pc = "reply"
  BY <1>1, EnterAlters DEF FlowPcs
<1>3. /\ Sends(f, "start", DefaultConf, TRUE) \/ Sends(f, "stop", DefaultConf, TRUE)
      /\ Phase(f) = "start" => Sends(f, "start", DefaultConf, TRUE)
  BY StartStopSends DEF StartPhase, StopPhase, In, Phase
<1>4. ActsAlone(f) /\ Phase(f)' = Phase(f) /\ Busy(f)'
  BY <1>1, <1>2, <1>3 DEF ActsAlone, Alters, Sends, Phase, Busy
<1>5. ~overlapped' => ~stale /\ SerialOf(f) /\ (~rolledBack => Forgets(f))
  BY <1>1, SerialBefore
<1>6. ~overlapped' => SerialOf(f)' /\ ~Orphan(f)'
  BY <1>1, <1>2, <1>4, <1>5 DEF SerialOf, Setting, At2, Orphan
<1>7. flow[f].todo \notin Prepares
  BY <1>1, TodoHeads DEF Prepares, Phase
<1>8. ~overlapped' /\ ~rolledBack' => Forgets(f)'
  BY <1>1, <1>2, <1>3, <1>4, <1>5, <1>7 DEF Forgets, Sends, settings
<1>9. StillRemakes(f)
  BY <1>1, <1>2, <1>3, <1>4, <1>7 DEF StillRemakes, Remakes, Sends, Waiting
<1>10. StillUnwanted(f)
  <2>1. ~Sets(f) /\ ~Sets(f)' /\ ~Setting(f, {"send"})' /\ ~At2(f, {"update"}, {"begin"})
    BY <1>1, <1>2, <1>3 DEF Sends, Sets, Waiting, UnderWay, Setting, At2
  <2> QED
    BY <1>1, <2>1 DEF StillUnwanted
<1> QED
  BY <1>1, <1>4, <1>5, <1>6, <1>8, <1>9, <1>10, SerialByActor

\* A step of the flow that restarts the core, within the restart.
LEMMA RestartMoveSerial ==
  ASSUME Settled, FlowInv', SerialInv, NEW f \in Flows, Busy(f), Phase(f) = "restart",
         NEW record, Alters(f, record), flow'[f].todo = flow[f].todo,
         UNCHANGED <<settings, tunVars, want, updateDue, stale, rolledBack, unprepared>>,
         \A g \in Flows \ {f} : call'[g] = call[g], ~Sets(f), ~Sets(f)',
         flow'[f].pc \in {"join", "reply", "pause", "starting"},
         restarted => restarted',
         ~overlapped' /\ (flow'[f].pc \in {"reply", "starting"} \/ flow'[f].was) =>
           flow'[f].pc = "join" \/ restarted'
  PROVE  SerialInv'
<1>1. ActsAlone(f) /\ Active(f) /\ Phase(f)' = "restart" /\ Busy(f)'
  BY DEF ActsAlone, Alters, Active, Phase, Busy
<1>2. flow[f].todo \notin Prepares
  BY TodoHeads DEF Prepares, Phase
<1>3. ~overlapped' => ~stale /\ SerialOf(f)
  BY <1>1, SerialBefore
<1>4. ~overlapped' => SerialOf(f)' /\ ~Orphan(f)'
  BY <1>1, <1>3 DEF SerialOf, Setting, At2, Busy, Orphan
<1>5. Forgets(f)'
  BY <1>1, <1>2 DEF Forgets
<1>6. StillRemakes(f)
  BY <1>2 DEF StillRemakes, Remakes
<1>7. StillUnwanted(f)
  BY <1>1 DEF StillUnwanted, Setting, At2
<1> QED
  BY <1>1, <1>3, <1>4, <1>5, <1>6, <1>7, SerialByActor

LEMMA RestartSerial ==
  ASSUME Settled, FlowInv', SerialInv, NEW f \in Flows,
         RestartCore(f) \/ RestartStopped(f) \/ RestartResume(f) \/ RestartStarted(f)
  PROVE  SerialInv'
<1> USE DEF Settled
<1>0. /\ Busy(f) /\ Active(f) /\ Phase(f) = "restart" /\ flow[f].todo \notin Prepares
      /\ UNCHANGED <<want, updateDue, stale, rolledBack, unprepared>>
      /\ flow[f].pc \in {"begin", "pause", "join"} \/ Replied(f)
  BY TodoHeads
  DEF RestartCore, RestartStopped, RestartResume, RestartStarted, In, Phase, history, Prepares,
      Active
<1>a. ~UnderWay(f) /\ ~Sets(f)
  BY <1>0, NotUnderWay DEF FlowInv, Replied, Sets, Waiting, UnderWay
<1>b. UNCHANGED coreVars => ~Sets(f)' /\ \A g \in Flows \ {f} : call'[g] = call[g]
  BY <1>a DEF coreVars, Sets, Waiting
<1>c. \A kind \in {"start", "stop"} : Sends(f, kind, DefaultConf, TRUE) =>
        ~Sets(f)' /\ (\A g \in Flows \ {f} : call'[g] = call[g]) /\ UNCHANGED <<settings, tunVars>>
  BY DEF Sends, Sets
<1>1. ~overlapped' => SerialOf(f)
  BY <1>0, SerialBefore
<1>2. CASE RestartCore(f)
  <2>1. CASE Enter(f, "join") /\ UNCHANGED <<coreVars, startTime, restarted>>
    <3>1. /\ Alters(f, [flow[f] EXCEPT !.pc = "join"])
          /\ flow'[f].todo = flow[f].todo /\ flow'[f].pc = "join"
      BY <2>1, EnterAlters DEF FlowPcs
    <3> QED
      BY <1>0, <1>a, <1>b, <2>1, <3>1, RestartMoveSerial DEF coreVars
  <2>2. ASSUME NEW record, Alters(f, record), flow'[f].todo = flow[f].todo,
               flow'[f].was = runTime, flow'[f].pc = IF runTime THEN "reply" ELSE "pause",
               runTime => restarted' = TRUE /\ Sends(f, "stop", DefaultConf, TRUE),
               ~runTime => UNCHANGED <<coreVars, restarted>>
        PROVE  SerialInv'
    <3>1. UNCHANGED <<settings, tunVars>> /\ ~Sets(f)' /\ \A g \in Flows \ {f} : call'[g] = call[g]
      BY <1>b, <1>c, <2>2 DEF coreVars
    <3>2. /\ flow'[f].pc \in {"reply", "pause"} /\ (restarted => restarted')
          /\ flow'[f].pc = "reply" \/ flow'[f].was => restarted'
      <4>1. CASE runTime
        <5>1. restarted' /\ flow'[f].pc = "reply"
          BY <2>2, <4>1
        <5> QED
          BY <5>1
      <4>2. CASE ~runTime
        <5>1. flow'[f].pc = "pause" /\ ~flow'[f].was
          BY <2>2, <4>2
        <5>2. restarted' = restarted
          BY <2>2, <4>2
        <5> QED
          BY <5>1, <5>2
      <4> QED
        BY <4>1, <4>2
    <3> QED
      BY <1>0, <1>a, <2>2, <3>1, <3>2, RestartMoveSerial
  <2> QED
    BY <1>2, <2>1, <2>2, RestartCoreMoves
<1>3. CASE RestartStopped(f)
  <2>1. /\ Alters(f, [flow[f] EXCEPT !.pc = "pause"])
        /\ flow'[f].todo = flow[f].todo /\ flow'[f].pc = "pause"
    BY <1>3, EnterAlters DEF RestartStopped, FlowPcs
  <2>2. UNCHANGED <<coreVars, restarted>> /\ At2(f, {"restart"}, {"reply"})
    BY <1>3 DEF RestartStopped, history, At2, In, Phase
  <2>3. ~overlapped' => restarted
    BY <1>0, <1>1, <2>2 DEF SerialOf, At2
  <2> QED
    BY <1>0, <1>a, <1>b, <2>1, <2>2, <2>3, RestartMoveSerial DEF coreVars
<1>4. CASE RestartResume(f) /\ flow[f].was
  <2>1. /\ Alters(f, [flow[f] EXCEPT !.pc = "starting"])
        /\ flow'[f].todo = flow[f].todo /\ flow'[f].pc = "starting"
    BY <1>4, EnterAlters DEF RestartResume, FlowPcs
  <2>2. /\ UNCHANGED restarted /\ Sends(f, "start", DefaultConf, TRUE)
        /\ At2(f, {"restart"}, {"pause"})
    BY <1>4, StartStopSends DEF RestartResume, history, At2, In, Phase
  <2>3. ~overlapped' => restarted
    BY <1>0, <1>1, <1>4, <2>2 DEF SerialOf
  <2> QED
    BY <1>0, <1>a, <1>c, <2>1, <2>2, <2>3, RestartMoveSerial
<1>5. CASE RestartDone(f) /\ UNCHANGED <<coreVars, restarted>>
  <2>1. /\ flow'[f] = Fresh(Tail(flow[f].todo))
        /\ \A g \in Flows \ {f} : flow'[g] = flow[g] \/ Busy(g)
    BY <1>5, RestartDoneMoves DEF At2
  <2> QED
    BY <1>0, <1>a, <1>5, <2>1, DoneSerial
<1>6. CASE (RestartResume(f) /\ ~flow[f].was) \/ RestartStarted(f)
  BY <1>5, <1>6 DEF RestartResume, RestartStarted, history
<1> QED
  BY <1>2, <1>3, <1>4, <1>6

\* Who goes on beside the call that was late overlaps with it: so only the call
\* is left.
LEMMA TimesOutSerial ==
  ASSUME Settled, FlowInv', SerialInv, NEW f \in Flows, InvokeTimesOut(f)
  PROVE  SerialInv'
<1> USE DEF Settled
<1>0. PICK g \in Flows : Goes(f, g)
  BY TimesOutGoes
<1>1. /\ UNCHANGED <<coreVars, want, updateDue, realTun, stale, rolledBack, restarted, unprepared>>
      /\ Busy(f) /\ UnderWay(f) /\ Active(f) /\ alive
  BY DEF InvokeTimesOut, Active
<1>2. \A h \in Flows : (UnderWay(h)' <=> UnderWay(h)) /\ (Sets(h)' <=> Sets(h)) /\ call'[h] = call[h]
  BY <1>1 DEF coreVars, UnderWay, Sets, Waiting
<1>3. TunsFit' /\ (Closed' <=> Closed)
  BY <1>1 DEF SerialInv, TunsFit, Closed, coreVars, settings, tunVars
<1>4. ~overlapped' => /\ ~overlapped /\ ~crossed /\ ~stale /\ ~updateDue
                      /\ \A h \in Flows \ {f} : ~Busy(h) /\ ~UnderWay(h)
  BY <1>1, SerialBefore
<1>5. ~Busy(f)'
  BY <1>0 DEF Goes, NoFlow, Busy
<1>6. ~overlapped' => \A h \in Flows : ~Busy(h)'
  <2>1. Active(f)'
    BY <1>1, <1>2 DEF Active
  <2> QED
    BY <1>5, <2>1, SerialAfter
<1>7. ~overlapped' => Configuring(f) /\ Tail(flow[f].todo) = <<>>
  <2>1. ~overlapped' => ~Busy(g)'
    BY <1>6
  <2>2. ~Configuring(f) => Busy(g)'
    BY <1>0, <1>1 DEF Goes, Busy
  <2>3. Configuring(f) => flow'[g].todo = Tail(flow[f].todo)
    BY <1>0, FreshFields DEF Goes
  <2> QED
    BY <2>1, <2>2, <2>3 DEF Busy
<1>8. Configuring(f) => /\ call[f].kind \in {"setup", "update"} /\ Phase(f) # "start"
                        /\ flow[f].pc \in {"reply", "rollback"}
  BY <1>1 DEF FlowInv, CallsFit, Configuring, In, At2, Phase
<1>9. SerialFits'
  <2> SUFFICES ASSUME ~overlapped'
               PROVE  /\ ~crossed' /\ ~stale'
                      /\ \A h \in Flows : SerialOf(h)'
                                          /\ (Orphan(h)' => call'[h].kind \in {"setup", "update"})
    BY DEF SerialFits
  <2>1. \A h \in Flows \ {f} : ~Configures(h)' /\ ~UnderWay(h)'
    BY <1>2, <1>4, <1>6 DEF Configures, Configuring, In, Busy
  <2>2. ~crossed'
    <3>1. ~Crossing'
      BY <2>1 DEF Crossing, Rivals
    <3> QED
      BY <1>4, <3>1 DEF Counted
  <2>3. \A h \in Flows : Orphan(h)' => call'[h].kind \in {"setup", "update"}
    BY <1>2, <1>7, <1>8, <2>1 DEF Orphan
  <2> QED
    BY <1>1, <1>4, <1>6, <2>2, <2>3 DEF SerialOf
<1>10. UnwantedFits'
  <2> SUFFICES ASSUME ~overlapped', ~rolledBack, ~want
               PROVE  /\ \A h \in Flows : /\ Sets(h)' => call'[h].conf.tun = "off"
                                          /\ ~Setting(h, {"send"})'
                      /\ \/ config = Null \/ config.tun = "off"
                         \/ \E h \in Flows : Sets(h)'
    BY <1>1 DEF UnwantedFits, coreVars, settings
  <2>1. \A h \in Flows : ~Setting(h, {"send"})'
    BY <1>6 DEF Setting, At2
  <2>2. \A h \in Flows : ~At2(h, {"update"}, {"begin"})
    BY <1>4, <1>7, <1>8 DEF At2
  <2> QED
    BY <1>2, <1>4, <2>1, <2>2 DEF SerialInv, UnwantedFits
<1>11. RestoreFits'
  <2> SUFFICES ASSUME ~overlapped', ~rolledBack
               PROVE  /\ \A h \in Flows : Forgets(h)'
                      /\ ~(isRunning /\ Closed /\ ~restarted /\ ~unprepared)
    BY <1>1, <1>3 DEF RestoreFits, coreVars, settings
  <2>1. \A h \in Flows : Forgets(h)'
    BY <1>6 DEF Forgets
  <2>2. ~Remakes(f)
    <3>1. flow[f].todo \notin Prepares
      BY <1>7, TodoHeads, TodoDistinct DEF Prepares
    <3> QED
      BY <1>7, <1>8, <3>1 DEF Remakes
  <2>3. \A h \in Flows : ~Remakes(h)
    BY <1>4, <2>2 DEF Remakes
  <2> QED
    BY <1>4, <2>1, <2>3 DEF SerialInv, RestoreFits
<1> QED
  BY <1>3, <1>9, <1>10, <1>11 DEF SerialInv

LEMMA UserTuns ==
  /\ \A conf \in UserConfs \union {DefaultConf} : conf.tun \in {"off", Tun}
  /\ DefaultConf.tun = "off"
<1>1. \A real \in BOOLEAN : ConfOf(real).tun \in {"off", Tun}
  BY ConfOfType
<1>2. DefaultConf.tun = "off"
  BY DEF DefaultConf
<1> QED
  BY <1>1, <1>2 DEF UserConfs

\* What a step of the core does to the TUN.
LEMMA CoreTuns ==
  ASSUME CoreInv, NoShutdown, ChoicesFit', TunsFit, NEW c \in Flows, CallStep(c)
  PROVE  TunsFit'
<1> USE DEF TunsFit
<1>0. config' = Null \/ config'.tun \in {"off", Tun}
  BY UserTuns DEF ChoicesFit
<1>1. CASE SetupConfig(c) \/ UpdateConfig(c)
  <2>1. UNCHANGED tunVars
    BY <1>1 DEF SetupConfig, UpdateConfig
  <2>2. config' = Null => config = Null
    <3>1. call[c].conf \in Conf
      BY InParts DEF Table, CallRecord, Flows
    <3>2. SetupConfig(c) => config' # Null
      BY <3>1, DefaultConfType, ConfNotNull DEF SetupConfig
    <3>3. UpdateConfig(c) /\ config # Null => config' # Null
      <4>1. CASE config = Null
        BY <4>1
      <4>2. CASE config # Null
        <5>1. config \in Conf
          BY <4>2, InParts DEF Shapes
        <5>2. Updated(call[c].conf) \in Conf
          BY <3>1, <5>1 DEF Updated, Conf
        <5> QED
          BY <4>2, <5>2, ConfNotNull DEF UpdateConfig
      <4> QED
        BY <4>1, <4>2
    <3> QED
      BY <1>1, <3>2, <3>3
  <2> QED
    BY <1>0, <2>1, <2>2 DEF tunVars
<1>2. CASE RecreateTun(c)
  <2>1. config # Null
    BY <1>2 DEF RecreateTun, At, CoreInv, RefreshFits, Flows
  <2> QED
    BY <1>2, <2>1 DEF RecreateTun, settings, tunVars
<1>3. CASE StopTun(c)
  BY <1>3 DEF StopTun, settings
<1>4. CASE \/ StartListener(c) \/ StopListener(c) \/ InnerLoading(c) \/ OnRunning(c) \/ Unlock(c)
           \/ PatchInboundListeners(c)
  BY <1>4
  DEF StartListener, StopListener, InnerLoading, OnRunning, Unlock, PatchInboundListeners,
      settings, tunVars
<1>5. CASE CheckMixed(c) \/ CompareMixed(c) \/ CloseMixed(c) \/ ClearMixed(c) \/ BindMixed(c)
  BY <1>5 DEF CheckMixed, CompareMixed, CloseMixed, ClearMixed, BindMixed, settings, tunVars
<1> QED
  BY <1>1, <1>2, <1>3, <1>4, <1>5 DEF CallStep

\* A step after which the core runs with a TUN closed behind ReCreateTun's back:
\* a start that is on its way there, or any step that left things as they were.
Restarts(c) ==
  Waiting(c) /\ call[c].kind = "start" /\ call'[c].kind = "start" /\ Recreating(c)'

Leaves(c) ==
  /\ isRunning
  /\ ~(Waiting(c) /\ call[c].kind = "start")
  /\ Recreating(c) /\ call[c].kind = "start" =>
       \/ Recreating(c)' /\ call'[c].kind = "start"
       \/ config # Null /\ config.tun = LastTunConf

LEMMA CoreCloses ==
  ASSUME CoreInv, AppliedInv, NoShutdown, TunsFit, NEW c \in Flows, CallStep(c),
         isRunning', Closed'
  PROVE  Closed /\ (Restarts(c) \/ Leaves(c))
<1> USE DEF Flows
<1>0. Table
  BY InParts
<1>1. CASE StartListener(c)
  <2>1. config # Null
    BY <1>1 DEF StartListener, Closed, TunsFit, tunVars
  <2>2. Goto(c, "patch") /\ Waiting(c) /\ call[c].kind = "start" /\ UNCHANGED tunVars
    BY <1>1, <2>1 DEF StartListener, RefreshFrom, Lock, At, Is, Waiting
  <2>3. call'[c].kind = "start" /\ call'[c].pc = "patch"
    BY <1>0, <2>2, GotoSeen
  <2> QED
    BY <2>2, <2>3 DEF Restarts, Recreating, Rebinding, Refreshing, Is, Closed, tunVars
<1>2. CASE SetupConfig(c) \/ UpdateConfig(c) \/ InnerLoading(c) \/ OnRunning(c)
  <2>1. UNCHANGED tunVars /\ isRunning' = isRunning
    BY <1>2 DEF SetupConfig, UpdateConfig, InnerLoading, OnRunning, settings
  <2>2. call[c].kind # "start"
    BY <1>2 DEF SetupConfig, UpdateConfig, InnerLoading, OnRunning, At, Is, CoreInv, KindsFit
  <2> QED
    BY <2>1, <2>2 DEF Leaves, Closed, tunVars
<1>3. CASE \/ PatchInboundListeners(c) \/ CheckMixed(c) \/ CompareMixed(c) \/ CloseMixed(c)
           \/ ClearMixed(c) \/ BindMixed(c)
  <2>1. UNCHANGED tunVars /\ isRunning' = isRunning /\ ~Waiting(c)
    BY <1>3
    DEF PatchInboundListeners, CheckMixed, CompareMixed, CloseMixed, ClearMixed, BindMixed,
        settings, At, Waiting
  <2>2. Recreating(c) /\ call[c].kind = "start" => Recreating(c)' /\ call'[c].kind = "start"
    <3> SUFFICES ASSUME call[c].kind = "start", Recreating(c)
                 PROVE  Recreating(c)' /\ call'[c].kind = "start"
      OBVIOUS
    <3>1. Refreshing(c)
      BY DEF Refreshing, Is
    <3>2. ASSUME NEW pc, Goto(c, pc),
                 pc \in {"check", "compare", "close", "clear", "bind", "tun"}
          PROVE  Recreating(c)' /\ call'[c].kind = "start"
      <4>1. call'[c].kind = "start" /\ call'[c].pc = pc
        BY <1>0, <3>2, GotoSeen
      <4> QED
        BY <3>2, <4>1 DEF Recreating, Rebinding, Refreshing, Is
    <3>3. CASE CheckMixed(c)
      <4>1. CASE mixed = 0
        BY <3>1, <3>2, <3>3, <4>1 DEF CheckMixed
      <4>2. CASE mixed # 0
        BY <3>1, <3>2, <3>3, <4>2 DEF CheckMixed
      <4> QED
        BY <4>1, <4>2
    <3>4. CASE CompareMixed(c) \/ CloseMixed(c)
      <4>1. CASE Panic
        BY <4>1 DEF Panic, Recreating, Rebinding, Refreshing, Is
      <4>2. CASE ~Panic
        BY <3>2, <3>4, <4>2 DEF CompareMixed, CloseMixed
      <4> QED
        BY <4>1, <4>2
    <3>5. CASE ClearMixed(c) \/ BindMixed(c) \/ PatchInboundListeners(c)
      BY <3>1, <3>2, <3>5 DEF ClearMixed, BindMixed, PatchInboundListeners
    <3> QED
      BY <1>3, <3>3, <3>4, <3>5
  <2> QED
    BY <2>1, <2>2 DEF Leaves, Closed, tunVars
<1>4. CASE RecreateTun(c)
  <2>1. config # Null /\ isRunning' = isRunning /\ ~Waiting(c)
    BY <1>4 DEF RecreateTun, At, CoreInv, RefreshFits, settings, Waiting
  <2>2. config.tun = LastTunConf /\ UNCHANGED tunVars
    BY <1>4, SessionAssumption DEF RecreateTun, Closed
  <2> QED
    BY <2>1, <2>2 DEF Leaves, Closed, tunVars
<1>5. CASE StopTun(c)
  <2>1. call[c].kind = "stop" /\ call[c].pc = "tun" /\ isRunning
    BY <1>5 DEF StopTun, At, Is, NoShutdown, settings
  <2> QED
    BY <2>1 DEF AppliedInv, StopsHold, StopAt
<1>6. CASE StopListener(c)
  BY <1>6 DEF StopListener
<1>7. CASE Unlock(c)
  BY <1>7 DEF Unlock, At, Leaves, Recreating, Rebinding, Waiting, Closed, settings, tunVars
<1> QED
  BY <1>1, <1>2, <1>3, <1>4, <1>5, <1>6, <1>7 DEF CallStep

LEMMA CoreSerial ==
  ASSUME Settled, FlowInv', CoreInv, AppliedInv, ChoicesFit', SerialInv, NEW c \in Flows,
         CallStep(c), UNCHANGED <<session, history>>
  PROVE  SerialInv'
<1> USE DEF Settled
<1>1. Seen(c) /\ TunsFit'
  BY CoreSeen, CoreTuns DEF SerialInv
<1>2. UNCHANGED <<flow, want, updateDue, realTun, stale, rolledBack, restarted, unprepared>>
  BY DEF session, history
<1>3. UnderWay(c) /\ Active(c)
  BY DEF CallStep, Active, UnderWay, StartListener, StopListener, SetupConfig, UpdateConfig,
     InnerLoading, OnRunning, PatchInboundListeners, CheckMixed, CompareMixed, CloseMixed,
     ClearMixed, BindMixed, RecreateTun, StopTun, Unlock, Lock, At
<1>4. \A g \in Flows :
        /\ SerialOf(g)' <=> SerialOf(g)
        /\ Busy(g)' <=> Busy(g)
        /\ Setting(g, {"send"})' <=> Setting(g, {"send"})
        /\ At2(g, {"update"}, {"begin"})' <=> At2(g, {"update"}, {"begin"})
  BY <1>2 DEF SerialOf, Setting, At2, Busy, Phase
<1>5. \A g \in Flows \ {c} : call'[g] = call[g]
  BY <1>1 DEF Seen
<1>6. UnderWay(c)' => call'[c].kind = call[c].kind
  BY <1>1 DEF Seen, Dies, Serves, Proceeds, UnderWay
<1>7. ~overlapped' => /\ ~overlapped /\ ~crossed /\ ~stale /\ SerialOf(c)
                      /\ Orphan(c) => call[c].kind \in {"setup", "update"}
                      /\ ~rolledBack => Forgets(c)
                      /\ \A g \in Flows \ {c} : /\ ~Busy(g) /\ ~UnderWay(g) /\ ~Waiting(g)
                                                /\ ~Busy(g)' /\ ~UnderWay(g)' /\ ~Sets(g)'
  <2>1. \A g \in Flows \ {c} : ~UnderWay(g) => ~UnderWay(g)' /\ ~Sets(g)'
    BY <1>5 DEF UnderWay, Sets, Waiting
  <2> QED
    BY <1>3, <1>4, <2>1, SerialBefore
<1>8. SerialFits'
  <2> SUFFICES ASSUME ~overlapped'
               PROVE  /\ ~crossed' /\ ~stale'
                      /\ \A g \in Flows : SerialOf(g)'
                                          /\ (Orphan(g)' => call'[g].kind \in {"setup", "update"})
    BY DEF SerialFits
  <2>1. \A g \in Flows \ {c} : ~Configures(g)' /\ ~UnderWay(g)'
    BY <1>7 DEF Configures, Configuring, In, Busy
  <2>2. ~Crossing'
    BY <2>1 DEF Crossing, Rivals
  <2>3. \A g \in Flows : Orphan(g)' => call'[g].kind \in {"setup", "update"}
    BY <1>3, <1>4, <1>6, <1>7 DEF Orphan
  <2> QED
    BY <1>2, <1>4, <1>7, <2>2, <2>3 DEF Counted, SerialInv, SerialFits
<1>9. UnwantedFits'
  <2> SUFFICES ASSUME ~overlapped', ~rolledBack, ~want
               PROVE  /\ \A g \in Flows : /\ Sets(g)' => call'[g].conf.tun = "off"
                                          /\ Setting(g, {"send"})' => ~flow[g].real
                      /\ \/ updateDue \/ config' = Null \/ config'.tun = "off"
                         \/ \E g \in Flows : Sets(g)' \/ At2(g, {"update"}, {"begin"})'
    BY <1>2 DEF UnwantedFits
  <2>0. /\ \A g \in Flows : /\ Sets(g) => call[g].conf.tun = "off"
                            /\ Setting(g, {"send"}) => ~flow[g].real
        /\ \/ updateDue \/ config = Null \/ config.tun = "off"
           \/ Sets(c) \/ At2(c, {"update"}, {"begin"})
    <3>1. \A g \in Flows \ {c} : ~Sets(g) /\ ~At2(g, {"update"}, {"begin"})
      BY <1>7 DEF Sets, At2
    <3> QED
      BY <1>7, <3>1 DEF SerialInv, UnwantedFits
  <2>1. CASE Dies \/ Proceeds(c)
    <3>1. UNCHANGED config /\ (Sets(c)' <=> Sets(c)) /\ (Sets(c) => call'[c] = call[c])
      BY <2>1 DEF Dies, Proceeds, settings, Sets, Waiting, UnderWay
    <3> QED
      BY <1>4, <1>7, <2>0, <3>1
  <2>2. CASE Serves(c)
    <3>1. ~Sets(c)'
      BY <2>2 DEF Serves, Sets, Waiting
    <3>2. CASE Sets(c)
      <4>1. call[c].conf.tun = "off" /\ call[c].conf \in Conf
        BY <2>0, <3>2 DEF Table, CallRecord, Flows
      <4>2. Updated(call[c].conf).tun = "off"
        BY <4>1 DEF Updated, Conf
      <4>3. config'.tun = "off"
        BY <2>2, <3>2, <4>1, <4>2, UserTuns DEF Serves, Sets
      <4> QED
        BY <1>4, <1>7, <2>0, <3>1, <4>3
    <3>3. CASE ~Sets(c)
      <4>1. config' = config
        BY <2>2, <3>3 DEF Serves, Sets, NoShutdown, Table, CallRecord, Kinds, Flows
      <4> QED
        BY <1>4, <1>7, <2>0, <3>1, <3>3, <4>1
    <3> QED
      BY <3>2, <3>3
  <2> QED
    BY <1>1, <2>1, <2>2 DEF Seen
<1>10. ~overlapped' /\ ~rolledBack' => Forgets(c)'
  <2> SUFFICES ASSUME ~overlapped, ~rolledBack, Forgets(c), Busy(c) PROVE Forgets(c)'
    BY <1>2, <1>4, <1>7 DEF Forgets
  <2>1. CASE Dies \/ Proceeds(c)
    <3>1. UNCHANGED config /\ (Waiting(c)' => Waiting(c) /\ call'[c] = call[c])
          /\ (Waiting(c) => Waiting(c)' /\ call'[c] = call[c])
      BY <2>1 DEF Dies, Proceeds, settings, Waiting
    <3> QED
      BY <1>2, <3>1 DEF Forgets, Busy, Phase
  <2>2. CASE Serves(c) /\ flow[c].todo \in Prepares
    <3>1. Waiting(c) /\ ~Waiting(c)' /\ call[c].kind = "setup" /\ flow[c].pc \in {"reply", "rollback"}
          /\ Phase(c) # "start"
      <4>1. Phase(c) \in {"quiet", "setup"}
        BY <2>2, TodoHeads DEF Prepares, Phase
      <4> QED
        BY <1>3, <2>2, <4>1 DEF Serves, Waiting, FlowInv, CallsFit, At2
    <3>2. flow[c].pc = "reply" => call[c].conf.tun = "off" /\ call[c].conf # Null
      <4>1. call[c].conf \in Conf
        BY DEF Table, CallRecord, Flows
      <4> QED
        BY <2>2, <3>1, <4>1, ConfNotNull DEF Forgets
    <3>3. DefaultConf # Null /\ DefaultConf.tun = "off"
      BY DefaultConfType, ConfNotNull, UserTuns
    <3> QED
      BY <1>2, <2>2, <3>1, <3>2, <3>3 DEF Serves, Forgets, Phase
  <2>3. CASE Serves(c) /\ flow[c].todo \notin Prepares
    <3>1. Phase(c) = "start" => config' = config
      BY <1>3, <2>3 DEF Serves, FlowInv, CallsFit, At2
    <3> QED
      BY <1>2, <2>3, <3>1 DEF Forgets, Busy, Phase
  <2> QED
    BY <1>1, <2>1, <2>2, <2>3 DEF Seen
<1>11. RestoreFits'
  <2> SUFFICES ASSUME ~overlapped', ~rolledBack'
               PROVE  /\ \A g \in Flows : Forgets(g)'
                      /\ isRunning' /\ Closed' /\ ~restarted' /\ ~unprepared' =>
                           \E g \in Flows : Remakes(g)'
    BY DEF RestoreFits
  <2>1. /\ ~overlapped /\ ~rolledBack /\ SerialOf(c) /\ Forgets(c)
        /\ \A g \in Flows \ {c} : ~Busy(g) /\ ~Busy(g)'
    BY <1>2, <1>7
  <2>2. \A g \in Flows : Forgets(g)'
    BY <1>10, <2>1 DEF Forgets
  <2> SUFFICES ASSUME isRunning', Closed', ~restarted, ~unprepared
               PROVE  Remakes(c)'
    BY <1>2, <2>2
  <2>3. Closed /\ (Restarts(c) \/ Leaves(c))
    BY CoreCloses DEF SerialInv
  <2>4. CASE Restarts(c)
    <3>1. Busy(c)
      BY <1>3, <1>7, <2>4 DEF Restarts, Orphan
    <3>2. At2(c, {"start"}, {"reply"}) \/ At2(c, {"restart"}, {"starting"})
      BY <1>3, <2>4, <3>1 DEF Restarts, FlowInv, CallsFit
    <3>3. ~At2(c, {"restart"}, {"starting"})
      BY <2>1, <3>1 DEF SerialOf, At2
    <3> QED
      BY <1>2, <2>4, <3>2, <3>3 DEF Restarts, Remakes, At2, Busy, Phase
  <2>5. CASE Leaves(c)
    <3>1. Remakes(c)
      <4>1. PICK g \in Flows : Remakes(g)
        BY <2>1, <2>3, <2>5 DEF SerialInv, RestoreFits, Leaves
      <4> QED
        BY <2>1, <4>1 DEF Remakes
    <3>2. CASE flow[c].todo \in Prepares \/ flow[c].pc = "begin"
      BY <1>2, <3>1, <3>2 DEF Remakes, Busy, Phase
    <3>3. CASE /\ Phase(c) = "start" /\ flow[c].pc = "reply" /\ call[c].kind = "start"
               /\ Recreating(c)
      <4>1. ~(config # Null /\ config.tun = LastTunConf)
        BY <2>1, <2>3, <3>1, <3>3 DEF Forgets, Remakes, Closed
      <4> QED
        BY <1>2, <2>5, <3>1, <3>3, <4>1 DEF Leaves, Remakes, Busy, Phase
    <3> QED
      BY <2>5, <3>1, <3>2, <3>3 DEF Remakes, Leaves
  <2> QED
    BY <2>3, <2>4, <2>5
<1> QED
  BY <1>1, <1>8, <1>9, <1>11 DEF SerialInv

LEMMA SessionInitSerial == SessionInit => AppliedInv /\ SerialInv
<1> SUFFICES ASSUME SessionInit PROVE AppliedInv /\ SerialInv
  OBVIOUS
<1>1. /\ \A f \in Flows : flow[f].todo = <<>> /\ call[f].pc = "idle"
      /\ isRunning = FALSE /\ config = Null /\ tun = "off" /\ LastTunConf = "off"
      /\ crossed = FALSE /\ stale = FALSE
  BY DEF SessionInit, CoreInit, NoFlow, NoCall, Flows
<1>2. TunsFit /\ SerialFits /\ RestoreFits
  BY <1>1 DEF TunsFit, SerialFits, SerialOf, Orphan, UnderWay, RestoreFits, Forgets, Busy
<1>3. UnwantedFits
  BY <1>1 DEF UnwantedFits, Sets, Waiting, Setting, At2, Busy
<1> QED
  BY <1>2, <1>3, AppliedInit DEF SessionInit, SerialInv

LEMMA SerialNext ==
  ASSUME CoreInv, SessionInv, FlowInv, FlowInv', ConfigInv, ConfigInv', AppliedInv, SerialInv,
         [SessionNext]_sessionVars
  PROVE  SerialInv'
<1>1. CASE SessionNext
  <2>1. Settled
    BY <1>1, InParts, SessionSteps DEF SessionInv, Settled
  <2>2. ASSUME NEW f \in Flows, StepOf(f) PROVE SerialInv'
    <3>1. CASE Start(f) \/ Request(f) \/ UpdateClashConfig(f)
      BY <2>1, <3>1, StartSerial, RequestSerial
    <3>2. CASE FlowStep(f)
      <4>1. CASE RequestAdmin(f) \/ AuthorizeCore(f) \/ SendSetup(f) \/ SetupReplied(f)
        BY <2>1, <4>1, TunSerial, SendSetupSerial, SetupRepliedSerial
      <4>2. CASE PhaseReplied(f) \/ StopReplied(f) \/ StartPhase(f) \/ StopPhase(f)
        BY <2>1, <4>2, RepliedSerial, RunSerial
      <4>3. CASE RestartCore(f) \/ RestartStopped(f) \/ RestartResume(f) \/ RestartStarted(f)
        BY <2>1, <4>3, RestartSerial
      <4>4. CASE PhaseFails(f) \/ InvokeTimesOut(f)
        BY <2>1, <4>4, FailsSerial, TimesOutSerial
      <4> QED
        BY <3>2, <4>1, <4>2, <4>3, <4>4 DEF FlowStep
    <3>3. CASE CallStep(f) /\ UNCHANGED <<session, history>>
      BY <2>1, <3>3, CoreSerial DEF ConfigInv
    <3> QED
      BY <2>2, <3>1, <3>2, <3>3 DEF StepOf
  <2>3. CASE ToggleTun \/ UpdateRunTime
    BY <2>1, <2>3, OutsideSerial
  <2> QED
    BY <1>1, <2>2, <2>3, SessionSteps
<1>2. CASE UNCHANGED sessionVars
  <2>1. UNCHANGED <<session, history, crossings, coreVars>>
    BY <1>2 DEF sessionVars, vars
  <2>2. \A g \in Flows :
          /\ SerialOf(g)' <=> SerialOf(g)
          /\ Orphan(g)' <=> Orphan(g)
          /\ Sets(g)' <=> Sets(g)
          /\ Setting(g, {"send"})' <=> Setting(g, {"send"})
          /\ At2(g, {"update"}, {"begin"})' <=> At2(g, {"update"}, {"begin"})
          /\ Forgets(g)' <=> Forgets(g)
          /\ Remakes(g)' <=> Remakes(g)
    BY <2>1 DEF session, history, coreVars, settings, SerialOf, Orphan, UnderWay, Sets, Forgets,
       Remakes, Setting, At2, Busy, Phase, Waiting, Recreating, Rebinding, Refreshing, Is
  <2>3. TunsFit' /\ (Closed' <=> Closed) /\ isRunning' = isRunning
    BY <2>1 DEF SerialInv, TunsFit, Closed, coreVars, settings, tunVars
  <2>4. SerialFits' /\ RestoreFits'
    BY <2>1, <2>2, <2>3 DEF SerialInv, SerialFits, RestoreFits, session, history, crossings, coreVars
  <2>5. UnwantedFits'
    BY <2>1, <2>2
    DEF SerialInv, UnwantedFits, session, history, crossings, coreVars, settings
  <2> QED
    BY <2>3, <2>4, <2>5 DEF SerialInv
<1> QED
  BY <1>1, <1>2

LEMMA SerialInvariant == SessionSpec => [](FlowInv /\ AppliedInv /\ SerialInv)
<1> DEFINE Inv == CoreInv /\ SessionInv /\ FlowInv /\ ConfigInv /\ AppliedInv /\ SerialInv
<1>1. SessionInit => Inv
  BY SessionInitInv, SessionInitFlows, SessionInitSerial
<1>2. Inv /\ [SessionNext]_sessionVars => Inv'
  BY SessionStep, NextInv, FlowNext, ConfigNext, AppliedNext, SerialNext
<1>3. Inv => FlowInv /\ AppliedInv /\ SerialInv
  OBVIOUS
<1> HIDE DEF Inv
<1> QED
  BY <1>1, <1>2, <1>3, PTL DEF SessionSpec

\* A session whose flows come one after the other has its TUN whenever it is
\* started, also after a stop closed it behind ReCreateTun's back: the start
\* sets the core up without the TUN before (_quickSetupConfig, _fastStart).
\* Only if an error keeps that setup from the core is the TUN forgotten.
THEOREM StartBringsTun == SessionSpec => []StartRestoresTun
<1>1. FlowInv /\ AppliedInv /\ SerialInv => StartRestoresTun
  <2> SUFFICES ASSUME FlowInv, AppliedInv, SerialInv, ~restarted, ~unprepared, Quiet,
                      ~overlapped, ~rolledBack, isRunning, LastTunConf # "off"
               PROVE  tun = Tun
    BY DEF StartRestoresTun, TunWhileRunning
  <2>1. \A f \in Flows : ~Remakes(f)
    BY QuietFacts DEF Remakes
  <2>2. tun # "off"
    BY <2>1 DEF SerialInv, RestoreFits, Closed
  <2> QED
    BY <2>2 DEF AppliedInv, TunRemembered, SerialInv, TunsFit
<1> QED
  BY <1>1, SerialInvariant, PTL
=============================================================================
