------------------------ MODULE CoreListenersProofs -------------------------
(***************************************************************************)
(* The listeners of the core for any number of actions, ports and TUN      *)
(* configurations: as long as no shutdown ran beside another action, a     *)
(* stopped core has neither a mixed port nor a TUN, no socket is ever      *)
(* lost, and nothing but an update without a configuration ends the        *)
(* process; a running core has the port, the inbound listener and the TUN  *)
(* of the configuration it was given last.                                 *)
(***************************************************************************)
EXTENDS CoreListeners, TLAPS

Acting(c) == call[c].pc \notin {"idle", "lock"}

StopAt(c) == call[c].kind = "stop" /\ call[c].pc \in {"check", "close", "clear", "tun"}

\* Which kinds of action come to which places.
KindsFit ==
  \A c \in Calls :
    /\ call[c].pc \in {"load", "inner"} => call[c].kind = "setup"
    /\ call[c].pc \in {"patch", "compare", "bind"} => Refreshing(c)
    /\ call[c].pc \in {"lock", "unlock"} => call[c].kind # "shutdown"

\* runLock is held by whoever acts and does not shut down.
LockFits ==
  alive => \A c \in Calls : runLock = c <=> Acting(c) /\ call[c].kind # "shutdown"

\* Without a race one action acts at a time.
Alone == alive /\ ~raced => \A c, d \in Calls : Acting(c) /\ Acting(d) => c = d

\* An open socket is that of the mixed listener, but while it is replaced.
SocketsFit ==
  ~raced =>
    /\ (\A c \in Calls : call[c].pc # "clear") => open \subseteq {mixed} \ {0}
    /\ \A c \in Calls :
         /\ call[c].pc \in {"clear", "bind"} => open = {}
         /\ call[c].pc \in {"close", "compare"} => mixed # 0
         /\ call[c].pc = "bind" => mixed = 0 \/ mixed = config.mixed
         /\ call[c].pc = "tun" /\ ~Refreshing(c) => mixed = 0

\* The listeners are refreshed only in a running core that has a configuration.
RefreshFits ==
  \A c \in Calls :
    call[c].pc \in {"patch", "check", "compare", "close", "clear", "bind", "tun"}
    /\ Refreshing(c)
      => isRunning /\ config # Null

\* Who stopped the core closes everything.
StoppedFits ==
  ~raced /\ ~isRunning /\ (\A c \in Calls : ~StopAt(c)) => mixed = 0 /\ tun = "off"

\* A setup that is past PatchTunnel left only tunnel listeners it asked for.
TunnelsFit ==
  (\A c \in Calls : call[c].pc # "load") =>
    tunnels \subseteq (IF config = Null THEN {} ELSE config.tunnels)

\* An inbound listener with a socket has its entry; one without could not be
\* opened.
InboundOwned ==
  /\ inboundUp => inbound # "none"
  /\ inbound # "none" => inboundUp \/ inboundLost

LoadFits == \A c \in Calls : call[c].pc = "load" => config # Null

ProfileFits == TunnelsFit /\ InboundOwned /\ LoadFits

Unraced == raced \/ ~Racing

CoreInv ==
  /\ TypeOK /\ KindsFit /\ LockFits /\ Unraced /\ Alone
  /\ SocketsFit /\ RefreshFits /\ StoppedFits /\ ProfileFits /\ DiesOnlyEarly

-----------------------------------------------------------------------------
(* Types.                                                                  *)

Flags ==
  /\ isRunning \in BOOLEAN /\ mixedLost \in BOOLEAN /\ tunStopped \in BOOLEAN
  /\ inboundUp \in BOOLEAN /\ inboundLost \in BOOLEAN
  /\ dozing \in BOOLEAN /\ raced \in BOOLEAN /\ alive \in BOOLEAN

Shapes ==
  /\ config \in Conf \union {Null}
  /\ runLock \in Calls \union {Null}
  /\ mixed \in Ports \union {0}
  /\ open \subseteq Ports
  /\ inbound \in Inbounds \union {"none"}
  /\ tunnels \subseteq Tunnels
  /\ tun \in Tuns \union {"off"}
  /\ LastTunConf \in Tuns \union {"off"}
  /\ status \in {"suspend", "inner", "running"}

Table == call \in [Calls -> CallRecord]

LEMMA TypeOKInParts == TypeOK <=> Flags /\ Shapes /\ Table
BY Zenon DEF TypeOK, Flags, Shapes, Table

\* What a step of c does to the table: c moves to pc, the others stay.
Moves(c, kind, pc) ==
  /\ Table'
  /\ \A d \in Calls \ {c} : call'[d] = call[d]
  /\ call'[c].kind = kind /\ call'[c].pc = pc

LEMMA DefaultConfType == DefaultConf \in Conf
BY DEF DefaultConf, Conf

LEMMA UpdatedType ==
  ASSUME config \in Conf, NEW conf \in Conf
  PROVE  /\ Updated(conf) \in Conf
         /\ Updated(conf).tunnels = config.tunnels /\ Updated(conf).inbound = config.inbound
BY DEF Updated, Conf

LEMMA NoCallType == NoCall \in CallRecord
BY DefaultConfType DEF NoCall, CallRecord, Kinds, Pcs

LEMMA GotoMoves ==
  ASSUME Table, NEW c \in Calls, NEW pc \in Pcs, Goto(c, pc)
  PROVE  Moves(c, call[c].kind, pc)
BY DEF Table, Goto, Moves, CallRecord

LEMMA FinishMoves ==
  ASSUME Table, NEW c \in Calls, Finish(c)
  PROVE  Moves(c, "stop", "idle")
<1>1. call' = [call EXCEPT ![c] = NoCall]
  BY DEF Finish
<1>2. NoCall.kind = "stop" /\ NoCall.pc = "idle"
  BY DEF NoCall
<1> QED
  BY <1>1, <1>2, NoCallType DEF Table, Moves

LEMMA ArriveMoves ==
  ASSUME Table, NEW c \in Calls, NEW kind \in Kinds, NEW conf \in Conf, NEW ok \in BOOLEAN,
         Spawn(c, kind, conf, ok)
  PROVE  Moves(c, kind, IF kind = "shutdown" THEN "check" ELSE "lock")
<1> DEFINE pc == IF kind = "shutdown" THEN "check" ELSE "lock"
           new == [kind |-> kind, conf |-> conf, ok |-> ok, pc |-> pc]
<1>1. new \in CallRecord
  BY DEF CallRecord, Pcs
<1>2. new.kind = kind /\ new.pc = pc
  OBVIOUS
<1>3. call' = [call EXCEPT ![c] = new]
  BY DEF Spawn
<1> HIDE DEF new
<1> QED
  BY <1>1, <1>2, <1>3 DEF Table, Moves

LEMMA StayMoves ==
  ASSUME Table, NEW c \in Calls, UNCHANGED call
  PROVE  Moves(c, call[c].kind, call[c].pc)
BY DEF Table, Moves

LEMMA InitInv == CoreInit => CoreInv
<1> SUFFICES ASSUME CoreInit PROVE CoreInv
  OBVIOUS
<1>1. /\ \A c \in Calls : call[c] = NoCall
      /\ Table
  BY NoCallType DEF CoreInit, Table
<1>2. NoCall.kind = "stop" /\ NoCall.pc = "idle"
  BY DEF NoCall
<1>3. Flags /\ Shapes
  <2>1. Flags
    BY Zenon DEF CoreInit, Flags
  <2>2. Shapes
    BY DEF CoreInit, Shapes
  <2> QED
    BY <2>1, <2>2
<1>4. TypeOK
  BY <1>1, <1>3, TypeOKInParts
<1>5. \A c \in Calls : runLock # c
  BY CoreAssumption DEF CoreInit
<1>6. KindsFit /\ LockFits /\ Unraced /\ Alone /\ RefreshFits
  BY <1>1, <1>2, <1>5
  DEF KindsFit, LockFits, Acting, Unraced, Racing, ShuttingDown, UnderWay, Alone, RefreshFits
<1>7. SocketsFit /\ StoppedFits /\ ProfileFits /\ DiesOnlyEarly
  BY <1>1, <1>2 DEF CoreInit, SocketsFit, StoppedFits, ProfileFits, TunnelsFit, InboundOwned,
     LoadFits, DiesOnlyEarly
<1> QED
  BY <1>4, <1>6, <1>7 DEF CoreInv

-----------------------------------------------------------------------------
(* Mutual exclusion.                                                       *)

\* Two actions act at a time only when one of them is a shutdown: a race.
LEMMA AloneFollows ==
  LockFits /\ Unraced => Alone
<1> SUFFICES ASSUME LockFits, Unraced, alive, ~raced, NEW c \in Calls, NEW d \in Calls,
                    Acting(c), Acting(d), c # d
             PROVE  FALSE
  BY DEF Alone
<1>1. CASE call[c].kind = "shutdown"
  BY <1>1, CoreAssumption
  DEF LockFits, Unraced, Racing, ShuttingDown, Beside, UnderWay, Acting, Is
<1>2. CASE call[d].kind = "shutdown"
  BY <1>2, CoreAssumption
  DEF LockFits, Unraced, Racing, ShuttingDown, Beside, UnderWay, Acting, Is
<1>3. CASE call[c].kind # "shutdown" /\ call[d].kind # "shutdown"
  BY <1>3 DEF LockFits
<1> QED
  BY <1>1, <1>2, <1>3

LEMMA UnracedNext ==
  raced' = (raced \/ Racing') => Unraced' /\ (raced => raced')
BY Zenon DEF Unraced

\* Where the calls are and what kind they are: an action that keeps runLock.
LEMMA KeepsLock ==
  ASSUME LockFits, KindsFit, alive, NEW c \in Calls, NEW pc,
         Moves(c, call[c].kind, pc), UNCHANGED runLock, Acting(c),
         pc \in {"inner", "patch", "check", "compare", "close", "clear", "bind", "tun",
                "unlock"},
         pc = "inner" => call[c].kind = "setup",
         pc \in {"patch", "compare", "bind"} => Refreshing(c),
         pc = "unlock" => call[c].kind # "shutdown"
  PROVE  LockFits' /\ KindsFit'
<1>1. KindsFit'
  BY DEF KindsFit, Moves, Refreshing, Is
<1>2. LockFits'
  BY DEF LockFits, Moves, Acting
<1> QED
  BY <1>1, <1>2

LEMMA TakesLock ==
  ASSUME LockFits, KindsFit, alive, NEW c \in Calls, NEW pc, Lock(c),
         Moves(c, call[c].kind, pc),
         pc \in {"load", "patch", "check", "unlock"},
         pc = "load" => call[c].kind = "setup",
         pc = "patch" => Refreshing(c)
  PROVE  LockFits' /\ KindsFit'
<1>1. call[c].kind # "shutdown"
  BY DEF KindsFit, Lock, At
<1>2. KindsFit'
  BY <1>1 DEF KindsFit, Moves, Refreshing, Is
<1>3. LockFits'
  BY <1>1, CoreAssumption DEF LockFits, Moves, Acting, Lock
<1> QED
  BY <1>2, <1>3
-----------------------------------------------------------------------------
(* One lemma for each action.                                              *)

\* What is known of raced after a step, whatever the action.
RacedStep == Unraced' /\ (raced => raced') /\ raced' \in BOOLEAN

LEMMA Assemble ==
  ASSUME Flags', Shapes', Table', KindsFit', LockFits', Unraced',
         SocketsFit', RefreshFits', StoppedFits', ProfileFits', DiesOnlyEarly'
  PROVE  CoreInv'
<1>1. TypeOK'
  BY TypeOKInParts, PTL
<1>2. Alone'
  BY AloneFollows, PTL
<1> QED
  BY <1>1, <1>2 DEF CoreInv

LEMMA InParts == CoreInv => Flags /\ Shapes /\ Table
BY TypeOKInParts DEF CoreInv

\* Most actions leave the listeners of the profile and their configuration alone.
LEMMA ProfileByMove ==
  ASSUME ProfileFits, NEW c \in Calls, NEW kind, NEW pc, Moves(c, kind, pc),
         UNCHANGED <<config, profileVars>>, call[c].pc # "load", pc # "load"
  PROVE  ProfileFits'
BY DEF ProfileFits, TunnelsFit, InboundOwned, LoadFits, Moves, profileVars

LEMMA ConfNotNull == \A conf \in Conf : conf # Null
BY NullAssumption

LEMMA ArriveInv ==
  ASSUME CoreInv, RacedStep, NEW c \in Calls, Arrive(c)
  PROVE  CoreInv'
<1>1. PICK kind \in Kinds, conf \in Conf, ok \in BOOLEAN :
        /\ Spawn(c, kind, conf, ok)
        /\ UNCHANGED <<settings, runLock, sockets, profileVars, tunVars, status, dozing, alive>>
  BY DEF Arrive
<1>2. Moves(c, kind, IF kind = "shutdown" THEN "check" ELSE "lock")
  BY <1>1, ArriveMoves, InParts
<1>3. alive /\ call[c].pc = "idle"
  BY <1>1 DEF Spawn, UnderWay
<1> USE DEF settings, sockets, profileVars, tunVars
<1>4. Flags'
  BY <1>1, InParts, Zenon DEF Flags, RacedStep
<1>5. Shapes'
  BY <1>1, InParts DEF Shapes
<1>6. KindsFit'
  BY <1>2 DEF CoreInv, KindsFit, Moves, Refreshing, Is
<1>7. LockFits'
  BY <1>1, <1>2, <1>3 DEF CoreInv, LockFits, Moves, Acting
<1>8. SocketsFit'
  BY <1>1, <1>2, <1>3 DEF CoreInv, SocketsFit, Moves, Refreshing, Is, RacedStep
<1>9. RefreshFits'
  BY <1>1, <1>2 DEF CoreInv, RefreshFits, Moves, Refreshing, Is
<1>10. StoppedFits'
  BY <1>1, <1>2, <1>3 DEF CoreInv, StoppedFits, StopAt, Moves, RacedStep
<1>11. DiesOnlyEarly'
  BY <1>1, <1>3 DEF DiesOnlyEarly
<1>12. ProfileFits'
  BY <1>1, <1>2, <1>3, ProfileByMove DEF CoreInv
<1> QED
  BY <1>2, <1>4, <1>5, <1>6, <1>7, <1>8, <1>9, <1>10, <1>11, <1>12, Assemble DEF Moves, RacedStep

\* Actions that take runLock.

LEMMA StartListenerInv ==
  ASSUME CoreInv, RacedStep, NEW c \in Calls, StartListener(c)
  PROVE  CoreInv'
<1> USE DEF settings, sockets, profileVars, tunVars
<1>1. Moves(c, call[c].kind, RefreshFrom(TRUE, config))
  BY GotoMoves, InParts DEF StartListener, Pcs, RefreshFrom
<1>2. Flags'
  BY InParts, Zenon DEF Flags, RacedStep, StartListener
<1>3. Shapes'
  BY InParts DEF Shapes, StartListener, Lock, At
<1>4. LockFits' /\ KindsFit'
  <2>1. Refreshing(c)
    BY DEF StartListener, Refreshing, Is
  <2> QED
    BY <1>1, <2>1, TakesLock DEF CoreInv, StartListener, RefreshFrom, Lock, At
<1>5. SocketsFit'
  BY <1>1 DEF CoreInv, SocketsFit, Moves, Refreshing, Is, RacedStep, StartListener, Lock, At, RefreshFrom
<1>6. RefreshFits'
  BY <1>1 DEF CoreInv, RefreshFits, Moves, Refreshing, Is, StartListener, Lock, At, RefreshFrom
<1>7. StoppedFits'
  BY <1>1 DEF CoreInv, StoppedFits, StopAt, Moves, RacedStep, StartListener, Lock, At, RefreshFrom
<1>8. DiesOnlyEarly'
  BY DEF CoreInv, DiesOnlyEarly, RacedStep, StartListener, Lock, At
<1>9. ProfileFits'
  BY <1>1, ProfileByMove DEF CoreInv, StartListener, Lock, At, RefreshFrom
<1> QED
  BY <1>1, <1>2, <1>3, <1>4, <1>5, <1>6, <1>7, <1>8, <1>9, Assemble DEF Moves, RacedStep

LEMMA StopListenerInv ==
  ASSUME CoreInv, RacedStep, NEW c \in Calls, StopListener(c)
  PROVE  CoreInv'
<1> USE DEF settings, sockets, profileVars, tunVars
<1>1. Moves(c, call[c].kind, "check")
  BY GotoMoves, InParts DEF StopListener, Pcs
<1>2. Flags'
  BY InParts, Zenon DEF Flags, RacedStep, StopListener
<1>3. Shapes'
  BY InParts, CoreAssumption DEF Shapes, StopListener, Lock, At
<1>4. LockFits' /\ KindsFit'
  BY <1>1, TakesLock DEF CoreInv, StopListener, Lock, At
<1>5. SocketsFit'
  BY <1>1 DEF CoreInv, SocketsFit, Moves, Refreshing, Is, RacedStep, StopListener, Lock, At
<1>6. RefreshFits'
  BY <1>1, CoreAssumption DEF CoreInv, RefreshFits, Moves, Refreshing, Is, StopListener, Lock, At, LockFits, KindsFit, Acting
<1>7. StoppedFits'
  BY <1>1 DEF CoreInv, StoppedFits, StopAt, Moves, RacedStep, StopListener, Lock, At, Is
<1>8. DiesOnlyEarly'
  BY DEF CoreInv, DiesOnlyEarly, RacedStep, StopListener, Lock, At
<1>9. ProfileFits'
  BY <1>1, ProfileByMove DEF CoreInv, StopListener, Lock, At
<1> QED
  BY <1>1, <1>2, <1>3, <1>4, <1>5, <1>6, <1>7, <1>8, <1>9, Assemble DEF Moves, RacedStep

\* The configuration changes while nobody uses it.
LEMMA NobodyBinds ==
  ASSUME CoreInv, NEW c \in Calls, Lock(c)
  PROVE  \A d \in Calls : call[d].pc # "bind"
BY CoreAssumption DEF CoreInv, LockFits, KindsFit, Acting, Lock, At, Refreshing, Is

LEMMA SetupConfigInv ==
  ASSUME CoreInv, RacedStep, NEW c \in Calls, SetupConfig(c)
  PROVE  CoreInv'
<1> USE DEF settings, sockets, profileVars, tunVars
<1>0. config' \in Conf
  BY InParts, DefaultConfType DEF SetupConfig, Table, CallRecord
<1>1. Moves(c, call[c].kind, "load")
  BY GotoMoves, InParts DEF SetupConfig, Pcs
<1>2. Flags'
  BY InParts, Zenon DEF Flags, RacedStep, SetupConfig
<1>3. Shapes'
  BY InParts, <1>0, ConfNotNull DEF Shapes, SetupConfig, Lock, At
<1>4. LockFits' /\ KindsFit'
  BY <1>1, TakesLock DEF CoreInv, SetupConfig, Lock, At, Is
<1>5. SocketsFit'
  BY <1>1, NobodyBinds DEF CoreInv, SocketsFit, Moves, Refreshing, Is, RacedStep, SetupConfig,
     Lock, At
<1>6. RefreshFits'
  BY <1>1, <1>0, ConfNotNull DEF CoreInv, RefreshFits, Moves, Refreshing, Is, SetupConfig, Lock, At
<1>7. StoppedFits'
  BY <1>1 DEF CoreInv, StoppedFits, StopAt, Moves, RacedStep, SetupConfig, Lock, At
<1>8. DiesOnlyEarly'
  BY DEF CoreInv, DiesOnlyEarly, RacedStep, SetupConfig, Lock, At
<1>9. ProfileFits'
  BY <1>0, <1>1, ConfNotNull DEF CoreInv, ProfileFits, TunnelsFit, InboundOwned, LoadFits, Moves,
     SetupConfig
<1> QED
  BY <1>1, <1>2, <1>3, <1>4, <1>5, <1>6, <1>7, <1>8, <1>9, Assemble DEF Moves, RacedStep

LEMMA UpdateConfigInv ==
  ASSUME CoreInv, RacedStep, NEW c \in Calls, UpdateConfig(c)
  PROVE  CoreInv'
<1> USE DEF settings, sockets, profileVars, tunVars
<1>1. CASE config = Null
  <2>1. alive' = FALSE /\ UNCHANGED <<settings, sockets, profileVars, tunVars, status, dozing, call>>
    BY <1>1 DEF UpdateConfig
  <2>2. Moves(c, call[c].kind, call[c].pc)
    BY <2>1, StayMoves, InParts
  <2>3. Flags'
    BY <2>1, InParts, Zenon DEF Flags, RacedStep
  <2>4. Shapes' /\ KindsFit' /\ LockFits' /\ RefreshFits'
    BY <2>1, InParts DEF UpdateConfig, Lock, CoreInv, Shapes, KindsFit, LockFits, RefreshFits,
       Refreshing, Is
  <2>5. SocketsFit' /\ StoppedFits' /\ DiesOnlyEarly'
    BY <1>1, <2>1 DEF CoreInv, SocketsFit, StoppedFits, StopAt, DiesOnlyEarly, RacedStep,
       Refreshing, Is
  <2>6. ProfileFits'
    BY <2>1 DEF CoreInv, ProfileFits, TunnelsFit, InboundOwned, LoadFits
  <2> QED
    BY <2>2, <2>3, <2>4, <2>5, <2>6, Assemble DEF Moves, RacedStep
<1>2. CASE config # Null
  <2>1. /\ alive' = alive /\ config' = Updated(call[c].conf)
        /\ Goto(c, RefreshFrom(isRunning, config'))
        /\ UNCHANGED <<isRunning, sockets, profileVars, tunVars, status, dozing>>
        /\ Lock(c)
    BY <1>2 DEF UpdateConfig
  <2>2. config' \in Conf /\ config' # Null
    BY <1>2, <2>1, ConfNotNull, InParts, UpdatedType DEF Table, CallRecord, Shapes
  <2>3. Moves(c, call[c].kind, RefreshFrom(isRunning, config'))
    BY <2>1, GotoMoves, InParts DEF RefreshFrom, Pcs
  <2>4. Flags'
    BY <2>1, InParts, Zenon DEF Flags, RacedStep
  <2>5. Shapes'
    BY <2>1, <2>2, InParts DEF Shapes, Lock
  <2>6. LockFits' /\ KindsFit'
    <3>1. Refreshing(c)
      BY DEF UpdateConfig, Refreshing, Is
    <3> QED
      BY <2>1, <2>3, <3>1, TakesLock DEF CoreInv, RefreshFrom, Lock, At
  <2>7. SocketsFit' /\ RefreshFits'
    BY <2>1, <2>2, <2>3, NobodyBinds DEF CoreInv, SocketsFit, RefreshFits, Moves, Refreshing, Is, RacedStep,
       Lock, At, RefreshFrom
  <2>8. StoppedFits' /\ DiesOnlyEarly'
    BY <2>1, <2>3 DEF CoreInv, StoppedFits, StopAt, Moves, RacedStep, Lock, At, DiesOnlyEarly,
       UpdateConfig, Is
  <2>9. config'.tunnels = config.tunnels
    BY <2>1, <2>2, <1>2, InParts, UpdatedType DEF Table, CallRecord, Shapes
  <2>10. ProfileFits'
    BY <1>2, <2>1, <2>2, <2>3, <2>9 DEF CoreInv, ProfileFits, TunnelsFit, InboundOwned, LoadFits, Moves,
       Lock, At, RefreshFrom
  <2> QED
    BY <2>3, <2>4, <2>5, <2>6, <2>7, <2>8, <2>10, Assemble DEF Moves, RacedStep
<1> QED
  BY <1>1, <1>2

\* Actions of whoever holds runLock, or shuts down.

LEMMA InnerLoadingInv ==
  ASSUME CoreInv, RacedStep, NEW c \in Calls, InnerLoading(c)
  PROVE  CoreInv'
<1> USE DEF settings, sockets, profileVars, tunVars
<1>0. tunnels' \subseteq Tunnels /\ tunnels' \subseteq config.tunnels
  <2>1. config \in Conf
    BY InParts DEF CoreInv, ProfileFits, LoadFits, InnerLoading, At, Shapes
  <2> QED
    BY <2>1, InParts DEF InnerLoading, PatchTunnel, Shapes, Conf
<1>1. Moves(c, call[c].kind, "inner")
  BY GotoMoves, InParts DEF InnerLoading, Pcs
<1>2. Flags'
  BY InParts, Zenon DEF Flags, RacedStep, InnerLoading
<1>3. Shapes'
  BY InParts, <1>0 DEF Shapes, InnerLoading
<1>4. LockFits' /\ KindsFit'
  BY <1>1, KeepsLock DEF CoreInv, InnerLoading, At, Acting, KindsFit
<1>5. SocketsFit'
  BY <1>1 DEF CoreInv, SocketsFit, Moves, Refreshing, Is, RacedStep, InnerLoading, At
<1>6. RefreshFits'
  BY <1>1 DEF CoreInv, RefreshFits, Moves, Refreshing, Is, InnerLoading, At
<1>7. StoppedFits'
  BY <1>1 DEF CoreInv, StoppedFits, StopAt, Moves, RacedStep, InnerLoading, At
<1>8. DiesOnlyEarly'
  BY DEF CoreInv, DiesOnlyEarly, RacedStep, InnerLoading, At
<1>9. ProfileFits'
  BY <1>0, <1>1 DEF CoreInv, ProfileFits, TunnelsFit, InboundOwned, LoadFits, Moves, InnerLoading, At
<1> QED
  BY <1>1, <1>2, <1>3, <1>4, <1>5, <1>6, <1>7, <1>8, <1>9, Assemble DEF Moves, RacedStep

LEMMA OnRunningInv ==
  ASSUME CoreInv, RacedStep, NEW c \in Calls, OnRunning(c)
  PROVE  CoreInv'
<1> USE DEF settings, sockets, profileVars, tunVars
<1>1. Moves(c, call[c].kind, RefreshFrom(isRunning, config))
  BY GotoMoves, InParts DEF OnRunning, Pcs, RefreshFrom
<1>2. Flags'
  BY InParts, Zenon DEF Flags, RacedStep, OnRunning
<1>3. Shapes'
  BY InParts DEF Shapes, OnRunning
<1>4. LockFits' /\ KindsFit'
  <2>1. Refreshing(c) /\ call[c].kind # "shutdown"
    BY DEF CoreInv, KindsFit, OnRunning, At, Refreshing, Is
  <2>2. Acting(c) /\ alive /\ UNCHANGED runLock
    BY DEF OnRunning, At, Acting
  <2> QED
    BY <1>1, <2>1, <2>2, KeepsLock DEF CoreInv, RefreshFrom
<1>5. SocketsFit'
  BY <1>1 DEF CoreInv, SocketsFit, Moves, Refreshing, Is, RacedStep, OnRunning, At, RefreshFrom
<1>6. RefreshFits'
  BY <1>1 DEF CoreInv, RefreshFits, Moves, Refreshing, Is, OnRunning, At, RefreshFrom
<1>7. StoppedFits'
  BY <1>1 DEF CoreInv, StoppedFits, StopAt, Moves, RacedStep, OnRunning, At, KindsFit, RefreshFrom
<1>8. DiesOnlyEarly'
  BY DEF CoreInv, DiesOnlyEarly, RacedStep, OnRunning, At
<1>9. ProfileFits'
  BY <1>1, ProfileByMove DEF CoreInv, OnRunning, At, RefreshFrom
<1> QED
  BY <1>1, <1>2, <1>3, <1>4, <1>5, <1>6, <1>7, <1>8, <1>9, Assemble DEF Moves, RacedStep

\* An action that acts acts alone, or there was a race.
LEMMA OthersRest ==
  ASSUME CoreInv, alive, NEW c \in Calls, Acting(c)
  PROVE  ~raced => \A d \in Calls \ {c} : call[d].pc \in {"idle", "lock"}
BY DEF CoreInv, Alone, Acting

LEMMA PatchInboundInv ==
  ASSUME CoreInv, RacedStep, NEW c \in Calls, PatchInboundListeners(c)
  PROVE  CoreInv'
<1> USE DEF settings, sockets, tunVars
<1>1. Goto(c, "check") /\ alive /\ call[c].pc = "patch"
      /\ UNCHANGED <<settings, runLock, sockets, tunnels, tunVars, status, dozing, alive>>
  BY DEF PatchInboundListeners, At
<1>2. Refreshing(c) /\ config # Null
  BY <1>1 DEF CoreInv, KindsFit, RefreshFits
<1>3. /\ inbound' \in {inbound, config.inbound}
      /\ config.inbound \in Inbounds \union {"none"}
  BY <1>2, InParts DEF PatchInboundListeners, Shapes, Conf
<1>4. Moves(c, call[c].kind, "check")
  BY <1>1, GotoMoves, InParts DEF Pcs
<1>5. Flags'
  <2>1. inboundUp' \in BOOLEAN
    <3>1. \/ inboundUp' = inboundUp \/ inboundUp' = FALSE
          \/ inboundUp' = (config.inbound # "none")
      BY DEF PatchInboundListeners
    <3> QED
      BY <3>1, InParts, Zenon DEF Flags
  <2>2. inboundLost' \in BOOLEAN
    <3>1. inboundLost' = inboundLost \/ inboundLost' = FALSE \/ inboundLost' = TRUE
      BY DEF PatchInboundListeners
    <3> QED
      BY <3>1, InParts, Zenon DEF Flags
  <2> QED
    BY <1>1, <2>1, <2>2, InParts, Zenon DEF Flags, RacedStep
<1>6. Shapes'
  BY <1>1, <1>3, InParts DEF Shapes
<1>7. LockFits' /\ KindsFit'
  BY <1>1, <1>4, KeepsLock DEF CoreInv, Acting
<1>8. SocketsFit'
  BY <1>1, <1>4 DEF CoreInv, SocketsFit, Moves, Refreshing, Is, RacedStep
<1>9. RefreshFits'
  BY <1>1, <1>4 DEF CoreInv, RefreshFits, Moves, Refreshing, Is
<1>10. StoppedFits'
  BY <1>1, <1>2, <1>4 DEF CoreInv, StoppedFits, StopAt, Moves, RacedStep, Refreshing, Is
<1>11. DiesOnlyEarly'
  BY <1>1 DEF DiesOnlyEarly
<1>12. ProfileFits'
  <2>1. TunnelsFit' /\ LoadFits'
    BY <1>1, <1>4 DEF CoreInv, ProfileFits, TunnelsFit, LoadFits, Moves
  <2>2. InboundOwned
    BY DEF CoreInv, ProfileFits
  <2>3. InboundOwned'
    <3>1. CASE inbound' = inbound /\ inboundUp' = inboundUp /\ inboundLost' = inboundLost
      BY <2>2, <3>1, Zenon DEF InboundOwned
    <3>2. CASE inbound' = config.inbound /\ inboundUp' = (config.inbound # "none")
      BY <3>2, Zenon DEF InboundOwned
    <3>3. CASE inboundUp' = FALSE /\ inboundLost' = TRUE
      BY <3>3, Zenon DEF InboundOwned
    <3> QED
      BY <3>1, <3>2, <3>3 DEF PatchInboundListeners
  <2> QED
    BY <2>1, <2>3 DEF ProfileFits
<1> QED
  BY <1>4, <1>5, <1>6, <1>7, <1>8, <1>9, <1>10, <1>11, <1>12, Assemble DEF Moves, RacedStep

LEMMA CheckMixedInv ==
  ASSUME CoreInv, RacedStep, NEW c \in Calls, CheckMixed(c)
  PROVE  CoreInv'
<1> USE DEF settings, sockets, profileVars, tunVars
<1> DEFINE next == IF mixed = 0 THEN IF Refreshing(c) THEN "bind" ELSE "tun"
                                ELSE IF Refreshing(c) THEN "compare" ELSE "close"
<1>1. Goto(c, next) /\ alive /\ call[c].pc = "check"
      /\ UNCHANGED <<settings, runLock, mixed, open, profileVars, tunVars, status, dozing,
                     alive>>
  BY DEF CheckMixed, At
<1>2. next \in {"bind", "tun", "compare", "close"} /\ next \in Pcs
  BY DEF Pcs
<1>3. (next \in {"bind", "compare"} => Refreshing(c)) /\ (next = "close" => ~Refreshing(c))
  OBVIOUS
<1>4. (next \in {"bind", "tun"} => mixed = 0) /\ (next \in {"compare", "close"} => mixed # 0)
  OBVIOUS
<1> HIDE DEF next
<1>5. Moves(c, call[c].kind, next)
  BY <1>1, <1>2, GotoMoves, InParts
<1>6. Flags'
  <2>1. mixedLost' \in BOOLEAN
    BY Zenon DEF CheckMixed
  <2> QED
    BY <1>1, <2>1, InParts, Zenon DEF Flags, RacedStep
<1>7. Shapes'
  BY <1>1, InParts DEF Shapes
<1>8. LockFits' /\ KindsFit'
  BY <1>1, <1>2, <1>3, <1>5, KeepsLock DEF CoreInv, Acting
<1>9. SocketsFit'
  <2>1. ~raced => \A d \in Calls \ {c} : call[d].pc \in {"idle", "lock"}
    BY <1>1, OthersRest DEF Acting
  <2> QED
    BY <1>1, <1>2, <1>4, <1>5, <2>1 DEF CoreInv, SocketsFit, Moves, Refreshing, Is,
       RacedStep
<1>10. RefreshFits'
  BY <1>1, <1>2, <1>5 DEF CoreInv, RefreshFits, Moves, Refreshing, Is
<1>11. StoppedFits'
  BY <1>1, <1>2, <1>3, <1>5 DEF CoreInv, StoppedFits, StopAt, Moves, RacedStep, Refreshing, Is
<1>12. DiesOnlyEarly'
  BY <1>1 DEF DiesOnlyEarly
<1>13. ProfileFits'
  BY <1>1, <1>2, <1>5, ProfileByMove DEF CoreInv
<1> QED
  BY <1>5, <1>6, <1>7, <1>8, <1>9, <1>10, <1>11, <1>12, <1>13, Assemble DEF Moves, RacedStep

\* The process ends of a listener that is nil only after a race.
LEMMA PanicInv ==
  ASSUME CoreInv, RacedStep, NEW c \in Calls, alive, mixed = 0,
         call[c].pc \in {"compare", "close"}, Panic,
         UNCHANGED <<settings, runLock, mixed, profileVars, tunVars, status, dozing>>
  PROVE  CoreInv'
<1> USE DEF settings, sockets, profileVars, tunVars
<1>1. raced /\ raced'
  BY DEF CoreInv, SocketsFit, RacedStep
<1>2. /\ alive' = FALSE
      /\ UNCHANGED <<settings, runLock, sockets, profileVars, tunVars, status, dozing, call>>
  BY DEF Panic
<1>3. Moves(c, call[c].kind, call[c].pc)
  BY <1>2, StayMoves, InParts
<1>4. Flags'
  BY <1>2, InParts, Zenon DEF Flags, RacedStep
<1>5. Shapes' /\ KindsFit' /\ RefreshFits'
  BY <1>2, InParts DEF CoreInv, Shapes, KindsFit, RefreshFits, Refreshing, Is
<1>6. LockFits' /\ SocketsFit' /\ StoppedFits' /\ DiesOnlyEarly'
  BY <1>1, <1>2 DEF LockFits, SocketsFit, StoppedFits, DiesOnlyEarly
<1>7. ProfileFits'
  BY <1>2, <1>3, ProfileByMove DEF CoreInv
<1> QED
  BY <1>3, <1>4, <1>5, <1>6, <1>7, Assemble DEF Moves, RacedStep

LEMMA CompareMixedInv ==
  ASSUME CoreInv, RacedStep, NEW c \in Calls, CompareMixed(c)
  PROVE  CoreInv'
<1> USE DEF settings, sockets, profileVars, tunVars
<1>1. CASE mixed = 0
  BY <1>1, PanicInv DEF CompareMixed, At
<1>2. CASE mixed # 0
  <2> DEFINE next == IF mixed # config.mixed THEN "close"
                     ELSE IF mixed \in open THEN "tun" ELSE "bind"
  <2>1. Goto(c, next) /\ alive /\ call[c].pc = "compare"
        /\ UNCHANGED <<settings, runLock, sockets, profileVars, tunVars, status, dozing, alive>>
    BY <1>2 DEF CompareMixed, At
  <2>2. /\ next \in {"tun", "close", "bind"} /\ next \in Pcs
        /\ next = "bind" => mixed = config.mixed /\ mixed \notin open
    BY DEF Pcs
  <2> HIDE DEF next
  <2>3. Refreshing(c)
    BY <2>1 DEF CoreInv, KindsFit
  <2>4. Moves(c, call[c].kind, next)
    BY <2>1, <2>2, GotoMoves, InParts
  <2>5. Flags'
    BY <2>1, InParts, Zenon DEF Flags, RacedStep
  <2>6. Shapes'
    BY <2>1, InParts DEF Shapes
  <2>7. LockFits' /\ KindsFit'
    BY <2>1, <2>2, <2>3, <2>4, KeepsLock DEF CoreInv, Acting
  <2>8. SocketsFit'
    <3>1. ~raced => \A d \in Calls \ {c} : call[d].pc \in {"idle", "lock"}
      BY <2>1, OthersRest DEF Acting
    <3>2. ~raced => open \subseteq {mixed}
      BY <2>1, <3>1 DEF CoreInv, SocketsFit
    <3> QED
      BY <1>2, <2>1, <2>2, <2>3, <2>4, <3>1, <3>2
      DEF CoreInv, SocketsFit, Moves, Refreshing, Is, RacedStep
  <2>9. RefreshFits'
    BY <2>1, <2>2, <2>4 DEF CoreInv, RefreshFits, Moves, Refreshing, Is
  <2>10. StoppedFits'
    BY <2>1, <2>2, <2>3, <2>4
    DEF CoreInv, StoppedFits, StopAt, Moves, RacedStep, Refreshing, Is
  <2>11. DiesOnlyEarly'
    BY <2>1 DEF DiesOnlyEarly
  <2>12. ProfileFits'
    BY <2>1, <2>2, <2>4, ProfileByMove DEF CoreInv
  <2> QED
    BY <2>4, <2>5, <2>6, <2>7, <2>8, <2>9, <2>10, <2>11, <2>12, Assemble DEF Moves, RacedStep
<1> QED
  BY <1>1, <1>2

LEMMA CloseMixedInv ==
  ASSUME CoreInv, RacedStep, NEW c \in Calls, CloseMixed(c)
  PROVE  CoreInv'
<1> USE DEF settings, sockets, profileVars, tunVars
<1>1. CASE mixed = 0
  BY <1>1, PanicInv DEF CloseMixed, At
<1>2. CASE mixed # 0
  <2>1. Goto(c, "clear") /\ alive /\ call[c].pc = "close" /\ open' = open \ {mixed}
        /\ UNCHANGED <<settings, runLock, mixed, profileVars, tunVars, status, dozing, alive>>
    BY <1>2 DEF CloseMixed, At
  <2>2. ~raced => \A d \in Calls \ {c} : call[d].pc \in {"idle", "lock"}
    BY <2>1, OthersRest DEF Acting
  <2>3. ~raced => open' = {}
    BY <2>1, <2>2 DEF CoreInv, SocketsFit
  <2>4. Moves(c, call[c].kind, "clear")
    BY <2>1, GotoMoves, InParts DEF Pcs
  <2>5. Flags'
    <3>1. mixedLost' \in BOOLEAN
      BY <1>2, Zenon DEF CloseMixed
    <3> QED
      BY <2>1, <3>1, InParts, Zenon DEF Flags, RacedStep
  <2>6. Shapes'
    BY <2>1, InParts DEF Shapes
  <2>7. LockFits' /\ KindsFit'
    BY <2>1, <2>4, KeepsLock DEF CoreInv, Acting
  <2>8. SocketsFit'
    BY <2>1, <2>2, <2>3, <2>4 DEF SocketsFit, Moves, RacedStep
  <2>9. RefreshFits'
    BY <2>1, <2>4 DEF CoreInv, RefreshFits, Moves, Refreshing, Is
  <2>10. StoppedFits'
    BY <2>1, <2>4 DEF CoreInv, StoppedFits, StopAt, Moves, RacedStep
  <2>11. DiesOnlyEarly'
    BY <2>1 DEF DiesOnlyEarly
  <2>12. ProfileFits'
    BY <2>1, <2>4, ProfileByMove DEF CoreInv
  <2> QED
    BY <2>4, <2>5, <2>6, <2>7, <2>8, <2>9, <2>10, <2>11, <2>12, Assemble DEF Moves, RacedStep
<1> QED
  BY <1>1, <1>2

LEMMA ClearMixedInv ==
  ASSUME CoreInv, RacedStep, NEW c \in Calls, ClearMixed(c)
  PROVE  CoreInv'
<1> USE DEF settings, sockets, profileVars, tunVars
<1> DEFINE next == IF Refreshing(c) THEN "bind" ELSE "tun"
<1>1. Goto(c, next) /\ alive /\ call[c].pc = "clear" /\ mixed' = 0
      /\ UNCHANGED <<settings, runLock, open, mixedLost, profileVars, tunVars, status, dozing,
                     alive>>
  BY DEF ClearMixed, At
<1>2. next \in {"bind", "tun"} /\ next \in Pcs /\ (next = "bind" <=> Refreshing(c))
  BY DEF Pcs
<1> HIDE DEF next
<1>3. ~raced => \A d \in Calls \ {c} : call[d].pc \in {"idle", "lock"}
  BY <1>1, OthersRest DEF Acting
<1>4. Moves(c, call[c].kind, next)
  BY <1>1, <1>2, GotoMoves, InParts
<1>5. Flags'
  BY <1>1, InParts, Zenon DEF Flags, RacedStep
<1>6. Shapes'
  BY <1>1, InParts DEF Shapes
<1>7. LockFits' /\ KindsFit'
  BY <1>1, <1>2, <1>4, KeepsLock DEF CoreInv, Acting
<1>8. SocketsFit'
  BY <1>1, <1>2, <1>3, <1>4 DEF CoreInv, SocketsFit, Moves, RacedStep
<1>9. RefreshFits'
  BY <1>1, <1>2, <1>4 DEF CoreInv, RefreshFits, Moves, Refreshing, Is
<1>10. StoppedFits'
  BY <1>1, <1>2, <1>4
  DEF CoreInv, StoppedFits, StopAt, RefreshFits, Moves, RacedStep, Refreshing, Is
<1>11. DiesOnlyEarly'
  BY <1>1 DEF DiesOnlyEarly
<1>12. ProfileFits'
  BY <1>1, <1>2, <1>4, ProfileByMove DEF CoreInv
<1> QED
  BY <1>4, <1>5, <1>6, <1>7, <1>8, <1>9, <1>10, <1>11, <1>12, Assemble DEF Moves, RacedStep

LEMMA BindMixedInv ==
  ASSUME CoreInv, RacedStep, NEW c \in Calls, BindMixed(c)
  PROVE  CoreInv'
<1> USE DEF settings, sockets, profileVars, tunVars
<1>1. Goto(c, "tun") /\ alive /\ call[c].pc = "bind"
      /\ UNCHANGED <<settings, runLock, profileVars, tunVars, status, dozing, alive>>
  BY DEF BindMixed, At
<1>2. Refreshing(c) /\ isRunning /\ config # Null
  BY <1>1 DEF CoreInv, KindsFit, RefreshFits
<1>3. config.mixed \in Ports \union {0}
  BY <1>2, InParts DEF Shapes, Conf
<1>4. \/ UNCHANGED <<mixed, open>>
      \/ /\ config.mixed # 0 /\ mixed' = config.mixed
         /\ open' = open \union {config.mixed} \/ open' = open
      \/ mixed' = 0 /\ open' = open
  BY DEF BindMixed
<1>5. ~raced => /\ open = {}
                /\ \A d \in Calls \ {c} : call[d].pc \in {"idle", "lock"}
  <2>1. ~raced => \A d \in Calls \ {c} : call[d].pc \in {"idle", "lock"}
    BY <1>1, OthersRest DEF Acting
  <2> QED
    BY <1>1, <2>1 DEF CoreInv, SocketsFit
<1>6. ~raced => open' \subseteq {mixed'} \ {0}
  BY <1>4, <1>5
<1>7. Moves(c, call[c].kind, "tun")
  BY <1>1, GotoMoves, InParts DEF Pcs
<1>8. Flags'
  <2>1. mixedLost' \in BOOLEAN
    BY Zenon DEF BindMixed
  <2> QED
    BY <1>1, <2>1, InParts, Zenon DEF Flags, RacedStep
<1>9. Shapes'
  BY <1>1, <1>3, <1>4, InParts DEF Shapes
<1>10. LockFits' /\ KindsFit'
  BY <1>1, <1>7, KeepsLock DEF CoreInv, Acting
<1>11. SocketsFit'
  BY <1>1, <1>2, <1>5, <1>6, <1>7 DEF SocketsFit, Moves, RacedStep, Refreshing, Is
<1>12. RefreshFits'
  BY <1>1, <1>2, <1>7 DEF CoreInv, RefreshFits, Moves, Refreshing, Is
<1>13. StoppedFits' /\ DiesOnlyEarly'
  BY <1>1, <1>2 DEF StoppedFits, DiesOnlyEarly
<1>14. ProfileFits'
  BY <1>1, <1>7, ProfileByMove DEF CoreInv
<1> QED
  BY <1>7, <1>8, <1>9, <1>10, <1>11, <1>12, <1>13, <1>14, Assemble DEF Moves, RacedStep

LEMMA RecreateTunInv ==
  ASSUME CoreInv, RacedStep, NEW c \in Calls, RecreateTun(c)
  PROVE  CoreInv'
<1> USE DEF settings, sockets, profileVars, tunVars
<1>1. Goto(c, "unlock") /\ alive /\ call[c].pc = "tun" /\ Refreshing(c)
      /\ UNCHANGED <<settings, runLock, sockets, profileVars, status, dozing, alive>>
  BY DEF RecreateTun, At
<1>2. isRunning /\ config # Null
  BY <1>1 DEF CoreInv, RefreshFits
<1>3. tun' \in Tuns \union {"off"} /\ LastTunConf' \in Tuns \union {"off"}
  BY <1>2, InParts DEF RecreateTun, Shapes, Conf
<1>4. tunStopped' \in BOOLEAN
  <2>1. tunStopped' \in {tunStopped, FALSE}
    BY DEF RecreateTun
  <2> QED
    BY <2>1, InParts, Zenon DEF Flags
<1>5. Moves(c, call[c].kind, "unlock")
  BY <1>1, GotoMoves, InParts DEF Pcs
<1>6. Flags'
  BY <1>1, <1>4, InParts, Zenon DEF Flags, RacedStep
<1>7. Shapes'
  BY <1>1, <1>3, InParts DEF Shapes
<1>8. LockFits' /\ KindsFit'
  BY <1>1, <1>5, KeepsLock DEF CoreInv, Acting, Refreshing, Is
<1>9. SocketsFit'
  BY <1>1, <1>5 DEF CoreInv, SocketsFit, Moves, RacedStep, Refreshing, Is
<1>10. RefreshFits'
  BY <1>1, <1>5 DEF CoreInv, RefreshFits, Moves, Refreshing, Is
<1>11. StoppedFits' /\ DiesOnlyEarly'
  BY <1>1, <1>2 DEF StoppedFits, DiesOnlyEarly
<1>12. ProfileFits'
  BY <1>1, <1>5, ProfileByMove DEF CoreInv
<1> QED
  BY <1>5, <1>6, <1>7, <1>8, <1>9, <1>10, <1>11, <1>12, Assemble DEF Moves, RacedStep

LEMMA StopTunInv ==
  ASSUME CoreInv, RacedStep, NEW c \in Calls, StopTun(c)
  PROVE  CoreInv'
<1> USE DEF settings, sockets, profileVars, tunVars
<1>1. alive /\ call[c].pc = "tun" /\ ~Refreshing(c) /\ tun' = "off"
      /\ UNCHANGED <<settings, runLock, sockets, profileVars, LastTunConf, status, dozing,
                     alive>>
  BY DEF StopTun, At
<1>2. Flags'
  <2>1. tunStopped' \in BOOLEAN
    BY Zenon DEF StopTun
  <2> QED
    BY <1>1, <2>1, InParts, Zenon DEF Flags, RacedStep
<1>3. Shapes'
  BY <1>1, InParts DEF Shapes
<1>4. ~raced => mixed = 0
  BY <1>1 DEF CoreInv, SocketsFit
<1>5. StoppedFits'
  BY <1>1, <1>4 DEF StoppedFits, RacedStep
<1>6. DiesOnlyEarly'
  BY <1>1 DEF DiesOnlyEarly
<1>7. CASE call[c].kind = "stop" /\ Goto(c, "unlock")
  <2>1. Moves(c, call[c].kind, "unlock")
    BY <1>7, GotoMoves, InParts DEF Pcs
  <2>2. LockFits' /\ KindsFit'
    BY <1>1, <1>7, <2>1, KeepsLock DEF CoreInv, Acting
  <2>3. SocketsFit' /\ RefreshFits'
    BY <1>1, <2>1 DEF CoreInv, SocketsFit, RefreshFits, Moves, RacedStep, Refreshing, Is
  <2>4. ProfileFits'
    BY <1>1, <2>1, ProfileByMove DEF CoreInv
  <2> QED
    BY <1>2, <1>3, <1>5, <1>6, <2>1, <2>2, <2>3, <2>4, Assemble DEF Moves, RacedStep
<1>8. CASE call[c].kind = "shutdown" /\ Finish(c)
  <2>1. Moves(c, "stop", "idle")
    BY <1>8, FinishMoves, InParts
  <2>2. LockFits' /\ KindsFit'
    BY <1>1, <1>8, <2>1 DEF CoreInv, LockFits, KindsFit, Acting, Moves, Refreshing, Is
  <2>3. SocketsFit' /\ RefreshFits'
    BY <1>1, <2>1 DEF CoreInv, SocketsFit, RefreshFits, Moves, RacedStep, Refreshing, Is
  <2>4. ProfileFits'
    BY <1>1, <2>1, ProfileByMove DEF CoreInv
  <2> QED
    BY <1>2, <1>3, <1>5, <1>6, <2>1, <2>2, <2>3, <2>4, Assemble DEF Moves, RacedStep
<1> QED
  BY <1>7, <1>8 DEF StopTun, Is

LEMMA UnlockInv ==
  ASSUME CoreInv, RacedStep, NEW c \in Calls, Unlock(c)
  PROVE  CoreInv'
<1> USE DEF settings, sockets, profileVars, tunVars
<1>1. Finish(c) /\ alive /\ call[c].pc = "unlock" /\ runLock' = Null
      /\ UNCHANGED <<settings, sockets, profileVars, tunVars, status, dozing, alive>>
  BY DEF Unlock, At
<1>2. Moves(c, "stop", "idle")
  BY <1>1, FinishMoves, InParts
<1>3. Flags'
  BY <1>1, InParts, Zenon DEF Flags, RacedStep
<1>4. Shapes'
  BY <1>1, InParts DEF Shapes
<1>5. KindsFit'
  BY <1>2 DEF CoreInv, KindsFit, Moves, Refreshing, Is
<1>6. LockFits'
  <2>1. runLock = c
    BY <1>1 DEF CoreInv, LockFits, KindsFit, Acting
  <2> QED
    BY <1>1, <1>2, <2>1, CoreAssumption DEF CoreInv, LockFits, Acting, Moves
<1>7. SocketsFit' /\ RefreshFits'
  BY <1>1, <1>2 DEF CoreInv, SocketsFit, RefreshFits, Moves, RacedStep, Refreshing, Is
<1>8. StoppedFits'
  BY <1>1, <1>2 DEF CoreInv, StoppedFits, StopAt, Moves, RacedStep
<1>9. DiesOnlyEarly'
  BY <1>1 DEF DiesOnlyEarly
<1>10. ProfileFits'
  BY <1>1, <1>2, ProfileByMove DEF CoreInv
<1> QED
  BY <1>2, <1>3, <1>4, <1>5, <1>6, <1>7, <1>8, <1>9, <1>10, Assemble DEF Moves, RacedStep

LEMMA SuspendInv ==
  ASSUME CoreInv, RacedStep, NEW suspended \in BOOLEAN, Suspend(suspended)
  PROVE  CoreInv'
<1> USE DEF settings, sockets, profileVars, tunVars
<1>1. /\ alive /\ dozing' = suspended /\ status' \in {"suspend", "running"}
      /\ UNCHANGED <<settings, runLock, sockets, profileVars, tunVars, alive, call>>
  BY DEF Suspend
<1>2. Flags'
  BY <1>1, InParts, Zenon DEF Flags, RacedStep
<1>3. Shapes' /\ Table'
  BY <1>1, InParts DEF Shapes, Table
<1>4. KindsFit' /\ LockFits' /\ RefreshFits'
  BY <1>1 DEF CoreInv, KindsFit, LockFits, RefreshFits, Acting, Refreshing, Is
<1>5. SocketsFit' /\ StoppedFits' /\ DiesOnlyEarly'
  BY <1>1 DEF CoreInv, SocketsFit, StoppedFits, StopAt, DiesOnlyEarly, RacedStep, Refreshing, Is
<1>6. ProfileFits'
  BY <1>1 DEF CoreInv, ProfileFits, TunnelsFit, InboundOwned, LoadFits
<1> QED
  BY <1>2, <1>3, <1>4, <1>5, <1>6, Assemble DEF RacedStep

LEMMA StutterInv ==
  ASSUME CoreInv, UNCHANGED vars
  PROVE  CoreInv'
<1> USE DEF vars, coreVars, settings, sockets, profileVars, tunVars
<1>1. Flags'
  BY InParts, Zenon DEF Flags
<1>2. Shapes' /\ Table'
  BY InParts DEF Shapes, Table
<1>3. KindsFit' /\ LockFits' /\ RefreshFits'
  BY DEF CoreInv, KindsFit, LockFits, RefreshFits, Acting, Refreshing, Is
<1>4. Unraced'
  BY DEF CoreInv, Unraced, Racing, Beside, ShuttingDown, UnderWay, Is
<1>5. SocketsFit' /\ StoppedFits' /\ DiesOnlyEarly'
  BY DEF CoreInv, SocketsFit, StoppedFits, StopAt, DiesOnlyEarly, Refreshing, Is
<1>6. ProfileFits'
  BY DEF CoreInv, ProfileFits, TunnelsFit, InboundOwned, LoadFits
<1> QED
  BY <1>1, <1>2, <1>3, <1>4, <1>5, <1>6, Assemble

LEMMA NextInv == CoreInv /\ [Next]_vars => CoreInv'
<1> SUFFICES ASSUME CoreInv, [Next]_vars PROVE CoreInv'
  OBVIOUS
<1>1. CASE UNCHANGED vars
  BY <1>1, StutterInv
<1>2. CASE Next
  <2>1. RacedStep
    <3>1. raced' = (raced \/ Racing')
      BY <1>2 DEF Next
    <3>2. raced' \in BOOLEAN
      BY <3>1, Zenon
    <3> QED
      BY <3>1, <3>2, UnracedNext DEF RacedStep
  <2>2. ASSUME NEW suspended \in BOOLEAN, Suspend(suspended) PROVE CoreInv'
    BY <2>1, <2>2, SuspendInv
  <2>3. ASSUME NEW c \in Calls, Arrive(c) PROVE CoreInv'
    BY <2>1, <2>3, ArriveInv
  <2>4. ASSUME NEW c \in Calls, CallStep(c) PROVE CoreInv'
    <3>1. CASE StartListener(c)  BY <2>1, <3>1, StartListenerInv
    <3>2. CASE StopListener(c)   BY <2>1, <3>2, StopListenerInv
    <3>3. CASE SetupConfig(c)    BY <2>1, <3>3, SetupConfigInv
    <3>4. CASE UpdateConfig(c)   BY <2>1, <3>4, UpdateConfigInv
    <3>5. CASE InnerLoading(c)   BY <2>1, <3>5, InnerLoadingInv
    <3>6. CASE OnRunning(c)      BY <2>1, <3>6, OnRunningInv
    <3>7. CASE CheckMixed(c)     BY <2>1, <3>7, CheckMixedInv
    <3>8. CASE CompareMixed(c)   BY <2>1, <3>8, CompareMixedInv
    <3>9. CASE CloseMixed(c)     BY <2>1, <3>9, CloseMixedInv
    <3>10. CASE ClearMixed(c)    BY <2>1, <3>10, ClearMixedInv
    <3>11. CASE BindMixed(c)     BY <2>1, <3>11, BindMixedInv
    <3>12. CASE RecreateTun(c)   BY <2>1, <3>12, RecreateTunInv
    <3>13. CASE StopTun(c)       BY <2>1, <3>13, StopTunInv
    <3>14. CASE Unlock(c)        BY <2>1, <3>14, UnlockInv
    <3>15. CASE PatchInboundListeners(c)  BY <2>1, <3>15, PatchInboundInv
    <3> QED
      BY <2>4, <3>1, <3>2, <3>3, <3>4, <3>5, <3>6, <3>7, <3>8, <3>9, <3>10, <3>11, <3>12,
         <3>13, <3>14, <3>15, Zenon DEF CallStep
  <2> QED
    BY <1>2, <2>2, <2>3, <2>4, Zenon DEF Next, CoreStep
<1> QED
  BY <1>1, <1>2

-----------------------------------------------------------------------------
(* What follows.                                                           *)

\* Whatever the application sends, and in whatever order: the inductive
\* invariant holds throughout.
THEOREM CoreInvariant == Spec => []CoreInv
BY InitInv, NextInv, PTL DEF Spec

\* The variables keep their types.
THEOREM TypeCorrect == Spec => []TypeOK
<1>1. CoreInv => TypeOK
  BY DEF CoreInv
<1> QED
  BY <1>1, CoreInvariant, PTL

\* After stopListener neither the mixed port nor the TUN is left, whatever setups,
\* updates and starts took runLock before it or waited behind it; of the tunnel
\* listeners, which StopListener does not know, those of the last setup may be.
THEOREM StopCloses == Spec => []StoppedMeansClosed
<1>1. ASSUME CoreInv, AtRest, ~isRunning, ~raced
      PROVE  /\ mixed = 0 /\ open = {} /\ tun = "off"
             /\ tunnels \subseteq (IF config = Null THEN {} ELSE config.tunnels)
  <2>1. \A c \in Calls : call[c].pc \in {"idle", "lock"}
    BY <1>1, CoreAssumption DEF CoreInv, AtRest, LockFits, Acting, ShuttingDown, UnderWay, Is
  <2> QED
    BY <1>1, <2>1 DEF CoreInv, StoppedFits, StopAt, SocketsFit, ProfileFits, TunnelsFit
<1>2. CoreInv => StoppedMeansClosed
  BY <1>1 DEF StoppedMeansClosed
<1> QED
  BY <1>2, CoreInvariant, PTL

\* No socket is left open that the core has forgotten: StopListener finds in
\* mixedListener what it has to close, and PatchInboundListeners in the entry of
\* the inbound listener.
THEOREM NoSocketLost == Spec => []SocketsAreReachable
<1>1. ASSUME CoreInv, ~raced
      PROVE  open \subseteq {mixed} /\ (inboundUp => inbound # "none")
  <2>1. CASE \E c \in Calls : call[c].pc = "clear"
    BY <1>1, <2>1 DEF CoreInv, SocketsFit, ProfileFits, InboundOwned
  <2>2. CASE \A c \in Calls : call[c].pc # "clear"
    BY <1>1, <2>2 DEF CoreInv, SocketsFit, ProfileFits, InboundOwned
  <2> QED
    BY <2>1, <2>2
<1>2. CoreInv => SocketsAreReachable
  BY <1>1 DEF SocketsAreReachable
<1> QED
  BY <1>2, CoreInvariant, PTL

\* No use of mixedListener finds it nil but after a race, so that the process
\* survives everything except an update that comes before the first setup.
THEOREM NoPanic == Spec => []DiesOnlyEarly
<1>1. CoreInv => DiesOnlyEarly
  BY DEF CoreInv
<1> QED
  BY <1>1, CoreInvariant, PTL
-----------------------------------------------------------------------------
(* What a running core has.  CoreInv says when the listeners are closed;   *)
(* AppliedInv, which rests on it, what was made of the configuration.      *)

\* c has still to bring the mixed listener to the configuration.
Rebinding(c) ==
  /\ Refreshing(c)
  /\ call[c].pc \in {"load", "inner", "patch", "check", "compare", "close", "clear", "bind"}

\* c has still to bring the inbound listener to the configuration.
Patching(c) == Refreshing(c) /\ call[c].pc \in {"load", "inner", "patch"}

\* c has still to give ReCreateTun the configuration.
Recreating(c) == Rebinding(c) \/ (Refreshing(c) /\ call[c].pc = "tun")

Loading(c) == call[c].pc \in {"load", "inner"}

\* While a stop closes the listeners nothing starts them again.
StopsHold == \A c \in Calls : StopAt(c) => ~isRunning

\* Unless somebody is about to change it, the listener has the port of the
\* configuration and its socket, or there is none and that is known.
MixedFits ==
  ~raced /\ isRunning /\ config # Null /\ (\A c \in Calls : ~Rebinding(c)) =>
    \/ mixed = config.mixed /\ open = {mixed} \ {0}
    \/ mixedLost /\ open = {}

\* Likewise of the inbound listener.
InboundFits ==
  isRunning /\ config # Null /\ (\A c \in Calls : ~Patching(c)) =>
    inbound = config.inbound \/ inboundLost

\* The TUN is the one ReCreateTun remembers, or a stop closed it.
TunRemembered == tun = LastTunConf \/ (tun = "off" /\ tunStopped)

\* Likewise of the TUN and the configuration.
TunFits ==
  ~Android /\ isRunning /\ config # Null /\ (\A c \in Calls : ~Recreating(c)) =>
    \/ tun = config.tun
    \/ tun = "off" /\ (LastTunConf # config.tun \/ tunStopped)

\* Only a setup that is loading and a doze keep a configured tunnel from
\* handling connections.
StatusFits ==
  config # Null /\ ~dozing /\ (\A c \in Calls : ~Loading(c)) => status = "running"

AppliedInv == StopsHold /\ MixedFits /\ InboundFits /\ TunRemembered /\ TunFits /\ StatusFits

\* What AppliedInv reads of the state, so that a step that leaves it alone need
\* only say where the actions are.
appliedTo == <<settings, sockets, tunVars>>

inboundVars == <<inbound, inboundUp, inboundLost>>

LEMMA AppliedInit == CoreInit => AppliedInv
BY DEF CoreInit, NoCall, AppliedInv, StopsHold, StopAt, MixedFits, InboundFits,
   TunRemembered, TunFits, StatusFits

\* A step that changes neither settings nor listeners keeps AppliedInv if nobody
\* comes to rest too early by it.
LEMMA AppliedByMove ==
  ASSUME AppliedInv, RacedStep, NEW c \in Calls, NEW kind, NEW pc, Moves(c, kind, pc),
         UNCHANGED appliedTo,
         StopAt(c)' => StopAt(c) \/ ~isRunning,
         Rebinding(c) => Rebinding(c)' \/ ~isRunning \/ config = Null
           \/ raced \/ (mixed = config.mixed /\ open = {mixed} \ {0})
           \/ (mixedLost /\ open = {}),
         Recreating(c) => Recreating(c)' \/ ~isRunning \/ config = Null
  PROVE  StopsHold' /\ MixedFits' /\ TunRemembered' /\ TunFits'
<1> USE DEF appliedTo, settings, sockets, tunVars, AppliedInv, Moves
<1>1. StopsHold'
  BY DEF StopsHold, StopAt
<1>2. \A d \in Calls \ {c} : /\ Rebinding(d)' <=> Rebinding(d)
                             /\ Recreating(d)' <=> Recreating(d)
  BY DEF Recreating, Rebinding, Refreshing, Is
<1>3. MixedFits'
  BY <1>2 DEF MixedFits, RacedStep
<1>4. TunRemembered'
  BY DEF TunRemembered
<1>5. TunFits'
  BY <1>2 DEF TunFits
<1> QED
  BY <1>1, <1>3, <1>4, <1>5

\* The status likewise.
LEMMA StatusByMove ==
  ASSUME AppliedInv, NEW c \in Calls, NEW kind, NEW pc, Moves(c, kind, pc),
         UNCHANGED <<status, dozing>>, config' # Null => config # Null,
         Loading(c) => Loading(c)'
  PROVE  StatusFits'
BY DEF AppliedInv, StatusFits, Loading, Moves

\* The inbound listener likewise.
LEMMA InboundByMove ==
  ASSUME AppliedInv, NEW c \in Calls, NEW kind, NEW pc, Moves(c, kind, pc),
         UNCHANGED <<settings, inboundVars>>, ~Patching(c) \/ Patching(c)' \/ ~isRunning
           \/ config = Null
  PROVE  InboundFits'
<1>1. \A d \in Calls \ {c} : Patching(d)' <=> Patching(d)
  BY DEF Patching, Refreshing, Is, Moves
<1> QED
  BY <1>1 DEF AppliedInv, InboundFits, settings, inboundVars

LEMMA ArriveApplied ==
  ASSUME CoreInv, AppliedInv, RacedStep, NEW c \in Calls, Arrive(c)
  PROVE  AppliedInv'
<1>1. PICK kind \in Kinds, conf \in Conf, ok \in BOOLEAN :
        /\ Spawn(c, kind, conf, ok)
        /\ UNCHANGED <<settings, runLock, sockets, profileVars, tunVars, status, dozing, alive>>
  BY DEF Arrive
<1>2. Moves(c, kind, IF kind = "shutdown" THEN "check" ELSE "lock")
  BY <1>1, ArriveMoves, InParts
<1>3. call[c].pc = "idle"
  BY <1>1 DEF Spawn, UnderWay
<1>4. StopsHold' /\ MixedFits' /\ TunRemembered' /\ TunFits'
  BY <1>1, <1>2, <1>3, AppliedByMove
  DEF Moves, appliedTo, sockets, StopAt, Rebinding, Recreating
<1>5. StatusFits'
  BY <1>1, <1>2, <1>3, StatusByMove DEF settings, Loading
<1>6. InboundFits'
  BY <1>1, <1>2, <1>3, InboundByMove DEF profileVars, inboundVars, Patching
<1> QED
  BY <1>4, <1>5, <1>6 DEF AppliedInv

LEMMA StartListenerApplied ==
  ASSUME CoreInv, AppliedInv, RacedStep, NEW c \in Calls, StartListener(c)
  PROVE  AppliedInv'
<1>1. Moves(c, "start", RefreshFrom(TRUE, config))
  BY GotoMoves, InParts DEF StartListener, Pcs, RefreshFrom, Is
<1>2. /\ call[c].pc = "lock" /\ alive /\ runLock = Null
      /\ UNCHANGED <<config, sockets, profileVars, tunVars, status, dozing>>
  BY DEF StartListener, Lock, At
<1>3. StopsHold'
  <2>1. \A d \in Calls : ~StopAt(d)
    BY <1>2, CoreAssumption DEF CoreInv, LockFits, Acting, StopAt
  <2> QED
    BY <1>1, <2>1 DEF StopsHold, StopAt, Moves
<1>4. config # Null => Rebinding(c)' /\ Recreating(c)' /\ Patching(c)'
  BY <1>1 DEF Moves, Patching, Rebinding, Recreating, Refreshing, Is, RefreshFrom
<1>5. MixedFits' /\ TunFits' /\ InboundFits'
  BY <1>2, <1>4 DEF MixedFits, TunFits, InboundFits
<1>6. TunRemembered' /\ StatusFits'
  BY <1>1, <1>2, StatusByMove DEF AppliedInv, TunRemembered, tunVars, Loading
<1> QED
  BY <1>3, <1>5, <1>6 DEF AppliedInv

LEMMA StopListenerApplied ==
  ASSUME CoreInv, AppliedInv, RacedStep, NEW c \in Calls, StopListener(c)
  PROVE  AppliedInv'
<1>1. Moves(c, "stop", "check")
  BY GotoMoves, InParts DEF StopListener, Pcs, Is
<1>2. /\ call[c].pc = "lock" /\ isRunning' = FALSE
      /\ UNCHANGED <<config, sockets, profileVars, tunVars, status, dozing>>
  BY DEF StopListener, Lock, At
<1>3. StopsHold' /\ MixedFits' /\ TunFits' /\ InboundFits'
  BY <1>2 DEF StopsHold, MixedFits, TunFits, InboundFits
<1>4. TunRemembered' /\ StatusFits'
  BY <1>1, <1>2, StatusByMove DEF AppliedInv, TunRemembered, tunVars, Loading
<1> QED
  BY <1>3, <1>4 DEF AppliedInv

LEMMA SetupConfigApplied ==
  ASSUME CoreInv, AppliedInv, RacedStep, NEW c \in Calls, SetupConfig(c)
  PROVE  AppliedInv'
<1>1. Moves(c, "setup", "load")
  BY GotoMoves, InParts DEF SetupConfig, Pcs, Is
<1>2. call[c].pc = "lock" /\ UNCHANGED <<isRunning, sockets, tunVars, dozing>>
  BY DEF SetupConfig, Lock, At
<1>3. StopsHold'
  BY <1>1, <1>2 DEF AppliedInv, StopsHold, StopAt, Moves
<1>4. Rebinding(c)' /\ Recreating(c)' /\ Loading(c)' /\ Patching(c)'
  BY <1>1 DEF Moves, Patching, Rebinding, Recreating, Loading, Refreshing, Is
<1>5. MixedFits' /\ TunFits' /\ StatusFits' /\ InboundFits'
  BY <1>4 DEF MixedFits, TunFits, StatusFits, InboundFits
<1>6. TunRemembered'
  BY <1>2 DEF AppliedInv, TunRemembered, tunVars
<1> QED
  BY <1>3, <1>5, <1>6 DEF AppliedInv

LEMMA UpdateConfigApplied ==
  ASSUME CoreInv, AppliedInv, RacedStep, NEW c \in Calls, UpdateConfig(c)
  PROVE  AppliedInv'
<1>1. CASE config = Null
  <2>1. UNCHANGED <<settings, sockets, profileVars, tunVars, status, dozing, call>>
    BY <1>1 DEF UpdateConfig, settings
  <2>2. StopsHold' /\ TunRemembered'
    BY <2>1 DEF AppliedInv, StopsHold, StopAt, TunRemembered, settings, tunVars
  <2>3. config' = Null
    BY <1>1, <2>1 DEF settings
  <2> QED
    BY <2>2, <2>3 DEF AppliedInv, MixedFits, InboundFits, TunFits, StatusFits
<1>2. CASE config # Null
  <2>1. /\ call[c].pc = "lock" /\ call[c].kind = "update"
        /\ Goto(c, RefreshFrom(isRunning, config'))
        /\ config' = Updated(call[c].conf)
        /\ UNCHANGED <<isRunning, sockets, profileVars, tunVars, status, dozing>>
    BY <1>2 DEF UpdateConfig, Lock, At, Is
  <2>2. Moves(c, "update", RefreshFrom(isRunning, config'))
    BY <2>1, GotoMoves, InParts DEF RefreshFrom, Pcs
  <2>3. StopsHold' /\ TunRemembered'
    BY <2>1, <2>2 DEF AppliedInv, StopsHold, StopAt, TunRemembered, tunVars, Moves
  <2>4. isRunning' /\ config' # Null => Rebinding(c)' /\ Recreating(c)' /\ Patching(c)'
    BY <2>1, <2>2 DEF Moves, Patching, Rebinding, Recreating, Refreshing, Is, RefreshFrom
  <2>5. MixedFits' /\ TunFits' /\ InboundFits'
    BY <2>4 DEF MixedFits, TunFits, InboundFits
  <2>6. StatusFits'
    BY <1>2, <2>1, <2>2, StatusByMove DEF Loading
  <2> QED
    BY <2>3, <2>5, <2>6 DEF AppliedInv
<1> QED
  BY <1>1, <1>2

LEMMA LoadingApplied ==
  ASSUME CoreInv, AppliedInv, RacedStep, NEW c \in Calls, InnerLoading(c) \/ OnRunning(c)
  PROVE  AppliedInv'
<1>1. /\ call[c].pc \in {"load", "inner"} /\ call[c].kind = "setup"
      /\ UNCHANGED <<settings, sockets, inboundVars, tunVars, dozing>>
  BY DEF InnerLoading, OnRunning, At, CoreInv, KindsFit, profileVars, inboundVars
<1>2. CASE InnerLoading(c)
  <2>1. Moves(c, "setup", "inner")
    BY <1>1, <1>2, GotoMoves, InParts DEF InnerLoading, Pcs
  <2>2. StopsHold' /\ MixedFits' /\ TunRemembered' /\ TunFits'
    BY <1>1, <2>1, AppliedByMove
    DEF Moves, appliedTo, sockets, StopAt, Rebinding, Recreating, Refreshing, Is
  <2>3. StatusFits'
    BY <2>1 DEF StatusFits, Loading, Moves
  <2>4. InboundFits'
    BY <1>1, <2>1, InboundByMove DEF Moves, Patching, Refreshing, Is
  <2> QED
    BY <2>2, <2>3, <2>4 DEF AppliedInv
<1>3. CASE OnRunning(c)
  <2>1. Moves(c, "setup", RefreshFrom(isRunning, config)) /\ status' = "running"
    BY <1>1, <1>3, GotoMoves, InParts DEF OnRunning, Pcs, RefreshFrom
  <2>2. StopsHold' /\ MixedFits' /\ TunRemembered' /\ TunFits'
    BY <1>1, <2>1, AppliedByMove
    DEF Moves, appliedTo, sockets, StopAt, Rebinding, Recreating, Refreshing, Is, RefreshFrom
  <2>3. StatusFits'
    BY <2>1 DEF StatusFits
  <2>4. InboundFits'
    BY <1>1, <2>1, InboundByMove DEF Moves, Patching, Refreshing, Is, RefreshFrom
  <2> QED
    BY <2>2, <2>3, <2>4 DEF AppliedInv
<1> QED
  BY <1>2, <1>3

LEMMA PatchInboundApplied ==
  ASSUME CoreInv, AppliedInv, RacedStep, NEW c \in Calls, PatchInboundListeners(c)
  PROVE  AppliedInv'
<1>1. /\ Goto(c, "check") /\ call[c].pc = "patch"
      /\ UNCHANGED <<settings, sockets, tunVars, status, dozing>>
  BY DEF PatchInboundListeners, At
<1>2. Refreshing(c)
  BY <1>1 DEF CoreInv, KindsFit
<1>3. Moves(c, call[c].kind, "check")
  BY <1>1, GotoMoves, InParts DEF Pcs
<1>4. StopsHold' /\ MixedFits' /\ TunRemembered' /\ TunFits'
  BY <1>1, <1>2, <1>3, AppliedByMove
  DEF Moves, appliedTo, StopAt, Rebinding, Recreating, Refreshing, Is
<1>5. StatusFits'
  BY <1>1, <1>3, StatusByMove DEF settings, Loading
<1>6. InboundFits'
  <2>1. CASE inbound' = config.inbound
    BY <1>1, <2>1 DEF InboundFits, settings
  <2>2. CASE inboundLost' = TRUE
    BY <2>2 DEF InboundFits
  <2> QED
    BY <2>1, <2>2 DEF PatchInboundListeners
<1> QED
  BY <1>4, <1>5, <1>6 DEF AppliedInv

\* The steps that replace or close the mixed listener leave the rest alone.
LEMMA MixedStepApplied ==
  ASSUME CoreInv, AppliedInv, NEW c \in Calls,
         NEW pc \in {"bind", "tun", "compare", "close", "clear"}, Moves(c, call[c].kind, pc),
         call[c].pc \in {"check", "compare", "close", "clear", "bind"},
         UNCHANGED <<settings, inboundVars, tunVars, status, dozing>>, MixedFits'
  PROVE  AppliedInv'
<1>1. StopsHold'
  <2>1. StopAt(c)' => StopAt(c)
    BY DEF StopAt, Moves, CoreInv, KindsFit, Refreshing, Is
  <2> QED
    BY <2>1 DEF AppliedInv, StopsHold, StopAt, Moves, settings
<1>2. TunRemembered'
  BY DEF AppliedInv, TunRemembered, tunVars
<1>3. \A d \in Calls : Recreating(d)' <=> Recreating(d)
  BY DEF Recreating, Rebinding, Refreshing, Is, Moves
<1>4. TunFits'
  BY <1>3 DEF AppliedInv, TunFits, settings, tunVars
<1>5. InboundFits'
  BY InboundByMove DEF Patching
<1>6. StatusFits'
  BY StatusByMove DEF settings, Loading
<1> QED
  BY <1>1, <1>2, <1>4, <1>5, <1>6 DEF AppliedInv

\* The process ends and nothing else changes.
LEMMA PanicApplied ==
  ASSUME AppliedInv, RacedStep, UNCHANGED <<settings, sockets, inboundVars, tunVars, status,
                                            dozing, call>>
  PROVE  AppliedInv'
BY DEF settings, sockets, inboundVars, tunVars, AppliedInv, StopsHold, StopAt, MixedFits,
   InboundFits, TunRemembered, TunFits, StatusFits, Recreating, Rebinding, Patching, Loading,
   Refreshing, Is, RacedStep

LEMMA CheckMixedApplied ==
  ASSUME CoreInv, AppliedInv, RacedStep, NEW c \in Calls, CheckMixed(c)
  PROVE  AppliedInv'
<1> DEFINE next == IF mixed = 0 THEN IF Refreshing(c) THEN "bind" ELSE "tun"
                                ELSE IF Refreshing(c) THEN "compare" ELSE "close"
<1>1. /\ Goto(c, next) /\ call[c].pc = "check"
      /\ mixedLost' = (mixedLost /\ ~Refreshing(c))
      /\ UNCHANGED <<settings, mixed, open, inboundVars, tunVars, status, dozing>>
  BY DEF CheckMixed, At, profileVars, inboundVars
<1>2. /\ next \in {"bind", "tun", "compare", "close", "clear"} /\ next \in Pcs
      /\ Refreshing(c) => next \in {"bind", "compare"}
  BY DEF Pcs
<1> HIDE DEF next
<1>3. Moves(c, call[c].kind, next)
  BY <1>1, <1>2, GotoMoves, InParts
<1>4. CASE Refreshing(c)
  <2>1. Rebinding(c)'
    BY <1>2, <1>3, <1>4 DEF Rebinding, Refreshing, Is, Moves
  <2>2. MixedFits'
    BY <2>1 DEF MixedFits
  <2> QED
    BY <1>1, <1>2, <1>3, <2>2, MixedStepApplied
<1>5. CASE ~Refreshing(c)
  <2>1. \A d \in Calls : Rebinding(d)' <=> Rebinding(d)
    BY <1>3, <1>5 DEF Rebinding, Refreshing, Is, Moves
  <2>2. mixedLost => mixedLost'
    BY <1>1, <1>5, Zenon
  <2>3. MixedFits'
    BY <1>1, <2>1, <2>2 DEF AppliedInv, MixedFits, RacedStep, settings
  <2> QED
    BY <1>1, <1>2, <1>3, <2>3, MixedStepApplied
<1> QED
  BY <1>4, <1>5

LEMMA CompareMixedApplied ==
  ASSUME CoreInv, AppliedInv, RacedStep, NEW c \in Calls, CompareMixed(c)
  PROVE  AppliedInv'
<1> DEFINE next == IF mixed # config.mixed THEN "close"
                   ELSE IF mixed \in open THEN "tun" ELSE "bind"
<1>1. /\ call[c].pc = "compare" /\ alive
      /\ UNCHANGED <<settings, sockets, inboundVars, tunVars, status, dozing>>
      /\ UNCHANGED call \/ Goto(c, next)
  BY DEF CompareMixed, Panic, At, sockets, profileVars, inboundVars
<1>2. CASE UNCHANGED call
  BY <1>1, <1>2, PanicApplied
<1>3. CASE Goto(c, next)
  <2>1. /\ next \in {"bind", "tun", "compare", "close", "clear"} /\ next \in Pcs
        /\ next \in {"close", "bind"} \/ (next = "tun" /\ mixed = config.mixed /\ mixed \in open)
    BY DEF Pcs
  <2> HIDE DEF next
  <2>2. Moves(c, call[c].kind, next)
    BY <1>3, <2>1, GotoMoves, InParts
  <2>3. Refreshing(c)
    BY <1>1 DEF CoreInv, KindsFit
  <2>4. CASE next \in {"close", "bind"}
    <3>1. Rebinding(c)'
      BY <2>2, <2>3, <2>4 DEF Rebinding, Refreshing, Is, Moves
    <3>2. MixedFits'
      BY <3>1 DEF MixedFits
    <3> QED
      BY <1>1, <2>1, <2>2, <3>2, MixedStepApplied
  <2>5. CASE mixed = config.mixed /\ mixed \in open
    <3>1. ~raced => \A d \in Calls \ {c} : call[d].pc \in {"idle", "lock"}
      BY <1>1, OthersRest DEF Acting
    <3>2. ~raced => open = {mixed} \ {0}
      BY <1>1, <2>5, <3>1 DEF CoreInv, SocketsFit
    <3>3. MixedFits'
      BY <1>1, <2>5, <3>2 DEF MixedFits, RacedStep, settings, sockets
    <3> QED
      BY <1>1, <2>1, <2>2, <3>3, MixedStepApplied
  <2> QED
    BY <2>1, <2>4, <2>5
<1> QED
  BY <1>1, <1>2, <1>3

\* A stop closes the listener of a core that does not run, a shutdown notes it.
LEMMA CloseMixedApplied ==
  ASSUME CoreInv, AppliedInv, RacedStep, NEW c \in Calls, CloseMixed(c)
  PROVE  AppliedInv'
<1>1. call[c].pc = "close" /\ alive
  BY DEF CloseMixed, At
<1>2. CASE mixed = 0
  BY <1>2, PanicApplied DEF CloseMixed, Panic, sockets, profileVars, inboundVars
<1>3. CASE mixed # 0
  <2>1. /\ Goto(c, "clear") /\ open' = open \ {mixed}
        /\ mixedLost' = (mixedLost \/ Is(c, {"shutdown"}))
        /\ UNCHANGED <<settings, inboundVars, tunVars, status, dozing>>
    BY <1>3 DEF CloseMixed, profileVars, inboundVars
  <2>2. Moves(c, call[c].kind, "clear")
    BY <2>1, GotoMoves, InParts DEF Pcs
  <2>3. ~raced => open' = {}
    <3>1. ~raced => \A d \in Calls \ {c} : call[d].pc \in {"idle", "lock"}
      BY <1>1, OthersRest DEF Acting
    <3> QED
      BY <1>1, <2>1, <3>1 DEF CoreInv, SocketsFit
  <2>4. MixedFits'
    <3>1. CASE Refreshing(c)
      <4>1. Rebinding(c)'
        BY <2>2, <3>1 DEF Rebinding, Refreshing, Is, Moves
      <4> QED
        BY <4>1 DEF MixedFits
    <3>2. CASE call[c].kind = "stop"
      BY <1>1, <2>1, <3>2 DEF AppliedInv, StopsHold, StopAt, MixedFits, settings
    <3>3. CASE call[c].kind = "shutdown"
      BY <2>1, <2>3, <3>3 DEF MixedFits, Is, RacedStep
    <3> QED
      BY <3>1, <3>2, <3>3, InParts DEF Table, CallRecord, Kinds, Refreshing, Is
  <2> QED
    BY <1>1, <2>1, <2>2, <2>4, MixedStepApplied
<1> QED
  BY <1>2, <1>3

LEMMA ClearMixedApplied ==
  ASSUME CoreInv, AppliedInv, RacedStep, NEW c \in Calls, ClearMixed(c)
  PROVE  AppliedInv'
<1> DEFINE next == IF Refreshing(c) THEN "bind" ELSE "tun"
<1>1. /\ Goto(c, next) /\ call[c].pc = "clear" /\ mixed' = 0
      /\ UNCHANGED <<settings, open, mixedLost, inboundVars, tunVars, status, dozing>>
  BY DEF ClearMixed, At, profileVars, inboundVars
<1>2. next \in {"bind", "tun"} /\ next \in Pcs /\ (Refreshing(c) => next = "bind")
  BY DEF Pcs
<1> HIDE DEF next
<1>3. Moves(c, call[c].kind, next)
  BY <1>1, <1>2, GotoMoves, InParts
<1>4. MixedFits'
  <2>1. CASE Refreshing(c)
    <3>1. Rebinding(c)'
      BY <1>2, <1>3, <2>1 DEF Rebinding, Refreshing, Is, Moves
    <3> QED
      BY <3>1 DEF MixedFits
  <2>2. CASE ~Refreshing(c)
    <3>1. \A d \in Calls : Rebinding(d)' <=> Rebinding(d)
      BY <1>3, <2>2 DEF Rebinding, Refreshing, Is, Moves
    <3>2. ~raced => open = {}
      BY <1>1 DEF CoreInv, SocketsFit
    <3>3. ~raced /\ isRunning /\ config # Null /\ (\A d \in Calls : ~Rebinding(d)) =>
             config.mixed = 0 \/ mixedLost
      BY <3>2 DEF AppliedInv, MixedFits
    <3> QED
      BY <1>1, <3>1, <3>2, <3>3 DEF MixedFits, RacedStep, settings
  <2> QED
    BY <2>1, <2>2
<1> QED
  BY <1>1, <1>2, <1>3, <1>4, MixedStepApplied

LEMMA BindMixedApplied ==
  ASSUME CoreInv, AppliedInv, RacedStep, NEW c \in Calls, BindMixed(c)
  PROVE  AppliedInv'
<1>1. /\ Goto(c, "tun") /\ call[c].pc = "bind"
      /\ UNCHANGED <<settings, inboundVars, tunVars, status, dozing>>
  BY DEF BindMixed, At, profileVars, inboundVars
<1>2. ~raced => open = {} /\ (mixed = 0 \/ mixed = config.mixed)
  BY <1>1 DEF CoreInv, SocketsFit
<1>3. Moves(c, call[c].kind, "tun")
  BY <1>1, GotoMoves, InParts DEF Pcs
<1>4. ~raced => \/ mixed' = config.mixed /\ open' = {mixed'} \ {0}
                \/ mixedLost' /\ open' = {}
  BY <1>2 DEF BindMixed
<1>5. MixedFits'
  BY <1>1, <1>4 DEF MixedFits, RacedStep, settings
<1> QED
  BY <1>1, <1>3, <1>5, MixedStepApplied

LEMMA RecreateTunApplied ==
  ASSUME CoreInv, AppliedInv, RacedStep, NEW c \in Calls, RecreateTun(c)
  PROVE  AppliedInv'
<1>1. /\ Goto(c, "unlock") /\ call[c].pc = "tun" /\ Refreshing(c)
      /\ UNCHANGED <<settings, sockets, inboundVars, status, dozing>>
  BY DEF RecreateTun, At, profileVars, inboundVars
<1>2. Moves(c, call[c].kind, "unlock")
  BY <1>1, GotoMoves, InParts DEF Pcs
<1>3. StopsHold'
  BY <1>1, <1>2 DEF AppliedInv, StopsHold, StopAt, Moves, settings
<1>4. MixedFits'
  BY <1>1, <1>2 DEF AppliedInv, MixedFits, Rebinding, Refreshing, Is, Moves, RacedStep,
     settings, sockets
<1>5. TunRemembered'
  BY DEF AppliedInv, TunRemembered, RecreateTun, tunVars
<1>6. TunFits'
  <2>1. CASE Android
    BY <2>1 DEF TunFits
  <2>2. CASE ~Android /\ config.tun = LastTunConf
    BY <1>1, <2>2 DEF AppliedInv, TunRemembered, TunFits, RecreateTun, settings, tunVars
  <2>3. CASE ~Android /\ config.tun # LastTunConf
    BY <1>1, <2>3 DEF TunFits, RecreateTun, settings
  <2> QED
    BY <2>1, <2>2, <2>3
<1>7. StatusFits'
  BY <1>1, <1>2, StatusByMove DEF settings, Loading
<1>8. InboundFits'
  BY <1>1, <1>2, InboundByMove DEF Patching
<1> QED
  BY <1>3, <1>4, <1>5, <1>6, <1>7, <1>8 DEF AppliedInv

LEMMA EndApplied ==
  ASSUME CoreInv, AppliedInv, RacedStep, NEW c \in Calls, StopTun(c) \/ Unlock(c)
  PROVE  AppliedInv'
<1>1. /\ call[c].pc \in {"tun", "unlock"} /\ ~Recreating(c) /\ ~Rebinding(c)
      /\ UNCHANGED <<settings, sockets, inboundVars, status, dozing>>
  BY DEF StopTun, Unlock, At, Recreating, Rebinding, profileVars, inboundVars
<1>2. \E kind, pc : /\ pc \in {"idle", "unlock"}
                    /\ Moves(c, kind, pc)
  BY GotoMoves, FinishMoves, InParts DEF StopTun, Unlock, Pcs
<1>3. StopsHold' /\ MixedFits'
  BY <1>1, <1>2 DEF AppliedInv, StopsHold, StopAt, MixedFits, Rebinding, Refreshing, Is, Moves,
     RacedStep, settings, sockets
<1>4. /\ UNCHANGED LastTunConf
      /\ \/ UNCHANGED tunVars
         \/ tun' = "off" /\ tunStopped' = (tunStopped \/ tun # "off")
  BY DEF StopTun, Unlock, tunVars
<1>5. TunRemembered'
  BY <1>4 DEF AppliedInv, TunRemembered, tunVars
<1>6. TunFits'
  BY <1>1, <1>2, <1>4
  DEF AppliedInv, TunFits, Recreating, Rebinding, Refreshing, Is, Moves, settings, tunVars
<1>7. StatusFits'
  BY <1>1, <1>2, StatusByMove DEF settings, Loading
<1>8. InboundFits'
  BY <1>1, <1>2, InboundByMove DEF Patching
<1> QED
  BY <1>3, <1>5, <1>6, <1>7, <1>8 DEF AppliedInv

\* A doze writes the status and nothing else.
LEMMA SuspendApplied ==
  ASSUME AppliedInv, RacedStep, NEW suspended \in BOOLEAN, Suspend(suspended)
  PROVE  AppliedInv'
<1>1. /\ dozing' = suspended /\ (~suspended => status' = "running")
      /\ UNCHANGED <<settings, sockets, inboundVars, tunVars, call>>
  BY DEF Suspend, profileVars, inboundVars
<1>2. StopsHold' /\ MixedFits' /\ InboundFits' /\ TunRemembered' /\ TunFits'
  BY <1>1 DEF AppliedInv, StopsHold, StopAt, MixedFits, InboundFits, TunRemembered,
     TunFits, Recreating, Rebinding, Patching, Refreshing, Is, RacedStep, settings, sockets,
     inboundVars, tunVars
<1>3. StatusFits'
  BY <1>1 DEF StatusFits
<1> QED
  BY <1>2, <1>3 DEF AppliedInv

LEMMA AppliedNext == CoreInv /\ AppliedInv /\ [Next]_vars => AppliedInv'
<1> SUFFICES ASSUME CoreInv, AppliedInv, [Next]_vars PROVE AppliedInv'
  OBVIOUS
<1>1. CASE UNCHANGED vars
  <2>1. /\ UNCHANGED <<settings, sockets, inboundVars, tunVars, status, dozing, call>>
        /\ UNCHANGED raced
    BY <1>1 DEF vars, coreVars, profileVars, inboundVars
  <2> QED
    BY <2>1 DEF settings, sockets, inboundVars, tunVars, AppliedInv, StopsHold, StopAt,
       MixedFits, InboundFits, TunRemembered, TunFits, StatusFits, Recreating, Rebinding,
       Patching, Loading, Refreshing, Is
<1>2. CASE Next
  <2>1. RacedStep
    <3>1. raced' = (raced \/ Racing')
      BY <1>2 DEF Next
    <3>2. raced' \in BOOLEAN
      BY <3>1, Zenon
    <3> QED
      BY <3>1, <3>2, UnracedNext DEF RacedStep
  <2>2. ASSUME NEW suspended \in BOOLEAN, Suspend(suspended) PROVE AppliedInv'
    BY <2>1, <2>2, SuspendApplied
  <2>3. ASSUME NEW c \in Calls, Arrive(c) PROVE AppliedInv'
    BY <2>1, <2>3, ArriveApplied
  <2>4. ASSUME NEW c \in Calls, CallStep(c) PROVE AppliedInv'
    <3>1. CASE StartListener(c)  BY <2>1, <3>1, StartListenerApplied
    <3>2. CASE StopListener(c)   BY <2>1, <3>2, StopListenerApplied
    <3>3. CASE SetupConfig(c)    BY <2>1, <3>3, SetupConfigApplied
    <3>4. CASE UpdateConfig(c)   BY <2>1, <3>4, UpdateConfigApplied
    <3>5. CASE InnerLoading(c) \/ OnRunning(c)  BY <2>1, <3>5, LoadingApplied
    <3>6. CASE PatchInboundListeners(c)  BY <2>1, <3>6, PatchInboundApplied
    <3>7. CASE CheckMixed(c)     BY <2>1, <3>7, CheckMixedApplied
    <3>8. CASE CompareMixed(c)   BY <2>1, <3>8, CompareMixedApplied
    <3>9. CASE CloseMixed(c)     BY <2>1, <3>9, CloseMixedApplied
    <3>10. CASE ClearMixed(c)    BY <2>1, <3>10, ClearMixedApplied
    <3>11. CASE BindMixed(c)     BY <2>1, <3>11, BindMixedApplied
    <3>12. CASE RecreateTun(c)   BY <2>1, <3>12, RecreateTunApplied
    <3>13. CASE StopTun(c) \/ Unlock(c)  BY <2>1, <3>13, EndApplied
    <3> QED
      BY <2>4, <3>1, <3>2, <3>3, <3>4, <3>5, <3>6, <3>7, <3>8, <3>9, <3>10, <3>11, <3>12,
         <3>13, Zenon DEF CallStep
  <2> QED
    BY <1>2, <2>2, <2>3, <2>4, Zenon DEF Next, CoreStep
<1> QED
  BY <1>1, <1>2

LEMMA AppliedInvariant == Spec => [](CoreInv /\ AppliedInv)
<1>1. CoreInit => CoreInv /\ AppliedInv
  BY InitInv, AppliedInit
<1>2. (CoreInv /\ AppliedInv) /\ [Next]_vars => (CoreInv /\ AppliedInv)'
  BY NextInv, AppliedNext
<1> QED
  BY <1>1, <1>2, PTL DEF Spec

\* At rest nobody acts.
LEMMA RestIsQuiet ==
  ASSUME CoreInv, AtRest
  PROVE  \A c \in Calls : ~Recreating(c) /\ ~Rebinding(c) /\ ~Patching(c) /\ ~Loading(c)
<1>1. \A c \in Calls : call[c].pc \in {"idle", "lock"}
  BY CoreAssumption DEF CoreInv, AtRest, LockFits, Acting, ShuttingDown, UnderWay, Is
<1> QED
  BY <1>1 DEF Recreating, Rebinding, Patching, Loading

\* A running core listens on the port of the configuration it was given last
\* (ReCreateMixed), in whatever order setups, updates, starts and stops took
\* runLock; otherwise it listens on no port, and the last refresh, which found it
\* taken for TCP or UDP, or a shutdown is why.  Its inbound listener is the one
\* asked for (PatchInboundListeners), unless that could not be opened.
THEOREM RunningListens == Spec => []RunningMeansListening
<1>1. CoreInv => InboundOwned
  BY DEF CoreInv, ProfileFits
<1>2. CoreInv /\ AppliedInv => RunningMeansListening
  BY <1>1, RestIsQuiet
  DEF AppliedInv, MixedFits, InboundFits, InboundOwned, RunningMeansListening
<1> QED
  BY <1>2, AppliedInvariant, PTL

\* A running desktop core has the TUN of its configuration (ReCreateTun), unless
\* the system could not make it or a stop closed what ReCreateTun still remembers.
THEOREM RunningHasTun == Spec => []RunningMeansTun
<1>1. CoreInv /\ AppliedInv => RunningMeansTun
  BY RestIsQuiet DEF AppliedInv, TunFits, RunningMeansTun
<1> QED
  BY <1>1, AppliedInvariant, PTL

\* Whatever dozes came while setups moved the status through its three values:
\* outside a doze a configured tunnel at rest handles connections.
THEOREM AwakeRuns == Spec => []AwakeMeansRunning
<1>1. CoreInv /\ AppliedInv => AwakeMeansRunning
  BY RestIsQuiet DEF AppliedInv, StatusFits, AwakeMeansRunning
<1> QED
  BY <1>1, AppliedInvariant, PTL
=============================================================================
