--------------------------- MODULE CoreListeners ----------------------------
(***************************************************************************)
(* The inbound listeners of the core and the configuration they follow:    *)
(* core/hub.go, core/common.go and the listener package of the kernel.     *)
(* Every action of the application runs in a goroutine of its own; all     *)
(* take runLock, except shutdown and the suspend call of Android.          *)
(*                                                                         *)
(* Of the listeners of the general section the mixed port stands for those *)
(* that every platform opens, and the TUN for the one that only a desktop  *)
(* core opens.  A port is 0 or the port to listen on, a TUN configuration  *)
(* "off" or a value of Tuns.  A profile can ask for listeners besides: one *)
(* name stands for its inbound listeners, which a refresh opens, and       *)
(* Tunnels are the tunnel listeners that a setup opens.  StopListener      *)
(* knows neither kind.                                                     *)
(***************************************************************************)
EXTENDS Naturals

CONSTANTS
  Calls,   \* actions of the application
  Ports,   \* ports other than 0
  Tuns,    \* enabled TUN configurations
  Inbounds, \* configurations of an inbound listener
  Tunnels, \* tunnel listeners
  Android, \* whether this is the core of Android
  Null

ASSUME CoreAssumption ==
  /\ Calls \intersect {Null} = {}
  /\ Ports \subseteq Nat \ {0}
  /\ "off" \notin Tuns /\ "none" \notin Inbounds
  /\ Android \in BOOLEAN

Conf == [mixed : Ports \union {0}, tun : Tuns \union {"off"},
         inbound : Inbounds \union {"none"}, tunnels : SUBSET Tunnels]

ASSUME NullAssumption == Null \notin Conf

\* config.DefaultRawConfig, as far as it matters here.
DefaultConf == [mixed |-> 0, tun |-> "off", inbound |-> "none", tunnels |-> {}]

Kinds == {"start", "stop", "setup", "update", "shutdown"}

VARIABLES
  isRunning, \* startListener came after the last stopListener
  config,    \* currentConfig, Null before the first setup
  runLock,   \* the call that holds it
  mixed,     \* the port of the listener mixedListener points to
  open,      \* ports with an open socket
  mixedLost, \* history: the last refresh could not open the port, or a shutdown
             \* closed it since
  inbound,   \* the configuration of the entry of inboundListeners
  inboundUp, \* whether that listener has its socket
  inboundLost, \* history: the inbound listener could not be opened, and it was
             \* neither opened nor dropped since
  tunnels,   \* the keys of tunnelTCPListeners and tunnelUDPListeners
  tun,       \* the running TUN, tunLister
  LastTunConf, \* the configuration ReCreateTun was last given
  tunStopped, \* history: StopListener closed a TUN that was not made again
  status,    \* of the tunnel
  dozing,    \* isSuspended of the suspend module
  alive,     \* the process of the core
  call,      \* where each action is, and what it was given
  raced      \* history: a shutdown ran beside a call that held runLock, or
             \* beside another shutdown

settings == <<isRunning, config>>
sockets == <<mixed, open, mixedLost>>
profileVars == <<inbound, inboundUp, inboundLost, tunnels>>
tunVars == <<tun, LastTunConf, tunStopped>>
coreVars == <<settings, runLock, sockets, profileVars, tunVars, status, dozing, alive,
              call>>
vars == <<coreVars, raced>>

Pcs == {"idle", "lock", "load", "inner", "patch", "check", "compare", "close",
        "clear", "bind", "tun", "unlock"}

CallRecord == [kind : Kinds, conf : Conf, ok : BOOLEAN, pc : Pcs]

NoCall == [kind |-> "stop", conf |-> DefaultConf, ok |-> TRUE, pc |-> "idle"]

TypeOK ==
  /\ isRunning \in BOOLEAN
  /\ config \in Conf \union {Null}
  /\ runLock \in Calls \union {Null}
  /\ mixed \in Ports \union {0}
  /\ open \subseteq Ports
  /\ mixedLost \in BOOLEAN /\ inboundUp \in BOOLEAN /\ inboundLost \in BOOLEAN
  /\ inbound \in Inbounds \union {"none"}
  /\ tunnels \subseteq Tunnels
  /\ tun \in Tuns \union {"off"}
  /\ LastTunConf \in Tuns \union {"off"}
  /\ tunStopped \in BOOLEAN
  /\ status \in {"suspend", "inner", "running"}
  /\ dozing \in BOOLEAN /\ raced \in BOOLEAN
  /\ alive \in BOOLEAN
  /\ call \in [Calls -> CallRecord]

CoreInit ==
  /\ isRunning = FALSE /\ config = Null /\ runLock = Null
  /\ mixed = 0 /\ open = {} /\ mixedLost = FALSE
  /\ inbound = "none" /\ inboundUp = FALSE /\ inboundLost = FALSE /\ tunnels = {}
  /\ tun = "off" /\ LastTunConf = "off" /\ tunStopped = FALSE
  /\ status = "suspend" /\ dozing = FALSE /\ alive = TRUE /\ raced = FALSE
  /\ call = [c \in Calls |-> NoCall]

At(c, pc) == alive /\ call[c].pc = pc

Goto(c, pc) == call' = [call EXCEPT ![c].pc = pc]

Finish(c) == call' = [call EXCEPT ![c] = NoCall]

Is(c, kinds) == call[c].kind \in kinds

UnderWay(c) == call[c].pc # "idle"

\* A call reaches the core.  Setup and update bring a configuration; ok says
\* whether that of a setup can be parsed.
Spawn(c, kind, conf, ok) ==
  /\ alive /\ ~UnderWay(c)
  /\ kind \in {"setup", "update"} \/ conf = DefaultConf
  /\ kind = "setup" \/ ok
  /\ call' = [call EXCEPT ![c] = [kind |-> kind, conf |-> conf, ok |-> ok,
                pc |-> IF kind = "shutdown" THEN "check" ELSE "lock"]]

Lock(c) ==
  /\ At(c, "lock") /\ runLock = Null
  /\ runLock' = c

\* updateListeners returns at once unless the core runs and is configured.
RefreshFrom(running, conf) ==
  IF running /\ conf # Null THEN "patch" ELSE "unlock"

-----------------------------------------------------------------------------
(* The handlers, up to the listeners.                                      *)

StartListener(c) ==
  /\ Is(c, {"start"}) /\ Lock(c)
  /\ isRunning' = TRUE
  /\ Goto(c, RefreshFrom(TRUE, config))
  /\ UNCHANGED <<config, sockets, profileVars, tunVars, status, dozing, alive>>

StopListener(c) ==
  /\ Is(c, {"stop"}) /\ Lock(c)
  /\ isRunning' = FALSE
  /\ Goto(c, "check")
  /\ UNCHANGED <<config, sockets, profileVars, tunVars, status, dozing, alive>>

\* A configuration that cannot be parsed is replaced by the default one.
SetupConfig(c) ==
  /\ Is(c, {"setup"}) /\ Lock(c)
  /\ config' = IF call[c].ok THEN call[c].conf ELSE DefaultConf
  /\ status' = "suspend"
  /\ Goto(c, "load")
  /\ UNCHANGED <<isRunning, sockets, profileVars, tunVars, dozing, alive>>

\* Tunnel listeners that are not asked for are closed, those that are missing
\* opened, unless the address is taken.
PatchTunnel ==
  \E opened \in SUBSET (config.tunnels \ tunnels) :
    tunnels' = (tunnels \intersect config.tunnels) \union opened

\* ApplyConfig, in a running core and in a stopped one: after the tunnel
\* listeners the inner tunnel, then the providers are loaded.
InnerLoading(c) ==
  /\ At(c, "load")
  /\ PatchTunnel
  /\ status' = "inner"
  /\ Goto(c, "inner")
  /\ UNCHANGED <<settings, runLock, sockets, inbound, inboundUp, inboundLost, tunVars,
                 dozing, alive>>

\* Faulty variant: setupConfig does not ask whether the core runs.
OnRunningListening(c) ==
  /\ At(c, "inner")
  /\ status' = "running"
  /\ Goto(c, "patch")
  /\ UNCHANGED <<settings, runLock, sockets, profileVars, tunVars, dozing, alive>>

\* Faulty variant: the tunnel is left in its inner state.
OnRunningForgotten(c) ==
  /\ At(c, "inner")
  /\ Goto(c, RefreshFrom(isRunning, config))
  /\ UNCHANGED <<settings, runLock, sockets, profileVars, tunVars, status, dozing, alive>>

OnRunning(c) ==
  /\ At(c, "inner")
  /\ status' = "running"
  /\ Goto(c, RefreshFrom(isRunning, config))
  /\ UNCHANGED <<settings, runLock, sockets, profileVars, tunVars, dozing, alive>>

Updated(conf) == [conf EXCEPT !.inbound = config.inbound, !.tunnels = config.tunnels]

\* An update brings the general section only, which is dereferenced before it is
\* known to exist.
UpdateConfig(c) ==
  /\ Is(c, {"update"}) /\ Lock(c)
  /\ IF config = Null
       THEN /\ alive' = FALSE
            /\ UNCHANGED <<config, call>>
       ELSE /\ config' = Updated(call[c].conf)
            /\ Goto(c, RefreshFrom(isRunning, config'))
            /\ UNCHANGED alive
  /\ UNCHANGED <<isRunning, sockets, profileVars, tunVars, status, dozing>>

-----------------------------------------------------------------------------
(* The listeners.  ReCreateMixed and StopListener close the mixed listener *)
(* in the same three steps, of which StopListener takes no mutex: in a     *)
(* shutdown it runs beside whoever holds runLock.                          *)

Refreshing(c) == Is(c, {"start", "setup", "update"})

\* An inbound listener that has the configuration asked for is kept.  Another
\* one is closed before the new one is opened, and keeps its entry if that
\* fails; one that is not asked for is closed and dropped.
PatchInboundListeners(c) ==
  /\ At(c, "patch")
  /\ \/ /\ config.inbound = inbound
        /\ UNCHANGED <<inbound, inboundUp, inboundLost>>
     \/ /\ config.inbound # inbound
        /\ inbound' = config.inbound
        /\ inboundUp' = (config.inbound # "none")
        /\ inboundLost' = FALSE
     \/ /\ config.inbound \notin {inbound, "none"}
        /\ inboundUp' = FALSE /\ inboundLost' = TRUE
        /\ UNCHANGED inbound
  /\ Goto(c, "check")
  /\ UNCHANGED <<settings, runLock, sockets, tunnels, tunVars, status, dozing, alive>>

\* Faulty variant: StopListener does not ask whether there is a listener.
CheckMixedBlindly(c) ==
  /\ At(c, "check")
  /\ mixedLost' = (mixedLost /\ ~Refreshing(c))
  /\ Goto(c, CASE ~Refreshing(c) -> "close"
               [] Refreshing(c) /\ mixed = 0 -> "bind"
               [] Refreshing(c) /\ mixed # 0 -> "compare")
  /\ UNCHANGED <<settings, runLock, mixed, open, profileVars, tunVars, status, dozing,
                 alive>>

CheckMixed(c) ==
  /\ At(c, "check")
  /\ mixedLost' = (mixedLost /\ ~Refreshing(c))
  /\ Goto(c, CASE mixed = 0 -> IF Refreshing(c) THEN "bind" ELSE "tun"
               [] mixed # 0 -> IF Refreshing(c) THEN "compare" ELSE "close")
  /\ UNCHANGED <<settings, runLock, mixed, open, profileVars, tunVars, status, dozing,
                 alive>>

\* Every use reads the pointer again; a nil listener panics, which ends the
\* process.
Panic == alive' = FALSE /\ UNCHANGED <<open, mixedLost, call>>

\* Faulty variant: a listener that has the port asked for is taken for open.
CompareAddress(c) ==
  /\ At(c, "compare")
  /\ IF mixed = 0
       THEN Panic
       ELSE /\ Goto(c, IF mixed = config.mixed THEN "tun" ELSE "close")
            /\ UNCHANGED <<open, mixedLost, alive>>
  /\ UNCHANGED <<settings, runLock, mixed, profileVars, tunVars, status, dozing>>

\* A listener that has the port asked for is kept, unless it was closed because
\* there was no socket for UDP.
CompareMixed(c) ==
  /\ At(c, "compare")
  /\ IF mixed = 0
       THEN Panic
       ELSE /\ Goto(c, CASE mixed # config.mixed -> "close"
                        [] mixed = config.mixed -> IF mixed \in open THEN "tun" ELSE "bind")
            /\ UNCHANGED <<open, mixedLost, alive>>
  /\ UNCHANGED <<settings, runLock, mixed, profileVars, tunVars, status, dozing>>

\* Faulty variant: the listener is forgotten but not closed.
CloseNothing(c) ==
  /\ At(c, "close")
  /\ Goto(c, "clear")
  /\ UNCHANGED <<settings, runLock, sockets, profileVars, tunVars, status, dozing, alive>>

CloseMixed(c) ==
  /\ At(c, "close")
  /\ IF mixed = 0
       THEN Panic
       ELSE /\ open' = open \ {mixed}
            /\ mixedLost' = (mixedLost \/ Is(c, {"shutdown"}))
            /\ Goto(c, "clear")
            /\ UNCHANGED alive
  /\ UNCHANGED <<settings, runLock, mixed, profileVars, tunVars, status, dozing>>

ClearMixed(c) ==
  /\ At(c, "clear")
  /\ mixed' = 0
  /\ Goto(c, IF Refreshing(c) THEN "bind" ELSE "tun")
  /\ UNCHANGED <<settings, runLock, open, mixedLost, profileVars, tunVars, status, dozing,
                 alive>>

\* Port 0 asks for no listener.  A port may be taken, also by another program;
\* taken for UDP only, it is closed again for TCP and mixedListener stays set.
BindMixed(c) ==
  /\ At(c, "bind")
  /\ \/ /\ config.mixed = 0
        /\ mixedLost' = FALSE
        /\ UNCHANGED <<mixed, open>>
     \/ /\ config.mixed # 0 /\ config.mixed \notin open
        /\ mixed' = config.mixed
        /\ \/ open' = open \union {config.mixed} /\ mixedLost' = FALSE
           \/ UNCHANGED open /\ mixedLost' = TRUE
     \/ /\ config.mixed # 0
        /\ mixed' = 0 /\ mixedLost' = TRUE
        /\ UNCHANGED open
  /\ Goto(c, "tun")
  /\ UNCHANGED <<settings, runLock, profileVars, tunVars, status, dozing, alive>>

\* Faulty variant: the configuration given last is not remembered.
RecreateTunForgetting(c) ==
  /\ At(c, "tun") /\ Refreshing(c)
  /\ IF Android \/ config.tun = LastTunConf
       THEN UNCHANGED tunVars
       ELSE /\ tun' \in {"off", config.tun}
            /\ tunStopped' = FALSE
            /\ UNCHANGED LastTunConf
  /\ Goto(c, "unlock")
  /\ UNCHANGED <<settings, runLock, sockets, profileVars, status, dozing, alive>>

\* ReCreateTun does nothing when it is given what it was given last.  A TUN
\* that cannot be made is remembered as disabled.
RecreateTun(c) ==
  /\ At(c, "tun") /\ Refreshing(c)
  /\ IF Android \/ config.tun = LastTunConf
       THEN UNCHANGED tunVars
       ELSE /\ tun' \in {"off", config.tun}
            /\ LastTunConf' = tun'
            /\ tunStopped' = FALSE
  /\ Goto(c, "unlock")
  /\ UNCHANGED <<settings, runLock, sockets, profileVars, status, dozing, alive>>

\* StopListener closes the TUN and does not touch LastTunConf.
StopTun(c) ==
  /\ At(c, "tun") /\ ~Refreshing(c)
  /\ tun' = "off"
  /\ tunStopped' = (tunStopped \/ tun # "off")
  /\ \/ Is(c, {"stop"}) /\ Goto(c, "unlock")
     \/ Is(c, {"shutdown"}) /\ Finish(c)
  /\ UNCHANGED <<settings, runLock, sockets, profileVars, LastTunConf, status, dozing, alive>>

Unlock(c) ==
  /\ At(c, "unlock")
  /\ runLock' = Null
  /\ Finish(c)
  /\ UNCHANGED <<settings, sockets, profileVars, tunVars, status, dozing, alive>>

\* suspend, which the suspend module of Android calls on a thread of its own.
Suspend(suspended) ==
  /\ Android /\ alive /\ suspended # dozing
  /\ dozing' = suspended
  /\ status' = IF suspended THEN "suspend" ELSE "running"
  /\ UNCHANGED <<settings, runLock, sockets, profileVars, tunVars, alive, call>>

CallStep(c) ==
  \/ StartListener(c) \/ StopListener(c) \/ SetupConfig(c) \/ UpdateConfig(c)
  \/ InnerLoading(c) \/ OnRunning(c) \/ PatchInboundListeners(c)
  \/ CheckMixed(c) \/ CompareMixed(c) \/ CloseMixed(c) \/ ClearMixed(c)
  \/ BindMixed(c) \/ RecreateTun(c) \/ StopTun(c) \/ Unlock(c)

-----------------------------------------------------------------------------
(* The application sends anything at any time; only Android shuts down.    *)
(* An update asks for no listeners of the profile, and of a configuration  *)
(* that cannot be parsed nothing matters.                                  *)

ShuttingDown(c) == Is(c, {"shutdown"}) /\ UnderWay(c)

Beside(s) == runLock # Null \/ \E other \in Calls \ {s} : ShuttingDown(other)

Racing == \E s \in Calls : ShuttingDown(s) /\ Beside(s)

Arrive(c) ==
  \E kind \in Kinds, conf \in Conf, ok \in BOOLEAN :
    /\ kind = "shutdown" => Android
    /\ kind = "update" => conf.inbound = "none" /\ conf.tunnels = {}
    /\ ~ok => conf = DefaultConf
    /\ Spawn(c, kind, conf, ok)
    /\ UNCHANGED <<settings, runLock, sockets, profileVars, tunVars, status, dozing, alive>>

CoreStep ==
  \/ \E c \in Calls : Arrive(c) \/ CallStep(c)
  \/ \E suspended \in BOOLEAN : Suspend(suspended)

Next == CoreStep /\ raced' = (raced \/ Racing')

Spec == CoreInit /\ [][Next]_vars

-----------------------------------------------------------------------------
AtRest == alive /\ runLock = Null /\ \A c \in Calls : ~ShuttingDown(c)

\* After stopListener neither the mixed port nor the TUN is left, whatever setups
\* and updates were waiting for the lock, unless a shutdown raced them; what the
\* setups of a stopped core open are the tunnel listeners of the last one.
StoppedMeansClosed ==
  AtRest /\ ~isRunning /\ ~raced =>
    /\ mixed = 0 /\ open = {} /\ tun = "off"
    /\ tunnels \subseteq (IF config = Null THEN {} ELSE config.tunnels)

\* A running core listens on the port of its configuration and on no other, or
\* on none if the last refresh could not open it or a shutdown closed it.  Its
\* inbound listener is that of the configuration, with its socket, unless it
\* could not be opened.
RunningMeansListening ==
  AtRest /\ isRunning /\ config # Null /\ ~raced =>
    /\ \/ mixed = config.mixed /\ open = {mixed} \ {0}
       \/ mixedLost /\ open = {}
    /\ \/ inbound = config.inbound /\ (inboundUp <=> inbound # "none")
       \/ inboundLost

\* A running desktop core has the TUN of its configuration, unless it could
\* not be made, or a stop closed it and no other configuration came since.
RunningMeansTun ==
  AtRest /\ isRunning /\ config # Null /\ ~Android =>
    \/ tun = config.tun
    \/ tun = "off" /\ (LastTunConf # config.tun \/ tunStopped)

\* No socket stays open that the core has forgotten: mixedListener points to the
\* one of the mixed port, and the inbound listener has its entry.
SocketsAreReachable ==
  ~raced => open \subseteq {mixed} /\ (inboundUp => inbound # "none")

\* Outside a doze a configured tunnel handles connections, in whatever order
\* dozes and setups come.
AwakeMeansRunning ==
  AtRest /\ config # Null /\ ~dozing => status = "running"

\* The process of the core dies only of an update that came before any
\* configuration, or of a shutdown that raced another call.
DiesOnlyEarly == alive \/ config = Null \/ raced
=============================================================================
