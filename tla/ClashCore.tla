----------------------------- MODULE ClashCore ------------------------------
(***************************************************************************)
(* ClashCore of lib/clash/core.dart: the one interface the application     *)
(* talks to, over ClashLib on Android and over ClashService elsewhere.     *)
(***************************************************************************)
EXTENDS CoreConnection, ServiceIpc

vars == <<platform, app, requestVars, connectionVars, ipcVars>>

TypeOK == RequestsTypeOK /\ ConnectionTypeOK /\ IpcTypeOK

Init ==
  /\ RequestsInit /\ ConnectionInit /\ IpcInit
  /\ platform # "android" => engine = "none"

OverIpc(step) == platform = "android" /\ step /\ UNCHANGED <<platform, connectionVars>>

OverSocket(step) == platform # "android" /\ step /\ UNCHANGED <<platform, ipcVars>>

Next == OverIpc(IpcNext) \/ OverSocket(ConnectionNext)

\* Timers fire, isolates, threads and processes run, and a reader reads what
\* is there.  Nothing is assumed of the core's answers, nor of the startup
\* and the end of the application.
IpcFairness ==
  /\ WF_vars(OverIpc(Boot)) /\ WF_vars(OverIpc(Reconnect))
  /\ WF_vars(OverIpc(AskRunning)) /\ WF_vars(OverIpc(AskReconnect))
  /\ WF_vars(OverIpc(Destroy)) /\ WF_vars(OverIpc(InitEngine))
  /\ WF_vars(OverIpc(Connected \/ NotConnected)) /\ WF_vars(OverIpc(Retry))
  /\ WF_vars(OverIpc(ReceivePort))
  /\ \A r \in Request : WF_vars(OverIpc(IpcExpire(r)))

SocketFairness ==
  /\ \A r \in Request :
       WF_vars(OverSocket(Expire(r))) /\ WF_vars(OverSocket(CoreTakes(r)))
  /\ \A c \in Cores :
       WF_vars(OverSocket(Dial(c))) /\ WF_vars(OverSocket(NoticeEof(c)))
  /\ \A a \in Attempts :
       /\ WF_vars(OverSocket(HelperVerify(a)))
       /\ WF_vars(OverSocket(HelperStop(a)))
       /\ WF_vars(OverSocket(HelperSpawn(a)))

Spec == Init /\ [][Next]_vars /\ IpcFairness /\ SocketFairness

-----------------------------------------------------------------------------
(* What must hold.                                                         *)

\* invoke of lib/clash/interface.dart keeps its promise over either transport,
\* whatever is lost, replaced, restarted or late on the way: at most one
\* execution, no answer without it, none after the default, and every caller
\* released (safety and liveness of Rpc).
ImplementsRpc == PromisedRpc!Spec

\* The desktop application serves, and nothing is being started or accepted.
AtRest ==
  /\ app = "running" /\ restart = "done"
  /\ backlog = <<>> /\ (accepting = 0 \/ server = "failed")
  /\ \A a \in Attempts : post[a] \in {"none", "ok", "failed"}
  /\ \A c \in Cores : core[c] \notin {"started", "closed"}

\* However many cores the posts to the helper have started (a post given up
\* after two seconds goes on, and its stop and its spawn take the lock of
\* PROCESS separately), one core is left once things have settled: the others
\* were killed, or saw their connection closed when it was replaced.  It is
\* the one the application talks to, unless the accept loop ended while it
\* took over that one's connection (service.dart, hub.rs).
OneCore ==
  AtRest => {c \in Cores : core[c] \notin {"none", "ended"}}
              \subseteq {IF server = "failed" THEN accepting ELSE socket}

\* The core that serves, with the configuration it was given, is replaced by
\* another only when a post was given up before its answer (request.dart).
ReplacedOnlyAfterGivingUp ==
  [][app = "running" /\ socket # 0 /\ socket' \notin {0, socket} => gaveUp]_vars

\* A message is stranded on a completer that nobody will complete only in the
\* delay before reStart replaces it (service.dart): neither the acceptance of
\* a connection nor the close of one replaces a completer somebody awaits.
StrandedOnlyAtStart ==
  [][\A r \in Request :
       message[r] = "awaiting" /\ message'[r] = "stranded" => restart = "delay"]_vars

\* When the desktop application is gone, by handleExit or a crash, whatever
\* was being started, every core ends.
CoresEnd == app = "gone" ~> \A c \in Cores : core[c] \in {"none", "ended"}

\* The main isolate ends up with the port the service isolate listens to,
\* whichever engine it finds and however often it asks for a port (lib.dart).
IpcSettles ==
  platform = "android" => <>[](app = "running" => port # 0 /\ sendPort = port)
=============================================================================
