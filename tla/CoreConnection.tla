--------------------------- MODULE CoreConnection ---------------------------
(***************************************************************************)
(* The desktop transport: ClashService of lib/clash/service.dart, its end  *)
(* in the core (core/server.go), and the Windows helper service that       *)
(* starts the core on its behalf (services/helper/src/service/hub.rs).     *)
(*                                                                         *)
(* A core and its connection have one number: a core dials once.  Core a,  *)
(* a in Attempts, is the one the helper starts on the a-th post; Direct is *)
(* the one the application starts itself.                                  *)
(***************************************************************************)
EXTENDS Requests, Sequences

CONSTANT MaxAttempts \* posts of startCoreByHelper, 10 in the code

ASSUME AttemptsAssumption == MaxAttempts \in Nat \ {0}

Attempts == 1 .. MaxAttempts

Direct == MaxAttempts + 1

Cores == 1 .. Direct

VARIABLES
  server,    \* the ServerSocket; failed when its accept loop ended in an exception
  socket,    \* the core socketCompleter is completed with, 0 while pending
  accepting, \* the core whose acceptance awaits the close of the last socket,
             \* or was left over when that failed
  backlog,   \* connections the accept loop has not taken yet
  restart,   \* where reStart is
  attempt,   \* the post of startCoreByHelper it has reached
  gaveUp,    \* history: a post was given up before the helper answered it
  process,   \* the core the application started itself, 0 for null
  exit,      \* where handleExit is
  post,      \* the helper's thread for each post of /start
  stopPost,  \* and for the post of /stop
  child,     \* the helper's PROCESS, 0 for None
  core       \* each core process

serviceVars == <<server, socket, accepting, backlog>>
restartVars == <<restart, attempt, gaveUp, process>>
helperVars == <<post, stopPost, child>>
connectionVars == <<serviceVars, restartVars, exit, helperVars, core>>

ExitSteps == {"no", "asked", "stopping", "closing", "kill", "server", "gone"}

ConnectionTypeOK ==
  /\ server \in {"unbound", "listening", "failed", "closed"}
  /\ socket \in 0 .. Direct
  /\ accepting \in 0 .. Direct
  /\ backlog \in Seq(Cores)
  /\ restart \in {"delay", "server", "register", "post", "posted", "spawn", "done"}
  /\ attempt \in Attempts
  /\ gaveUp \in BOOLEAN
  /\ process \in {0, Direct}
  /\ exit \in ExitSteps
  /\ post \in [Attempts -> {"none", "verify", "stop", "spawn", "ok", "failed"}]
  /\ stopPost \in {"none", "posted", "done"}
  /\ child \in {0} \union Attempts
  /\ core \in [Cores -> {"none", "started", "connected", "closed", "ended"}]

ConnectionInit ==
  /\ server = "unbound" /\ socket = 0 /\ accepting = 0 /\ backlog = <<>>
  /\ restart = "delay" /\ attempt = 1 /\ gaveUp = FALSE /\ process = 0
  /\ exit = "no"
  /\ post = [a \in Attempts |-> "none"] /\ stopPost = "none" /\ child = 0
  /\ core = [c \in Cores |-> "none"]

-----------------------------------------------------------------------------
(* The processes of the cores.                                             *)

\* What becomes of core c, when there is one, as its process ends.
Ended(c) == [x \in Cores |-> IF x = c THEN "ended" ELSE core[x]]

\* And of the messages it held.
Kill(c) == core' = Ended(c) /\ Lose(c)

\* What becomes of the cores cs when the application closes their sockets.
Closed(cs) == [x \in Cores |->
                 IF x \in cs /\ core[x] = "connected" THEN "closed" ELSE core[x]]

\* Faulty variant: it tries again when nobody listens.
DialPatiently(c) ==
  /\ core[c] = "started" /\ server = "listening"
  /\ core' = [core EXCEPT ![c] = "connected"]
  /\ backlog' = Append(backlog, c)
  /\ UNCHANGED <<app, requestVars, server, socket, accepting, restartVars, exit,
                 helperVars>>

\* startServer: net.Dial, and a panic when nobody listens.
Dial(c) ==
  /\ core[c] = "started"
  /\ IF server = "listening"
     THEN /\ core' = [core EXCEPT ![c] = "connected"]
          /\ backlog' = Append(backlog, c)
     ELSE /\ core' = Ended(c)
          /\ UNCHANGED backlog
  /\ UNCHANGED <<app, requestVars, server, socket, accepting, restartVars, exit,
                 helperVars>>

\* The reading loop takes a line and starts handleAction in a goroutine.
CoreTakes(r) ==
  /\ via[r] # 0 /\ core[via[r]] \in {"connected", "closed"}
  /\ Take(r)
  /\ UNCHANGED connectionVars

\* handleAction is done: its result is written to the connection, whose
\* reading side the application keeps until the core is gone.
CoreAnswers(r) ==
  /\ via[r] # 0 /\ core[via[r]] \in {"connected", "closed"}
  /\ Answer(r)
  /\ UNCHANGED connectionVars

\* The lines before the end of the stream are read first; then startServer
\* returns, and main with it.
NoticeEof(c) ==
  /\ core[c] = "closed"
  /\ \A r \in Request : via[r] = c => message[r] # "sent"
  /\ Kill(c)
  /\ UNCHANGED <<app, request, via, executed, serviceVars, restartVars, exit,
                 helperVars>>

CoreCrash(c) ==
  /\ core[c] \in {"started", "connected"}
  /\ Kill(c)
  /\ UNCHANGED <<app, request, via, executed, serviceVars, restartVars, exit,
                 helperVars>>

-----------------------------------------------------------------------------
(* The server: _initServer and _destroySocket.                             *)

Bind ==
  /\ app # "gone" /\ server = "unbound"
  /\ server' = "listening"
  /\ UNCHANGED <<app, requestVars, socket, accepting, backlog, restartVars, exit,
                 helperVars, core>>

\* Faulty variant: the last socket is not closed.
AcceptKeepingLast ==
  /\ app # "gone" /\ server = "listening"
  /\ accepting = 0 /\ backlog # <<>>
  /\ backlog' = Tail(backlog)
  /\ accepting' = Head(backlog)
  /\ UNCHANGED <<app, requestVars, server, socket, restartVars, exit, helperVars, core>>

\* The accept loop takes a connection.  A socket that is there is closed
\* first; its completer stays completed until the close has been awaited.
Accept ==
  /\ app # "gone" /\ server = "listening"
  /\ accepting = 0 /\ backlog # <<>>
  /\ backlog' = Tail(backlog)
  /\ IF socket = 0
     THEN /\ socket' = Head(backlog)
          /\ Send(Head(backlog))
          /\ UNCHANGED <<accepting, core>>
     ELSE /\ accepting' = Head(backlog)
          /\ core' = Closed({socket})
          /\ UNCHANGED <<socket, message, via>>
  /\ UNCHANGED <<app, request, executed, server, restartVars, exit, helperVars>>

\* The last socket is closed: a new completer, completed with the new one.
Accepted ==
  /\ app # "gone" /\ server # "failed" /\ accepting # 0
  /\ socket' = accepting
  /\ accepting' = 0
  /\ Send(accepting)
  /\ UNCHANGED <<app, request, executed, server, backlog, restartVars, exit,
                 helperVars, core>>

\* Or its close fails, because it had ended with an error: the exception ends
\* the accept loop, and the server with it.  The completer keeps the last
\* socket, and nobody adopts the connection that was taken.
AcceptFails ==
  /\ app # "gone" /\ server = "listening" /\ accepting # 0
  /\ socket # 0 /\ core[socket] = "ended"
  /\ server' = "failed"
  /\ backlog' = <<>>
  /\ core' = Closed({backlog[i] : i \in DOMAIN backlog})
  /\ UNCHANGED <<app, requestVars, socket, accepting, restartVars, exit, helperVars>>

\* invoke and sendMessage: a message is dropped while the application leaves,
\* awaits a pending completer, is written to a socket somebody reads, or is
\* lost in one nobody reads.
Ask(r) ==
  /\ IF exit # "no" THEN Invoke(r, "over", 0)
     ELSE IF socket = 0 THEN Invoke(r, "awaiting", 0)
     ELSE IF core[socket] = "connected" THEN Invoke(r, "sent", socket)
     ELSE Invoke(r, "over", socket)
  /\ UNCHANGED connectionVars

Expire(r) == Default(r) /\ UNCHANGED connectionVars

-----------------------------------------------------------------------------
(* reStart, which only the constructor calls, and startCoreByHelper.       *)

Continue(from, to) ==
  /\ app # "gone"
  /\ restart = from
  /\ restart' = to

\* After the delay the completer is replaced, whoever awaits it.
Swap ==
  /\ Continue("delay", "server")
  /\ socket' = 0
  /\ Strand
  /\ UNCHANGED <<app, request, via, executed, server, accepting, backlog, attempt,
                 gaveUp, process, exit, helperVars, core>>

\* serverCompleter is awaited for the address the core is given.
KnowServer ==
  /\ server # "unbound"
  /\ Continue("server", IF platform = "windows" THEN "register" ELSE "spawn")
  /\ UNCHANGED <<app, requestVars, serviceVars, attempt, gaveUp, process, exit,
                 helperVars, core>>

\* registerService: the helper answers a ping, is installed, or is not there.
Register ==
  /\ \E next \in {"post", "spawn"} : Continue("register", next)
  /\ UNCHANGED <<app, requestVars, serviceVars, attempt, gaveUp, process, exit,
                 helperVars, core>>

\* The attempt is over without the empty answer of success.
NextAttempt ==
  IF attempt = MaxAttempts
  THEN restart' = "spawn" /\ UNCHANGED attempt
  ELSE restart' = "post" /\ attempt' = attempt + 1

\* A post of /start reaches the helper.
Post ==
  /\ Continue("post", "posted")
  /\ post' = [post EXCEPT ![attempt] = "verify"]
  /\ UNCHANGED <<app, requestVars, serviceVars, attempt, gaveUp, process, exit,
                 stopPost, child, core>>

\* Or it is refused.
PostRefused ==
  /\ app # "gone" /\ restart = "post"
  /\ NextAttempt
  /\ UNCHANGED <<app, requestVars, serviceVars, gaveUp, process, exit, helperVars,
                 core>>

\* Faulty variant: the empty answer is not taken for success.
PostAnsweredUnread ==
  /\ app # "gone" /\ restart = "posted" /\ post[attempt] \in {"ok", "failed"}
  /\ NextAttempt
  /\ UNCHANGED <<app, requestVars, serviceVars, gaveUp, process, exit, helperVars,
                 core>>

\* The answer comes in time.
PostAnswered ==
  /\ app # "gone" /\ restart = "posted"
  /\ \/ post[attempt] = "ok" /\ restart' = "done" /\ UNCHANGED attempt
     \/ post[attempt] = "failed" /\ NextAttempt
  /\ UNCHANGED <<app, requestVars, serviceVars, gaveUp, process, exit, helperVars,
                 core>>

\* Two seconds have passed; the helper goes on with what it was asked.
PostTimesOut ==
  /\ app # "gone" /\ restart = "posted"
  /\ gaveUp' = TRUE
  /\ NextAttempt
  /\ UNCHANGED <<app, requestVars, serviceVars, process, exit, helperVars, core>>

\* Process.start, which may fail.
Spawn ==
  /\ Continue("spawn", "done")
  /\ \/ process' = Direct /\ core' = [core EXCEPT ![Direct] = "started"]
     \/ UNCHANGED <<process, core>>
  /\ UNCHANGED <<app, requestVars, serviceVars, attempt, gaveUp, exit, helperVars>>

-----------------------------------------------------------------------------
(* The helper: a thread for each post.                                     *)

\* start: the hash of the program is checked.
HelperVerify(a) ==
  /\ post[a] = "verify"
  /\ \E next \in {"stop", "failed"} : post' = [post EXCEPT ![a] = next]
  /\ UNCHANGED <<app, requestVars, serviceVars, restartVars, exit, stopPost, child,
                 core>>

\* stop, under the lock of PROCESS.
KillChild ==
  /\ Kill(child)
  /\ child' = 0
  /\ UNCHANGED <<app, request, via, executed, serviceVars, restartVars, exit>>

HelperStop(a) ==
  /\ post[a] = "stop"
  /\ post' = [post EXCEPT ![a] = "spawn"]
  /\ KillChild
  /\ UNCHANGED stopPost

\* And, under the lock taken once more, the spawn.
HelperSpawn(a) ==
  /\ post[a] = "spawn"
  /\ \/ /\ post' = [post EXCEPT ![a] = "ok"]
        /\ child' = a
        /\ core' = [core EXCEPT ![a] = "started"]
     \/ /\ post' = [post EXCEPT ![a] = "failed"]
        /\ UNCHANGED <<child, core>>
  /\ UNCHANGED <<app, requestVars, serviceVars, restartVars, exit, stopPost>>

HelperStopPost ==
  /\ stopPost = "posted"
  /\ stopPost' = "done"
  /\ KillChild
  /\ UNCHANGED post

-----------------------------------------------------------------------------
(* handleExit of lib/controller.dart: shutdown, destroy, and the end.      *)

ExitStep(from, to) ==
  /\ app # "gone"
  /\ exit = from
  /\ exit' = to

Leave ==
  /\ ExitStep("no", "asked")
  /\ app' = "leaving"
  /\ UNCHANGED <<requestVars, serviceVars, restartVars, helperVars, core>>

\* shutdown: stopCoreByHelper, on Windows; it may not reach the helper.
StopCore ==
  /\ ExitStep("asked", "stopping")
  /\ stopPost' \in IF platform = "windows" THEN {"none", "posted"} ELSE {"none"}
  /\ UNCHANGED <<app, requestVars, serviceVars, restartVars, post, child, core>>

\* Faulty variant: _destroySocket does not look whether there is a socket.
CloseSocketAlways ==
  /\ ExitStep("stopping", "closing")
  /\ core' = Closed({socket})
  /\ UNCHANGED <<app, requestVars, serviceVars, restartVars, helperVars>>

\* It is answered or given up; _destroySocket begins.
CloseSocket ==
  /\ ExitStep("stopping", IF socket = 0 THEN "kill" ELSE "closing")
  /\ core' = Closed({socket})
  /\ UNCHANGED <<app, requestVars, serviceVars, restartVars, helperVars>>

SocketClosed ==
  /\ ExitStep("closing", "kill")
  /\ socket' = 0
  /\ Strand
  /\ UNCHANGED <<app, request, via, executed, server, accepting, backlog,
                 restartVars, helperVars, core>>

KillProcess ==
  /\ ExitStep("kill", "server")
  /\ Kill(process)
  /\ process' = 0
  /\ UNCHANGED <<app, request, via, executed, serviceVars, restart, attempt, gaveUp,
                 helperVars>>

\* destroy: the server is closed, and the connections it has not accepted.
CloseServer ==
  /\ server = "listening"
  /\ ExitStep("server", "server")
  /\ server' = "closed"
  /\ backlog' = <<>>
  /\ core' = Closed({backlog[i] : i \in DOMAIN backlog})
  /\ UNCHANGED <<app, requestVars, socket, accepting, restartVars, helperVars>>

\* The application is gone, its memory and its sockets with it: after destroy,
\* or at any time when it crashes or an exception ends handleExit early.
Gone ==
  /\ exit' = "gone"
  /\ server' = "closed" /\ socket' = 0 /\ accepting' = 0 /\ backlog' = <<>>
  /\ restart' = "done" /\ attempt' = 1 /\ gaveUp' = FALSE /\ process' = 0
  /\ core' = Closed(Cores)
  /\ Drop
  /\ UNCHANGED <<message, via, executed, helperVars>>

-----------------------------------------------------------------------------

HelperStep == \E a \in Attempts : HelperVerify(a) \/ HelperStop(a) \/ HelperSpawn(a)

AppStep ==
  \/ Bind \/ Accept \/ Accepted \/ AcceptFails
  \/ Swap \/ KnowServer \/ Register \/ Post \/ PostRefused \/ PostAnswered
  \/ PostTimesOut \/ Spawn
  \/ Leave \/ StopCore \/ CloseSocket \/ SocketClosed \/ KillProcess \/ CloseServer
  \/ Gone

CoreStep ==
  \/ \E c \in Cores : Dial(c) \/ NoticeEof(c) \/ CoreCrash(c)
  \/ \E r \in Request : CoreTakes(r) \/ CoreAnswers(r)

RequestStep == \E r \in Request : Ask(r) \/ Expire(r)

ConnectionNext ==
  \/ AppStep \/ CoreStep \/ HelperStep \/ HelperStopPost \/ RequestStep
=============================================================================
