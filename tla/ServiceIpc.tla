----------------------------- MODULE ServiceIpc -----------------------------
(***************************************************************************)
(* The Android transport: ClashLib of lib/clash/lib.dart in the main       *)
(* isolate, the service isolate of lib/main.dart in an engine of its own,  *)
(* and the platform side that starts that engine and passes it requests to *)
(* reconnect (GlobalState.kt, TilePlugin.kt).                              *)
(*                                                                         *)
(* Ports of the service isolate are numbered in the order they are made.   *)
(***************************************************************************)
EXTENDS Requests, Sequences

CONSTANT IpcAttempts \* waits of _waitForIpc, 3 in the code

ASSUME IpcAssumption == IpcAttempts \in Nat \ {0}

VARIABLES
  engine,     \* the service engine
  reconnects, \* calls of reconnectIpc on their way to its isolate
  port,       \* the ReceivePort it listens to, the latest of those it made
  inbox,      \* SendPorts on their way to the main isolate
  sendPort,   \* the one the main isolate sends to, 0 for null
  canSend,    \* _canSendCompleter is completed
  ipc,        \* where _initService is
  waits,      \* attempts of _waitForIpc begun
  preload     \* what main() awaits: the first _canSendCompleter

ipcVars ==
  <<engine, reconnects, port, inbox, sendPort, canSend, ipc, waits, preload>>

IpcTypeOK ==
  /\ engine \in {"none", "booting", "quick", "ready"}
  /\ reconnects \in Nat
  /\ port \in Nat
  /\ inbox \in Seq(Nat)
  /\ sendPort \in Nat
  /\ canSend \in BOOLEAN
  /\ ipc \in {"ask", "reconnect", "destroy", "init", "wait", "retry", "done"}
  /\ waits \in 0 .. IpcAttempts
  /\ ipc \notin {"retry", "done"} => waits < IpcAttempts
  /\ preload \in {"waiting", "stranded", "returned"}

\* The application finds no engine, one that boots (the receiver of the boot
\* event starts one), or one that a quick start left without a port.
IpcInit ==
  /\ engine \in {"none", "booting", "quick", "ready"}
  /\ reconnects = 0 /\ port = 0 /\ inbox = <<>>
  /\ sendPort = 0 /\ canSend = FALSE
  /\ ipc = "ask" /\ waits = 0 /\ preload = "waiting"

-----------------------------------------------------------------------------
(* The service isolate.                                                    *)

\* _handleMainIpc: the last port is closed, and what is queued there lost; a
\* new one is made and sent to the main isolate.
HandleMainIpc ==
  /\ port' = port + 1
  /\ inbox' = Append(inbox, port + 1)
  /\ message' = [r \in Request |->
                   IF via[r] = port /\ message[r] = "sent" THEN "over" ELSE message[r]]
  /\ UNCHANGED <<app, request, via, executed, sendPort, canSend, ipc, waits, preload>>

\* _service, once its listeners are registered: a quick start serves the VPN
\* only, another start connects to the main isolate.
Boot ==
  /\ engine \in {"booting", "quick"}
  /\ engine' = "ready"
  /\ UNCHANGED reconnects
  /\ IF engine = "quick"
     THEN UNCHANGED <<app, requestVars, port, inbox, sendPort, canSend, ipc, waits,
                      preload>>
     ELSE HandleMainIpc

\* onReconnectIpc.
Reconnect ==
  /\ engine = "ready" /\ reconnects > 0
  /\ reconnects' = reconnects - 1
  /\ HandleMainIpc
  /\ UNCHANGED engine

\* The port's listener hands the message to the core.
ServiceTakes(r) ==
  /\ engine = "ready" /\ port # 0 /\ via[r] = port
  /\ Take(r)
  /\ UNCHANGED ipcVars

\* The core's result is sent to the port of the main isolate, which a service
\* port that has been closed meanwhile does not prevent.
ServiceAnswers(r) ==
  /\ engine = "ready"
  /\ Answer(r)
  /\ UNCHANGED ipcVars

-----------------------------------------------------------------------------
(* The platform side.                                                      *)

\* reconnectIpc: a method call to the engine, kept in the channel's buffer of
\* one while no handler is registered.
SendReconnect ==
  reconnects' = CASE engine = "none" -> reconnects
                  [] engine = "ready" -> reconnects + 1
                  [] OTHER -> 1

\* The end of the engine: its queues, ports and handlers are gone.
DestroyEngine ==
  /\ engine' = "none"
  /\ reconnects' = 0 /\ port' = port
  /\ message' = [r \in Request |->
                   IF message[r] \in {"sent", "running"} THEN "over" ELSE message[r]]

-----------------------------------------------------------------------------
(* The main isolate: ClashLib.                                             *)

At(from, to) == app # "gone" /\ ipc = from /\ ipc' = to

\* _initService: isServiceEngineRunning ...
AskRunning ==
  /\ At("ask", IF engine = "none" THEN "destroy" ELSE "reconnect")
  /\ UNCHANGED <<app, requestVars, engine, reconnects, port, inbox, sendPort, canSend,
                 waits, preload>>

\* ... then reconnectIpc ...
AskReconnect ==
  /\ At("reconnect", "wait")
  /\ SendReconnect
  /\ UNCHANGED <<app, requestVars, engine, port, inbox, sendPort, canSend, waits,
                 preload>>

\* ... or destroy and init: initServiceEngine does nothing to an engine that
\* is there, and boots one that is not.
Destroy ==
  /\ At("destroy", "init")
  /\ DestroyEngine
  /\ UNCHANGED <<app, request, via, executed, inbox, sendPort, canSend, waits, preload>>

InitEngine ==
  /\ At("init", "wait")
  /\ engine' = IF engine = "none" THEN "booting" ELSE engine
  /\ UNCHANGED <<app, requestVars, reconnects, port, inbox, sendPort, canSend, waits,
                 preload>>

\* _waitForIpc: the completer is completed in time ...
Connected ==
  /\ canSend
  /\ At("wait", "done")
  /\ UNCHANGED <<app, requestVars, engine, reconnects, port, inbox, sendPort, canSend,
                 waits, preload>>

\* ... or is not: it is replaced, whoever awaits it ...
NotConnected ==
  /\ ~canSend
  /\ At("wait", "retry")
  /\ waits' = waits + 1
  /\ preload' = "stranded"
  /\ UNCHANGED <<app, requestVars, engine, reconnects, port, inbox, sendPort, canSend>>

\* ... and another port is asked for.
Retry ==
  /\ At("retry", IF waits = IpcAttempts THEN "done" ELSE "wait")
  /\ SendReconnect
  /\ UNCHANGED <<app, requestVars, engine, port, inbox, sendPort, canSend, waits,
                 preload>>

\* Faulty variant: only the first SendPort is taken.
ReceiveFirstPort ==
  /\ app # "gone" /\ inbox # <<>>
  /\ inbox' = Tail(inbox)
  /\ sendPort' = IF canSend THEN sendPort ELSE Head(inbox)
  /\ canSend' = TRUE
  /\ preload' = IF preload = "waiting" THEN "returned" ELSE preload
  /\ UNCHANGED <<app, requestVars, engine, reconnects, port, ipc, waits>>

\* receiverPort.listen: a SendPort completes the completer, a new one when
\* the last is completed already.
ReceivePort ==
  /\ app # "gone" /\ inbox # <<>>
  /\ inbox' = Tail(inbox)
  /\ sendPort' = Head(inbox)
  /\ canSend' = TRUE
  /\ preload' = IF preload = "waiting" THEN "returned" ELSE preload
  /\ UNCHANGED <<app, requestVars, engine, reconnects, port, ipc, waits>>

\* invoke and sendMessage, once main() has gone past preload: a message to a
\* port that is closed is lost.
IpcAsk(r) ==
  /\ preload = "returned"
  /\ Invoke(r, IF engine = "ready" /\ sendPort = port THEN "sent" ELSE "over", sendPort)
  /\ UNCHANGED ipcVars

IpcExpire(r) == Default(r) /\ UNCHANGED ipcVars

\* handleExit: shutdown ...
IpcLeave ==
  /\ app = "running"
  /\ app' = "leaving"
  /\ UNCHANGED <<requestVars, ipcVars>>

\* ... then destroy.
IpcDestroy ==
  /\ app = "leaving"
  /\ DestroyEngine
  /\ UNCHANGED <<app, request, via, executed, inbox, sendPort, canSend, ipc, waits,
                 preload>>

\* The main isolate is gone, after that or at any time.
IpcGone ==
  /\ Drop
  /\ UNCHANGED <<message, via, executed, ipcVars>>

-----------------------------------------------------------------------------

IpcNext ==
  \/ Boot \/ Reconnect
  \/ AskRunning \/ AskReconnect \/ Destroy \/ InitEngine
  \/ Connected \/ NotConnected \/ Retry \/ ReceivePort
  \/ \E r \in Request :
       ServiceTakes(r) \/ ServiceAnswers(r) \/ IpcAsk(r) \/ IpcExpire(r)
  \/ IpcLeave \/ IpcDestroy \/ IpcGone
=============================================================================
