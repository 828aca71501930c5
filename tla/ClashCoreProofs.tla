-------------------------- MODULE ClashCoreProofs ---------------------------
(***************************************************************************)
(* The safety of the requests and of the transports for any number of      *)
(* requests, of posts to the helper and of waits for a port.               *)
(***************************************************************************)
EXTENDS ClashCore, TLAPS

\* What the place of a message says of its caller and of its execution.
MessagesFit ==
  \A r \in Request :
    /\ request[r] = "new" => message[r] = "none"
    /\ message[r] \in {"none", "awaiting", "stranded", "sent"} => r \notin executed
    /\ message[r] = "running" => r \in executed

\* A post is made once, and only one that is answered with success leads to a
\* core; the application starts its own core last.
StartsInOrder ==
  /\ \A a \in Attempts : core[a] # "none" => post[a] = "ok"
  /\ child # 0 => post[child] = "ok"
  /\ core[Direct] # "none" \/ process # 0 \/ app = "gone" => restart = "done"
  /\ app # "gone" => \A a \in Attempts : a > attempt => post[a] = "none"
  /\ restart \in {"delay", "server", "register"} => attempt = 1
  /\ restart \in {"delay", "server", "register", "post"} => post[attempt] = "none"

Dialled == {"connected", "closed", "ended"}

\* A connection belongs to a core that has dialled.
ConnectionsFit ==
  /\ socket # 0 => core[socket] \in Dialled
  /\ accepting # 0 => core[accepting] \in Dialled
  /\ \A i \in DOMAIN backlog : core[backlog[i]] \in Dialled

\* While the application runs, every connected core is the one it talks to or
\* is about to become it.
CoresFit ==
  app = "running" =>
    /\ exit = "no"
    /\ accepting # 0 => socket # 0 /\ core[socket] # "connected"
    /\ server = "failed" => accepting # 0
    /\ \A c \in Cores :
         core[c] = "connected" =>
           c \in {socket, accepting} \/ \E i \in DOMAIN backlog : backlog[i] = c

\* Messages await the completer of the socket only while it is pending.
WaitsFit ==
  /\ (\E r \in Request : message[r] = "awaiting") => socket = 0
  /\ exit = "closing" => socket # 0

\* As long as no post is given up, one core is started.
PostsFit ==
  app # "gone" /\ ~gaveUp =>
    /\ \A a \in Attempts :
         post[a] \notin {"none", "failed"} => a = attempt /\ restart \in {"posted", "done"}
    /\ core[Direct] # "none" \/ process # 0 =>
         \A a \in Attempts : post[a] \in {"none", "failed"}

DesktopInv ==
  platform # "android" =>
    StartsInOrder /\ ConnectionsFit /\ CoresFit /\ WaitsFit /\ PostsFit

\* On Android there is no core process.
AndroidInv == platform = "android" => ConnectionInit

Inv == TypeOK /\ MessagesFit /\ DesktopInv /\ AndroidInv

-----------------------------------------------------------------------------
(* Types, and what a step may do to the requests.                          *)

\* Messages are sent, stranded or lost.
MessagesMove ==
  /\ UNCHANGED <<request, executed>>
  /\ \A r \in Request :
       \/ message'[r] = message[r]
       \/ message[r] = "awaiting" /\ message'[r] \in {"sent", "stranded"}
       \/ message[r] \in {"sent", "running"} /\ message'[r] = "over"

RequestsChange ==
  \/ \E r \in Request, m \in {"awaiting", "sent", "over"}, c \in Nat : Invoke(r, m, c)
  \/ \E r \in Request : Default(r) \/ Take(r) \/ Answer(r)
  \/ MessagesMove
  \/ Drop /\ UNCHANGED <<message, executed>>

RequestTypes ==
  /\ request \in [Request -> Outcomes]
  /\ message \in [Request -> MessageStates]
  /\ via \in [Request -> Nat]
  /\ executed \subseteq Request

LEMMA InvokeTyped ==
  ASSUME RequestTypes, NEW r \in Request,
         NEW m \in {"awaiting", "sent", "over"}, NEW c \in Nat, Invoke(r, m, c)
  PROVE  RequestTypes' /\ RequestsChange /\ UNCHANGED <<app, executed>>
<1>1. RequestsChange
  BY Zenon DEF RequestsChange
<1>2. RequestTypes' /\ UNCHANGED <<app, executed>>
  BY DEF RequestTypes, Invoke, Outcomes, MessageStates
<1> QED BY <1>1, <1>2

LEMMA DefaultTyped ==
  ASSUME RequestTypes, NEW r \in Request, Default(r)
  PROVE  RequestTypes' /\ RequestsChange /\ UNCHANGED <<app, message>>
BY DEF RequestTypes, Default, RequestsChange, Outcomes

LEMMA TakeTyped ==
  ASSUME RequestTypes, NEW r \in Request, Take(r)
  PROVE  RequestTypes' /\ RequestsChange /\ UNCHANGED <<app, request>>
BY DEF RequestTypes, Take, RequestsChange, MessageStates

LEMMA AnswerTyped ==
  ASSUME RequestTypes, NEW r \in Request, Answer(r)
  PROVE  RequestTypes' /\ RequestsChange /\ UNCHANGED app
BY DEF RequestTypes, Answer, RequestsChange, Outcomes, MessageStates

LEMMA SendTyped ==
  ASSUME RequestTypes, NEW c \in Nat, Send(c), UNCHANGED <<request, executed>>
  PROVE  RequestTypes' /\ MessagesMove
BY DEF RequestTypes, Send, MessagesMove, MessageStates

LEMMA StrandTyped ==
  ASSUME RequestTypes, Strand, UNCHANGED <<request, via, executed>>
  PROVE  RequestTypes' /\ MessagesMove
BY DEF RequestTypes, Strand, MessagesMove, MessageStates

LEMMA LoseTyped ==
  ASSUME RequestTypes, NEW c, Lose(c), UNCHANGED <<request, via, executed>>
  PROVE  RequestTypes' /\ MessagesMove
BY DEF RequestTypes, Lose, MessagesMove, MessageStates

LEMMA DropTyped ==
  ASSUME RequestTypes, Drop, UNCHANGED <<message, via, executed>>
  PROVE  RequestTypes' /\ RequestsChange /\ app' = "gone"
BY DEF RequestTypes, Drop, RequestsChange, Outcomes

LEMMA NothingTyped ==
  ASSUME RequestTypes, UNCHANGED requestVars
  PROVE  RequestTypes' /\ MessagesMove
BY DEF RequestTypes, requestVars, MessagesMove

Apps == {"running", "leaving", "gone"}

\* What a step over either transport does to the requests.
RequestsStep == RequestTypes' /\ RequestsChange /\ app' \in Apps

LEMMA MoveIsChange ==
  ASSUME RequestTypes', MessagesMove, app' \in Apps
  PROVE  RequestsStep
BY Zenon DEF RequestsStep, RequestsChange

LEMMA PortTyped ==
  ASSUME RequestTypes, IpcTypeOK, HandleMainIpc, app \in Apps
  PROVE  RequestsStep
<1>1. RequestTypes' /\ MessagesMove /\ app' \in Apps
  BY DEF HandleMainIpc, RequestTypes, MessagesMove, MessageStates
<1> QED BY <1>1, MoveIsChange

LEMMA EngineTyped ==
  ASSUME RequestTypes, DestroyEngine, UNCHANGED <<app, request, via, executed>>,
         app \in Apps
  PROVE  RequestsStep
<1>1. RequestTypes' /\ MessagesMove /\ app' \in Apps
  BY DEF DestroyEngine, RequestTypes, MessagesMove, MessageStates
<1> QED BY <1>1, MoveIsChange

LEMMA QuietTyped ==
  ASSUME RequestTypes, app \in Apps, UNCHANGED requestVars, app' \in Apps
  PROVE  RequestsStep
BY NothingTyped, MoveIsChange

LEMMA IpcStepTyped ==
  ASSUME RequestTypes, IpcTypeOK, app \in Apps, IpcNext
  PROVE  IpcTypeOK' /\ RequestsStep
<1> USE IpcAssumption
<1>1. CASE Boot
  <2>1. CASE engine = "quick"
    <3>1. UNCHANGED requestVars /\ UNCHANGED app
      BY <1>1, <2>1 DEF Boot
    <3> QED BY <1>1, <2>1, <3>1, QuietTyped DEF Boot, IpcTypeOK
  <2>2. CASE engine # "quick"
    <3>1. HandleMainIpc
      BY <1>1, <2>2 DEF Boot
    <3> QED BY <1>1, <3>1, PortTyped DEF Boot, HandleMainIpc, IpcTypeOK
  <2> QED BY <2>1, <2>2
<1>2. CASE Reconnect
  BY <1>2, PortTyped DEF Reconnect, HandleMainIpc, IpcTypeOK
<1>3. CASE AskRunning
  BY <1>3, QuietTyped DEF AskRunning, At, IpcTypeOK
<1>4. CASE AskReconnect
  BY <1>4, QuietTyped DEF AskReconnect, At, SendReconnect, IpcTypeOK
<1>5. CASE Destroy
  BY <1>5, EngineTyped DEF Destroy, DestroyEngine, At, IpcTypeOK
<1>6. CASE InitEngine
  BY <1>6, QuietTyped DEF InitEngine, At, IpcTypeOK
<1>7. CASE Connected
  BY <1>7, QuietTyped DEF Connected, At, IpcTypeOK
<1>8. CASE NotConnected
  BY <1>8, QuietTyped DEF NotConnected, At, IpcTypeOK
<1>9. CASE Retry
  BY <1>9, QuietTyped DEF Retry, At, SendReconnect, IpcTypeOK
<1>10. CASE ReceivePort
  BY <1>10, QuietTyped DEF ReceivePort, IpcTypeOK
<1>11. ASSUME NEW r \in Request, ServiceTakes(r)
       PROVE  IpcTypeOK' /\ RequestsStep
  BY <1>11, TakeTyped DEF ServiceTakes, ipcVars, IpcTypeOK, RequestsStep
<1>12. ASSUME NEW r \in Request, ServiceAnswers(r)
       PROVE  IpcTypeOK' /\ RequestsStep
  BY <1>12, AnswerTyped DEF ServiceAnswers, ipcVars, IpcTypeOK, RequestsStep
<1>13. ASSUME NEW r \in Request, IpcAsk(r)
       PROVE  IpcTypeOK' /\ RequestsStep
  <2> DEFINE m == IF engine = "ready" /\ sendPort = port THEN "sent" ELSE "over"
  <2>1. m \in {"awaiting", "sent", "over"} /\ sendPort \in Nat
    BY DEF IpcTypeOK
  <2>2. Invoke(r, m, sendPort) /\ UNCHANGED ipcVars
    BY <1>13 DEF IpcAsk
  <2> HIDE DEF m
  <2> QED BY <2>1, <2>2, InvokeTyped DEF ipcVars, IpcTypeOK, RequestsStep
<1>14. ASSUME NEW r \in Request, IpcExpire(r)
       PROVE  IpcTypeOK' /\ RequestsStep
  BY <1>14, DefaultTyped DEF IpcExpire, ipcVars, IpcTypeOK, RequestsStep
<1>15. CASE IpcLeave
  BY <1>15, QuietTyped DEF IpcLeave, ipcVars, IpcTypeOK, Apps
<1>16. CASE IpcDestroy
  BY <1>16, EngineTyped DEF IpcDestroy, DestroyEngine, IpcTypeOK
<1>17. CASE IpcGone
  BY <1>17, DropTyped DEF IpcGone, ipcVars, IpcTypeOK, RequestsStep, Apps
<1> QED
  BY <1>1, <1>2, <1>3, <1>4, <1>5, <1>6, <1>7, <1>8, <1>9, <1>10, <1>11, <1>12,
     <1>13, <1>14, <1>15, <1>16, <1>17 DEF IpcNext

-----------------------------------------------------------------------------

LEMMA EndedTyped ==
  ASSUME ConnectionTypeOK, NEW c
  PROVE  /\ Ended(c) \in [Cores -> {"none", "started", "connected", "closed", "ended"}]
         /\ Closed(c) \in [Cores -> {"none", "started", "connected", "closed", "ended"}]
BY DEF ConnectionTypeOK, Ended, Closed

LEMMA NumbersTyped ==
  /\ Direct \in Cores /\ Direct \notin Attempts /\ 0 \notin Cores
  /\ Attempts \subseteq Cores /\ Cores \subseteq 0 .. Direct /\ 0 .. Direct \subseteq Nat
  /\ 1 \in Attempts /\ 0 \in 0 .. Direct /\ Cores = Attempts \union {Direct}
  /\ \A c \in 0 .. Direct : c # 0 => c \in Cores
BY AttemptsAssumption DEF Direct, Cores, Attempts

\* The backlog grows at its end and is served from its front.
LEMMA BacklogTyped ==
  ASSUME ConnectionTypeOK
  PROVE  /\ \A c \in Cores : Append(backlog, c) \in Seq(Cores)
         /\ backlog # <<>> => Head(backlog) \in Cores /\ Tail(backlog) \in Seq(Cores)
BY DEF ConnectionTypeOK

LEMMA CoreStepTyped ==
  ASSUME RequestTypes, ConnectionTypeOK, app \in Apps, CoreStep
  PROVE  ConnectionTypeOK' /\ RequestsStep
<1> USE EndedTyped, NumbersTyped, BacklogTyped DEF serviceVars, restartVars, helperVars
<1>1. ASSUME NEW c \in Cores, Dial(c)
      PROVE  ConnectionTypeOK' /\ RequestsStep
  <2>1. RequestsStep
    BY <1>1, QuietTyped DEF Dial
  <2>2. CASE server = "listening"
    <3>1. core' = [core EXCEPT ![c] = "connected"] /\ backlog' \in Seq(Cores)
      BY <1>1, <2>2, BacklogTyped DEF Dial
    <3> QED BY <1>1, <2>1, <3>1 DEF Dial, ConnectionTypeOK
  <2>3. CASE server # "listening"
    BY <1>1, <2>1, <2>3 DEF Dial, ConnectionTypeOK
  <2> QED BY <2>2, <2>3
<1>2. ASSUME NEW c \in Cores, NoticeEof(c)
      PROVE  ConnectionTypeOK' /\ RequestsStep
  BY <1>2, LoseTyped, MoveIsChange DEF NoticeEof, Kill, ConnectionTypeOK
<1>3. ASSUME NEW c \in Cores, CoreCrash(c)
      PROVE  ConnectionTypeOK' /\ RequestsStep
  BY <1>3, LoseTyped, MoveIsChange DEF CoreCrash, Kill, ConnectionTypeOK
<1>4. ASSUME NEW r \in Request, CoreTakes(r)
      PROVE  ConnectionTypeOK' /\ RequestsStep
  BY <1>4, TakeTyped DEF CoreTakes, connectionVars, ConnectionTypeOK, RequestsStep
<1>5. ASSUME NEW r \in Request, CoreAnswers(r)
      PROVE  ConnectionTypeOK' /\ RequestsStep
  BY <1>5, AnswerTyped DEF CoreAnswers, connectionVars, ConnectionTypeOK, RequestsStep
<1> QED BY <1>1, <1>2, <1>3, <1>4, <1>5 DEF CoreStep

LEMMA RequestStepTyped ==
  ASSUME RequestTypes, ConnectionTypeOK, app \in Apps, RequestStep
  PROVE  UNCHANGED connectionVars /\ app' = app /\ ConnectionTypeOK' /\ RequestsStep
<1> USE NumbersTyped
<1>1. UNCHANGED connectionVars => ConnectionTypeOK'
  BY DEF connectionVars, serviceVars, restartVars, helperVars, ConnectionTypeOK
<1>2. ASSUME NEW r \in Request, Ask(r)
      PROVE  UNCHANGED connectionVars /\ app' = app /\ RequestsStep
  <2>1. \E m \in {"awaiting", "sent", "over"}, c \in Nat : Invoke(r, m, c)
    BY <1>2, Zenon DEF Ask, ConnectionTypeOK
  <2> QED BY <1>2, <2>1, InvokeTyped DEF Ask, RequestsStep
<1>3. ASSUME NEW r \in Request, Expire(r)
      PROVE  UNCHANGED connectionVars /\ app' = app /\ RequestsStep
  BY <1>3, DefaultTyped DEF Expire, RequestsStep
<1> QED BY <1>1, <1>2, <1>3 DEF RequestStep

LEMMA HelperTyped ==
  ASSUME RequestTypes, ConnectionTypeOK, app \in Apps, HelperStep \/ HelperStopPost
  PROVE  ConnectionTypeOK' /\ RequestsStep
<1> USE EndedTyped, NumbersTyped DEF serviceVars, restartVars, helperVars
<1>1. ASSUME NEW a \in Attempts, HelperVerify(a)
      PROVE  ConnectionTypeOK' /\ RequestsStep
  BY <1>1, QuietTyped DEF HelperVerify, ConnectionTypeOK
<1>2. ASSUME NEW a \in Attempts, HelperStop(a)
      PROVE  ConnectionTypeOK' /\ RequestsStep
  BY <1>2, LoseTyped, MoveIsChange DEF HelperStop, KillChild, Kill, ConnectionTypeOK
<1>3. ASSUME NEW a \in Attempts, HelperSpawn(a)
      PROVE  ConnectionTypeOK' /\ RequestsStep
  BY <1>3, QuietTyped DEF HelperSpawn, ConnectionTypeOK
<1>4. CASE HelperStopPost
  BY <1>4, LoseTyped, MoveIsChange DEF HelperStopPost, KillChild, Kill, ConnectionTypeOK
<1> QED BY <1>1, <1>2, <1>3, <1>4 DEF HelperStep

LEMMA AppStepTyped ==
  ASSUME RequestTypes, ConnectionTypeOK, app \in Apps, AppStep
  PROVE  ConnectionTypeOK' /\ RequestsStep
<1> USE NumbersTyped DEF serviceVars, restartVars, helperVars, ExitSteps
<1>1. CASE Bind
  BY <1>1, QuietTyped DEF Bind, ConnectionTypeOK
<1>2. CASE Accept
  <2>1. Head(backlog) \in Cores /\ Tail(backlog) \in Seq(Cores)
    BY <1>2, BacklogTyped DEF Accept
  <2>2. CASE socket = 0
    <3>1. Send(Head(backlog)) /\ UNCHANGED <<request, executed, app>>
      BY <1>2, <2>2 DEF Accept
    <3>2. Head(backlog) \in Nat /\ app' \in Apps
      BY <2>1, <3>1
    <3>3. RequestTypes' /\ MessagesMove
      BY <3>1, <3>2, SendTyped
    <3>4. RequestsStep
      BY <3>2, <3>3, MoveIsChange
    <3>5. /\ socket' \in Cores /\ backlog' \in Seq(Cores)
          /\ UNCHANGED <<accepting, core, server, restartVars, exit, helperVars>>
      BY <1>2, <2>1, <2>2 DEF Accept
    <3> QED BY <3>4, <3>5 DEF ConnectionTypeOK
  <2>3. CASE socket # 0
    <3>1. UNCHANGED requestVars
      BY <1>2, <2>3 DEF Accept, requestVars
    <3>2. RequestsStep
      BY <1>2, <3>1, QuietTyped DEF Accept
    <3>3. accepting' \in Cores /\ backlog' \in Seq(Cores) /\ UNCHANGED socket
          /\ core' \in [Cores -> {"none", "started", "connected", "closed", "ended"}]
      BY <1>2, <2>1, <2>3, EndedTyped DEF Accept
    <3>4. UNCHANGED <<server, restartVars, exit, helperVars>>
      BY <1>2 DEF Accept
    <3> QED BY <3>2, <3>3, <3>4 DEF ConnectionTypeOK
  <2> QED BY <2>2, <2>3
<1>3. CASE Accepted
  BY <1>3, SendTyped, MoveIsChange DEF Accepted, ConnectionTypeOK
<1>4. CASE Swap
  BY <1>4, StrandTyped, MoveIsChange DEF Swap, Continue, ConnectionTypeOK
<1>5. CASE KnowServer
  BY <1>5, QuietTyped DEF KnowServer, Continue, ConnectionTypeOK
<1>6. CASE Register
  BY <1>6, QuietTyped DEF Register, Continue, ConnectionTypeOK
<1>7. CASE Post
  BY <1>7, QuietTyped DEF Post, Continue, ConnectionTypeOK
<1>8. ASSUME NextAttempt, ConnectionTypeOK
      PROVE  attempt' \in Attempts /\ restart' \in {"spawn", "post"}
  BY <1>8, AttemptsAssumption DEF NextAttempt, ConnectionTypeOK, Attempts
<1>9. CASE PostRefused
  BY <1>8, <1>9, QuietTyped DEF PostRefused, ConnectionTypeOK
<1>10. CASE PostAnswered
  BY <1>8, <1>10, QuietTyped DEF PostAnswered, ConnectionTypeOK
<1>11. CASE PostTimesOut
  BY <1>8, <1>11, QuietTyped DEF PostTimesOut, ConnectionTypeOK
<1>12. CASE Spawn
  BY <1>12, QuietTyped DEF Spawn, Continue, ConnectionTypeOK
<1>13. CASE Leave
  BY <1>13, QuietTyped DEF Leave, ExitStep, ConnectionTypeOK, Apps
<1>14. CASE StopCore
  BY <1>14, QuietTyped DEF StopCore, ExitStep, ConnectionTypeOK
<1>15. CASE CloseSocket
  BY <1>15, QuietTyped, EndedTyped DEF CloseSocket, ExitStep, ConnectionTypeOK
<1>16. CASE SocketClosed
  BY <1>16, StrandTyped, MoveIsChange DEF SocketClosed, ExitStep, ConnectionTypeOK
<1>17. CASE KillProcess
  BY <1>17, LoseTyped, MoveIsChange, EndedTyped
     DEF KillProcess, Kill, ExitStep, ConnectionTypeOK
<1>18. CASE CloseServer
  <2>1. <<>> \in Seq(Cores)
    OBVIOUS
  <2> QED
    BY <1>18, <2>1, QuietTyped, EndedTyped DEF CloseServer, ExitStep, ConnectionTypeOK
<1>19. CASE Gone
  <2>1. <<>> \in Seq(Cores)
    OBVIOUS
  <2>2. core' \in [Cores -> {"none", "started", "connected", "closed", "ended"}]
    BY <1>19, EndedTyped DEF Gone
  <2>3. backlog' \in Seq(Cores)
    BY <1>19, <2>1, Zenon DEF Gone
  <2>4. /\ exit' = "gone" /\ server' = "closed" /\ socket' = 0 /\ accepting' = 0
        /\ restart' = "done" /\ attempt' = 1 /\ gaveUp' \in BOOLEAN /\ process' = 0
        /\ UNCHANGED helperVars
    BY <1>19, Zenon DEF Gone
  <2>5. ConnectionTypeOK'
    BY <2>2, <2>3, <2>4 DEF ConnectionTypeOK
  <2> QED BY <1>19, <2>5, DropTyped DEF Gone, RequestsStep, Apps
<1>20. CASE AcceptFails
  <2>1. <<>> \in Seq(Cores)
    OBVIOUS
  <2>2. core' \in [Cores -> {"none", "started", "connected", "closed", "ended"}]
    BY <1>20, EndedTyped DEF AcceptFails
  <2>3. backlog' \in Seq(Cores)
    BY <1>20, <2>1, Zenon DEF AcceptFails
  <2>4. /\ server' = "failed"
        /\ UNCHANGED <<app, requestVars, socket, accepting, restartVars, exit, helperVars>>
    BY <1>20, Zenon DEF AcceptFails
  <2>5. ConnectionTypeOK'
    BY <2>2, <2>3, <2>4 DEF ConnectionTypeOK
  <2> QED BY <2>4, <2>5, QuietTyped
<1> QED
  BY <1>1, <1>2, <1>3, <1>4, <1>5, <1>6, <1>7, <1>9, <1>10, <1>11, <1>12, <1>13,
     <1>14, <1>15, <1>16, <1>17, <1>18, <1>19, <1>20 DEF AppStep

\* Every step keeps the types and changes the requests as their callers expect.
LEMMA StepTyped ==
  ASSUME TypeOK, [Next]_vars
  PROVE  TypeOK' /\ (RequestsChange \/ UNCHANGED vars)
<1>1. RequestTypes /\ ConnectionTypeOK /\ IpcTypeOK /\ app \in Apps
      /\ platform \in {"android", "windows", "unix"}
  BY DEF TypeOK, RequestsTypeOK, RequestTypes, Apps
<1>2. RequestTypes' /\ ConnectionTypeOK' /\ IpcTypeOK' /\ app' \in Apps
      /\ platform' = platform /\ (RequestsChange \/ UNCHANGED vars)
  <2>1. CASE OverIpc(IpcNext)
    <3>1. ConnectionTypeOK'
      BY <1>1, <2>1 DEF OverIpc, connectionVars, serviceVars, restartVars, helperVars,
         ConnectionTypeOK
    <3> QED BY <1>1, <2>1, <3>1, IpcStepTyped DEF OverIpc, RequestsStep
  <2>2. CASE OverSocket(ConnectionNext)
    <3>1. IpcTypeOK'
      BY <1>1, <2>2 DEF OverSocket, ipcVars, IpcTypeOK
    <3>2. ConnectionTypeOK' /\ RequestsStep
      BY <1>1, <2>2, AppStepTyped, CoreStepTyped, HelperTyped, RequestStepTyped
         DEF OverSocket, ConnectionNext
    <3> QED BY <1>1, <2>2, <3>1, <3>2 DEF OverSocket, RequestsStep
  <2>3. CASE UNCHANGED vars
    BY <1>1, <2>3 DEF vars, requestVars, connectionVars, serviceVars, restartVars,
       helperVars, ipcVars, RequestTypes, ConnectionTypeOK, IpcTypeOK
  <2> QED BY <2>1, <2>2, <2>3 DEF Next
<1> QED BY <1>1, <1>2 DEF TypeOK, RequestsTypeOK, RequestTypes, Apps

LEMMA InitTyped == Init => TypeOK
<1> SUFFICES ASSUME Init PROVE TypeOK
  OBVIOUS
<1>1. RequestsTypeOK
  BY DEF Init, RequestsInit, RequestsTypeOK, Outcomes, MessageStates
<1>2. ConnectionTypeOK
  <2>1. <<>> \in Seq(Cores)
    OBVIOUS
  <2>2. backlog \in Seq(Cores)
    BY <2>1, Zenon DEF Init, ConnectionInit
  <2>3. /\ server = "unbound" /\ socket = 0 /\ accepting = 0
        /\ restart = "delay" /\ attempt = 1 /\ gaveUp \in BOOLEAN /\ process = 0
        /\ exit = "no" /\ stopPost = "none" /\ child = 0
        /\ post = [a \in Attempts |-> "none"] /\ core = [c \in Cores |-> "none"]
    BY Zenon DEF Init, ConnectionInit
  <2> QED BY <2>2, <2>3, NumbersTyped DEF ConnectionTypeOK, ExitSteps
<1>3. IpcTypeOK
  <2>1. <<>> \in Seq(Nat)
    OBVIOUS
  <2>2. inbox \in Seq(Nat)
    BY <2>1, Zenon DEF Init, IpcInit
  <2>3. /\ engine \in {"none", "booting", "quick", "ready"}
        /\ reconnects = 0 /\ port = 0 /\ sendPort = 0 /\ canSend \in BOOLEAN
        /\ ipc = "ask" /\ waits = 0 /\ preload = "waiting"
    BY Zenon DEF Init, IpcInit
  <2> QED BY <2>2, <2>3, IpcAssumption DEF IpcTypeOK
<1> QED BY <1>1, <1>2, <1>3 DEF TypeOK

\* The types of the variables of both transports.
THEOREM TypeCorrect == Spec => []TypeOK
<1>1. TypeOK /\ [Next]_vars => TypeOK'
  BY StepTyped
<1> QED BY <1>1, InitTyped, PTL DEF Spec

-----------------------------------------------------------------------------
(* The promise of invoke.                                                  *)

LEMMA MessagesKeepFitting ==
  ASSUME RequestTypes, MessagesFit, RequestsChange
  PROVE  MessagesFit'
<1>1. ASSUME NEW r \in Request, NEW m \in {"awaiting", "sent", "over"}, NEW c \in Nat,
             Invoke(r, m, c)
      PROVE  MessagesFit'
  BY <1>1 DEF Invoke, MessagesFit, RequestTypes
<1>2. ASSUME NEW r \in Request, Default(r)
      PROVE  MessagesFit'
  BY <1>2 DEF Default, MessagesFit, RequestTypes
<1>3. ASSUME NEW r \in Request, Take(r)
      PROVE  MessagesFit'
  BY <1>3 DEF Take, MessagesFit, RequestTypes
<1>4. ASSUME NEW r \in Request, Answer(r)
      PROVE  MessagesFit'
  BY <1>4 DEF Answer, MessagesFit, RequestTypes
<1>5. CASE MessagesMove
  BY <1>5 DEF MessagesMove, MessagesFit
<1>6. CASE Drop /\ UNCHANGED <<message, executed>>
  BY <1>6 DEF Drop, MessagesFit, RequestTypes
<1> QED BY <1>1, <1>2, <1>3, <1>4, <1>5, <1>6 DEF RequestsChange

LEMMA MessagesFitAlways == Spec => [](TypeOK /\ MessagesFit)
<1>1. Init => TypeOK /\ MessagesFit
  BY InitTyped DEF Init, RequestsInit, MessagesFit
<1>2. TypeOK /\ MessagesFit /\ [Next]_vars => (TypeOK /\ MessagesFit)'
  <2>1. UNCHANGED vars /\ MessagesFit => MessagesFit'
    BY DEF vars, requestVars, MessagesFit
  <2> QED
    BY <2>1, StepTyped, MessagesKeepFitting DEF TypeOK, RequestsTypeOK, RequestTypes
<1> QED BY <1>1, <1>2, PTL DEF Spec

LEMMA ChangeIsPromised ==
  ASSUME RequestTypes, MessagesFit, RequestsChange
  PROVE  [PromisedRpc!Next]_<<request, executed>>
<1>1. ASSUME NEW r \in Request, NEW m \in {"awaiting", "sent", "over"}, NEW c \in Nat,
             Invoke(r, m, c)
      PROVE  PromisedRpc!Ask(r)
  BY <1>1 DEF Invoke, PromisedRpc!Ask, PromisedRpc!Becomes
<1>2. ASSUME NEW r \in Request, Default(r)
      PROVE  PromisedRpc!Default(r)
  BY <1>2 DEF Default, PromisedRpc!Default, PromisedRpc!Becomes
<1>3. ASSUME NEW r \in Request, Take(r)
      PROVE  PromisedRpc!Execute(r)
  BY <1>3 DEF Take, PromisedRpc!Execute, MessagesFit
<1>4. ASSUME NEW r \in Request, Answer(r)
      PROVE  PromisedRpc!Answer(r) \/ UNCHANGED <<request, executed>>
  BY <1>4 DEF Answer, PromisedRpc!Answer, PromisedRpc!Becomes, MessagesFit, RequestTypes
<1>5. CASE MessagesMove
  BY <1>5 DEF MessagesMove
<1>6. CASE Drop /\ UNCHANGED <<message, executed>>
  <2>1. PromisedRpc!Close
    BY <1>6 DEF Drop, PromisedRpc!Close
  <2> QED BY <2>1 DEF PromisedRpc!Next
<1> QED
  BY <1>1, <1>2, <1>3, <1>4, <1>5, <1>6 DEF RequestsChange, PromisedRpc!Next

\* Over either transport a request is executed at most once, answered only after
\* that, and left alone once its caller has the default value: the requests
\* implement the safety part of Rpc, whatever invoke and the transports lose,
\* replace or deliver late.
THEOREM RequestsAreSafe ==
  Spec => PromisedRpc!Init /\ [][PromisedRpc!Next]_<<request, executed>>
<1>1. Init => PromisedRpc!Init
  BY DEF Init, RequestsInit, PromisedRpc!Init
<1>2. TypeOK /\ MessagesFit /\ [Next]_vars => [PromisedRpc!Next]_<<request, executed>>
  <2>1. UNCHANGED vars => UNCHANGED <<request, executed>>
    BY DEF vars, requestVars
  <2> QED
    BY <2>1, StepTyped, ChangeIsPromised DEF TypeOK, RequestsTypeOK, RequestTypes
<1> QED BY <1>1, <1>2, MessagesFitAlways, PTL DEF Spec

-----------------------------------------------------------------------------
(* The cores on the desktop.                                               *)

\* What the steps that start or stop nothing leave alone.
startVars == <<app, restart, attempt, process, post, child, core>>

LEMMA StartsUnchanged ==
  ASSUME StartsInOrder, UNCHANGED startVars
  PROVE  StartsInOrder'
BY DEF StartsInOrder, startVars

\* The cores change, but none of them starts.
LEMMA StartsKept ==
  ASSUME ConnectionTypeOK, StartsInOrder,
         UNCHANGED <<app, restart, attempt, process, post, child>>,
         \A c \in Cores : core[c] = "none" => core'[c] = "none"
  PROVE  StartsInOrder'
BY NumbersTyped DEF StartsInOrder

LEMMA StartsInOrderStep ==
  ASSUME ConnectionTypeOK, StartsInOrder, app \in Apps, ConnectionNext
  PROVE  StartsInOrder'
<1> USE NumbersTyped, StartsUnchanged
    DEF connectionVars, serviceVars, restartVars, helperVars, startVars
<1>1. ASSUME RequestStep
      PROVE  StartsInOrder'
  BY <1>1 DEF RequestStep, Ask, Expire, Invoke, Default
<1>2. ASSUME NEW r \in Request, CoreTakes(r) \/ CoreAnswers(r)
      PROVE  StartsInOrder'
  BY <1>2 DEF CoreTakes, CoreAnswers, Take, Answer
<1>3. ASSUME NEW c \in Cores, Dial(c) \/ NoticeEof(c) \/ CoreCrash(c)
      PROVE  StartsInOrder'
  BY <1>3, StartsKept DEF Dial, NoticeEof, CoreCrash, Kill, Ended, ConnectionTypeOK
<1>4. CASE Bind \/ Accepted \/ StopCore \/ SocketClosed
  BY <1>4 DEF Bind, Accepted, StopCore, SocketClosed, ExitStep
<1>5. CASE Accept \/ AcceptFails \/ CloseSocket \/ CloseServer
  BY <1>5, StartsKept DEF Accept, AcceptFails, CloseSocket, CloseServer, ExitStep, Closed
<1>6. CASE Swap \/ KnowServer \/ Register
  BY <1>6 DEF Swap, KnowServer, Register, Continue, StartsInOrder
<1>7. CASE Post
  BY <1>7, AttemptsAssumption
     DEF Post, Continue, StartsInOrder, ConnectionTypeOK, Attempts
<1>8. ASSUME PostRefused \/ PostAnswered \/ PostTimesOut
      PROVE  StartsInOrder'
  BY <1>8, AttemptsAssumption
     DEF PostRefused, PostAnswered, PostTimesOut, NextAttempt, StartsInOrder,
         ConnectionTypeOK, Attempts
<1>9. CASE Spawn
  BY <1>9 DEF Spawn, Continue, StartsInOrder, ConnectionTypeOK
<1>10. CASE Leave
  BY <1>10 DEF Leave, ExitStep, StartsInOrder
<1>11. CASE KillProcess
  BY <1>11 DEF KillProcess, ExitStep, Kill, Ended, StartsInOrder, ConnectionTypeOK
<1>12. CASE Gone
  BY <1>12 DEF Gone, Drop, Closed, StartsInOrder, ConnectionTypeOK
<1>13. ASSUME NEW a \in Attempts, HelperVerify(a) \/ HelperStop(a) \/ HelperSpawn(a)
       PROVE  StartsInOrder'
  <2>1. CASE HelperVerify(a)
    BY <2>1 DEF HelperVerify, StartsInOrder, ConnectionTypeOK
  <2>2. CASE HelperStop(a)
    BY <2>2 DEF HelperStop, KillChild, Kill, Ended, StartsInOrder, ConnectionTypeOK
  <2>3. CASE HelperSpawn(a)
    BY <2>3 DEF HelperSpawn, StartsInOrder, ConnectionTypeOK
  <2> QED BY <1>13, <2>1, <2>2, <2>3
<1>14. CASE HelperStopPost
  BY <1>14 DEF HelperStopPost, KillChild, Kill, Ended, StartsInOrder, ConnectionTypeOK
<1> QED
  BY <1>1, <1>2, <1>3, <1>4, <1>5, <1>6, <1>7, <1>8, <1>9, <1>10, <1>11, <1>12,
     <1>13, <1>14 DEF ConnectionNext, AppStep, CoreStep, HelperStep

\* A core that has dialled never dials again.
LEMMA DialledStays ==
  ASSUME ConnectionTypeOK, StartsInOrder, ConnectionNext
  PROVE  \A c \in Cores : core[c] \in Dialled => core'[c] \in Dialled
<1> USE NumbersTyped DEF connectionVars, helperVars, Dialled
<1>1. ASSUME UNCHANGED core
      PROVE  \A c \in Cores : core[c] \in Dialled => core'[c] \in Dialled
  BY <1>1
<1>2. ASSUME NEW cs, core' = Closed(cs)
      PROVE  \A c \in Cores : core[c] \in Dialled => core'[c] \in Dialled
  BY <1>2 DEF Closed
<1>3. ASSUME NEW c, core' = Ended(c)
      PROVE  \A x \in Cores : core[x] \in Dialled => core'[x] \in Dialled
  BY <1>3 DEF Ended
<1>4. ASSUME NEW c \in Cores, Dial(c)
      PROVE  \A x \in Cores : core[x] \in Dialled => core'[x] \in Dialled
  BY <1>3, <1>4 DEF Dial, ConnectionTypeOK
<1>5. ASSUME NEW a \in Attempts, HelperSpawn(a)
      PROVE  \A c \in Cores : core[c] \in Dialled => core'[c] \in Dialled
  BY <1>5 DEF HelperSpawn, StartsInOrder, ConnectionTypeOK
<1>6. CASE Spawn
  BY <1>6 DEF Spawn, Continue, StartsInOrder, ConnectionTypeOK
<1>7. CASE Accept
  BY <1>1, <1>2, <1>7 DEF Accept
<1>8. CASE AcceptFails \/ CloseSocket \/ CloseServer \/ Gone
  BY <1>2, <1>8 DEF AcceptFails, CloseSocket, CloseServer, Gone
<1>9. CASE KillProcess \/ HelperStopPost
  BY <1>3, <1>9 DEF KillProcess, HelperStopPost, KillChild, Kill
<1>10. ASSUME NEW a \in Attempts, HelperVerify(a) \/ HelperStop(a)
       PROVE  \A c \in Cores : core[c] \in Dialled => core'[c] \in Dialled
  BY <1>1, <1>3, <1>10 DEF HelperVerify, HelperStop, KillChild, Kill
<1>11. ASSUME NEW c \in Cores, NoticeEof(c) \/ CoreCrash(c)
       PROVE  \A x \in Cores : core[x] \in Dialled => core'[x] \in Dialled
  BY <1>3, <1>11 DEF NoticeEof, CoreCrash, Kill
<1>12. ASSUME NEW r \in Request, CoreTakes(r) \/ CoreAnswers(r) \/ Ask(r) \/ Expire(r)
       PROVE  UNCHANGED core
  BY <1>12 DEF CoreTakes, CoreAnswers, Ask, Expire
<1>13. CASE Bind \/ Accepted \/ Swap \/ KnowServer \/ Register \/ Post \/ PostRefused
         \/ PostAnswered \/ PostTimesOut \/ Leave \/ StopCore \/ SocketClosed
  BY <1>1, <1>13
     DEF Bind, Accepted, Swap, KnowServer, Register, Post, PostRefused, PostAnswered,
         PostTimesOut, Leave, StopCore, SocketClosed
<1> QED
  BY <1>1, <1>4, <1>5, <1>6, <1>7, <1>8, <1>9, <1>10, <1>11, <1>12, <1>13
     DEF ConnectionNext, AppStep, CoreStep, HelperStep, RequestStep

\* Who leaves the connections of the application alone.
LEMMA ServiceUnchanged ==
  ASSUME ConnectionNext,
         ~(\E c \in Cores : Dial(c)),
         ~(Bind \/ Accept \/ Accepted \/ AcceptFails \/ Swap \/ SocketClosed \/ CloseServer
           \/ Gone)
  PROVE  UNCHANGED serviceVars
<1>1. ASSUME NEW c \in Cores, NoticeEof(c) \/ CoreCrash(c)
      PROVE  UNCHANGED serviceVars
  BY <1>1 DEF NoticeEof, CoreCrash
<1>2. ASSUME NEW r \in Request, CoreTakes(r) \/ CoreAnswers(r) \/ Ask(r) \/ Expire(r)
      PROVE  UNCHANGED serviceVars
  BY <1>2 DEF CoreTakes, CoreAnswers, Ask, Expire, connectionVars
<1>3. ASSUME NEW a \in Attempts, HelperVerify(a) \/ HelperStop(a) \/ HelperSpawn(a)
      PROVE  UNCHANGED serviceVars
  BY <1>3 DEF HelperVerify, HelperStop, HelperSpawn, KillChild
<1>4. CASE KnowServer \/ Register \/ Post \/ PostRefused \/ PostAnswered \/ PostTimesOut
        \/ Spawn \/ Leave \/ StopCore \/ CloseSocket \/ KillProcess \/ HelperStopPost
  BY <1>4
     DEF KnowServer, Register, Post, PostRefused, PostAnswered, PostTimesOut, Spawn,
         Leave, StopCore, CloseSocket, KillProcess, HelperStopPost, KillChild
<1> QED
  BY <1>1, <1>2, <1>3, <1>4
     DEF ConnectionNext, AppStep, CoreStep, HelperStep, RequestStep

\* The first connection of a backlog that is not empty, and the others.
LEMMA BacklogParts ==
  ASSUME ConnectionTypeOK, backlog # <<>>
  PROVE  /\ \E i \in DOMAIN backlog : Head(backlog) = backlog[i]
         /\ \A i \in DOMAIN Tail(backlog) :
              i + 1 \in DOMAIN backlog /\ Tail(backlog)[i] = backlog[i + 1]
         /\ \A i \in DOMAIN backlog :
              \/ backlog[i] = Head(backlog)
              \/ i - 1 \in DOMAIN Tail(backlog) /\ Tail(backlog)[i - 1] = backlog[i]
BY DEF ConnectionTypeOK

LEMMA BacklogGrows ==
  ASSUME ConnectionTypeOK, NEW c \in Cores
  PROVE  /\ \A i \in DOMAIN Append(backlog, c) :
              \/ Append(backlog, c)[i] = c
              \/ i \in DOMAIN backlog /\ Append(backlog, c)[i] = backlog[i]
         /\ \E i \in DOMAIN Append(backlog, c) : Append(backlog, c)[i] = c
         /\ \A i \in DOMAIN backlog :
              i \in DOMAIN Append(backlog, c) /\ Append(backlog, c)[i] = backlog[i]
<1> DEFINE n == Len(backlog)
           t == Append(backlog, c)
<1>1. backlog \in Seq(Cores)
  BY DEF ConnectionTypeOK
<1>2. t \in Seq(Cores) /\ Len(t) = n + 1 /\ t[n + 1] = c
      /\ \A i \in 1 .. n : t[i] = backlog[i]
  BY <1>1
<1>3. n \in Nat /\ DOMAIN backlog = 1 .. n /\ DOMAIN t = 1 .. n + 1
  BY <1>1, <1>2
<1> HIDE DEF n, t
<1>4. \A i \in DOMAIN t : t[i] = c \/ (i \in DOMAIN backlog /\ t[i] = backlog[i])
  BY <1>2, <1>3
<1>5. n + 1 \in DOMAIN t /\ t[n + 1] = c
  BY <1>2, <1>3
<1>6. \A i \in DOMAIN backlog : i \in DOMAIN t /\ t[i] = backlog[i]
  BY <1>2, <1>3
<1> QED BY <1>4, <1>5, <1>6, Zenon DEF t

LEMMA ConnectionsFitStep ==
  ASSUME ConnectionTypeOK, StartsInOrder, ConnectionsFit, ConnectionNext
  PROVE  ConnectionsFit'
<1>1. \A c \in Cores : core[c] \in Dialled => core'[c] \in Dialled
  BY DialledStays
<1>2. (socket # 0 => socket \in Cores) /\ (accepting # 0 => accepting \in Cores)
      /\ \A i \in DOMAIN backlog : backlog[i] \in Cores
  BY NumbersTyped DEF ConnectionTypeOK
<1>3. CASE UNCHANGED serviceVars
  BY <1>1, <1>2, <1>3 DEF ConnectionsFit, serviceVars
<1>4. ASSUME NEW c \in Cores, Dial(c)
      PROVE  ConnectionsFit'
  <2>1. UNCHANGED <<socket, accepting>>
    BY <1>4 DEF Dial
  <2>2. CASE server = "listening"
    <3>1. core'[c] \in Dialled /\ backlog' = Append(backlog, c)
      BY <1>4, <2>2 DEF Dial, Dialled, ConnectionTypeOK
    <3>2. \A i \in DOMAIN backlog' :
            backlog'[i] = c \/ (i \in DOMAIN backlog /\ backlog'[i] = backlog[i])
      BY <3>1, BacklogGrows, Zenon
    <3>3. \A i \in DOMAIN backlog' : core'[backlog'[i]] \in Dialled
      BY <1>1, <1>2, <3>1, <3>2 DEF ConnectionsFit
    <3> QED BY <1>1, <1>2, <2>1, <3>3 DEF ConnectionsFit
  <2>3. CASE server # "listening"
    BY <1>1, <1>2, <1>4, <2>1, <2>3 DEF Dial, ConnectionsFit
  <2> QED BY <2>2, <2>3
<1>5. CASE Accept
  <2>1. core'[Head(backlog)] \in Dialled /\ backlog' = Tail(backlog)
    BY <1>1, <1>2, <1>5, BacklogParts, Zenon DEF Accept, ConnectionsFit
  <2>2. \A i \in DOMAIN backlog' : core'[backlog'[i]] \in Dialled
    BY <1>1, <1>2, <1>5, <2>1, BacklogParts DEF Accept, ConnectionsFit
  <2>3. socket' \in {socket, Head(backlog)} /\ accepting' \in {accepting, Head(backlog)}
    BY <1>5 DEF Accept
  <2> QED BY <1>1, <1>2, <2>1, <2>2, <2>3, NumbersTyped DEF ConnectionsFit, ConnectionTypeOK
<1>6. CASE Bind \/ Accepted \/ Swap \/ SocketClosed
  BY <1>1, <1>2, <1>6
     DEF Bind, Accepted, Swap, SocketClosed, ConnectionsFit
<1>7. CASE AcceptFails \/ CloseServer \/ Gone
  <2>1. \A i \in DOMAIN <<>> : FALSE
    OBVIOUS
  <2>2. backlog' = <<>> /\ socket' \in {0, socket} /\ accepting' \in {0, accepting}
    BY <1>7 DEF AcceptFails, CloseServer, Gone
  <2> QED BY <1>1, <1>2, <2>1, <2>2 DEF ConnectionsFit
<1> QED BY <1>3, <1>4, <1>5, <1>6, <1>7, ServiceUnchanged

\* A core is connected by its own dial.
LEMMA ConnectsByDialling ==
  ASSUME ConnectionTypeOK, ConnectionNext, ~(\E c \in Cores : Dial(c))
  PROVE  \A c \in Cores : core'[c] = "connected" => core[c] = "connected"
<1> DEFINE Goal == \A c \in Cores : core'[c] = "connected" => core[c] = "connected"
<1> USE NumbersTyped DEF connectionVars, helperVars
<1>1. UNCHANGED core => Goal
  OBVIOUS
<1>2. ASSUME NEW cs, core' = Closed(cs) \/ core' = Ended(cs)
      PROVE  Goal
  BY <1>2 DEF Closed, Ended
<1>3. CASE Accept \/ AcceptFails \/ CloseSocket \/ CloseServer \/ Gone
  BY <1>1, <1>2, <1>3 DEF Accept, AcceptFails, CloseSocket, CloseServer, Gone
<1>4. CASE KillProcess \/ HelperStopPost
  BY <1>2, <1>4 DEF KillProcess, HelperStopPost, KillChild, Kill
<1>5. ASSUME NEW a \in Attempts, HelperVerify(a) \/ HelperStop(a)
      PROVE  Goal
  BY <1>1, <1>2, <1>5 DEF HelperVerify, HelperStop, KillChild, Kill
<1>6. ASSUME NEW a \in Attempts, HelperSpawn(a)
      PROVE  Goal
  BY <1>6 DEF HelperSpawn, ConnectionTypeOK
<1>7. CASE Spawn
  BY <1>7 DEF Spawn, ConnectionTypeOK
<1>8. ASSUME NEW c \in Cores, NoticeEof(c) \/ CoreCrash(c)
      PROVE  Goal
  BY <1>2, <1>8 DEF NoticeEof, CoreCrash, Kill
<1>9. ASSUME NEW r \in Request, CoreTakes(r) \/ CoreAnswers(r) \/ Ask(r) \/ Expire(r)
      PROVE  Goal
  BY <1>1, <1>9 DEF CoreTakes, CoreAnswers, Ask, Expire
<1>10. CASE Bind \/ Accepted \/ Swap \/ KnowServer \/ Register \/ Post \/ PostRefused
         \/ PostAnswered \/ PostTimesOut \/ Leave \/ StopCore \/ SocketClosed
  BY <1>1, <1>10
     DEF Bind, Accepted, Swap, KnowServer, Register, Post, PostRefused, PostAnswered,
         PostTimesOut, Leave, StopCore, SocketClosed
<1> QED
  BY <1>3, <1>4, <1>5, <1>6, <1>7, <1>8, <1>9, <1>10
     DEF ConnectionNext, AppStep, CoreStep, HelperStep, RequestStep

\* What does not lead out of the application, and never into it.
LEMMA AppKeepsRunning ==
  ASSUME CoresFit, ConnectionNext, app' = "running"
  PROVE  app = "running" /\ exit' = exit
<1>1. ASSUME NEW c \in Cores, Dial(c) \/ NoticeEof(c) \/ CoreCrash(c)
      PROVE  UNCHANGED <<app, exit>>
  BY <1>1 DEF Dial, NoticeEof, CoreCrash
<1>2. ASSUME NEW r \in Request, CoreTakes(r) \/ CoreAnswers(r) \/ Ask(r) \/ Expire(r)
      PROVE  UNCHANGED <<app, exit>>
  BY <1>2
     DEF CoreTakes, CoreAnswers, Ask, Expire, Take, Answer, Invoke, Default, connectionVars
<1>3. ASSUME NEW a \in Attempts, HelperVerify(a) \/ HelperStop(a) \/ HelperSpawn(a)
      PROVE  UNCHANGED <<app, exit>>
  BY <1>3 DEF HelperVerify, HelperStop, HelperSpawn, KillChild
<1>4. CASE Bind \/ Accept \/ Accepted \/ AcceptFails \/ Swap \/ KnowServer \/ Register
        \/ Post \/ PostRefused \/ PostAnswered \/ PostTimesOut \/ Spawn \/ HelperStopPost
  BY <1>4
     DEF Bind, Accept, Accepted, AcceptFails, Swap, KnowServer, Register, Post,
         PostRefused, PostAnswered, PostTimesOut, Spawn, HelperStopPost, KillChild
<1>5. CASE Leave \/ Gone
  BY <1>5 DEF Leave, Gone, Drop
<1>6. CASE StopCore \/ CloseSocket \/ SocketClosed \/ KillProcess \/ CloseServer
  BY <1>6 DEF StopCore, CloseSocket, SocketClosed, KillProcess, CloseServer, ExitStep, CoresFit
<1> QED
  BY <1>1, <1>2, <1>3, <1>4, <1>5, <1>6
     DEF ConnectionNext, AppStep, CoreStep, HelperStep, RequestStep

LEMMA CoresFitStep ==
  ASSUME ConnectionTypeOK, StartsInOrder, ConnectionsFit, CoresFit, app \in Apps,
         ConnectionNext
  PROVE  CoresFit'
<1> SUFFICES ASSUME app' = "running" PROVE CoresFit'
  BY DEF CoresFit
<1>1. /\ app = "running" /\ exit = "no"
      /\ accepting # 0 => socket # 0 /\ core[socket] # "connected"
      /\ server = "failed" => accepting # 0
      /\ \A c \in Cores :
           core[c] = "connected" =>
             c \in {socket, accepting} \/ \E i \in DOMAIN backlog : backlog[i] = c
  <2>1. app = "running"
    BY AppKeepsRunning
  <2> QED BY <2>1 DEF CoresFit
<1>2. exit' = "no"
  BY <1>1, AppKeepsRunning
<1>3. (socket # 0 => socket \in Cores) /\ (accepting # 0 => accepting \in Cores)
  BY NumbersTyped DEF ConnectionTypeOK
<1>4. ASSUME UNCHANGED serviceVars,
             \A c \in Cores : core'[c] = "connected" => core[c] = "connected"
      PROVE  CoresFit'
  BY <1>1, <1>2, <1>3, <1>4 DEF CoresFit, serviceVars
<1>5. ASSUME NEW c \in Cores, Dial(c)
      PROVE  CoresFit'
  <2>1. CASE server = "listening"
    <3>1. /\ core' = [core EXCEPT ![c] = "connected"] /\ core[c] = "started"
          /\ backlog' = Append(backlog, c) /\ UNCHANGED <<server, socket, accepting>>
      BY <1>5, <2>1 DEF Dial
    <3>2. accepting # 0 => core'[socket] # "connected"
      BY <1>1, <1>3, <3>1 DEF ConnectionsFit, Dialled, ConnectionTypeOK
    <3>3. ASSUME NEW x \in Cores, core'[x] = "connected"
          PROVE  x \in {socket, accepting} \/ \E i \in DOMAIN backlog' : backlog'[i] = x
      <4>1. CASE x = c
        BY <3>1, <4>1, BacklogGrows, Zenon
      <4>2. CASE x # c
        <5>1. core[x] = "connected"
          BY <3>1, <3>3, <4>2 DEF ConnectionTypeOK
        <5>2. CASE x \in {socket, accepting}
          BY <5>2
        <5>3. CASE \E i \in DOMAIN backlog : backlog[i] = x
          BY <3>1, <5>3, BacklogGrows, Zenon
        <5> QED BY <1>1, <5>1, <5>2, <5>3
      <4> QED BY <4>1, <4>2
    <3> QED BY <1>1, <1>2, <3>1, <3>2, <3>3 DEF CoresFit
  <2>2. CASE server # "listening"
    BY <1>4, <1>5, <2>2 DEF Dial, Ended, serviceVars
  <2> QED BY <2>1, <2>2
<1>6. CASE Accept
  <2>1. /\ accepting = 0 /\ backlog # <<>> /\ backlog' = Tail(backlog)
        /\ Head(backlog) \in Cores /\ server' # "failed"
    BY <1>6, BacklogTyped DEF Accept
  <2>2. ASSUME NEW c \in Cores, \E i \in DOMAIN backlog : backlog[i] = c
        PROVE  c = Head(backlog) \/ \E i \in DOMAIN backlog' : backlog'[i] = c
    BY <2>1, <2>2, BacklogParts, Zenon
  <2>3. CASE socket = 0
    <3>1. socket' = Head(backlog) /\ accepting' = 0 /\ core' = core
      BY <1>6, <2>1, <2>3 DEF Accept
    <3> QED BY <1>1, <1>2, <2>1, <2>2, <2>3, <3>1, NumbersTyped DEF CoresFit
  <2>4. CASE socket # 0
    <3>1. socket' = socket /\ accepting' = Head(backlog) /\ core' = Closed({socket})
      BY <1>6, <2>4 DEF Accept
    <3>2. core'[socket] # "connected"
      BY <1>3, <2>4, <3>1 DEF Closed
    <3>3. \A c \in Cores : core'[c] = "connected" => core[c] = "connected"
      BY <3>1 DEF Closed
    <3>4. ASSUME NEW c \in Cores, core'[c] = "connected"
          PROVE  c \in {socket', accepting'} \/ \E i \in DOMAIN backlog' : backlog'[i] = c
      <4>1. c = socket \/ \E i \in DOMAIN backlog : backlog[i] = c
        BY <1>1, <2>1, <3>3, <3>4, NumbersTyped
      <4> QED BY <2>2, <3>1, <4>1, Zenon
    <3> QED BY <1>2, <2>1, <2>4, <3>1, <3>2, <3>4, Zenon DEF CoresFit
  <2> QED BY <2>3, <2>4
<1>7. CASE Accepted
  BY <1>1, <1>2, <1>7 DEF Accepted, CoresFit
<1>8. CASE Swap
  <2>1. \A c \in Cores : core[c] = "none"
    BY <1>1, <1>8, NumbersTyped
       DEF Swap, Continue, StartsInOrder, ConnectionTypeOK, Attempts
  <2> QED BY <1>1, <1>2, <1>8, <2>1, <1>3 DEF Swap, CoresFit, ConnectionsFit, Dialled
<1>9. CASE Bind
  BY <1>1, <1>2, <1>9 DEF Bind, CoresFit
<1>10. CASE SocketClosed \/ CloseServer \/ Gone
  BY <1>1, <1>10 DEF SocketClosed, CloseServer, Gone, ExitStep, Drop
<1>11. ASSUME UNCHANGED serviceVars, ~(\E c \in Cores : Dial(c))
       PROVE  CoresFit'
  <2>1. \A c \in Cores : core'[c] = "connected" => core[c] = "connected"
    BY <1>11, ConnectsByDialling
  <2> QED BY <1>4, <1>11, <2>1
<1>12. CASE AcceptFails
  <2>1. /\ core' = Closed({backlog[i] : i \in DOMAIN backlog}) /\ accepting # 0
        /\ UNCHANGED <<socket, accepting>>
    BY <1>12 DEF AcceptFails
  <2>2. \A c \in Cores : core'[c] = "connected" =>
          core[c] = "connected" /\ c \notin {backlog[i] : i \in DOMAIN backlog}
    BY <2>1 DEF Closed
  <2>3. ASSUME NEW c \in Cores, core'[c] = "connected"
        PROVE  c \in {socket', accepting'}
    BY <1>1, <2>1, <2>2, <2>3
  <2>4. core'[socket] # "connected"
    BY <1>1, <1>3, <2>1, <2>2
  <2> QED BY <1>1, <1>2, <2>1, <2>3, <2>4 DEF CoresFit
<1> QED
  BY <1>5, <1>6, <1>7, <1>8, <1>9, <1>10, <1>11, <1>12, ServiceUnchanged

LEMMA WaitsFitStep ==
  ASSUME RequestTypes, ConnectionTypeOK, StartsInOrder, ConnectionsFit, WaitsFit,
         app \in Apps, ConnectionNext
  PROVE  WaitsFit'
<1> USE NumbersTyped DEF connectionVars, serviceVars, restartVars, helperVars
<1>1. ASSUME socket' # 0, exit' = exit,
             \A r \in Request : message'[r] # "awaiting"
      PROVE  WaitsFit'
  BY <1>1 DEF WaitsFit
<1>2. ASSUME UNCHANGED <<socket, exit>>,
             \A r \in Request : message'[r] = "awaiting" => message[r] = "awaiting"
      PROVE  WaitsFit'
  BY <1>2 DEF WaitsFit
<1>3. ASSUME NEW c, Lose(c)
      PROVE  \A r \in Request : message'[r] = "awaiting" => message[r] = "awaiting"
  BY <1>3 DEF Lose
<1>4. ASSUME NEW c, Send(c)
      PROVE  \A r \in Request : message'[r] # "awaiting"
  BY <1>4 DEF Send
<1>5. ASSUME Strand
      PROVE  \A r \in Request : message'[r] # "awaiting"
  BY <1>5 DEF Strand
<1>6. ASSUME UNCHANGED requestVars
      PROVE  \A r \in Request : message'[r] = "awaiting" => message[r] = "awaiting"
  BY <1>6 DEF requestVars
<1>7. ASSUME NEW r \in Request, Ask(r)
      PROVE  WaitsFit'
  <2>1. CASE exit = "no" /\ socket = 0
    BY <1>7, <2>1 DEF Ask, WaitsFit
  <2>2. CASE ~(exit = "no" /\ socket = 0)
    <3>1. \A x \in Request : message'[x] = "awaiting" => message[x] = "awaiting"
      BY <1>7, <2>2 DEF Ask, Invoke, RequestTypes
    <3> QED BY <1>2, <1>7, <3>1 DEF Ask
  <2> QED BY <2>1, <2>2
<1>8. ASSUME NEW r \in Request, Expire(r)
      PROVE  WaitsFit'
  BY <1>8 DEF Expire, Default, WaitsFit
<1>9. ASSUME NEW r \in Request, CoreTakes(r) \/ CoreAnswers(r)
      PROVE  WaitsFit'
  BY <1>2, <1>9 DEF CoreTakes, CoreAnswers, Take, Answer, RequestTypes
<1>10. ASSUME NEW c \in Cores, Dial(c) \/ NoticeEof(c) \/ CoreCrash(c)
       PROVE  WaitsFit'
  BY <1>2, <1>3, <1>6, <1>10 DEF Dial, NoticeEof, CoreCrash, Kill
<1>11. CASE Accept
  <2>1. CASE socket = 0
    BY <1>1, <1>4, <1>11, <2>1, BacklogTyped DEF Accept
  <2>2. CASE socket # 0
    BY <1>2, <1>11, <2>2 DEF Accept
  <2> QED BY <2>1, <2>2
<1>12. CASE Accepted
  BY <1>1, <1>4, <1>12 DEF Accepted
<1>13. CASE Swap
  <2>1. socket = 0
    BY <1>13 DEF Swap, Continue, StartsInOrder, ConnectionsFit, Dialled,
       ConnectionTypeOK, Attempts
  <2> QED BY <1>13, <2>1 DEF Swap, Strand, WaitsFit
<1>14. CASE SocketClosed
  BY <1>5, <1>14 DEF SocketClosed, ExitStep, WaitsFit
<1>15. CASE CloseSocket
  <2>1. UNCHANGED <<socket, message>> /\ (exit' = "closing" => socket # 0)
    BY <1>15 DEF CloseSocket, ExitStep, requestVars
  <2> QED BY <2>1 DEF WaitsFit
<1>16. CASE Gone
  <2>1. socket' = 0 /\ exit' = "gone"
    BY <1>16 DEF Gone
  <2> QED BY <2>1 DEF WaitsFit
<1>17. CASE KillProcess
  <2>1. exit' # "closing" /\ socket' = socket
    BY <1>17 DEF KillProcess, ExitStep
  <2> QED BY <1>3, <1>17, <2>1 DEF KillProcess, Kill, WaitsFit
<1>18. CASE Leave \/ StopCore \/ CloseServer
  <2>1. exit' # "closing" /\ UNCHANGED <<socket, message>>
    BY <1>18 DEF Leave, StopCore, CloseServer, ExitStep, requestVars
  <2> QED BY <2>1 DEF WaitsFit
<1>19. ASSUME NEW a \in Attempts, HelperVerify(a) \/ HelperStop(a) \/ HelperSpawn(a)
       PROVE  WaitsFit'
  BY <1>2, <1>3, <1>6, <1>19 DEF HelperVerify, HelperStop, HelperSpawn, KillChild, Kill
<1>20. CASE HelperStopPost
  BY <1>2, <1>3, <1>20 DEF HelperStopPost, KillChild, Kill
<1>21. CASE Bind \/ AcceptFails \/ KnowServer \/ Register \/ Post \/ PostRefused
         \/ PostAnswered \/ PostTimesOut \/ Spawn
  BY <1>2, <1>6, <1>21
     DEF Bind, AcceptFails, KnowServer, Register, Post, PostRefused, PostAnswered, PostTimesOut, Spawn
<1> QED
  BY <1>7, <1>8, <1>9, <1>10, <1>11, <1>12, <1>13, <1>14, <1>15, <1>16, <1>17, <1>18,
     <1>19, <1>20, <1>21
     DEF ConnectionNext, AppStep, CoreStep, HelperStep, RequestStep

LEMMA PostsFitStep ==
  ASSUME ConnectionTypeOK, StartsInOrder, PostsFit, app \in Apps, ConnectionNext
  PROVE  PostsFit'
<1> USE NumbersTyped DEF connectionVars, serviceVars, restartVars, helperVars
<1>1. ASSUME UNCHANGED <<restart, attempt, gaveUp, post>>, app' # "gone" => app # "gone",
             process' \in {0, process},
             core'[Direct] # "none" => core[Direct] # "none" \/ process # 0
      PROVE  PostsFit'
  BY <1>1 DEF PostsFit
<1>2. ASSUME NEW cs, core' = Closed(cs) \/ UNCHANGED core
      PROVE  core'[Direct] # "none" => core[Direct] # "none"
  BY <1>2 DEF Closed
<1>3. ASSUME NEW c \in {0} \union Attempts, core' = Ended(c)
      PROVE  core'[Direct] # "none" => core[Direct] # "none"
  BY <1>3 DEF Ended
<1>4. ASSUME NEW r \in Request, CoreTakes(r) \/ CoreAnswers(r) \/ Ask(r) \/ Expire(r)
      PROVE  PostsFit'
  BY <1>1, <1>4
     DEF CoreTakes, CoreAnswers, Ask, Expire, Take, Answer, Invoke, Default
<1>5. ASSUME NEW c \in Cores, Dial(c) \/ NoticeEof(c) \/ CoreCrash(c)
      PROVE  PostsFit'
  BY <1>1, <1>5 DEF Dial, NoticeEof, CoreCrash, Kill, Ended, ConnectionTypeOK
<1>6. CASE Bind \/ Accept \/ Accepted \/ AcceptFails \/ Leave \/ StopCore \/ CloseSocket
        \/ SocketClosed \/ CloseServer
  BY <1>1, <1>2, <1>6
     DEF Bind, Accept, Accepted, AcceptFails, Leave, StopCore, CloseSocket, SocketClosed,
         CloseServer, ExitStep
<1>7. CASE KillProcess
  BY <1>1, <1>7 DEF KillProcess, Kill, Ended, ExitStep, ConnectionTypeOK
<1>8. CASE HelperStopPost
  BY <1>1, <1>3, <1>8 DEF HelperStopPost, KillChild, Kill, ConnectionTypeOK
<1>9. CASE Gone
  BY <1>9 DEF Gone, Drop, PostsFit
<1>10. CASE Swap \/ KnowServer \/ Register
  BY <1>10 DEF Swap, KnowServer, Register, Continue, PostsFit
<1>11. CASE Post
  BY <1>11 DEF Post, Continue, PostsFit, StartsInOrder, ConnectionTypeOK
<1>12. CASE PostRefused
  BY <1>12 DEF PostRefused, NextAttempt, PostsFit, StartsInOrder, ConnectionTypeOK
<1>13. CASE PostAnswered
  BY <1>13 DEF PostAnswered, NextAttempt, PostsFit, StartsInOrder, ConnectionTypeOK
<1>14. CASE PostTimesOut
  BY <1>14 DEF PostTimesOut, PostsFit
<1>15. CASE Spawn
  BY <1>15 DEF Spawn, Continue, PostsFit, ConnectionTypeOK
<1>16. ASSUME NEW a \in Attempts, HelperVerify(a)
       PROVE  PostsFit'
  BY <1>16 DEF HelperVerify, PostsFit, ConnectionTypeOK
<1>17. ASSUME NEW a \in Attempts, HelperStop(a)
       PROVE  PostsFit'
  <2>1. core'[Direct] # "none" => core[Direct] # "none"
    BY <1>3, <1>17 DEF HelperStop, KillChild, Kill, ConnectionTypeOK
  <2> QED BY <1>17, <2>1 DEF HelperStop, KillChild, PostsFit, ConnectionTypeOK
<1>18. ASSUME NEW a \in Attempts, HelperSpawn(a)
       PROVE  PostsFit'
  BY <1>18 DEF HelperSpawn, PostsFit, ConnectionTypeOK
<1> QED
  BY <1>4, <1>5, <1>6, <1>7, <1>8, <1>9, <1>10, <1>11, <1>12, <1>13, <1>14, <1>15,
     <1>16, <1>17, <1>18 DEF ConnectionNext, AppStep, CoreStep, HelperStep, RequestStep

-----------------------------------------------------------------------------

LEMMA InvInit == Init => Inv
<1> SUFFICES ASSUME Init PROVE Inv
  OBVIOUS
<1>1. TypeOK
  BY InitTyped
<1>2. ConnectionInit
  BY DEF Init
<1>3. \A c \in Cores : core[c] = "none"
  BY <1>2 DEF ConnectionInit
<1>4. \A a \in Attempts : post[a] = "none"
  BY <1>2 DEF ConnectionInit
<1>5. /\ restart = "delay" /\ attempt = 1 /\ child = 0 /\ process = 0 /\ app = "running"
      /\ server = "unbound" /\ socket = 0 /\ accepting = 0 /\ exit = "no"
      /\ \A r \in Request : message[r] = "none" /\ executed = {}
  BY <1>2 DEF ConnectionInit, Init, RequestsInit
<1>6. \A i \in DOMAIN backlog : FALSE
  BY <1>2 DEF ConnectionInit
<1>7. StartsInOrder /\ ConnectionsFit /\ CoresFit /\ WaitsFit /\ PostsFit
  BY <1>3, <1>4, <1>5, <1>6, NumbersTyped
     DEF StartsInOrder, ConnectionsFit, CoresFit, WaitsFit, PostsFit
<1>8. MessagesFit
  BY <1>5 DEF MessagesFit
<1> QED BY <1>1, <1>2, <1>7, <1>8 DEF Inv, DesktopInv, AndroidInv

LEMMA InvStep ==
  ASSUME Inv, [Next]_vars
  PROVE  Inv'
<1>1. TypeOK /\ MessagesFit /\ TypeOK' /\ MessagesFit'
  <2>1. UNCHANGED vars /\ MessagesFit => MessagesFit'
    BY DEF vars, requestVars, MessagesFit
  <2> QED
    BY <2>1, StepTyped, MessagesKeepFitting
       DEF Inv, TypeOK, RequestsTypeOK, RequestTypes
<1>2. CASE OverIpc(IpcNext)
  <2>1. ConnectionInit'
    BY <1>2 DEF OverIpc, Inv, AndroidInv, ConnectionInit, connectionVars, serviceVars,
       restartVars, helperVars
  <2> QED BY <1>1, <1>2, <2>1 DEF OverIpc, Inv, DesktopInv, AndroidInv
<1>3. CASE OverSocket(ConnectionNext)
  <2>1. /\ RequestTypes /\ ConnectionTypeOK /\ app \in Apps /\ platform # "android"
        /\ StartsInOrder /\ ConnectionsFit /\ CoresFit /\ WaitsFit /\ PostsFit
        /\ ConnectionNext /\ platform' = platform
    BY <1>1, <1>3 DEF OverSocket, TypeOK, RequestsTypeOK, RequestTypes, Apps, Inv, DesktopInv
  <2>2. (StartsInOrder /\ ConnectionsFit /\ CoresFit /\ WaitsFit /\ PostsFit)'
    BY <2>1, StartsInOrderStep, ConnectionsFitStep, CoresFitStep, WaitsFitStep,
       PostsFitStep
  <2> QED BY <1>1, <2>1, <2>2 DEF Inv, DesktopInv, AndroidInv
<1>4. CASE UNCHANGED vars
  BY <1>1, <1>4
     DEF Inv, DesktopInv, AndroidInv, StartsInOrder, ConnectionsFit, CoresFit, WaitsFit,
         PostsFit, ConnectionInit, vars, requestVars, connectionVars, serviceVars,
         restartVars, helperVars
<1> QED BY <1>2, <1>3, <1>4 DEF Next

LEMMA InvAlways == Spec => []Inv
BY InvInit, InvStep, PTL DEF Spec

\* However many posts the helper works on at once, one core is left once things
\* have settled: the one the application talks to, or the one whose connection
\* was taken as the accept loop ended.
THEOREM OneCoreServes == Spec => []OneCore
<1>1. Inv => OneCore
  <2> SUFFICES ASSUME Inv, AtRest, NEW c \in Cores, core[c] \notin {"none", "ended"}
               PROVE  c = IF server = "failed" THEN accepting ELSE socket
    BY DEF OneCore
  <2>1. ConnectionTypeOK
    BY DEF Inv, TypeOK
  <2>2. core[c] = "connected"
    BY <2>1 DEF AtRest, ConnectionTypeOK
  <2>3. platform # "android"
    BY <2>2 DEF Inv, AndroidInv, ConnectionInit
  <2>4. /\ accepting # 0 => core[socket] # "connected"
        /\ c \in {socket, accepting} \/ \E i \in DOMAIN backlog : backlog[i] = c
    BY <2>2, <2>3 DEF Inv, DesktopInv, CoresFit, AtRest
  <2>5. c \in {socket, accepting} /\ c # 0
    BY <2>4, NumbersTyped DEF AtRest
  <2>6. CASE accepting = 0
    <3>1. server # "failed"
      BY <2>3, <2>6 DEF Inv, DesktopInv, CoresFit, AtRest
    <3> QED BY <2>5, <2>6, <3>1
  <2>7. CASE accepting # 0
    <3>1. server = "failed" /\ c # socket
      BY <2>2, <2>4, <2>7 DEF AtRest
    <3> QED BY <2>5, <3>1
  <2> QED BY <2>6, <2>7
<1> QED BY <1>1, InvAlways, PTL

\* Unless a post was given up, the core that serves is not replaced.
THEOREM NoNeedlessReplacement == Spec => ReplacedOnlyAfterGivingUp
<1>1. ASSUME Inv, [Next]_vars, app = "running", socket # 0, socket' \notin {0, socket}
      PROVE  gaveUp
  <2>1. ConnectionTypeOK /\ ConnectionNext /\ platform # "android"
    BY <1>1 DEF Inv, TypeOK, Next, OverIpc, OverSocket, vars, connectionVars, serviceVars
  <2>2. socket' = accepting
    <3>1. CASE UNCHANGED serviceVars
      BY <1>1, <3>1 DEF serviceVars
    <3>2. CASE Bind \/ Accept \/ Accepted \/ AcceptFails \/ Swap \/ SocketClosed
            \/ CloseServer \/ Gone
      BY <1>1, <3>2
         DEF Bind, Accept, Accepted, AcceptFails, Swap, SocketClosed, CloseServer, Gone
    <3>3. ASSUME NEW c \in Cores, Dial(c)
          PROVE  FALSE
      BY <1>1, <3>3 DEF Dial
    <3> QED BY <2>1, <3>1, <3>2, <3>3, ServiceUnchanged
  <2>3. socket \in Cores /\ accepting \in Cores /\ socket # accepting
    BY <1>1, <2>1, <2>2, NumbersTyped DEF ConnectionTypeOK
  <2>4. core[socket] # "none" /\ core[accepting] # "none"
    BY <1>1, <2>1, <2>3, NumbersTyped DEF Inv, DesktopInv, ConnectionsFit, Dialled
  <2>5. SUFFICES ASSUME ~gaveUp PROVE FALSE
    OBVIOUS
  <2>6. \A a \in Attempts : core[a] # "none" => a = attempt /\ core[Direct] = "none"
    BY <1>1, <2>1, <2>5 DEF Inv, DesktopInv, StartsInOrder, PostsFit
  <2> QED BY <2>3, <2>4, <2>6, NumbersTyped
<1> QED BY <1>1, InvAlways, PTL DEF Spec, ReplacedOnlyAfterGivingUp

\* Who replaces a completer.
LEMMA StrandedByWhom ==
  ASSUME RequestTypes, IpcNext \/ ConnectionNext, NEW r \in Request,
         message[r] = "awaiting", message'[r] = "stranded"
  PROVE  ~IpcNext /\ (Swap \/ SocketClosed)
<1>1. message' # message
  OBVIOUS
<1>2. ~(\E x \in Request, m \in {"awaiting", "sent", "over"}, c \in Nat : Invoke(x, m, c))
  BY DEF Invoke, RequestTypes
<1>3. ~(\E x \in Request : Default(x) \/ Take(x) \/ Answer(x))
  BY DEF Default, Take, Answer, RequestTypes
<1>4. ~(\E c : Send(c)) /\ ~(\E c : Lose(c))
  BY DEF Send, Lose
<1>5. ~IpcNext
  <2>1. ~HandleMainIpc /\ ~DestroyEngine
    BY DEF HandleMainIpc, DestroyEngine
  <2>2. ~(Boot \/ Reconnect \/ AskRunning \/ AskReconnect \/ Destroy \/ InitEngine)
    BY <1>1, <2>1
       DEF Boot, Reconnect, AskRunning, AskReconnect, Destroy, InitEngine, requestVars
  <2>3. ~(Connected \/ NotConnected \/ Retry \/ ReceivePort)
    BY <1>1 DEF Connected, NotConnected, Retry, ReceivePort, requestVars
  <2>4. ~(IpcLeave \/ IpcDestroy \/ IpcGone)
    BY <1>1, <2>1 DEF IpcLeave, IpcDestroy, IpcGone, requestVars
  <2>5. ASSUME NEW x \in Request
        PROVE  ~(ServiceTakes(x) \/ ServiceAnswers(x) \/ IpcExpire(x) \/ IpcAsk(x))
    <3>1. ~IpcAsk(x)
      BY DEF IpcAsk, Invoke, RequestTypes
    <3> QED BY <1>3, <3>1 DEF ServiceTakes, ServiceAnswers, IpcExpire
  <2> QED BY <2>2, <2>3, <2>4, <2>5 DEF IpcNext
<1>6. ~CoreStep
  BY <1>1, <1>3, <1>4 DEF CoreStep, Dial, NoticeEof, CoreCrash, CoreTakes, CoreAnswers, Kill, requestVars
<1>7. ~HelperStep /\ ~HelperStopPost
  BY <1>1, <1>4
     DEF HelperStep, HelperVerify, HelperStop, HelperSpawn, HelperStopPost, KillChild,
         Kill, requestVars
<1>8. ~RequestStep
  <2>1. ASSUME NEW x \in Request
        PROVE  ~Ask(x) /\ ~Expire(x)
    BY <1>3 DEF Ask, Expire, Invoke, RequestTypes
  <2> QED BY <2>1 DEF RequestStep
<1>9. ~(Bind \/ Accept \/ Accepted \/ AcceptFails \/ KnowServer \/ Register \/ Post \/ PostRefused
        \/ PostAnswered \/ PostTimesOut \/ Spawn)
  BY <1>1, <1>4
     DEF Bind, Accept, Accepted, AcceptFails, KnowServer, Register, Post, PostRefused, PostAnswered,
         PostTimesOut, Spawn, requestVars
<1>10. ~(Leave \/ StopCore \/ CloseSocket \/ KillProcess \/ CloseServer \/ Gone)
  BY <1>1, <1>4
     DEF Leave, StopCore, CloseSocket, KillProcess, CloseServer, Gone, Kill, requestVars
<1> QED
  BY <1>5, <1>6, <1>7, <1>8, <1>9, <1>10 DEF ConnectionNext, AppStep

\* A completer somebody awaits is replaced only in the delay before the start.
THEOREM NobodyStrandedLater == Spec => StrandedOnlyAtStart
<1> DEFINE Late == \E r \in Request :
                     /\ message[r] = "awaiting" /\ message'[r] = "stranded"
                     /\ restart # "delay"
<1>1. Inv /\ [Next]_vars => ~Late
  <2> SUFFICES ASSUME Inv, [Next]_vars, NEW r \in Request,
                      message[r] = "awaiting", message'[r] = "stranded"
               PROVE  restart = "delay"
    OBVIOUS
  <2>1. RequestTypes
    BY DEF Inv, TypeOK, RequestsTypeOK, RequestTypes
  <2>2. ~UNCHANGED vars
    <3>1. message' # message
      OBVIOUS
    <3> QED BY <3>1, Zenon DEF vars, requestVars
  <2>3. OverIpc(IpcNext) \/ OverSocket(ConnectionNext)
    BY <2>2 DEF Next
  <2>4. OverSocket(ConnectionNext) /\ (Swap \/ SocketClosed)
    BY <2>1, <2>3, StrandedByWhom DEF OverIpc, OverSocket
  <2>5. CASE Swap
    BY <2>5 DEF Swap, Continue
  <2>6. CASE SocketClosed
    <3>1. exit = "closing" /\ WaitsFit
      BY <2>4, <2>6 DEF SocketClosed, ExitStep, OverSocket, Inv, DesktopInv
    <3> QED BY <3>1 DEF WaitsFit
  <2> QED BY <2>4, <2>5, <2>6
<1>2. ~Late => \A r \in Request :
        message[r] = "awaiting" /\ message'[r] = "stranded" => restart = "delay"
  OBVIOUS
<1> HIDE DEF Late
<1> QED BY <1>1, <1>2, InvAlways, PTL DEF Spec, StrandedOnlyAtStart
=============================================================================
