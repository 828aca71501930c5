------------------------------ MODULE Requests ------------------------------
(***************************************************************************)
(* ClashHandlerInterface of lib/clash/interface.dart: the requests of the  *)
(* application to its core, the completer each leaves in                   *)
(* callbackCompleterMap, and where its message is.  How messages travel is *)
(* the business of the modules that extend this one: CoreConnection (a     *)
(* socket, on the desktop) and ServiceIpc (isolate ports, on Android).     *)
(***************************************************************************)
EXTENDS Naturals

CONSTANT Request

VARIABLES
  platform, \* where the application runs
  app,      \* the application: running, leaving (isExiting), gone
  request,  \* the caller of each request (Rpc!Outcomes)
  message,  \* where the message of each request is
  via,      \* the connection it went through, 0 while it went through none
  executed  \* history: requests the core has executed

requestVars == <<request, message, via, executed>>

Outcomes == {"new", "waiting", "answered", "defaulted", "dropped"}

\* awaiting: sendMessage awaits the completer of the transport; stranded:
\* that completer was replaced; sent: written; running: in the core's hands;
\* over: answered or lost.
MessageStates == {"none", "awaiting", "stranded", "sent", "running", "over"}

RequestsTypeOK ==
  /\ platform \in {"android", "windows", "unix"}
  /\ app \in {"running", "leaving", "gone"}
  /\ request \in [Request -> Outcomes]
  /\ message \in [Request -> MessageStates]
  /\ via \in [Request -> Nat]
  /\ executed \subseteq Request

RequestsInit ==
  /\ platform \in {"android", "windows", "unix"}
  /\ app = "running"
  /\ request = [r \in Request |-> "new"]
  /\ message = [r \in Request |-> "none"]
  /\ via = [r \in Request |-> 0]
  /\ executed = {}

\* invoke files a completer under a fresh id and hands the message to
\* sendMessage, which leaves it in state m, on connection c.
Invoke(r, m, c) ==
  /\ app # "gone"
  /\ request[r] = "new"
  /\ request' = [request EXCEPT ![r] = "waiting"]
  /\ message' = [message EXCEPT ![r] = m]
  /\ via' = [via EXCEPT ![r] = c]
  /\ UNCHANGED <<app, executed>>

\* The timer of safeFuture: it runs from invoke, wherever the message is.
Default(r) ==
  /\ app # "gone"
  /\ request[r] = "waiting"
  /\ request' = [request EXCEPT ![r] = "defaulted"]
  /\ UNCHANGED <<app, message, via, executed>>

\* The core takes the message off its connection and starts a handler.
Take(r) ==
  /\ message[r] = "sent"
  /\ message' = [message EXCEPT ![r] = "running"]
  /\ executed' = executed \union {r}
  /\ UNCHANGED <<app, request, via>>

\* Faulty variant: a late answer is given to a caller that has its default.
AnswerLate(r) ==
  /\ app # "gone"
  /\ message[r] = "running"
  /\ message' = [message EXCEPT ![r] = "over"]
  /\ request' = [request EXCEPT ![r] = "answered"]
  /\ UNCHANGED <<app, via, executed>>

\* handleResult: the completer is found by the id; a caller that has been
\* given the default value is not given the answer.
Answer(r) ==
  /\ app # "gone"
  /\ message[r] = "running"
  /\ message' = [message EXCEPT ![r] = "over"]
  /\ request' = [request EXCEPT ![r] = IF @ = "waiting" THEN "answered" ELSE @]
  /\ UNCHANGED <<app, via, executed>>

\* The completer of the transport completes with connection c.
Send(c) ==
  /\ message' = [r \in Request |->
                   IF message[r] = "awaiting" THEN "sent" ELSE message[r]]
  /\ via' = [r \in Request |-> IF message[r] = "awaiting" THEN c ELSE via[r]]

\* A completer is replaced: whoever awaits it awaits it for ever.
Strand ==
  message' = [r \in Request |->
                IF message[r] = "awaiting" THEN "stranded" ELSE message[r]]

\* The messages that are on connection c or in handlers behind it are lost.
Lose(c) ==
  message' = [r \in Request |->
                IF via[r] = c /\ message[r] \in {"sent", "running"}
                THEN "over" ELSE message[r]]

\* The application is gone, and its callers with it.
Drop ==
  /\ app # "gone"
  /\ app' = "gone"
  /\ request' = [r \in Request |->
                   IF request[r] = "waiting" THEN "dropped" ELSE request[r]]

-----------------------------------------------------------------------------

\* Requests as their callers see them.
PromisedRpc == INSTANCE Rpc WITH outcome <- request
=============================================================================
