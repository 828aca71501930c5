-------------------------- MODULE LogSubscription ---------------------------
(***************************************************************************)
(* The log stream of the core: handleStartLog and handleStopLog of         *)
(* core/hub.go, and the observable that fans log events out to bounded     *)
(* channels.  Every action of the application runs in a goroutine of its   *)
(* own, and the global logSubscriber has no lock.                          *)
(*                                                                         *)
(* A subscription, and the goroutine that ranges over the global, are      *)
(* named by the startLog call that made them.                              *)
(***************************************************************************)
EXTENDS Naturals

CONSTANTS
  Calls, \* actions startLog and stopLog
  Cap,   \* capacity of a subscriber's channel, 200 in the code
  Null

ASSUME LogAssumption ==
  /\ Calls \intersect {Null, "none", "new", "ended"} = {}
  /\ Cap \in Nat \ {0}

VARIABLES
  logSubscriber, \* the global
  listener,      \* subscriptions the observable knows
  buffer,        \* events in the channel of each subscription
  closed,        \* channels that are closed
  toServe,       \* subscriptions the event being fanned out has not reached
  mux,           \* Observable.mux is held by process
  call,          \* where each action is, and which it is
  reader,        \* the goroutine of each start: what it ranges over
  overlapped     \* history: two actions were under way at the same time

vars == <<logSubscriber, listener, buffer, closed, toServe, mux, call, reader,
          overlapped>>

channelVars == <<listener, buffer, closed, toServe, mux>>

CallStates == {"idle", "argument", "unsubscribe", "forget", "subscribe", "assign", "done"}

CallRecord == [pc : CallStates, kind : {"start", "stop"},
               arg : Calls \union {Null}] \* what UnSubscribe is given

ReaderStates == {"none", "new", "ended"} \union Calls \union {Null}

TypeOK ==
  /\ logSubscriber \in Calls \union {Null}
  /\ listener \subseteq Calls
  /\ buffer \in [Calls -> 0 .. Cap]
  /\ closed \subseteq Calls
  /\ toServe \subseteq listener
  /\ mux \in BOOLEAN
  /\ call \in [Calls -> CallRecord]
  /\ reader \in [Calls -> ReaderStates]
  /\ overlapped \in BOOLEAN

Init ==
  /\ logSubscriber = Null
  /\ listener = {} /\ closed = {} /\ toServe = {} /\ mux = FALSE
  /\ buffer = [s \in Calls |-> 0]
  /\ call \in [Calls -> [pc : {"idle"}, kind : {"start", "stop"}, arg : {Null}]]
  /\ reader = [r \in Calls |-> "none"]
  /\ overlapped = FALSE

-----------------------------------------------------------------------------
(* handleStartLog and handleStopLog.                                       *)

At(c, pc) == call[c].pc = pc

Goto(c, pc) == call' = [call EXCEPT ![c].pc = pc]

UnderWay(c) == call[c].pc \notin {"idle", "done"}

AfterUnsubscribe(c) == IF call[c].kind = "start" THEN "subscribe" ELSE "done"

\* Faulty variant: the test of the global is forgotten.
BeginWithoutUnsubscribe(c) ==
  /\ At(c, "idle")
  /\ Goto(c, AfterUnsubscribe(c))
  /\ overlapped' = (overlapped \/ \E other \in Calls : UnderWay(other))
  /\ UNCHANGED <<logSubscriber, channelVars, reader>>

\* The test of the global.
Begin(c) ==
  /\ At(c, "idle")
  /\ Goto(c, IF logSubscriber # Null THEN "argument" ELSE AfterUnsubscribe(c))
  /\ overlapped' = (overlapped \/ \E other \in Calls : UnderWay(other))
  /\ UNCHANGED <<logSubscriber, channelVars, reader>>

\* The global is read again for the call of UnSubscribe, before mux is waited for.
ReadArgument(c) ==
  /\ At(c, "argument")
  /\ call' = [call EXCEPT ![c].pc = "unsubscribe", ![c].arg = logSubscriber]
  /\ UNCHANGED <<logSubscriber, channelVars, reader, overlapped>>

\* Faulty variant: the subscription is closed but stays known.
UnsubscribeClosing(c) ==
  /\ At(c, "unsubscribe") /\ ~mux
  /\ closed' = closed \union ({call[c].arg} \intersect listener)
  /\ Goto(c, "forget")
  /\ UNCHANGED <<logSubscriber, listener, buffer, toServe, mux, reader, overlapped>>

\* UnSubscribe waits for mux; of an unknown subscription it returns at once.
Unsubscribe(c) ==
  /\ At(c, "unsubscribe") /\ ~mux
  /\ listener' = listener \ {call[c].arg}
  /\ closed' = closed \union ({call[c].arg} \intersect listener)
  /\ Goto(c, "forget")
  /\ UNCHANGED <<logSubscriber, buffer, toServe, mux, reader, overlapped>>

Forget(c) ==
  /\ At(c, "forget")
  /\ logSubscriber' = Null
  /\ Goto(c, AfterUnsubscribe(c))
  /\ UNCHANGED <<channelVars, reader, overlapped>>

Subscribe(c) ==
  /\ At(c, "subscribe") /\ ~mux
  /\ listener' = listener \union {c}
  /\ Goto(c, "assign")
  /\ UNCHANGED <<logSubscriber, buffer, closed, toServe, mux, reader, overlapped>>

\* Faulty variant: nobody ranges over the new subscription.
AssignWithoutReader(c) ==
  /\ At(c, "assign")
  /\ logSubscriber' = c
  /\ Goto(c, "done")
  /\ UNCHANGED <<channelVars, reader, overlapped>>

\* The assignment, and the goroutine that will range over the global.
Assign(c) ==
  /\ At(c, "assign")
  /\ logSubscriber' = c
  /\ reader' = [reader EXCEPT ![c] = "new"]
  /\ Goto(c, "done")
  /\ UNCHANGED <<channelVars, overlapped>>

-----------------------------------------------------------------------------
(* The readers and the observable.                                         *)

\* The range expression is evaluated when the goroutine runs: the global may
\* be another subscription by then, or nil, which blocks for ever.
EvaluateRange(r) ==
  /\ reader[r] = "new"
  /\ reader' = [reader EXCEPT ![r] = logSubscriber]
  /\ UNCHANGED <<logSubscriber, channelVars, call, overlapped>>

\* An event is taken and sent to Dart; an empty closed channel ends the range.
Read(r) ==
  LET s == reader[r] IN
  /\ s \in Calls
  /\ \/ /\ buffer[s] > 0
        /\ buffer' = [buffer EXCEPT ![s] = @ - 1]
        /\ UNCHANGED reader
     \/ /\ buffer[s] = 0 /\ s \in closed
        /\ reader' = [reader EXCEPT ![r] = "ended"]
        /\ UNCHANGED buffer
  /\ UNCHANGED <<logSubscriber, listener, closed, toServe, mux, call, overlapped>>

\* A log statement of the core hands process an event.
Process ==
  /\ ~mux
  /\ mux' = TRUE
  /\ toServe' = listener
  /\ UNCHANGED <<logSubscriber, listener, buffer, closed, call, reader, overlapped>>

\* Emit blocks, with mux held, while the channel is full.
Emit(s) ==
  /\ mux /\ s \in toServe
  /\ buffer[s] < Cap
  /\ buffer' = [buffer EXCEPT ![s] = @ + 1]
  /\ toServe' = toServe \ {s}
  /\ UNCHANGED <<logSubscriber, listener, closed, mux, call, reader, overlapped>>

Processed ==
  /\ mux /\ toServe = {}
  /\ mux' = FALSE
  /\ UNCHANGED <<logSubscriber, listener, buffer, closed, toServe, call, reader,
                 overlapped>>

-----------------------------------------------------------------------------
CallStep(c) ==
  ReadArgument(c) \/ Unsubscribe(c) \/ Forget(c) \/ Subscribe(c) \/ Assign(c)

ReaderStep(r) == EvaluateRange(r) \/ Read(r)

FanOut == Processed \/ \E s \in Calls : Emit(s)

Next ==
  \/ \E c \in Calls : Begin(c) \/ CallStep(c) \/ ReaderStep(c)
  \/ Process \/ FanOut

\* Goroutines are scheduled; a mutex that is released again and again is
\* granted to one that waits (Go hands it over after a millisecond).
Fairness ==
  /\ \A c \in Calls : SF_vars(CallStep(c)) /\ WF_vars(ReaderStep(c))
  /\ WF_vars(FanOut)

Spec == Init /\ [][Next]_vars /\ Fairness

-----------------------------------------------------------------------------
Served(s) == \E r \in Calls :
  reader[r] = s \/ (reader[r] = "new" /\ s = logSubscriber)

\* A subscription the observable knows is the one the global leads to, and has
\* a goroutine that reads it or is about to, unless two actions overlapped.
KnownIsServed ==
  (~overlapped /\ \A c \in Calls : ~UnderWay(c)) =>
    \A s \in listener : s = logSubscriber /\ Served(s)

\* Nothing is sent to a closed channel, which would panic.
NoSendOnClosed == toServe \intersect closed = {}

\* The fan-out of an event, during which every log statement of the core
\* waits, comes to an end, unless two actions overlapped.
LogFlows == mux ~> (~mux \/ overlapped)
=============================================================================
