----------------------- MODULE LogSubscriptionProofs ------------------------
(***************************************************************************)
(* The log stream for any number of actions and any capacity: a known      *)
(* subscription is read as long as no two actions have overlapped, and     *)
(* nothing is ever sent to a closed channel.                               *)
(***************************************************************************)
EXTENDS LogSubscription, TLAPS

\* Channels: only subscriptions of calls that came to subscribe exist, a known
\* one is open, and process fans out only while it holds mux.
ChannelInv ==
  /\ \A s \in listener \union closed : call[s].pc \in {"assign", "done"}
  /\ listener \intersect closed = {}
  /\ toServe # {} => mux

\* Before two actions overlap the global, the known subscriptions and the place
\* of the action under way agree.
SerialInv ==
  ~overlapped =>
    /\ \A c, d \in Calls : UnderWay(c) /\ UnderWay(d) => c = d
    /\ \A c \in Calls :
         /\ call[c].pc \in {"forget", "subscribe"} => listener = {}
         /\ call[c].pc \in {"subscribe", "assign"} => logSubscriber = Null
         /\ call[c].pc = "assign" => listener = {c}
         /\ call[c].pc \in {"argument", "unsubscribe"} => logSubscriber # Null
         /\ call[c].pc = "unsubscribe" => call[c].arg = logSubscriber
    /\ \A s \in listener : call[s].pc # "assign" =>
         s = logSubscriber /\ Served(s)

LogInv == TypeOK /\ ChannelInv /\ SerialInv

Shapes ==
  /\ logSubscriber \in Calls \union {Null}
  /\ listener \subseteq Calls
  /\ closed \subseteq Calls
  /\ toServe \subseteq listener
  /\ call \in [Calls -> CallRecord]
  /\ reader \in [Calls -> ReaderStates]

LEMMA TypeOKInParts ==
  TypeOK <=> /\ Shapes /\ buffer \in [Calls -> 0 .. Cap]
             /\ mux \in BOOLEAN /\ overlapped \in BOOLEAN
BY Zenon DEF TypeOK, Shapes

LEMMA InitInv == Init => LogInv
<1> SUFFICES ASSUME Init PROVE LogInv
  OBVIOUS
<1>1. TypeOK
  <2>1. Shapes /\ buffer \in [Calls -> 0 .. Cap]
    BY LogAssumption DEF Init, Shapes, CallRecord, CallStates, ReaderStates
  <2> QED
    BY <2>1, TypeOKInParts DEF Init
<1>2. ChannelInv /\ SerialInv
  BY DEF Init, ChannelInv, SerialInv, UnderWay
<1> QED
  BY <1>1, <1>2 DEF LogInv

\* What a step of an action does to the table of actions.
LEMMA CallTable ==
  ASSUME TypeOK, NEW c \in Calls, Begin(c) \/ CallStep(c)
  PROVE  /\ call' \in [Calls -> CallRecord]
         /\ \A d \in Calls \ {c} : call'[d] = call[d]
BY DEF TypeOK, CallRecord, CallStates, Begin, CallStep, ReadArgument, Unsubscribe,
   Forget, Subscribe, Assign, At, Goto, AfterUnsubscribe

LEMMA TypeNext == TypeOK /\ ChannelInv /\ [Next]_vars => TypeOK'
<1> SUFFICES ASSUME TypeOK, ChannelInv, [Next]_vars PROVE TypeOK'
  OBVIOUS
<1> USE LogAssumption DEF channelVars
<1>1. /\ Shapes /\ buffer \in [Calls -> 0 .. Cap]
      /\ mux \in BOOLEAN /\ overlapped \in BOOLEAN
  BY TypeOKInParts
<1>2. ASSUME NEW c \in Calls, Begin(c) \/ CallStep(c)
      PROVE  Shapes' /\ buffer' = buffer
  <2>1. call' \in [Calls -> CallRecord]
    BY <1>2, CallTable
  <2>2. CASE Begin(c) \/ ReadArgument(c)
    <3>1. UNCHANGED <<logSubscriber, listener, buffer, closed, toServe, reader>>
      BY <2>2, Zenon DEF Begin, ReadArgument
    <3> QED
      BY <1>1, <2>1, <3>1 DEF Shapes
  <2>3. CASE Unsubscribe(c)
    <3>1. toServe \subseteq listener'
      BY <1>1, <2>3 DEF Shapes, ChannelInv, Unsubscribe
    <3> QED
      BY <1>1, <2>1, <2>3, <3>1 DEF Shapes, Unsubscribe
  <2>4. CASE Forget(c) \/ Subscribe(c)
    BY <1>1, <2>1, <2>4 DEF Shapes, Forget, Subscribe
  <2>5. CASE Assign(c)
    BY <1>1, <2>1, <2>5 DEF Shapes, Assign, ReaderStates
  <2> QED
    BY <1>2, <2>2, <2>3, <2>4, <2>5 DEF CallStep
<1>3. ASSUME NEW r \in Calls, ReaderStep(r)
      PROVE  Shapes' /\ buffer' \in [Calls -> 0 .. Cap]
  BY <1>1, <1>3 DEF Shapes, ReaderStep, EvaluateRange, Read, ReaderStates
<1>4. ASSUME NEW s \in Calls, Emit(s)
      PROVE  Shapes' /\ buffer' \in [Calls -> 0 .. Cap]
  BY <1>1, <1>4 DEF Shapes, Emit
<1>5. ASSUME Process \/ Processed \/ UNCHANGED vars
      PROVE  Shapes' /\ buffer' = buffer
  BY <1>1, <1>5 DEF Shapes, Process, Processed, vars
<1>6. Shapes' /\ buffer' \in [Calls -> 0 .. Cap]
  BY <1>1, <1>2, <1>3, <1>4, <1>5 DEF Next, FanOut, Shapes, Process, Processed, vars
<1>7. mux' \in BOOLEAN /\ overlapped' \in BOOLEAN
  BY <1>1, Zenon DEF Next, FanOut, CallStep, ReaderStep, Begin, ReadArgument, Unsubscribe, Forget,
     Subscribe, Assign, EvaluateRange, Read, Process, Processed, Emit, vars
<1> QED
  BY <1>6, <1>7, Zenon DEF TypeOK, Shapes

LEMMA ChannelNext == TypeOK /\ ChannelInv /\ [Next]_vars => ChannelInv'
<1> SUFFICES ASSUME TypeOK, ChannelInv, [Next]_vars PROVE ChannelInv'
  OBVIOUS
<1> USE LogAssumption, TypeOKInParts DEF Shapes, ChannelInv, channelVars
<1>1. ASSUME NEW c \in Calls, Begin(c) PROVE ChannelInv'
  BY <1>1 DEF Begin, At, Goto
<1>2. ASSUME NEW c \in Calls, CallStep(c) PROVE ChannelInv'
  <2>1. CASE ReadArgument(c)
    BY <2>1 DEF ReadArgument, At, CallRecord
  <2>2. CASE Forget(c)
    BY <2>2, CallTable DEF Forget, At, CallStep
  <2>3. CASE Assign(c)
    BY <2>3, CallTable DEF Assign, At, Goto, CallRecord, CallStep
  <2>4. CASE Unsubscribe(c)
    <3>1. /\ listener' = listener \ {call[c].arg}
          /\ closed' = closed \union ({call[c].arg} \intersect listener)
          /\ toServe' = toServe /\ toServe = {}
      BY <2>4 DEF Unsubscribe
    <3>2. \A d \in Calls : call[d].pc \in {"assign", "done"} => call'[d].pc = call[d].pc
      BY <2>4 DEF Unsubscribe, At, Goto
    <3> QED
      BY <3>1, <3>2
  <2>5. CASE Subscribe(c)
    BY <2>5 DEF Subscribe, At, Goto
  <2> QED
    BY <1>2, <2>1, <2>2, <2>3, <2>4, <2>5 DEF CallStep
<1>3. ASSUME NEW r \in Calls, ReaderStep(r) PROVE ChannelInv'
  BY <1>3 DEF ReaderStep, EvaluateRange, Read
<1>4. CASE Process \/ FanOut
  BY <1>4 DEF Process, FanOut, Processed, Emit
<1>5. CASE UNCHANGED vars
  BY <1>5 DEF vars
<1> QED
  BY <1>1, <1>2, <1>3, <1>4, <1>5 DEF Next

LEMMA SerialNext ==
  TypeOK /\ ChannelInv /\ SerialInv /\ [Next]_vars => SerialInv'
<1> SUFFICES ASSUME TypeOK, ChannelInv, SerialInv, [Next]_vars, ~overlapped'
             PROVE  SerialInv'
  BY DEF SerialInv
<1> USE LogAssumption, TypeOKInParts DEF Shapes, ChannelInv, SerialInv, UnderWay, channelVars
<1>1. ASSUME NEW c \in Calls, Begin(c) PROVE SerialInv'
  <2>1. /\ \A d \in Calls : ~UnderWay(d)
        /\ UNCHANGED <<logSubscriber, listener, reader>>
        /\ call[c].pc = "idle"
        /\ \A d \in Calls \ {c} : call'[d] = call[d]
    BY <1>1, CallTable DEF Begin, At
  <2>2. call'[c].pc = IF logSubscriber # Null THEN "argument"
                                              ELSE AfterUnsubscribe(c)
    BY <1>1 DEF Begin, Goto
  <2>3. ~overlapped
    BY <1>1 DEF Begin
  <2>4. \A s \in listener : s = logSubscriber /\ Served(s)
    BY <2>1, <2>3
  <2> QED
    BY <2>1, <2>2, <2>4 DEF AfterUnsubscribe, Served
<1>2. ASSUME NEW c \in Calls, CallStep(c) PROVE SerialInv'
  <2>1. /\ ~overlapped /\ UnderWay(c)
        /\ \A d \in Calls \ {c} : call'[d] = call[d] /\ ~UnderWay(d)
    BY <1>2, CallTable DEF CallStep, ReadArgument, Unsubscribe, Forget, Subscribe, Assign, At
  <2>2. CASE ReadArgument(c)
    BY <2>1, <2>2, CallTable DEF CallRecord, ReadArgument, At, Served
  <2>3. CASE Unsubscribe(c)
    BY <2>1, <2>3 DEF Unsubscribe, At, Goto, Served
  <2>4. CASE Forget(c)
    BY <2>1, <2>4 DEF Forget, At, Goto, AfterUnsubscribe, Served
  <2>5. CASE Subscribe(c)
    BY <2>1, <2>5 DEF Subscribe, At, Goto, Served
  <2>6. CASE Assign(c)
    BY <2>1, <2>6 DEF Assign, At, Goto, Served
  <2> QED
    BY <1>2, <2>2, <2>3, <2>4, <2>5, <2>6 DEF CallStep
<1>3. ASSUME NEW r \in Calls, ReaderStep(r) PROVE SerialInv'
  <2>1. ~overlapped /\ UNCHANGED <<logSubscriber, listener, call>>
    BY <1>3 DEF ReaderStep, EvaluateRange, Read
  <2>2. ASSUME NEW s \in listener, Served(s) PROVE Served(s)'
    BY <1>3, <2>1, <2>2 DEF ReaderStep, EvaluateRange, Read, Served
  <2> QED
    BY <2>1, <2>2
<1>4. CASE Process \/ FanOut
  BY <1>4 DEF Process, FanOut, Processed, Emit, Served
<1>5. CASE UNCHANGED vars
  BY <1>5 DEF vars, Served
<1> QED
  BY <1>1, <1>2, <1>3, <1>4, <1>5 DEF Next

LEMMA Invariant == Spec => []LogInv
<1>1. LogInv /\ [Next]_vars => LogInv'
  BY TypeNext, ChannelNext, SerialNext DEF LogInv
<1> QED
  BY InitInv, <1>1, PTL DEF Spec

-----------------------------------------------------------------------------
\* Every variable keeps its type; no channel holds more than its capacity.
THEOREM TypeCorrect == Spec => []TypeOK
BY Invariant, PTL DEF LogInv

\* No event is sent to a closed channel, whatever actions overlap.
THEOREM OpenChannelsOnly == Spec => []NoSendOnClosed
<1>1. LogInv => NoSendOnClosed
  BY DEF LogInv, TypeOK, ChannelInv, NoSendOnClosed
<1> QED
  BY Invariant, <1>1, PTL

\* Actions that do not overlap leave no subscription without a reader.
THEOREM SerialActionsServe == Spec => []KnownIsServed
<1>1. LogInv => KnownIsServed
  BY DEF LogInv, TypeOK, SerialInv, KnownIsServed, UnderWay
<1> QED
  BY Invariant, <1>1, PTL
=============================================================================
