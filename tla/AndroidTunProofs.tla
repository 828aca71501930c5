-------------------------- MODULE AndroidTunProofs --------------------------
(* The safety of the Android TUN for any number of calls and dials.        *)
EXTENDS AndroidTun, FiniteSetTheorems, TLAPS

InLock == {"closing", "closed", "starting"}

NotYetMade == {"idle", "stopping", "closing", "closed", "relock"}

\* The type of the variables, without the bound on the permits in use.
CallTyped ==
  /\ tunLock \in Calls \union {Null}
  /\ tunHandler \in Calls \union {Null}
  /\ listener \in [Calls -> BOOLEAN]
  /\ callback \in [Calls -> BOOLEAN]
  /\ closer \in [Calls -> Calls \union {Null}]
  /\ call \in [Calls -> [pc : CallStates, kind : Kinds]]
  /\ open \subseteq Calls
  /\ released \in [Calls -> Nat]
  /\ overlapped \subseteq Calls

DialTyped ==
  /\ users \in [Calls -> SUBSET Dials]
  /\ dial \in [Dials -> [pc : DialStates, handler : Calls \union {Null}]]

Typed == CallTyped /\ DialTyped

\* tunLock is held by the one call whose control is inside.
LockInv == \A c \in Calls : call[c].pc \in InLock <=> tunLock = c

\* All permits of a handler are taken only by the call that closes it.
CloserInv ==
  /\ \A h \in Calls : closer[h] # Null =>
       /\ h = tunHandler
       /\ call[closer[h]].pc = "closing"
       /\ users[h] = {}
  /\ \A c \in Calls : call[c].pc = "closing" => tunHandler # Null

\* The permits in use are those of the dials between Acquire and Release.
UsersInv ==
  \A d \in Dials :
    /\ \A h \in Calls : d \in users[h] <=>
         dial[d].pc \in {"check", "using"} /\ dial[d].handler = h
    /\ dial[d].pc = "using" => listener[dial[d].handler]

\* What the fields of a handler say of the resources behind them.
HandlerInv ==
  \A h \in Calls :
    /\ h \in open <=> listener[h]
    /\ listener[h] => callback[h]
    /\ callback[h] => released[h] = 0
    /\ released[h] <= 1
    /\ call[h].pc \in NotYetMade =>
         ~callback[h] /\ released[h] = 0 /\ tunHandler # h
    /\ call[h].pc = "starting" /\ call[h].kind = "start" =>
         tunHandler = h /\ callback[h] /\ ~listener[h]
    /\ call[h].pc \notin NotYetMade /\ call[h].kind = "start" =>
         callback[h] \/ released[h] = 1

\* Whoever got past the hook finds a handler.
HookInv ==
  /\ hook => tunHandler # Null
  /\ \A d \in Dials :
       /\ dial[d].pc = "resolver" => tunHandler # Null
       /\ dial[d].pc \in {"acquire", "check", "using"} => dial[d].handler \in Calls

Closed == tunHandler # Null => ~callback[tunHandler]

\* While no run time is reported, the TUN is down or being taken down.
DownInv ==
  /\ ~runTime => (~hook /\ Closed) \/ \E c \in Calls : call[c].pc = "closing"
  /\ \A c \in Calls : call[c].pc \in {"closing", "closed"} => ~runTime
  /\ \A c \in Calls : call[c].pc = "closed" => Closed
  /\ \A h \in Calls : closer[h] # Null => ~hook
  /\ \A c \in Calls : call[c].pc = "starting" => runTime

\* A start that found the handler closed and is about to replace it may find
\* it replaced by then, but only by a start that saw it waiting.
OverlapInv ==
  /\ \A h \in Calls : callback[h] /\ h # tunHandler => h \in overlapped
  /\ \A c \in Calls : call[c].pc = "relock" /\ ~Closed => tunHandler \in overlapped

TunInv ==
  /\ Typed /\ LockInv /\ CloserInv /\ UsersInv /\ HandlerInv /\ HookInv
  /\ DownInv /\ OverlapInv

LEMMA InitInv == Init => TunInv
<1> SUFFICES ASSUME Init
             PROVE  TunInv
  OBVIOUS
<1>1. Typed
  BY DEF Init, Typed, CallTyped, DialTyped, CallStates, DialStates
<1>2. LockInv /\ CloserInv /\ UsersInv
  BY TunAssumption DEF Init, LockInv, CloserInv, UsersInv, InLock
<1>3. HandlerInv /\ HookInv /\ OverlapInv
  BY TunAssumption DEF Init, HandlerInv, HookInv, OverlapInv, Closed, NotYetMade
<1>4. DownInv
  BY TunAssumption DEF Init, DownInv, Closed
<1> QED BY <1>1, <1>2, <1>3, <1>4 DEF TunInv

-----------------------------------------------------------------------------
(* The steps of a call.                                                    *)

LEMMA SpawnInv ==
  ASSUME TunInv, NEW c \in Calls, Spawn(c)
  PROVE  TunInv'
<1> USE DEF TunInv, Spawn, At, Goto, handlerVars, history
<1>1. Typed'
  BY DEF Typed, CallTyped, DialTyped, CallStates
<1>2. LockInv' /\ CloserInv'
  BY DEF Typed, CallTyped, DialTyped, LockInv, CloserInv, InLock
<1>3. UsersInv' /\ HookInv'
  BY DEF UsersInv, HookInv
<1>4. HandlerInv'
  BY DEF Typed, CallTyped, DialTyped, HandlerInv, NotYetMade
<1>5. DownInv'
  BY DEF Typed, CallTyped, DialTyped, DownInv, Closed
<1>6. OverlapInv'
  BY DEF Typed, CallTyped, DialTyped, OverlapInv, Closed
<1> QED BY <1>1, <1>2, <1>3, <1>4, <1>5, <1>6

LEMMA StopLockInv ==
  ASSUME TunInv, NEW c \in Calls, StopLock(c)
  PROVE  TunInv'
<1> USE TunAssumption DEF TunInv, StopLock, At, Goto, handlerVars, history
<1>1. Typed'
  BY DEF Typed, CallTyped, DialTyped, CallStates
<1>2. LockInv' /\ CloserInv'
  BY DEF Typed, CallTyped, DialTyped, LockInv, CloserInv, InLock
<1>3. UsersInv' /\ HookInv'
  BY DEF UsersInv, HookInv
<1>4. HandlerInv'
  BY DEF Typed, CallTyped, DialTyped, HandlerInv, NotYetMade
<1>5. DownInv'
  BY DEF Typed, CallTyped, DialTyped, DownInv, Closed, HookInv, LockInv, InLock
<1>6. OverlapInv'
  BY DEF Typed, CallTyped, DialTyped, OverlapInv, Closed
<1> QED BY <1>1, <1>2, <1>3, <1>4, <1>5, <1>6

LEMMA AcquireAllInv ==
  ASSUME TunInv, NEW c \in Calls, AcquireAll(c)
  PROVE  TunInv'
<1> USE TunAssumption DEF TunInv, AcquireAll, At, history
<1>1. Typed'
  BY DEF Typed, CallTyped, DialTyped
<1>2. LockInv' /\ CloserInv'
  BY DEF Typed, CallTyped, DialTyped, LockInv, CloserInv
<1>3. UsersInv' /\ HookInv'
  BY DEF UsersInv, HookInv
<1>4. HandlerInv' /\ OverlapInv'
  BY DEF HandlerInv, OverlapInv, Closed
<1>5. DownInv'
  BY DEF DownInv, Closed
<1> QED BY <1>1, <1>2, <1>3, <1>4, <1>5

LEMMA CloseHandlerInv ==
  ASSUME TunInv, NEW c \in Calls, CloseHandler(c)
  PROVE  TunInv'
<1> USE TunAssumption DEF TunInv, CloseHandler, At, Goto, history
<1>0. tunHandler \in Calls /\ tunLock = c /\ users[tunHandler] = {}
  BY DEF Typed, CallTyped, DialTyped, CloserInv, LockInv, InLock
<1>1. Typed'
  BY <1>0 DEF Typed, CallTyped, DialTyped, CallStates
<1>2. LockInv' /\ CloserInv'
  BY <1>0 DEF Typed, CallTyped, DialTyped, LockInv, CloserInv, InLock
<1>3. UsersInv' /\ HookInv'
  BY <1>0 DEF Typed, CallTyped, DialTyped, UsersInv, HookInv
<1>4. HandlerInv'
  BY <1>0 DEF Typed, CallTyped, DialTyped, HandlerInv, NotYetMade, LockInv, InLock
<1>5. DownInv'
  BY <1>0 DEF Typed, CallTyped, DialTyped, DownInv, Closed, LockInv, InLock, CloserInv
<1>6. OverlapInv'
  BY <1>0 DEF Typed, CallTyped, DialTyped, OverlapInv, Closed
<1> QED BY <1>1, <1>2, <1>3, <1>4, <1>5, <1>6

LEMMA StopUnlockInv ==
  ASSUME TunInv, NEW c \in Calls, StopUnlock(c)
  PROVE  TunInv'
<1> USE TunAssumption DEF TunInv, StopUnlock, At, Goto, handlerVars, history
<1>0. tunLock = c
  BY DEF LockInv, InLock
<1>1. Typed'
  BY DEF Typed, CallTyped, DialTyped, CallStates
<1>2. LockInv' /\ CloserInv'
  BY <1>0 DEF Typed, CallTyped, DialTyped, LockInv, CloserInv, InLock
<1>3. UsersInv' /\ HookInv'
  BY DEF UsersInv, HookInv
<1>4. HandlerInv'
  BY DEF Typed, CallTyped, DialTyped, HandlerInv, NotYetMade
<1>5. DownInv'
  BY <1>0 DEF Typed, CallTyped, DialTyped, DownInv, Closed, LockInv, InLock
<1>6. OverlapInv'
  BY <1>0 DEF Typed, CallTyped, DialTyped, OverlapInv, DownInv, Closed
<1> QED BY <1>1, <1>2, <1>3, <1>4, <1>5, <1>6

LEMMA StartLockInv ==
  ASSUME TunInv, NEW c \in Calls, StartLock(c)
  PROVE  TunInv'
<1> USE TunAssumption DEF TunInv, StartLock, At, Goto
<1>1. Typed'
  <2>1. call' \in [Calls -> [pc : CallStates, kind : Kinds]]
    BY DEF Typed, CallTyped, CallStates
  <2>2. callback' \in [Calls -> BOOLEAN] /\ tunHandler' \in Calls \union {Null}
    BY DEF Typed, CallTyped
  <2>3. overlapped' \subseteq Calls /\ UNCHANGED <<listener, closer, open, released, users, dial>>
    BY DEF Typed, CallTyped
  <2> QED
    BY <2>1, <2>2, <2>3 DEF Typed, CallTyped, DialTyped
<1>2. LockInv' /\ CloserInv'
  BY DEF Typed, CallTyped, DialTyped, LockInv, CloserInv, InLock
<1>3. UsersInv' /\ HookInv'
  BY DEF Typed, CallTyped, DialTyped, UsersInv, HookInv
<1>4. HandlerInv'
  BY DEF Typed, CallTyped, DialTyped, HandlerInv, NotYetMade, LockInv, InLock
<1>5. DownInv'
  BY DEF Typed, CallTyped, DialTyped, DownInv, Closed, LockInv, InLock, CloserInv
<1>6. OverlapInv'
  BY DEF Typed, CallTyped, DialTyped, OverlapInv, Closed
<1> QED BY <1>1, <1>2, <1>3, <1>4, <1>5, <1>6

LEMMA StartFinishInv ==
  ASSUME TunInv, NEW c \in Calls, StartFinish(c)
  PROVE  TunInv'
<1> USE TunAssumption DEF TunInv, At, history
<1>0. /\ call[c].pc = "starting" /\ tunLock = c
      /\ call[c].kind = "start" => tunHandler = c /\ callback[c]
  BY DEF StartFinish, LockInv, InLock, HandlerInv
<1>a. \E pc \in {"done", "panicked"} : call' = [call EXCEPT ![c].pc = pc]
  BY DEF StartFinish, Goto
<1>b. \/ UNCHANGED <<listener, open>>
      \/ /\ call[c].kind = "start"
         /\ listener' = [listener EXCEPT ![c] = TRUE]
         /\ open' = open \union {c}
         /\ hook' = hook
  BY <1>0 DEF StartFinish
<1>c. /\ hook' = hook \/ hook' = FALSE
      /\ tunLock' = Null
      /\ UNCHANGED <<runTime, tunHandler, callback, users, closer, dial, released,
                    overlapped>>
  BY DEF StartFinish
<1>1. Typed'
  <2>1. call' \in [Calls -> [pc : CallStates, kind : Kinds]]
    BY <1>a DEF Typed, CallTyped, CallStates
  <2>2. listener' \in [Calls -> BOOLEAN] /\ open' \subseteq Calls
    BY <1>b DEF Typed, CallTyped
  <2> QED
    BY <1>c, <2>1, <2>2 DEF Typed, CallTyped, DialTyped
<1>d. \A k \in Calls :
        \/ call'[k] = call[k]
        \/ /\ k = c
           /\ call'[k].pc \in {"done", "panicked"}
           /\ call'[k].kind = call[k].kind
  BY <1>a DEF Typed, CallTyped
<1>2. LockInv' /\ CloserInv'
  <2>0. call'[c].pc \in {"done", "panicked"}
    BY <1>a DEF Typed, CallTyped
  <2>1. LockInv'
    BY <1>0, <1>c, <1>d, <2>0 DEF LockInv, InLock
  <2>2. CloserInv'
    BY <1>0, <1>c, <1>d DEF Typed, CallTyped, CloserInv
  <2> QED BY <2>1, <2>2
<1>e. \A k \in Calls : listener[k] => listener'[k]
  BY <1>b DEF Typed, CallTyped
<1>3. UsersInv'
  BY <1>c, <1>e DEF HookInv, UsersInv
<1>4. HookInv'
  BY <1>c DEF HookInv
<1>5. HandlerInv'
  BY <1>0, <1>a, <1>b, <1>c DEF Typed, CallTyped, DialTyped, HandlerInv, NotYetMade
<1>6. DownInv'
  BY <1>0, <1>a, <1>c DEF Typed, CallTyped, DialTyped, DownInv, Closed, LockInv, InLock
<1>7. OverlapInv'
  BY <1>0, <1>a, <1>c DEF Typed, CallTyped, DialTyped, OverlapInv, Closed
<1> QED BY <1>1, <1>2, <1>3, <1>4, <1>5, <1>6, <1>7

-----------------------------------------------------------------------------
(* The steps of a dial change nothing but dial and users.                  *)

LEMMA CallSideUnchanged ==
  ASSUME TunInv, UNCHANGED callVars
  PROVE  CallTyped' /\ LockInv' /\ HandlerInv' /\ DownInv' /\ OverlapInv'
<1> USE DEF TunInv, callVars
<1>0. CallTyped'
  BY DEF Typed, CallTyped
<1>1. LockInv' /\ HandlerInv'
  BY DEF LockInv, HandlerInv
<1>2. DownInv'
  BY DEF DownInv, Closed
<1>3. OverlapInv'
  BY DEF OverlapInv, Closed
<1> QED BY <1>0, <1>1, <1>2, <1>3

LEMMA SeeInv ==
  ASSUME TunInv, NEW d \in Dials, SeeHook(d) \/ SeeResolver(d)
  PROVE  TunInv'
<1> USE DEF TunInv, SeeHook, SeeResolver, Step, callVars
<1>1. DialTyped'
  BY DEF Typed, DialTyped, DialStates
<1>2. CloserInv' /\ UsersInv'
  BY DEF Typed, DialTyped, CloserInv, UsersInv
<1>3. HookInv'
  BY DEF Typed, DialTyped, HookInv
<1> QED BY <1>1, <1>2, <1>3, CallSideUnchanged DEF Typed

LEMMA CallHookInv ==
  ASSUME TunInv, NEW d \in Dials, CallHook(d) \/ CallResolver(d)
  PROVE  TunInv'
<1>1. UNCHANGED <<users, callVars>>
  BY DEF CallHook, CallResolver
<1>2. CASE Step(d, "hooked", "panicked")
  <2>1. DialTyped'
    BY <1>1, <1>2 DEF TunInv, Typed, CallTyped, DialTyped, DialStates, Step
  <2>2. CloserInv' /\ UsersInv'
    BY <1>1, <1>2 DEF TunInv, Typed, DialTyped, CloserInv, UsersInv, callVars, Step
  <2>3. HookInv'
    BY <1>1, <1>2 DEF TunInv, Typed, CallTyped, DialTyped, HookInv, callVars, Step
  <2> QED BY <1>1, <2>1, <2>2, <2>3, CallSideUnchanged DEF TunInv, Typed
<1>3. CASE Finish(d, "hooked")
  <2>1. DialTyped'
    BY <1>1, <1>3 DEF TunInv, Typed, CallTyped, DialTyped, DialStates, Finish
  <2>2. CloserInv' /\ UsersInv'
    BY <1>1, <1>3 DEF TunInv, Typed, DialTyped, CloserInv, UsersInv, callVars, Finish
  <2>3. HookInv'
    BY <1>1, <1>3 DEF TunInv, Typed, CallTyped, DialTyped, HookInv, callVars, Finish
  <2> QED BY <1>1, <2>1, <2>2, <2>3, CallSideUnchanged DEF TunInv, Typed
<1>4. CASE /\ \/ dial[d].pc = "hooked" /\ hook
             \/ dial[d].pc = "resolver"
          /\ dial' = [dial EXCEPT ![d] = [pc |-> "acquire", handler |-> tunHandler]]
  <2>1. DialTyped'
    BY <1>1, <1>4 DEF TunInv, Typed, CallTyped, DialTyped, DialStates
  <2>2. CloserInv' /\ UsersInv'
    BY <1>1, <1>4 DEF TunInv, Typed, DialTyped, CloserInv, UsersInv, callVars
  <2>3. HookInv'
    BY <1>1, <1>4 DEF TunInv, Typed, CallTyped, DialTyped, HookInv, callVars
  <2> QED BY <1>1, <2>1, <2>2, <2>3, CallSideUnchanged DEF TunInv, Typed
<1> QED BY <1>2, <1>3, <1>4 DEF CallHook, CallResolver

LEMMA AcquireInv ==
  ASSUME TunInv, NEW d \in Dials, Acquire(d)
  PROVE  TunInv'
<1> USE DEF TunInv, Acquire, Step, callVars
<1>0. dial[d].handler \in Calls
  BY DEF HookInv
<1>1. DialTyped'
  BY <1>0 DEF Typed, DialTyped, DialStates
<1>2. CloserInv'
  BY <1>0 DEF Typed, DialTyped, CloserInv
<1>3. UsersInv'
  BY <1>0 DEF Typed, DialTyped, UsersInv
<1>4. HookInv'
  BY DEF Typed, DialTyped, HookInv
<1> QED BY <1>1, <1>2, <1>3, <1>4, CallSideUnchanged DEF Typed

LEMMA CheckListenerInv ==
  ASSUME TunInv, NEW d \in Dials, CheckListener(d)
  PROVE  TunInv'
<1> USE DEF TunInv, CheckListener, Step, Finish, Release, callVars
<1>0. dial[d].handler \in Calls
  BY DEF HookInv
<1>1. DialTyped'
  BY <1>0 DEF Typed, DialTyped, DialStates
<1>2. CloserInv'
  BY <1>0 DEF Typed, DialTyped, CloserInv
<1>3. UsersInv'
  BY <1>0 DEF Typed, DialTyped, UsersInv
<1>4. HookInv'
  BY DEF Typed, DialTyped, HookInv
<1> QED BY <1>1, <1>2, <1>3, <1>4, CallSideUnchanged DEF Typed

LEMMA EndUseInv ==
  ASSUME TunInv, NEW d \in Dials, EndUse(d)
  PROVE  TunInv'
<1> USE DEF TunInv, EndUse, Finish, Release, callVars
<1>0. dial[d].handler \in Calls
  BY DEF HookInv
<1>1. DialTyped'
  BY <1>0 DEF Typed, DialTyped, DialStates
<1>2. CloserInv'
  BY <1>0 DEF Typed, DialTyped, CloserInv
<1>3. UsersInv'
  BY <1>0 DEF Typed, DialTyped, UsersInv
<1>4. HookInv'
  BY DEF Typed, DialTyped, HookInv
<1> QED BY <1>1, <1>2, <1>3, <1>4, CallSideUnchanged DEF Typed

LEMMA StutterInv ==
  ASSUME TunInv, UNCHANGED vars
  PROVE  TunInv'
<1> USE DEF TunInv, vars
<1>1. Typed' /\ CloserInv' /\ UsersInv' /\ HookInv'
  BY DEF Typed, CallTyped, DialTyped, CloserInv, UsersInv, HookInv
<1>2. UNCHANGED callVars
  BY DEF callVars
<1> QED BY <1>1, <1>2, CallSideUnchanged

LEMMA Invariance == Spec => []TunInv
<1>1. TunInv /\ [Next]_vars => TunInv'
  BY SpawnInv, StopLockInv, AcquireAllInv, CloseHandlerInv, StopUnlockInv,
     StartLockInv, StartFinishInv, SeeInv, CallHookInv, AcquireInv,
     CheckListenerInv, EndUseInv, StutterInv
  DEF Next, CallStep, DialStep
<1> QED BY InitInv, <1>1, PTL DEF Spec

-----------------------------------------------------------------------------
\* The semaphore never gives out more permits than it has.
PermitsInv ==
  /\ runTime \in BOOLEAN
  /\ hook \in BOOLEAN
  /\ \A h \in Calls : Cardinality(users[h]) <= Permits

LEMMA UsersFinite ==
  ASSUME TunInv, NEW h \in Calls
  PROVE  IsFiniteSet(users[h]) /\ Cardinality(users[h]) \in Nat
<1>1. users[h] \subseteq Dials
  BY DEF TunInv, Typed, DialTyped
<1> QED BY <1>1, TunAssumption, FS_Subset, FS_CardinalityType

LEMMA ReleaseKeepsBound ==
  ASSUME TunInv, PermitsInv, NEW d \in Dials, dial[d].handler \in Calls, Release(d)
  PROVE  \A h \in Calls : Cardinality(users'[h]) <= Permits
<1> SUFFICES ASSUME NEW h \in Calls
             PROVE  Cardinality(users'[h]) <= Permits
  OBVIOUS
<1>1. users'[h] = users[h] \/ users'[h] = users[h] \ {d}
  BY DEF Release, TunInv, Typed, DialTyped
<1>2. users[h] \ {d} \subseteq users[h]
  OBVIOUS
<1>3. /\ Cardinality(users[h] \ {d}) \in Nat
      /\ Cardinality(users[h] \ {d}) <= Cardinality(users[h])
  BY <1>2, UsersFinite, FS_Subset, FS_CardinalityType
<1> QED BY <1>1, <1>3, UsersFinite, TunAssumption DEF PermitsInv

LEMMA PermitsStep == TunInv /\ PermitsInv /\ [Next]_vars => PermitsInv'
<1> SUFFICES ASSUME TunInv, PermitsInv, [Next]_vars
             PROVE  PermitsInv'
  OBVIOUS
<1>1. ASSUME NEW c \in Calls, Spawn(c) \/ CallStep(c)
      PROVE  PermitsInv'
  <2>1. users' = users
    BY <1>1 DEF CallStep, Spawn, StopLock, AcquireAll, CloseHandler, StopUnlock,
                StartLock, StartFinish, handlerVars
  <2>2. runTime' \in BOOLEAN /\ hook' \in BOOLEAN
    BY <1>1 DEF CallStep, Spawn, StopLock, AcquireAll, CloseHandler, StopUnlock,
                StartLock, StartFinish, PermitsInv
  <2> QED BY <2>1, <2>2 DEF PermitsInv
<1>2. ASSUME NEW d \in Dials, SeeHook(d) \/ SeeResolver(d) \/ CallHook(d) \/ CallResolver(d)
      PROVE  PermitsInv'
  BY <1>2 DEF SeeHook, SeeResolver, CallHook, CallResolver, callVars, PermitsInv
<1>3. ASSUME NEW d \in Dials, Acquire(d)
      PROVE  PermitsInv'
  <2> DEFINE h == dial[d].handler
  <2>1. h \in Calls
    BY <1>3 DEF Acquire, TunInv, HookInv
  <2>2. Cardinality(users[h] \union {d}) <= Permits
    <3>1. Cardinality(users[h] \union {d}) =
            IF d \in users[h] THEN Cardinality(users[h]) ELSE Cardinality(users[h]) + 1
      BY <2>1, UsersFinite, FS_AddElement
    <3>2. Cardinality(users[h]) < Permits
      BY <1>3 DEF Acquire
    <3> QED BY <2>1, <3>1, <3>2, UsersFinite, TunAssumption
  <2>3. users' = [users EXCEPT ![h] = @ \union {d}]
    BY <1>3 DEF Acquire
  <2> HIDE DEF h
  <2>4. \A k \in Calls : users'[k] = IF k = h THEN users[h] \union {d} ELSE users[k]
    BY <2>3 DEF TunInv, Typed, DialTyped
  <2> QED BY <1>3, <2>2, <2>4 DEF Acquire, callVars, PermitsInv
<1>4. ASSUME NEW d \in Dials, CheckListener(d) \/ EndUse(d)
      PROVE  PermitsInv'
  <2>1. dial[d].handler \in Calls
    BY <1>4 DEF CheckListener, EndUse, Finish, TunInv, HookInv
  <2>2. Release(d) \/ users' = users
    BY <1>4 DEF CheckListener, EndUse
  <2>3. \A h \in Calls : Cardinality(users'[h]) <= Permits
    BY <2>1, <2>2, ReleaseKeepsBound DEF PermitsInv
  <2> QED BY <1>4, <2>3 DEF CheckListener, EndUse, callVars, PermitsInv
<1>5. CASE UNCHANGED vars
  BY <1>5 DEF vars, PermitsInv
<1> QED BY <1>1, <1>2, <1>3, <1>4, <1>5 DEF Next, DialStep

\* Every variable of the TUN keeps its type, and at most Permits dials are
\* inside the handler at a time.
THEOREM TypeCorrect == Spec => []TypeOK
<1>1. Init => PermitsInv
  <2>1. Cardinality({}) <= Permits
    BY TunAssumption, FS_EmptySet
  <2>2. Init => \A h \in Calls : users[h] = {}
    BY DEF Init
  <2>3. Init => runTime \in BOOLEAN /\ hook \in BOOLEAN
    BY DEF Init
  <2> QED BY <2>1, <2>2, <2>3, Zenon DEF PermitsInv
<1>2. TunInv /\ PermitsInv => TypeOK
  BY DEF TunInv, Typed, CallTyped, DialTyped, PermitsInv, TypeOK
<1> QED BY <1>1, <1>2, PermitsStep, Invariance, PTL DEF Spec

\* TunHandler.close never releases the JNI reference under a dial that is
\* inside Protect or ResolveProcess.
THEOREM CallbackSafety == Spec => []CallbackInUseIsAlive
<1>1. TunInv => CallbackInUseIsAlive
  BY DEF TunInv, UsersInv, HandlerInv, HookInv, CallbackInUseIsAlive
<1> QED BY <1>1, Invariance, PTL

\* handleStopTun never releases the JNI reference of a start twice.
THEOREM NoDoubleRelease == Spec => []ReleasedOnce
<1>1. TunInv => ReleasedOnce
  BY DEF TunInv, HandlerInv, ReleasedOnce
<1> QED BY <1>1, Invariance, PTL

\* When runTime is nil and nobody is inside the lock, the hooks are removed
\* and the handler is closed.
THEOREM DownWithoutRunTime == Spec => []NoRunTimeMeansDown
<1>1. TunInv => NoRunTimeMeansDown
  <2> SUFFICES ASSUME TunInv, tunLock = Null, ~runTime
               PROVE  ~hook /\ (tunHandler # Null =>
                        ~listener[tunHandler] /\ ~callback[tunHandler])
    BY DEF NoRunTimeMeansDown
  <2>1. ~\E c \in Calls : call[c].pc = "closing"
    BY TunAssumption DEF TunInv, LockInv, InLock
  <2>2. ~hook /\ Closed
    BY <2>1 DEF TunInv, DownInv
  <2> QED BY <2>2 DEF Closed, TunInv, HandlerInv, Typed, CallTyped
<1> QED BY <1>1, Invariance, PTL

\* handleStartTun leaves a listener or a JNI reference where no stop finds it
\* only for want of a descriptor or when its gap between stop and lock
\* overlapped that of another start.
THEOREM LeaksHaveCause == Spec => []LeftBehindHasCause
<1>1. TunInv => LeftBehindHasCause
  <2> SUFFICES ASSUME TunInv, NEW h \in Calls, h \in open \/ HasReference(h),
                      h # tunHandler, ~OnItsWay(h), call[h].kind # "startNoFd"
               PROVE  h \in overlapped
    BY DEF LeftBehindHasCause
  <2>1. CASE h \in open
    BY <2>1 DEF TunInv, HandlerInv, OverlapInv
  <2>2. CASE HasReference(h)
    <3>1. call[h].kind = "start" /\ call[h].pc \notin NotYetMade
      BY <2>2 DEF HasReference, OnItsWay, At, NotYetMade, TunInv, Typed,
                  CallTyped, Kinds
    <3>2. callback[h]
      BY <2>2, <3>1 DEF HasReference, TunInv, HandlerInv
    <3> QED BY <3>2 DEF TunInv, OverlapInv
  <2> QED BY <2>1, <2>2
<1> QED BY <1>1, Invariance, PTL
=============================================================================
