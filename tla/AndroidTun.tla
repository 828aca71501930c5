----------------------------- MODULE AndroidTun -----------------------------
(***************************************************************************)
(* The TUN of the Android core, core/lib_android.go.  The exports startTUN *)
(* and stopTun spawn one goroutine per call and return; dials of the       *)
(* kernel call back into the application through a hook, and the handler's *)
(* semaphore is what keeps the callback alive while they do.               *)
(*                                                                         *)
(* A call is one goroutine of startTUN or stopTun.  A handler is named by  *)
(* the call that made it, and so is the JNI reference that Core.startTun    *)
(* makes before it hands a start to the core, whatever the descriptor.     *)
(***************************************************************************)
EXTENDS Naturals, FiniteSets

CONSTANTS
  Calls,    \* goroutines of startTUN and stopTun
  Dials,    \* goroutines of the kernel that open sockets
  Permits,  \* weight of the semaphore TunHandler.limit: 4 in the code
  Null

ASSUME TunAssumption ==
  /\ IsFiniteSet(Dials)
  /\ Permits \in Nat \ {0}
  /\ Null \notin Calls

VARIABLES
  tunLock,    \* the call that holds tunLock
  runTime,    \* runTime # nil
  tunHandler, \* the handler the global points to
  listener,   \* listener[h]: the field listener of handler h is set
  callback,   \* callback[h]: the field callback of handler h is set
  users,      \* users[h]: dials that hold one permit of h.limit
  closer,     \* closer[h]: the call that holds all the permits of h.limit
  hook,       \* dialer.DefaultSocketHook and DefaultPackageNameResolver set
  call,       \* call[c]: where goroutine c is, and what it is asked to do
  dial,       \* dial[d]: where goroutine d is, and the handler it has read
  open,       \* handlers whose TUN listener is running
  released,   \* released[h]: how often the JNI reference of h was released
  overlapped  \* history: starts that made their handler while another start
              \* was between its stop and its own handler

vars == <<tunLock, runTime, tunHandler, listener, callback, users, closer, hook,
          call, dial, open, released, overlapped>>

Kinds == {"start", "startNoFd", "stop"}

CallStates == {"idle", "stopping", "closing", "closed", "relock", "starting",
               "panicked", "done"}

DialStates == {"idle", "hooked", "resolver", "acquire", "check", "using",
               "panicked"}

TypeOK ==
  /\ tunLock \in Calls \union {Null}
  /\ runTime \in BOOLEAN
  /\ tunHandler \in Calls \union {Null}
  /\ listener \in [Calls -> BOOLEAN]
  /\ callback \in [Calls -> BOOLEAN]
  /\ users \in [Calls -> SUBSET Dials]
  /\ \A h \in Calls : Cardinality(users[h]) <= Permits
  /\ closer \in [Calls -> Calls \union {Null}]
  /\ hook \in BOOLEAN
  /\ call \in [Calls -> [pc : CallStates, kind : Kinds]]
  /\ dial \in [Dials -> [pc : DialStates, handler : Calls \union {Null}]]
  /\ open \subseteq Calls
  /\ released \in [Calls -> Nat]
  /\ overlapped \subseteq Calls

Init ==
  /\ tunLock = Null
  /\ runTime = FALSE
  /\ tunHandler = Null
  /\ listener = [h \in Calls |-> FALSE]
  /\ callback = [h \in Calls |-> FALSE]
  /\ users = [h \in Calls |-> {}]
  /\ closer = [h \in Calls |-> Null]
  /\ hook = FALSE
  /\ call \in [Calls -> [pc : {"idle"}, kind : Kinds]]
  /\ dial = [d \in Dials |-> [pc |-> "idle", handler |-> Null]]
  /\ open = {}
  /\ released = [h \in Calls |-> 0]
  /\ overlapped = {}

At(c, pc) == call[c].pc = pc

Goto(c, pc) == call' = [call EXCEPT ![c].pc = pc]

handlerVars == <<tunHandler, listener, callback, users, closer>>

dialVars == <<dial, users>>

history == <<overlapped>>

-----------------------------------------------------------------------------
(* handleStopTun and handleStartTun.                                       *)

\* The export spawns the goroutine: goroutines of one caller may run in any
\* order afterwards.
Spawn(c) ==
  /\ At(c, "idle")
  /\ Goto(c, "stopping")
  /\ UNCHANGED <<tunLock, runTime, handlerVars, hook, dial, open, released,
                 history>>

\* Faulty variant: a start does not close the handler it replaces.
StopLockOfStopsOnly(c) ==
  /\ At(c, "stopping")
  /\ tunLock = Null
  /\ tunLock' = c
  /\ runTime' = FALSE
  /\ Goto(c, IF tunHandler = Null \/ call[c].kind # "stop"
               THEN "closed" ELSE "closing")
  /\ UNCHANGED <<handlerVars, hook, dial, open, released, history>>

\* handleStopTun, which handleStartTun calls first: the lock is taken, the run
\* time forgotten.
StopLock(c) ==
  /\ At(c, "stopping")
  /\ tunLock = Null
  /\ tunLock' = c
  /\ runTime' = FALSE
  /\ Goto(c, IF tunHandler = Null THEN "closed" ELSE "closing")
  /\ UNCHANGED <<handlerVars, hook, dial, open, released, history>>

\* Faulty variants: close does not wait for the permits; close
\* leaves the hooks.
AcquireNone(c) ==
  LET h == tunHandler IN
  /\ At(c, "closing")
  /\ closer[h] = Null
  /\ closer' = [closer EXCEPT ![h] = c]
  /\ hook' = FALSE
  /\ UNCHANGED <<tunLock, runTime, tunHandler, listener, callback, users, call,
                 dial, open, released, history>>

AcquireAllKeepingHook(c) ==
  LET h == tunHandler IN
  /\ At(c, "closing")
  /\ closer[h] = Null
  /\ users[h] = {}
  /\ closer' = [closer EXCEPT ![h] = c]
  /\ UNCHANGED <<tunLock, runTime, tunHandler, listener, callback, users, hook,
                 call, dial, open, released, history>>

\* TunHandler.close waits for every permit, then removes the hooks.
AcquireAll(c) ==
  LET h == tunHandler IN
  /\ At(c, "closing")
  /\ closer[h] = Null
  /\ users[h] = {}
  /\ closer' = [closer EXCEPT ![h] = c]
  /\ hook' = FALSE
  /\ UNCHANGED <<tunLock, runTime, tunHandler, listener, callback, users, call,
                 dial, open, released, history>>

\* Faulty variant: the field callback keeps the released reference.
CloseHandlerKeepingCallback(c) ==
  LET h == tunHandler IN
  /\ At(c, "closing")
  /\ closer[h] = c
  /\ open' = open \ {h}
  /\ released' = [released EXCEPT ![h] = IF callback[h] THEN @ + 1 ELSE @]
  /\ listener' = [listener EXCEPT ![h] = FALSE]
  /\ closer' = [closer EXCEPT ![h] = Null]
  /\ Goto(c, "closed")
  /\ UNCHANGED <<tunLock, runTime, tunHandler, callback, users, hook, dial,
                 history>>

\* The rest of close: listener and JNI reference are let go and the permits
\* returned.
CloseHandler(c) ==
  LET h == tunHandler IN
  /\ At(c, "closing")
  /\ closer[h] = c
  /\ open' = IF listener[h] THEN open \ {h} ELSE open
  /\ released' = [released EXCEPT ![h] = IF callback[h] THEN @ + 1 ELSE @]
  /\ callback' = [callback EXCEPT ![h] = FALSE]
  /\ listener' = [listener EXCEPT ![h] = FALSE]
  /\ closer' = [closer EXCEPT ![h] = Null]
  /\ Goto(c, "closed")
  /\ UNCHANGED <<tunLock, runTime, tunHandler, users, hook, dial, history>>

\* handleStopTun returns; a start goes on to take the lock again.
StopUnlock(c) ==
  /\ At(c, "closed")
  /\ tunLock' = Null
  /\ Goto(c, IF call[c].kind = "stop" THEN "done" ELSE "relock")
  /\ UNCHANGED <<runTime, handlerVars, hook, dial, open, released, history>>

\* The second half of handleStartTun: with a descriptor a handler is made and
\* the hooks set before there is a listener.
StartLock(c) ==
  /\ At(c, "relock")
  /\ tunLock = Null
  /\ tunLock' = c
  /\ runTime' = TRUE
  /\ overlapped' = IF \E other \in Calls \ {c} : At(other, "relock")
                     THEN overlapped \union {c} ELSE overlapped
  /\ \/ /\ call[c].kind = "start"
        /\ tunHandler' = c
        /\ callback' = [callback EXCEPT ![c] = TRUE]
        /\ hook' = TRUE
     \/ /\ call[c].kind = "startNoFd"
        /\ UNCHANGED <<tunHandler, callback, hook>>
  /\ Goto(c, "starting")
  /\ UNCHANGED <<listener, users, closer, dial, open, released>>

\* With a descriptor the arguments of tun.Start are read from currentConfig,
\* which is nil before the first setup and, after a parse that failed, until the
\* default is in its place: nobody locks it, and nil ends the process.  tun.Start
\* gives a listener or fails; the deferred unlock follows.
StartFinish(c) ==
  /\ At(c, "starting")
  /\ \/ /\ call[c].kind = "start"
        /\ listener' = [listener EXCEPT ![tunHandler] = TRUE]
        /\ open' = open \union {c}
        /\ Goto(c, "done")
        /\ UNCHANGED hook
     \/ /\ call[c].kind = "start"
        /\ hook' = FALSE
        /\ Goto(c, "done")
        /\ UNCHANGED <<listener, open>>
     \/ /\ call[c].kind = "start"
        /\ Goto(c, "panicked")
        /\ UNCHANGED <<listener, open, hook>>
     \/ /\ call[c].kind = "startNoFd"
        /\ Goto(c, "done")
        /\ UNCHANGED <<listener, open, hook>>
  /\ tunLock' = Null
  /\ UNCHANGED <<runTime, tunHandler, callback, users, closer, dial, released,
                 history>>

-----------------------------------------------------------------------------
(* Dials of the kernel.                                                    *)

callVars == <<tunLock, runTime, tunHandler, listener, callback, closer, hook,
              call, open, released, overlapped>>

Step(d, from, to) ==
  /\ dial[d].pc = from
  /\ dial' = [dial EXCEPT ![d].pc = to]

Finish(d, from) ==
  /\ dial[d].pc = from
  /\ dial' = [dial EXCEPT ![d] = [pc |-> "idle", handler |-> Null]]

\* dialContext finds the hook set and will call it when the socket exists.
SeeHook(d) ==
  /\ hook
  /\ Step(d, "idle", "hooked")
  /\ UNCHANGED <<users, callVars>>

\* FindPackageName keeps the resolver it read.
SeeResolver(d) ==
  /\ hook
  /\ Step(d, "idle", "resolver")
  /\ UNCHANGED <<users, callVars>>

\* The control function reads DefaultSocketHook again: calling a nil function
\* panics, which ends the process.
\* The hook blocks the connection when descriptors run out, or reads the
\* handler of that moment.
CallHook(d) ==
  /\ \/ /\ ~hook
        /\ Step(d, "hooked", "panicked")
     \/ /\ hook
        /\ Finish(d, "hooked")
     \/ /\ hook
        /\ dial[d].pc = "hooked"
        /\ dial' = [dial EXCEPT ![d] = [pc |-> "acquire", handler |-> tunHandler]]
  /\ UNCHANGED <<users, callVars>>

CallResolver(d) ==
  /\ dial[d].pc = "resolver"
  /\ dial' = [dial EXCEPT ![d] = [pc |-> "acquire", handler |-> tunHandler]]
  /\ UNCHANGED <<users, callVars>>

\* handleProtect and handleResolveProcess take one permit ...
Acquire(d) ==
  LET h == dial[d].handler IN
  /\ dial[d].pc = "acquire"
  /\ closer[h] = Null
  /\ Cardinality(users[h]) < Permits
  /\ Step(d, "acquire", "check")
  /\ users' = [users EXCEPT ![h] = @ \union {d}]
  /\ UNCHANGED callVars

Release(d) ==
  users' = [users EXCEPT ![dial[d].handler] = @ \ {d}]

\* Faulty variant: the early return keeps the permit.
CheckListenerLeakingPermit(d) ==
  /\ dial[d].pc = "check"
  /\ \/ /\ ~listener[dial[d].handler]
        /\ Finish(d, "check")
     \/ /\ listener[dial[d].handler]
        /\ Step(d, "check", "using")
  /\ UNCHANGED <<users, callVars>>

\* ... look whether there is a listener ...
CheckListener(d) ==
  /\ dial[d].pc = "check"
  /\ \/ /\ ~listener[dial[d].handler]
        /\ Finish(d, "check")
        /\ Release(d)
     \/ /\ listener[dial[d].handler]
        /\ Step(d, "check", "using")
        /\ UNCHANGED users
  /\ UNCHANGED callVars

\* ... and give the permit back when the JNI call has returned.
EndUse(d) ==
  /\ Finish(d, "using")
  /\ Release(d)
  /\ UNCHANGED callVars

-----------------------------------------------------------------------------
CallStep(c) ==
  \/ StopLock(c) \/ AcquireAll(c) \/ CloseHandler(c) \/ StopUnlock(c)
  \/ StartLock(c) \/ StartFinish(c)

DialStep(d) ==
  \/ CallHook(d) \/ CallResolver(d) \/ Acquire(d) \/ CheckListener(d)
  \/ EndUse(d)

Panicked ==
  \/ \E d \in Dials : dial[d].pc = "panicked"
  \/ \E c \in Calls : At(c, "panicked")

Next ==
  /\ ~Panicked
  /\ \/ \E c \in Calls : Spawn(c) \/ CallStep(c)
     \/ \E d \in Dials : SeeHook(d) \/ SeeResolver(d) \/ DialStep(d)

\* Goroutines are scheduled, tun.Start and the JNI calls return.  Both the
\* mutex and the semaphore serve their waiters in order of arrival: a call is
\* not passed over for ever, which strong fairness of its steps stands for.
Fairness ==
  /\ \A c \in Calls : SF_vars(~Panicked /\ CallStep(c))
  /\ \A d \in Dials : WF_vars(~Panicked /\ DialStep(d))

Spec == Init /\ [][Next]_vars /\ Fairness

-----------------------------------------------------------------------------
\* A dial inside a JNI call uses a reference that close has not released, and
\* that nobody releases before the call returns.
CallbackInUseIsAlive ==
  \A d \in Dials :
    dial[d].pc = "using" =>
      callback[dial[d].handler] /\ released[dial[d].handler] = 0

\* The JNI reference of a start is released at most once, although the global
\* keeps pointing to a closed handler and every later call closes it again.
ReleasedOnce ==
  \A h \in Calls : released[h] <= 1

\* When no call is inside the lock and no run time is reported, the TUN is
\* down: the hooks are gone and the last handler has let go of everything.
NoRunTimeMeansDown ==
  (tunLock = Null /\ ~runTime) =>
    /\ ~hook
    /\ tunHandler # Null => ~listener[tunHandler] /\ ~callback[tunHandler]

\* Core.startTun has made the JNI reference of a start and nobody has
\* released it.
HasReference(h) ==
  call[h].kind # "stop" /\ ~At(h, "idle") /\ released[h] = 0

\* The start has its reference and has not come to its own half yet.
OnItsWay(h) ==
  call[h].pc \in {"stopping", "closing", "closed", "relock"}

\* A listener or a JNI reference that the global does not lead to, so that no
\* stop will ever let go of it, is that of a start which is still on its way,
\* of a start without a descriptor, whose reference nobody keeps, or of a start
\* whose gap between stop and lock overlapped that of another start.
LeftBehindHasCause ==
  \A h \in Calls :
    (h \in open \/ HasReference(h)) /\ h # tunHandler =>
      OnItsWay(h) \/ call[h].kind = "startNoFd" \/ h \in overlapped

\* close waits only for dials that will return: every call gets done.
CallsReturn ==
  \A c \in Calls : At(c, "stopping") ~> At(c, "done") \/ Panicked
=============================================================================
