--------------------------- MODULE UpdateTaskLoop ---------------------------
(***************************************************************************)
(* The periodic update loop of the application, GlobalState in             *)
(* lib/state.dart.  Callers start it (with a new list of tasks or with the *)
(* list it has) and stop it at any time, also while the tasks are being    *)
(* awaited.  Dart runs one callback at a time, so a step is what runs      *)
(* between two awaits; everything else may run in between.                 *)
(*                                                                         *)
(* A chain is the sequence of runs that one call of startUpdateTasks sets  *)
(* off: a run, the one-second timer it arms, the run the timer starts...   *)
(* It is named by the token of that call.  Nothing in the code says that   *)
(* at most one chain is alive; the model keeps them in sets so that two    *)
(* chains would be seen if there were two.                                 *)
(***************************************************************************)
EXTENDS Naturals

CONSTANTS
  TaskList,   \* the lists of tasks: the empty one and those callers pass
  EmptyList,  \* the list before the first start
  Null,       \* an argument left out, a timer field that holds nothing
  MaxToken    \* bounds the number of starts and stops of a behaviour

ASSUME LoopAssumption ==
  /\ EmptyList \in TaskList
  /\ Null \notin TaskList
  /\ MaxToken \in Nat

VARIABLES
  tasks,         \* the field tasks: the list the next run reads
  taskLoopToken, \* _taskLoopToken
  executing,     \* _isExecutingTasks
  needsRestart,  \* _needsTaskRestart
  timer,         \* the field timer: the timer last armed, live or not
  armed,         \* the timers that are neither cancelled nor fired
  runs,          \* the calls of _runUpdateLoop in progress
  requested      \* history: a start was called and no stop since

vars == <<tasks, taskLoopToken, executing, needsRestart, timer, armed, runs,
          requested>>

Timer == [chain : Nat, token : Nat]

Run == [chain : Nat, token : Nat, tasks : TaskList,
        phase : {"executing", "executed"}]

TypeOK ==
  /\ tasks \in TaskList
  /\ taskLoopToken \in 0 .. MaxToken
  /\ executing \in BOOLEAN
  /\ needsRestart \in BOOLEAN
  /\ timer \in Timer \union {Null}
  /\ armed \subseteq Timer
  /\ runs \subseteq Run
  /\ requested \in BOOLEAN

Init ==
  /\ tasks = EmptyList
  /\ taskLoopToken = 0
  /\ executing = FALSE
  /\ needsRestart = FALSE
  /\ timer = Null
  /\ armed = {}
  /\ runs = {}
  /\ requested = FALSE

-----------------------------------------------------------------------------
(* The synchronous first part of _runUpdateLoop, called with a token that  *)
(* is the current one: the flag goes up and the list of tasks is read.     *)
NewRun(c, tok, list) ==
  [chain |-> c, token |-> tok, tasks |-> list, phase |-> "executing"]

\* Faulty variant: the field is cleared and the timer left to fire.
ForgetTimer ==
  UNCHANGED armed

\* timer?.cancel(): a timer that already fired is not affected.
CancelTimer ==
  armed' = armed \ {timer}

\* The list argument of startUpdateTasks is optional.
SetTasks(arg) ==
  tasks' = IF arg = Null THEN tasks ELSE arg

\* startUpdateTasks([arg]).
StartUpdateTasks(arg) ==
  LET token == taskLoopToken + 1 IN
  /\ taskLoopToken < MaxToken
  /\ requested' = TRUE
  /\ SetTasks(arg)
  /\ taskLoopToken' = token
  /\ CancelTimer
  /\ timer' = Null
  /\ \/ /\ executing
        /\ needsRestart' = TRUE
        /\ UNCHANGED <<executing, runs>>
     \/ /\ ~executing
        /\ executing' = TRUE
        /\ runs' = runs \union {NewRun(token, token, tasks')}
        /\ UNCHANGED needsRestart

\* executorUpdateTask returns: every task was awaited, failed or not.
ExecutorDone(r) ==
  /\ r.phase = "executing"
  /\ timer' = Null
  /\ runs' = (runs \ {r}) \union {[r EXCEPT !.phase = "executed"]}
  /\ UNCHANGED <<tasks, taskLoopToken, executing, needsRestart, armed,
                 requested>>

\* Faulty variants: the deferred start gets the list read before, or none.
RestartWithOldTasks(r) ==
  /\ needsRestart
  /\ needsRestart' = FALSE
  /\ executing' = TRUE
  /\ runs' = (runs \ {r}) \union {NewRun(r.chain, taskLoopToken, r.tasks)}
  /\ UNCHANGED <<timer, armed>>

RestartForgotten(r) ==
  /\ needsRestart
  /\ needsRestart' = FALSE
  /\ executing' = FALSE
  /\ runs' = runs \ {r}
  /\ UNCHANGED <<timer, armed>>

\* The rest of _runUpdateLoop, after the await of the executor: a start that
\* came meanwhile is served by this chain, a stop ends it, and otherwise the
\* chain arms the timer of its next run.
Restart(r) ==
  /\ needsRestart
  /\ needsRestart' = FALSE
  /\ executing' = TRUE
  /\ runs' = (runs \ {r}) \union {NewRun(r.chain, taskLoopToken, tasks)}
  /\ UNCHANGED <<timer, armed>>

Expire(r) ==
  /\ ~needsRestart
  /\ r.token # taskLoopToken
  /\ executing' = FALSE
  /\ runs' = runs \ {r}
  /\ UNCHANGED <<needsRestart, timer, armed>>

Rearm(r) ==
  LET t == [chain |-> r.chain, token |-> r.token] IN
  /\ ~needsRestart
  /\ r.token = taskLoopToken
  /\ executing' = FALSE
  /\ runs' = runs \ {r}
  /\ timer' = t
  /\ armed' = armed \union {t}
  /\ UNCHANGED needsRestart

RunDone(r) ==
  /\ r.phase = "executed"
  /\ Restart(r) \/ Expire(r) \/ Rearm(r)
  /\ UNCHANGED <<tasks, taskLoopToken, requested>>

\* The timer's callback.  It does not look at _isExecutingTasks: only the
\* token decides whether the run goes on.
TimerFires(t) ==
  /\ armed' = armed \ {t}
  /\ \/ /\ t.token = taskLoopToken
        /\ executing' = TRUE
        /\ runs' = runs \union {NewRun(t.chain, t.token, tasks)}
     \/ /\ t.token # taskLoopToken
        /\ UNCHANGED <<executing, runs>>
  /\ UNCHANGED <<tasks, taskLoopToken, needsRestart, timer, requested>>

\* Faulty variant: a deferred restart survives the stop.
StopKeepingRestart ==
  /\ taskLoopToken < MaxToken
  /\ requested' = FALSE
  /\ taskLoopToken' = taskLoopToken + 1
  /\ CancelTimer
  /\ timer' = Null
  /\ UNCHANGED <<tasks, executing, needsRestart, runs>>

\* stopUpdateTasks().
StopUpdateTasks ==
  /\ taskLoopToken < MaxToken
  /\ requested' = FALSE
  /\ taskLoopToken' = taskLoopToken + 1
  /\ needsRestart' = FALSE
  /\ CancelTimer
  /\ timer' = Null
  /\ UNCHANGED <<tasks, executing, runs>>

Next ==
  \/ \E arg \in TaskList \union {Null} : StartUpdateTasks(arg)
  \/ StopUpdateTasks
  \/ \E r \in runs : ExecutorDone(r) \/ RunDone(r)
  \/ \E t \in armed : TimerFires(t)

\* A task list ends: every task that asks the core is bounded by the time-out
\* of ClashHandlerInterface.invoke, and the runtime fires the timers it holds.
Fairness ==
  /\ WF_vars(\E r \in runs : ExecutorDone(r) \/ RunDone(r))
  /\ WF_vars(\E t \in armed : TimerFires(t))

Spec == Init /\ [][Next]_vars /\ Fairness

-----------------------------------------------------------------------------
\* What the loop is doing will lead to a run for the start called last.
Alive ==
  \/ needsRestart
  \/ \E t \in armed : t.token = taskLoopToken
  \/ \E r \in runs : r.token = taskLoopToken

\* However starts, stops, timers and slow tasks interleave, one chain is alive
\* at most: a single run or a single timer, never two polling loops.
OneChain ==
  \A a, b \in armed \union runs : a = b

\* A run that works for the latest start works on the tasks of that start;
\* only a run that is already superseded may still use an older list.
LatestTasks ==
  \A r \in runs : r.token = taskLoopToken => r.tasks = tasks

\* A start that no stop followed is never forgotten and a stop is never
\* undone, whatever was in progress when they came.
AliveIffRequested ==
  Alive <=> requested

\* To its callers the loop is one periodic task that never overlaps itself
\* and that no timer or deferred restart revives after stopUpdateTasks.
Abstract == INSTANCE PeriodicTask WITH wanted <- requested, active <- executing

ImplementsPeriodicTask == Abstract!Spec

\* A start is served, also when it comes while a run is in progress: a run
\* over its tasks happens, and happens again, until a stop or a later start.
StartIsServed ==
  \A list \in TaskList :
    (requested /\ tasks = list) ~>
      \/ ~requested
      \/ tasks # list
      \/ \E r \in runs : r.token = taskLoopToken /\ r.tasks = list
=============================================================================
