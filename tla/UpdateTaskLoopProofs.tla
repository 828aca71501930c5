------------------------ MODULE UpdateTaskLoopProofs ------------------------
(* The safety of UpdateTaskLoop for every number of starts and stops and   *)
(* every set of task lists.                                                *)
EXTENDS UpdateTaskLoop, TLAPS

\* The only timer that can fire is the one the field holds, armed under the
\* token in force; a run is in progress exactly while the flag is up; a
\* deferred restart has a run that will see it.
LoopInv ==
  /\ TypeOK
  /\ OneChain
  /\ LatestTasks
  /\ AliveIffRequested
  /\ \A t \in armed : t = timer /\ t.token = taskLoopToken
  /\ executing <=> runs # {}
  /\ needsRestart => executing
  /\ \A r \in runs : r.token <= taskLoopToken

LEMMA InitInv == Init => LoopInv
<1> SUFFICES ASSUME Init
             PROVE  LoopInv
  OBVIOUS
<1>1. tasks \in TaskList /\ taskLoopToken \in 0 .. MaxToken
  BY LoopAssumption DEF Init
<1>2. executing \in BOOLEAN /\ needsRestart \in BOOLEAN /\ requested \in BOOLEAN
  BY DEF Init
<1>3. timer \in Timer \union {Null} /\ armed \subseteq Timer /\ runs \subseteq Run
  BY DEF Init
<1>4. TypeOK
  BY <1>1, <1>2, <1>3, Zenon DEF TypeOK
<1> QED
  BY <1>4, LoopAssumption
  DEF Init, LoopInv, OneChain, LatestTasks, AliveIffRequested, Alive

LEMMA StartInv ==
  ASSUME LoopInv, NEW arg \in TaskList \union {Null}, StartUpdateTasks(arg)
  PROVE  LoopInv'
<1>1. tasks' \in TaskList /\ taskLoopToken' \in 0 .. MaxToken
  BY LoopAssumption DEF LoopInv, TypeOK, StartUpdateTasks, SetTasks
<1>2. executing' \in BOOLEAN /\ needsRestart' \in BOOLEAN /\ requested' \in BOOLEAN
  BY DEF LoopInv, TypeOK, StartUpdateTasks
<1>3. timer' = Null /\ armed' = {}
  BY DEF LoopInv, StartUpdateTasks, CancelTimer
<1>4. CASE executing
  <2>1. runs' = runs /\ runs' \subseteq Run
    BY <1>4 DEF LoopInv, TypeOK, StartUpdateTasks
  <2>2. TypeOK'
    BY <1>1, <1>2, <1>3, <2>1, Zenon DEF TypeOK
  <2> QED
    BY <1>3, <1>4, <2>1, <2>2, LoopAssumption
    DEF LoopInv, TypeOK, OneChain, LatestTasks, AliveIffRequested, Alive,
        StartUpdateTasks, Run
<1>5. CASE ~executing
  <2> DEFINE new == NewRun(taskLoopToken + 1, taskLoopToken + 1, tasks')
  <2>1. runs' = {new}
    BY <1>5 DEF LoopInv, StartUpdateTasks
  <2>2. /\ new \in Run
        /\ new.token = taskLoopToken'
        /\ new.tasks = tasks'
    BY <1>1, LoopAssumption DEF NewRun, Run, StartUpdateTasks, LoopInv, TypeOK
  <2> HIDE DEF new
  <2>3. TypeOK'
    BY <1>1, <1>2, <1>3, <2>1, <2>2, Zenon DEF TypeOK
  <2>4. (executing /\ requested /\ ~needsRestart)'
    BY <1>5 DEF StartUpdateTasks, LoopInv
  <2>5. taskLoopToken' \in Nat
    BY <1>1, LoopAssumption
  <2> QED
    BY <1>3, <2>1, <2>2, <2>3, <2>4, <2>5
    DEF LoopInv, OneChain, LatestTasks, AliveIffRequested, Alive
<1> QED BY <1>4, <1>5

LEMMA StopInv ==
  ASSUME LoopInv, StopUpdateTasks
  PROVE  LoopInv'
<1>1. tasks' \in TaskList /\ taskLoopToken' \in 0 .. MaxToken
  BY LoopAssumption DEF LoopInv, TypeOK, StopUpdateTasks
<1>2. executing' \in BOOLEAN /\ needsRestart' \in BOOLEAN /\ requested' \in BOOLEAN
  BY DEF LoopInv, TypeOK, StopUpdateTasks
<1>3. timer' = Null /\ armed' = {} /\ runs' = runs /\ runs \subseteq Run
  BY DEF LoopInv, TypeOK, StopUpdateTasks, CancelTimer
<1>4. TypeOK'
  BY <1>1, <1>2, <1>3, Zenon DEF TypeOK
<1> QED
  BY <1>3, <1>4, LoopAssumption
  DEF Run, LoopInv, TypeOK, OneChain, LatestTasks, AliveIffRequested,
      Alive, StopUpdateTasks

LEMMA ExecutorDoneInv ==
  ASSUME LoopInv, NEW r \in runs, ExecutorDone(r)
  PROVE  LoopInv'
<1>1. runs = {r} /\ armed = {} /\ r \in Run
  BY DEF LoopInv, TypeOK, OneChain, Run, Timer
<1>2. runs' = {[r EXCEPT !.phase = "executed"]}
  BY <1>1 DEF ExecutorDone
<1>3. /\ [r EXCEPT !.phase = "executed"] \in Run
      /\ [r EXCEPT !.phase = "executed"].token = r.token
      /\ [r EXCEPT !.phase = "executed"].tasks = r.tasks
  BY <1>1 DEF Run
<1> QED
  BY <1>1, <1>2, <1>3
  DEF ExecutorDone, LoopInv, TypeOK, OneChain, LatestTasks, AliveIffRequested,
      Alive

LEMMA RunDoneInv ==
  ASSUME LoopInv, NEW r \in runs, RunDone(r)
  PROVE  LoopInv'
<1> USE LoopAssumption
<1>1. runs = {r} /\ armed = {} /\ r \in Run /\ taskLoopToken \in Nat
  BY DEF LoopInv, TypeOK, OneChain, Run, Timer
<1>2. CASE Restart(r)
  <2> DEFINE new == NewRun(r.chain, taskLoopToken, tasks)
  <2>1. runs' = {new} /\ armed' = {}
    BY <1>1, <1>2 DEF Restart
  <2>2. new \in Run /\ new.token = taskLoopToken /\ new.tasks = tasks
    BY <1>1 DEF NewRun, LoopInv, TypeOK, Run
  <2> HIDE DEF new
  <2>3. /\ tasks' = tasks /\ taskLoopToken' = taskLoopToken
        /\ timer' = timer /\ requested' = requested
        /\ needsRestart' = FALSE /\ executing' = TRUE
    BY <1>2 DEF RunDone, Restart
  <2>4. requested
    BY <1>2 DEF Restart, LoopInv, AliveIffRequested, Alive
  <2>5. TypeOK'
    BY <2>1, <2>2, <2>3, Zenon DEF TypeOK, LoopInv
  <2> QED
    BY <1>1, <2>1, <2>2, <2>3, <2>4, <2>5
    DEF LoopInv, OneChain, LatestTasks, AliveIffRequested, Alive
<1>3. CASE Expire(r)
  BY <1>1, <1>3
  DEF RunDone, Expire, LoopInv, TypeOK, OneChain, LatestTasks,
      AliveIffRequested, Alive
<1>4. CASE Rearm(r)
  <2> DEFINE t == [chain |-> r.chain, token |-> r.token]
  <2>1. timer' = t /\ armed' = {t} /\ runs' = {}
    BY <1>1, <1>4 DEF Rearm
  <2>2. t \in Timer /\ t.token = taskLoopToken
    BY <1>1, <1>4 DEF Rearm, Timer, Run
  <2> HIDE DEF t
  <2>3. /\ tasks' = tasks /\ taskLoopToken' = taskLoopToken
        /\ requested' = requested /\ needsRestart' = needsRestart
        /\ executing' = FALSE /\ ~needsRestart
    BY <1>4 DEF RunDone, Rearm
  <2>4. r.token = taskLoopToken /\ requested
    BY <1>4 DEF Rearm, LoopInv, AliveIffRequested, Alive
  <2>5. TypeOK'
    BY <2>1, <2>2, <2>3, Zenon DEF TypeOK, LoopInv
  <2> QED
    BY <2>1, <2>2, <2>3, <2>4, <2>5
    DEF LoopInv, OneChain, LatestTasks, AliveIffRequested, Alive
<1> QED BY <1>2, <1>3, <1>4 DEF RunDone

LEMMA TimerFiresInv ==
  ASSUME LoopInv, NEW t \in armed, TimerFires(t)
  PROVE  LoopInv'
<1> USE LoopAssumption
<1>1. armed = {t} /\ runs = {} /\ t \in Timer /\ t.token = taskLoopToken
  BY DEF LoopInv, TypeOK, OneChain, Run, Timer
<1>2. runs' = {NewRun(t.chain, t.token, tasks)} /\ armed' = {}
  BY <1>1 DEF TimerFires
<1>3. NewRun(t.chain, t.token, tasks) \in Run
  BY <1>1 DEF NewRun, LoopInv, TypeOK, Run, Timer
<1> QED
  BY <1>1, <1>2, <1>3
  DEF TimerFires, LoopInv, TypeOK, OneChain, LatestTasks, AliveIffRequested,
      Alive, NewRun

LEMMA StutterInv == LoopInv /\ UNCHANGED vars => LoopInv'
  BY DEF LoopInv, TypeOK, OneChain, LatestTasks, AliveIffRequested, Alive, vars

LEMMA NextInv == LoopInv /\ [Next]_vars => LoopInv'
  BY StartInv, StopInv, ExecutorDoneInv, RunDoneInv, TimerFiresInv, StutterInv
  DEF Next

\* The invariant holds throughout every behaviour.
LEMMA Invariance == Spec => []LoopInv
<1>1. QED BY InitInv, NextInv, PTL DEF Spec

\* Every variable keeps its type, whatever the number of starts and stops.
THEOREM TypeCorrect == Spec => []TypeOK
<1>1. LoopInv => TypeOK BY DEF LoopInv
<1> QED BY <1>1, Invariance, PTL

\* startUpdateTasks, stopUpdateTasks and the timers never leave two polling
\* chains alive at once.
THEOREM AtMostOneChain == Spec => []OneChain
<1>1. LoopInv => OneChain BY DEF LoopInv
<1> QED BY <1>1, Invariance, PTL

\* No start is forgotten and no stop undone: the loop has a run, a timer or a
\* deferred restart for the current token exactly when it is requested.
THEOREM StartsAndStopsHold == Spec => []AliveIffRequested
<1>1. LoopInv => AliveIffRequested BY DEF LoopInv
<1> QED BY <1>1, Invariance, PTL

\* A run for the current token works on the list passed last.
THEOREM RunsUseLatestTasks == Spec => []LatestTasks
<1>1. LoopInv => LatestTasks BY DEF LoopInv
<1> QED BY <1>1, Invariance, PTL

-----------------------------------------------------------------------------
\* Every step of the loop is a step of the periodic task or leaves it alone.
LEMMA StepSimulation ==
  LoopInv /\ [Next]_vars => [Abstract!Next]_<<requested, executing>>
<1> SUFFICES ASSUME LoopInv, [Next]_vars
             PROVE  [Abstract!Next]_<<requested, executing>>
  OBVIOUS
<1> USE DEF Abstract!Next, Abstract!Start, Abstract!Stop, Abstract!Begin,
            Abstract!End
<1>1. ASSUME NEW arg \in TaskList \union {Null}, StartUpdateTasks(arg)
      PROVE  Abstract!Start
  BY <1>1 DEF StartUpdateTasks, LoopInv, TypeOK
<1>2. CASE StopUpdateTasks
  BY <1>2 DEF StopUpdateTasks
<1>3. ASSUME NEW r \in runs, ExecutorDone(r)
      PROVE  UNCHANGED <<requested, executing>>
  BY <1>3 DEF ExecutorDone
<1>4. ASSUME NEW r \in runs, RunDone(r)
      PROVE  Abstract!End \/ UNCHANGED <<requested, executing>>
  <2>1. executing
    BY DEF LoopInv
  <2> QED
    BY <1>4, <2>1 DEF RunDone, Restart, Expire, Rearm, LoopInv, TypeOK
<1>5. ASSUME NEW t \in armed, TimerFires(t)
      PROVE  Abstract!Begin
  <2>1. runs = {} /\ ~executing /\ t.token = taskLoopToken
    BY DEF LoopInv, TypeOK, OneChain, Run, Timer
  <2>2. requested
    BY <2>1 DEF LoopInv, AliveIffRequested, Alive
  <2> QED BY <1>5, <2>1, <2>2 DEF TimerFires
<1>6. CASE UNCHANGED vars
  BY <1>6 DEF vars
<1> QED BY <1>1, <1>2, <1>3, <1>4, <1>5, <1>6 DEF Next

\* The loop of lib/state.dart implements a periodic task that never overlaps
\* itself and that only a start makes run.
THEOREM LoopImplementsPeriodicTask == Spec => ImplementsPeriodicTask
<1>1. Init => Abstract!Init
  BY DEF Init, Abstract!Init
<1> QED
  BY <1>1, StepSimulation, Invariance, PTL
  DEF Spec, ImplementsPeriodicTask, Abstract!Spec
=============================================================================
