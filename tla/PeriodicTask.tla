---------------------------- MODULE PeriodicTask ----------------------------
(***************************************************************************)
(* What the periodic update loop of lib/state.dart promises its callers:   *)
(* a task that runs again and again while it is wanted, never twice at the *)
(* same time, and that nobody starts once it has been stopped.             *)
(***************************************************************************)

VARIABLES
  wanted,   \* a start has been requested and no stop since
  active    \* a run of the tasks is in progress

Init ==
  /\ wanted = FALSE
  /\ active = FALSE

\* A caller asks for the task: a run may begin at once, or wait for the one
\* in progress to end.
Start ==
  /\ wanted' = TRUE
  /\ active' \in {active, TRUE}

\* A caller withdraws the task; the run in progress is not interrupted.
Stop ==
  /\ wanted' = FALSE
  /\ UNCHANGED active

\* A run begins only while the task is wanted.
Begin ==
  /\ wanted
  /\ ~active
  /\ active' = TRUE
  /\ UNCHANGED wanted

End ==
  /\ active
  /\ active' = FALSE
  /\ UNCHANGED wanted

Next == Start \/ Stop \/ Begin \/ End

Spec == Init /\ [][Next]_<<wanted, active>>
=============================================================================
