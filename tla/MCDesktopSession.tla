-------------------------- MODULE MCDesktopSession --------------------------
(* TLC instance of DesktopSession. *)
EXTENDS DesktopSession, TLC

\* Flows differ in nothing but what they have to do.
Alike == Permutations(Flows)

\* Sessions are followed until two rival calls are in the core together.
Orderly == ~crossed

\* The two properties that still speak of a session whose flows overlapped and
\* whose choices of TUN were used late or rolled back do not ask for that choice.
Spent == overlapped /\ (stale \/ rolledBack)

WithoutTun(conf) == IF conf \in {Null, DefaultConf} THEN <<conf>> ELSE <<>>

Choices ==
  IF Spent
    THEN <<WithoutTun(config), WithoutTun(backup),
           [f \in Flows |-> <<call[f].kind, call[f].pc, call[f].ok>>],
           [f \in Flows |-> <<flow[f].todo, flow[f].pc, flow[f].ok, flow[f].was>>]>>
    ELSE <<config, backup, call, flow, stale \/ rolledBack, stale \/ rolledBack \/ unsent>>

\* Neither a flow nor a property looks at the mixed listener or the listeners of
\* a profile, whose steps all lead to the TUN, nor at the history of
\* CoreListeners; what became of the TUN matters only to sessions whose flows
\* did not overlap.
WithoutMixed ==
  <<Choices, isRunning, runLock, alive, startTime, runTime, want, updateDue, realTun,
    restartLock, unheard, crossings,
    IF overlapped THEN <<>> ELSE <<tun, LastTunConf, rolledBack, restarted, unprepared>> >>
=============================================================================
