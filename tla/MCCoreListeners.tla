-------------------------- MODULE MCCoreListeners ---------------------------
(* TLC instance of CoreListeners. *)
EXTENDS CoreListeners, TLC

\* Calls differ in nothing but what they are given, inbound listeners in nothing
\* but their names.
Alike == Permutations(Calls) \union Permutations(Inbounds)

\* What a call was given is not looked at again once it holds runLock.
Pending == [c \in Calls |->
  IF call[c].pc = "lock" THEN call[c] ELSE <<call[c].kind, call[c].pc>>]

WithoutSpentInput ==
  <<settings, runLock, sockets, profileVars, tunVars, status, dozing, alive, Pending, raced>>
=============================================================================
