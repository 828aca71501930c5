-------------------------------- MODULE Rpc --------------------------------
(***************************************************************************)
(* What ClashHandlerInterface.invoke promises its callers, whatever the    *)
(* transport to the core: a request is asked once, the core executes it at *)
(* most once (perhaps after its caller has given up), an answer is the     *)
(* answer of that execution, and every caller is eventually released:      *)
(* answered, given the default value, or gone with the application.        *)
(***************************************************************************)

CONSTANT Request

VARIABLES
  outcome, \* what became of each request, as its caller sees it
  executed \* the requests the core has executed

vars == <<outcome, executed>>

Outcomes == {"new", "waiting", "answered", "defaulted", "dropped"}

Init ==
  /\ outcome = [r \in Request |-> "new"]
  /\ executed = {}

\* The caller of r goes from one outcome to another.
Becomes(r, from, to) ==
  /\ outcome[r] = from
  /\ outcome' = [outcome EXCEPT ![r] = to]

Ask(r) == Becomes(r, "new", "waiting") /\ UNCHANGED executed

Execute(r) ==
  /\ outcome[r] # "new"
  /\ r \notin executed
  /\ executed' = executed \union {r}
  /\ UNCHANGED outcome

Answer(r) ==
  /\ r \in executed
  /\ Becomes(r, "waiting", "answered")
  /\ UNCHANGED executed

\* The caller's patience ends before an answer comes.
Default(r) == Becomes(r, "waiting", "defaulted") /\ UNCHANGED executed

\* The application is gone, and its callers with it.
Close ==
  /\ outcome' = [r \in Request |->
                   IF outcome[r] = "waiting" THEN "dropped" ELSE outcome[r]]
  /\ UNCHANGED executed

Next ==
  \/ \E r \in Request : Ask(r) \/ Execute(r) \/ Answer(r) \/ Default(r)
  \/ Close

Release(r) == Answer(r) \/ Default(r) \/ Close

Spec == Init /\ [][Next]_vars /\ \A r \in Request : WF_vars(Release(r))
=============================================================================
