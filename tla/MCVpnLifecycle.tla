--------------------------- MODULE MCVpnLifecycle ---------------------------
(* VpnLifecycle for TLC: coroutines are alike and stops are alike; at most  *)
(* MaxRaces kinds of races in one behaviour.                                *)
EXTENDS VpnLifecycle

CONSTANT MaxRaces

Alike == Permutations(Flows) \union Permutations(Stops)

FewRaces == Cardinality(overlaps) <= MaxRaces
=============================================================================
