-------------------------- MODULE MCSmartAutoStop ---------------------------
(* TLC instance of SmartAutoStop. *)
EXTENDS SmartAutoStop

Word(high, low) == [i \in Bits |-> IF i = 1 THEN high ELSE low]

\* No rule; the upper half of the addresses, written with a host bit; a
\* single address, and with it the half it is not in.
SomeRuleSets ==
  { {},
    {[address |-> Word(1, 1), prefix |-> 1]},
    {[address |-> Word(0, 1), prefix |-> 2], [address |-> Word(1, 0), prefix |-> 1]} }
=============================================================================
