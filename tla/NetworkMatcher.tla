--------------------------- MODULE NetworkMatcher ---------------------------
(***************************************************************************)
(* lib/common/network_matcher.dart: which addresses a list of rules covers.*)
(* A rule that does not parse matches nothing and is left out; a rule      *)
(* without a prefix is one whose prefix is the whole width.                *)
(***************************************************************************)
EXTENDS Integers

CONSTANT Width \* bits of an address, 32 in the code

ASSUME WidthAssumption == Width \in Nat \ {0}

Bits == 0 .. Width - 1

\* A word, bit by bit; bit 0 is the lowest.
Addresses == [Bits -> {0, 1}]

Rules == [address : Addresses, prefix : 0 .. Width]

\* Faulty variant: the mask is shifted by one bit too many.
MaskShort(prefix) == [i \in Bits |-> IF i <= Width - prefix THEN 0 ELSE 1]

\* All ones shifted left by Width - prefix, cut to the width.
Mask(prefix) == [i \in Bits |-> IF i < Width - prefix THEN 0 ELSE 1]

\* ip & mask
Masked(ip, prefix) == [i \in Bits |-> ip[i] * Mask(prefix)[i]]

\* parseCIDR keeps the network, whatever host bits the rule was written with.
ParseCIDR(rule) == [rule EXCEPT !.address = Masked(rule.address, rule.prefix)]

IsIPInCIDR(ip, rule) ==
  \/ rule.prefix = 0
  \/ Masked(ip, rule.prefix) = ParseCIDR(rule).address

MatchAny(ip, rules) == \E rule \in rules : IsIPInCIDR(ip, rule)

-----------------------------------------------------------------------------

\* What a CIDR rule means: the leading bits agree.
Covers(rules, ip) ==
  \E rule \in rules :
    \A i \in Width - rule.prefix .. Width - 1 : ip[i] = rule.address[i]
=============================================================================
