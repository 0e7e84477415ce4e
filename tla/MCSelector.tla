----------------------------- MODULE MCSelector -----------------------------
(* Model-checking instance of Selector: three endpoint keys, their string *)
(* order and their kinds (for Ping), and weights -1..2 from metadata.      *)
EXTENDS Selector

CONSTANTS k1, k2, k3

MCKeys == {k1, k2, k3}
\* "k1" < "k2" < "k3"
MCRank == [k \in MCKeys |-> CASE k = k1 -> 1 [] k = k2 -> 2 [] OTHER -> 3]
\* Weights Atoi may return: a negative one, 0, 1 and 2.
MCWeightValues == -1..2
\* k1 and k3 resolve, k2 does not.
MCKeyKindResolvable == [k \in MCKeys |-> IF k = k2 THEN "unresolvable" ELSE "ok"]
\* As above, but k3 lacks the "@" of network@address.
MCKeyKindNoAt == [k \in MCKeys |-> CASE k = k1 -> "ok"
                                     [] k = k2 -> "unresolvable"
                                     [] OTHER  -> "noat"]
=============================================================================
