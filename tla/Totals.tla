------------------------------- MODULE Totals -------------------------------
(* The total of a function to Nat over a finite domain (the balances, bonds  *)
(* or loans a contract holds for several parties), counted as a set of units *)
(* so that facts about finite sets apply to it.                              *)
EXTENDS Integers, FiniteSets

Units(f) == UNION {{x} \X (1..f[x]) : x \in DOMAIN f}
Total(f) == Cardinality(Units(f))

(* What pairs <<name, amount>> add up to when each name counts once, with its *)
(* largest amount: the nonces of signed orders, of which one order each can  *)
(* be filled.                                                                *)
Once(P) == UNION {{p[1]} \X (1..p[2]) : p \in P}
TotalOnce(P) == Cardinality(Once(P))
=============================================================================
