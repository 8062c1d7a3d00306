-------------------------------- MODULE Lists --------------------------------
(* What the handlers' list comprehensions make of a list.                   *)
EXTENDS Naturals, Sequences, FiniteSets

(* The elements of s at the positions K, in their order.                    *)
Picked(s, K) ==
  [i \in 1..Cardinality(K) |-> s[CHOOSE k \in K : Cardinality({j \in K : j <= k}) = i]]
=============================================================================
