---------------------------- MODULE MCLambdaPool ----------------------------
(* Instances of LambdaPool for TLC. *)
EXTENDS LambdaPool, TLC

Symmetric == Permutations(Invocations) \cup Permutations(Boxes)

(* Every invocation returns, and every container taken out is removed.      *)
SlotsEnd == InvocationReturns /\ DoomedGo
=============================================================================
