------------------------------ MODULE MCEsmSqs ------------------------------
(* Instances of EsmSqs for TLC.                                             *)
EXTENDS EsmSqs, TLC

CONSTANTS m1, m2, b1, b2, c1

SlotSymmetry == Permutations(Slots)

Once == [q \in Names |-> 1]
SourceTwice == [q \in Names |-> IF q = "src" THEN 2 ELSE 1]

LongPoll == [q \in Names |-> IF q = "src" THEN {1} ELSE {0}]
NoWait == [q \in Names |-> {0}]

A(delay, retention, maxrc) == [delay |-> delay, retention |-> retention, maxrc |-> maxrc]
Both(src, dlq) == [q \in Names |-> IF q = "src" THEN src ELSE dlq]

(* Ages stop at MaxAge: a retention beyond it never expires anything.       *)
Long == MaxAge + 1
NoRedrive == Both({A(0, Long, 0)}, {A(0, Long, 0)})
Redrive1  == Both({A(0, Long, 1)}, {A(0, Long, 0)})
Redrive2  == Both({A(0, Long, 2)}, {A(0, Long, 0)})
=============================================================================
