----------------------------- MODULE MCSqsQueue -----------------------------
(* Instances of SqsQueue for TLC.                                           *)
EXTENDS SqsQueue, TLC

CONSTANTS m1, m2, m3, c1, c2, k1, k2

Symmetry == Permutations(Ids) \cup Permutations(Consumers) \cup Permutations(Keys)

Once == [q \in Names |-> 1]
SourceTwice == [q \in Names |-> IF q = "src" THEN 2 ELSE 1]
DlqTwice == [q \in Names |-> IF q = "dlq" THEN 2 ELSE 1]

(* Long polls of the source queue; the dead-letter queue is read at once.   *)
LongPoll == [q \in Names |-> IF q = "src" THEN {1} ELSE {0}]
NoWait == [q \in Names |-> {0}]

A(delay, retention, maxrc) == [delay |-> delay, retention |-> retention, maxrc |-> maxrc]
Both(src, dlq) == [q \in Names |-> IF q = "src" THEN src ELSE dlq]

(* Ages stop at MaxAge: a retention beyond it never expires anything.       *)
Long == MaxAge + 1

NoRedrive     == Both({A(0, Long, 0)}, {A(0, Long, 0)})
Redrive       == Both({A(0, Long, 1)}, {A(0, Long, 0)})
Redrive2      == Both({A(0, Long, 2)}, {A(0, Long, 0)})
Expiring      == Both({A(0, 1, 0), A(0, Long, 1)}, {A(0, Long, 0)})

(* Whatever a receiver that settles nothing does, its polls return and what *)
(* it keeps failing on ends in the dead-letter queue.                       *)
CrashLoopEnds == LongPollEnds /\ EventuallyDeadLettered
=============================================================================
