---------------------------- MODULE KinesisStream ----------------------------
(***************************************************************************)
(* A Kinesis stream and the event source mapping that polls its shards.    *)
(* Unlike DdbStream's, a position here is an index into the shard's list,  *)
(* and expiry shortens that list from the front: the records then move     *)
(* under the position.  ksShifted tells where that happened, and what is   *)
(* promised is promised where it did not.                                  *)
(*                                                                         *)
(* A pass of the poller visits the shards one after the other and runs the *)
(* function in between, while handlers on the event loop put records,      *)
(* expire them, split and merge shards, and delete the mapping.  The order *)
(* of a pass over the shards is left open.                                 *)
(***************************************************************************)
EXTENDS Integers, Sequences, FiniteSets, Lists

CONSTANTS KsShardIds, KsHealthy, KsBatchSize, KsRetentions, KsMaxPuts, KsMaxRestarts

ASSUME KsAssumption ==
  /\ KsShardIds \subseteq Nat /\ 0 \in KsShardIds /\ KsHealthy \subseteq KsShardIds
  /\ KsBatchSize \in Nat \ {0} /\ KsMaxPuts \in Nat
  /\ KsRetentions \subseteq Nat /\ IsFiniteSet(KsRetentions)
  /\ KsMaxRestarts \in Nat

VARIABLES
  ksShards,    \* shard -> whether it was ever made, is open, and its records
  ksPuts,      \* records put so far; the last one's identity
  ksMapping,   \* the mapping: status, StartingPosition, positions, cooldown
  ksPass,      \* the pass in progress: shards to visit, the batch in the function
  ksRetention, \* how long records live; 0 is longer than the behaviour
  ksRestarts,
  \* History, for the properties only.
  ksSettled,   \* records handled, filtered out or before the start
  ksShifted    \* shards whose list was shortened under a position

ksVars == <<ksShards, ksPuts, ksMapping, ksPass, ksRetention, ksRestarts, ksSettled, ksShifted>>

KsNone == -1
KsCap == 1 + CHOOSE m \in KsRetentions : \A x \in KsRetentions : x <= m
KsNoShard == [made |-> FALSE, open |-> FALSE, recs |-> <<>>]
KsUnanchored == [s \in KsShardIds |-> KsNone]
KsNoMapping == [status |-> "absent", start |-> "LATEST", anchored |-> FALSE,
              pos |-> KsUnanchored, backoff |-> 0]
KsIdle == [phase |-> "idle", todo |-> {}, shard |-> KsNone, pos |-> 0, batch |-> <<>>]

KsOpen == {s \in KsShardIds : ksShards[s].open}
KsRecordsOf(recs) == {recs[i].n : i \in DOMAIN recs}

KsKept(recs) == Picked(recs, {i \in DOMAIN recs : ksRetention = 0 \/ recs[i].age <= ksRetention})
KsSwept(shards) == [s \in KsShardIds |-> [shards[s] EXCEPT !.recs = KsKept(@)]]
KsShortened == {s \in KsOpen : /\ KsKept(ksShards[s].recs) # ksShards[s].recs
                           /\ ksMapping.pos[s] # KsNone}

-----------------------------------------------------------------------------
KsInit ==
  /\ ksShards = [s \in KsShardIds |-> [KsNoShard EXCEPT !.made = (s = 0), !.open = (s = 0)]]
  /\ ksPuts = 0
  /\ ksMapping = KsNoMapping
  /\ ksPass = KsIdle
  /\ ksRetention \in KsRetentions
  /\ ksRestarts = 0
  /\ ksSettled = {} /\ ksShifted = {}

KsPut(s) ==
  /\ s \in KsOpen /\ ksPuts < KsMaxPuts
  /\ ksPuts' = ksPuts + 1
  /\ ksShards' = [KsSwept(ksShards) EXCEPT ![s].recs = Append(@, [n |-> ksPuts + 1, age |-> 0])]
  /\ ksShifted' = ksShifted \cup KsShortened
  /\ UNCHANGED <<ksMapping, ksPass, ksRetention, ksRestarts, ksSettled>>

(* GetRecords, GetShardIterator, DescribeStream expire before they read.    *)
KsExpire ==
  /\ ksShards' = KsSwept(ksShards)
  /\ ksShifted' = ksShifted \cup KsShortened
  /\ UNCHANGED <<ksPuts, ksMapping, ksPass, ksRetention, ksRestarts, ksSettled>>

(* A shard replaced takes its unread records with it, and a pass in         *)
(* progress ends: its dictionary of shards changed size.                    *)
KsReshard(old, new) ==
  /\ \A s \in new : ~ksShards[s].made
  /\ ksShards' = [s \in KsShardIds |-> CASE s \in old -> [KsNoShard EXCEPT !.made = TRUE]
                                       [] s \in new -> [KsNoShard EXCEPT !.made = TRUE, !.open = TRUE]
                                       [] OTHER -> ksShards[s]]
  /\ ksPass' = IF ksPass.phase = "scan" THEN KsIdle ELSE [ksPass EXCEPT !.todo = {}]
  /\ UNCHANGED <<ksPuts, ksMapping, ksRetention, ksRestarts, ksSettled, ksShifted>>

KsSplitShard(s, a, b) == s \in KsOpen /\ a # b /\ KsReshard({s}, {a, b})
KsMergeShards(a, b, s) == {a, b} \subseteq KsOpen /\ a # b /\ KsReshard({a, b}, {s})

-----------------------------------------------------------------------------
(* CreateEventSourceMapping leaves a Kinesis mapping without positions.     *)
KsCreateMapping(start) ==
  /\ ksMapping.status = "absent" /\ ~ksMapping.anchored /\ ksPass = KsIdle
  /\ ksMapping' = [KsNoMapping EXCEPT !.status = "running", !.start = start]
  /\ UNCHANGED <<ksShards, ksPuts, ksPass, ksRetention, ksRestarts, ksSettled, ksShifted>>

KsUpdateMapping ==
  /\ ksMapping.status # "absent"
  /\ ksMapping' = [ksMapping EXCEPT !.status = IF @ = "running" THEN "stopped" ELSE "running"]
  /\ UNCHANGED <<ksShards, ksPuts, ksPass, ksRetention, ksRestarts, ksSettled, ksShifted>>

(* Its UUID never comes back; a pass in progress keeps the positions.       *)
KsDeleteMapping ==
  /\ ksMapping.status # "absent"
  /\ ksMapping' = [ksMapping EXCEPT !.status = "absent", !.anchored = TRUE]
  /\ UNCHANGED <<ksShards, ksPuts, ksPass, ksRetention, ksRestarts, ksSettled, ksShifted>>

KsAnchors == IF ksMapping.anchored THEN ksMapping.pos
           ELSE [s \in KsShardIds |-> IF s \notin KsOpen THEN KsNone
                                    ELSE IF ksMapping.start = "TRIM_HORIZON" THEN 0
                                    ELSE Len(ksShards[s].recs)]
KsSkipped(pos) == UNION {KsRecordsOf(SubSeq(ksShards[s].recs, 1, pos[s])) :
                         s \in {x \in KsOpen : pos[x] # KsNone}}

(* The first pass over a mapping anchors it.                                *)
KsPassStart ==
  /\ ksMapping.status = "running" /\ ksMapping.backoff = 0 /\ ksPass = KsIdle
  /\ ksMapping' = [ksMapping EXCEPT !.anchored = TRUE, !.pos = KsAnchors]
  /\ ksSettled' = IF ksMapping.anchored THEN ksSettled ELSE ksSettled \cup KsSkipped(KsAnchors)
  /\ ksPass' = [KsIdle EXCEPT !.phase = "scan", !.todo = KsOpen]
  /\ UNCHANGED <<ksShards, ksPuts, ksRetention, ksRestarts, ksShifted>>

KsVisited(s) == IF ksPass.todo = {s} THEN KsIdle ELSE [ksPass EXCEPT !.todo = @ \ {s}]

(* A shard the mapping does not know yet is followed from its end.          *)
KsNewShard(s) ==
  /\ ksPass.phase = "scan" /\ s \in ksPass.todo /\ ksMapping.pos[s] = KsNone
  /\ ksMapping' = [ksMapping EXCEPT !.pos[s] = Len(ksShards[s].recs)]
  /\ ksSettled' = ksSettled \cup KsRecordsOf(ksShards[s].recs)
  /\ ksPass' = KsVisited(s)
  /\ UNCHANGED <<ksShards, ksPuts, ksRetention, ksRestarts, ksShifted>>

KsRead(s) ==
  LET pos == ksMapping.pos[s]
      end == Len(ksShards[s].recs)
      last == IF pos + KsBatchSize < end THEN pos + KsBatchSize ELSE end
      batch == SubSeq(ksShards[s].recs, pos + 1, last)
  IN
  /\ ksPass.phase = "scan" /\ s \in ksPass.todo /\ pos # KsNone
  /\ ksPass' = IF batch = <<>> THEN KsVisited(s)
               ELSE [ksPass EXCEPT !.phase = "invoke", !.todo = @ \ {s},
                                   !.shard = s, !.pos = pos, !.batch = batch]
  /\ UNCHANGED <<ksShards, ksPuts, ksMapping, ksRetention, ksRestarts, ksSettled, ksShifted>>

KsAfter == IF ksPass.todo = {} THEN KsIdle
           ELSE [KsIdle EXCEPT !.phase = "scan", !.todo = ksPass.todo]

(* Faulty: counts the batch twice.                                          *)
KsHandledTwice(s) ==
  /\ ksPass.phase = "invoke" /\ ksPass.shard = s
  /\ ksMapping' = [ksMapping EXCEPT !.pos[s] = ksPass.pos + 2 * Len(ksPass.batch), !.backoff = 0]
  /\ ksSettled' = ksSettled \cup KsRecordsOf(ksPass.batch)
  /\ ksPass' = KsAfter
  /\ UNCHANGED <<ksShards, ksPuts, ksRetention, ksRestarts, ksShifted>>

(* The function took the batch, or no record of it matched the filter.      *)
KsHandled(s) ==
  /\ ksPass.phase = "invoke" /\ ksPass.shard = s
  /\ ksMapping' = [ksMapping EXCEPT !.pos[s] = ksPass.pos + Len(ksPass.batch), !.backoff = 0]
  /\ ksSettled' = ksSettled \cup KsRecordsOf(ksPass.batch)
  /\ ksPass' = KsAfter
  /\ UNCHANGED <<ksShards, ksPuts, ksRetention, ksRestarts, ksShifted>>

(* Faulty: a failed batch is not read again.                                *)
KsFailedAdvances ==
  /\ ksPass.phase = "invoke"
  /\ ksMapping' = [ksMapping EXCEPT !.pos[ksPass.shard] = ksPass.pos + Len(ksPass.batch),
                                    !.backoff = 1]
  /\ ksPass' = KsAfter
  /\ UNCHANGED <<ksShards, ksPuts, ksRetention, ksRestarts, ksSettled, ksShifted>>

(* Faulty: a failure ends the pass.                                         *)
KsFailedEndsPass ==
  /\ ksPass.phase = "invoke"
  /\ ksMapping' = [ksMapping EXCEPT !.backoff = 1]
  /\ ksPass' = KsIdle
  /\ UNCHANGED <<ksShards, ksPuts, ksRetention, ksRestarts, ksSettled, ksShifted>>
(* The position stays, the mapping cools down, and the pass goes on.        *)
KsFailed ==
  /\ ksPass.phase = "invoke"
  /\ ksMapping' = [ksMapping EXCEPT !.backoff = 1]
  /\ ksPass' = KsAfter
  /\ UNCHANGED <<ksShards, ksPuts, ksRetention, ksRestarts, ksSettled, ksShifted>>

(* A shutdown saves streams, mappings and positions; a pass is lost.        *)
KsRestart ==
  /\ ksRestarts < KsMaxRestarts
  /\ ksRestarts' = ksRestarts + 1
  /\ ksMapping' = [ksMapping EXCEPT !.backoff = 0]
  /\ ksPass' = KsIdle
  /\ UNCHANGED <<ksShards, ksPuts, ksRetention, ksSettled, ksShifted>>

KsOlder(recs) == [i \in DOMAIN recs |-> [recs[i] EXCEPT !.age = IF @ < KsCap THEN @ + 1 ELSE @]]
KsTick ==
  /\ ksShards' = [s \in KsShardIds |-> [ksShards[s] EXCEPT !.recs = KsOlder(@)]]
  /\ ksMapping' = [ksMapping EXCEPT !.backoff = 0]
  /\ UNCHANGED <<ksPuts, ksPass, ksRetention, ksRestarts, ksSettled, ksShifted>>

KsScan(s) == KsNewShard(s) \/ KsRead(s)
KsAnswer(s) == KsHandled(s) \/ (ksPass.shard = s /\ KsFailed)

KsNext ==
  \/ KsExpire \/ KsUpdateMapping \/ KsDeleteMapping
  \/ KsPassStart \/ KsFailed \/ KsRestart \/ KsTick
  \/ \E start \in {"TRIM_HORIZON", "LATEST"} : KsCreateMapping(start)
  \/ \E s \in KsShardIds : KsPut(s) \/ KsScan(s) \/ KsHandled(s)
  \/ \E s, a, b \in KsShardIds : KsSplitShard(s, a, b) \/ KsMergeShards(a, b, s)

(* The thread goes on; a healthy shard's batches are taken when tried often *)
(* enough.  Nothing is assumed of the other shards.                         *)
KsFairness ==
  /\ WF_ksVars(KsTick) /\ WF_ksVars(KsPassStart)
  /\ WF_ksVars(\E s \in KsShardIds : KsScan(s) \/ KsAnswer(s))
  /\ \A s \in KsHealthy : SF_ksVars(KsHandled(s))

KsSpec == KsInit /\ [][KsNext]_ksVars /\ KsFairness

-----------------------------------------------------------------------------
KsTypeOK ==
  /\ \A s \in KsShardIds :
       /\ ksShards[s].made \in BOOLEAN /\ ksShards[s].open \in BOOLEAN
       /\ ksShards[s].recs \in Seq([n : 1..KsMaxPuts, age : 0..KsCap])
  /\ ksMapping \in [status : {"absent", "running", "stopped"}, start : {"TRIM_HORIZON", "LATEST"},
                    anchored : BOOLEAN, pos : [KsShardIds -> 0..KsMaxPuts \cup {KsNone}], backoff : {0, 1}]
  /\ ksPass.phase \in {"idle", "scan", "invoke"} /\ ksPass.todo \subseteq KsShardIds
  /\ ksSettled \subseteq 1..KsMaxPuts /\ ksShifted \subseteq KsShardIds

KsBehind(s) == KsRecordsOf(SubSeq(ksShards[s].recs, 1, ksMapping.pos[s]))
KsWaiting(n) ==
  ksMapping.anchored /\ \E s \in KsOpen : n \in KsRecordsOf(ksShards[s].recs) \ ksSettled

(* As long as a shard's list only grows, failures, new shards, restarts and *)
(* what handlers do between the steps of a pass leave no record behind the  *)
(* position that the function was not given.                                *)
KsNothingSkipped ==
  \A s \in KsOpen : ksMapping.status # "absent" /\ ksMapping.pos[s] # KsNone /\ s \notin ksShifted
                    => KsBehind(s) \subseteq ksSettled

(* A shard whose batches fail for ever does not hold up a healthy one, as   *)
(* long as the mapping is left alone, although they share one thread and    *)
(* one cooldown.                                                            *)
KsHealthyProgress ==
  \A n \in 1..KsMaxPuts, s \in KsHealthy :
    (KsWaiting(n) /\ n \in KsRecordsOf(ksShards[s].recs))
    ~> (~KsWaiting(n) \/ ksMapping.status # "running" \/ ksShifted # {})

=============================================================================
