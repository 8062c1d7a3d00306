------------------------------ MODULE DdbStream ------------------------------
(***************************************************************************)
(* A DynamoDB table's stream and the consumers that keep a position in it: *)
(* event source mappings (polled by Lambda's thread), pipes (polled by     *)
(* their own) and clients that page with shard iterators.  The stream is a *)
(* list whose front expires; a position is an absolute index, so the count *)
(* of trimmed records and the list must move together.                     *)
(*                                                                         *)
(* A poll is three steps, because handlers on the event loop write, close  *)
(* the stream and delete the consumer between them: Poll reads the horizon *)
(* and the position, Fetch reads the batch, Finish is the answer.  Ages    *)
(* are relative, so time is unbounded; DsMaxWrites, DsMaxLabels and        *)
(* DsMaxRestarts bound a behaviour.                                        *)
(***************************************************************************)
EXTENDS Integers, Sequences, FiniteSets

CONSTANTS DsConsumers, DsKinds, DsStarts, DsBatchSize, DsRetentions, DsRecordAges,
          DsMaxWrites, DsMaxLabels, DsMaxRestarts

ASSUME DsAssumption ==
  /\ DsKinds \subseteq {"esm", "pipe", "reader"}
  /\ DsStarts \subseteq {"TRIM_HORIZON", "LATEST"}
  /\ DsBatchSize \in Nat \ {0}
  /\ DsRetentions \subseteq Nat /\ DsRecordAges \subseteq Nat
  /\ IsFiniteSet(DsRetentions \cup DsRecordAges)
  /\ DsMaxWrites \in Nat /\ DsMaxLabels \in Nat \ {0} /\ DsMaxRestarts \in Nat

VARIABLES
  dsTable,     \* the label of LatestStreamArn and whether the stream is enabled
  dsStreams,   \* label -> the records still kept and the number trimmed
  dsWrites,    \* records written so far; the last one's identity
  dsConsumer,  \* consumer -> its record and its entry among the positions
  dsPoll,      \* consumer -> what its poll in progress has read
  dsRetention, \* how long records live; 0 is longer than the behaviour
  dsRestarts,
  \* History, for the properties only.
  dsSettled,   \* consumer -> records handled, discarded or never asked for
  dsFresh      \* consumer -> its position counts in the stream's numbering

dsVars == <<dsTable, dsStreams, dsWrites, dsConsumer, dsPoll, dsRetention,
            dsRestarts, dsSettled, dsFresh>>

DsLabels == 1..DsMaxLabels
DsUnset == -1
DsCap == 1 + CHOOSE m \in DsRetentions \cup DsRecordAges :
                \A x \in DsRetentions \cup DsRecordAges : x <= m

DsNoStream == [recs |-> <<>>, trimmed |-> 0]
DsAbsent == [kind |-> "none", status |-> "absent", label |-> 0, pos |-> DsUnset,
           maxage |-> 0, backoff |-> 0]
DsNoPoll == [phase |-> "idle", pos |-> 0, end |-> 0, batch |-> <<>>, orphan |-> FALSE]

(* The records a table name reads: none once its stream is dropped.         *)
DsLive(streams) == IF dsTable.enabled THEN streams[dsTable.label] ELSE DsNoStream

DsOld(r) == dsRetention > 0 /\ r.age > dsRetention
DsLeadingOld(recs) == Cardinality({i \in DOMAIN recs : \A j \in 1..i : DsOld(recs[j])})
(* Faulty: the records go, the count of them stays.                         *)
DsTrimForgetsCount(s) == [recs |-> SubSeq(s.recs, DsLeadingOld(s.recs) + 1, Len(s.recs)),
                        trimmed |-> s.trimmed]
(* Faulty: counts the whole list as trimmed.                                *)
DsTrimCountsAll(s) == [recs |-> SubSeq(s.recs, DsLeadingOld(s.recs) + 1, Len(s.recs)),
                     trimmed |-> s.trimmed + Len(s.recs)]
DsTrim(s) == LET k == DsLeadingOld(s.recs)
           IN  [recs |-> SubSeq(s.recs, k + 1, Len(s.recs)), trimmed |-> s.trimmed + k]
DsTrimmed == IF dsTable.enabled
           THEN [dsStreams EXCEPT ![dsTable.label] = DsTrim(@)] ELSE dsStreams

DsEnd(s) == s.trimmed + Len(s.recs)
DsFrom(s, pos, limit) ==
  LET offset == IF pos > s.trimmed THEN pos - s.trimmed ELSE 0
      last == IF offset + limit < Len(s.recs) THEN offset + limit ELSE Len(s.recs)
  IN  SubSeq(s.recs, offset + 1, last)

DsNamesOf(recs) == {recs[i].n : i \in DOMAIN recs}
DsBefore(s, pos) == DsNamesOf(SubSeq(s.recs, 1, pos - s.trimmed))
DsStartAt(s, start) == IF start = "TRIM_HORIZON" THEN s.trimmed ELSE DsEnd(s)

-----------------------------------------------------------------------------
DsInit ==
  /\ dsTable = [label |-> 1, enabled |-> TRUE]
  /\ dsStreams = [l \in DsLabels |-> DsNoStream]
  /\ dsWrites = 0 /\ dsRestarts = 0
  /\ dsConsumer = [c \in DsConsumers |-> DsAbsent]
  /\ dsPoll = [c \in DsConsumers |-> DsNoPoll]
  /\ dsRetention \in DsRetentions
  /\ dsSettled = [c \in DsConsumers |-> {}]
  /\ dsFresh = [c \in DsConsumers |-> FALSE]

(* A write on the event loop emits its record and trims the stream.         *)
DsWrite ==
  LET s == dsStreams[dsTable.label] IN
  /\ dsTable.enabled /\ dsWrites < DsMaxWrites
  /\ dsWrites' = dsWrites + 1
  /\ dsStreams' = [dsStreams EXCEPT ![dsTable.label] =
       DsTrim([s EXCEPT !.recs = Append(@, [n |-> dsWrites + 1, age |-> 0])])]
  /\ UNCHANGED <<dsTable, dsConsumer, dsPoll, dsRetention, dsRestarts, dsSettled, dsFresh>>

(* UpdateTable or DeleteTable: the stream stays readable as a closed one.   *)
DsDisable ==
  /\ dsTable.enabled
  /\ dsTable' = [dsTable EXCEPT !.enabled = FALSE]
  /\ UNCHANGED <<dsStreams, dsWrites, dsConsumer, dsPoll, dsRetention, dsRestarts,
                 dsSettled, dsFresh>>

DsEnable ==
  /\ ~dsTable.enabled /\ dsTable.label < DsMaxLabels
  /\ dsTable' = [label |-> dsTable.label + 1, enabled |-> TRUE]
  /\ UNCHANGED <<dsStreams, dsWrites, dsConsumer, dsPoll, dsRetention, dsRestarts,
                 dsSettled, dsFresh>>

(* CreateEventSourceMapping and CreatePipe anchor the position at once; a   *)
(* mapping's identifier is new every time, a pipe's ARN may come back.      *)
DsSubscribe(c, kind, start, maxage) ==
  LET s == DsLive(DsTrimmed) IN
  /\ kind # "reader" /\ dsTable.enabled
  /\ kind = "pipe" => maxage = 0 \* pipes know no such limit
  /\ dsConsumer[c].status = "absent"
  /\ dsConsumer[c].kind \in {"none"} \cup (IF kind = "pipe" THEN {"pipe"} ELSE {})
  /\ dsStreams' = DsTrimmed
  /\ dsConsumer' = [dsConsumer EXCEPT ![c] =
       [kind |-> kind, status |-> "running", label |-> dsTable.label,
        pos |-> DsStartAt(s, start), maxage |-> maxage, backoff |-> 0]]
  /\ dsSettled' = [dsSettled EXCEPT ![c] = DsBefore(s, DsStartAt(s, start))]
  /\ dsFresh' = [dsFresh EXCEPT ![c] = TRUE]
  /\ UNCHANGED <<dsTable, dsWrites, dsPoll, dsRetention, dsRestarts>>

(* UpdateEventSourceMapping Enabled, StopPipe, StartPipe.                   *)
DsToggle(c) ==
  /\ dsConsumer[c].kind # "reader" /\ dsConsumer[c].status # "absent"
  /\ dsConsumer' = [dsConsumer EXCEPT ![c].status = IF @ = "running" THEN "stopped" ELSE "running"]
  /\ UNCHANGED <<dsTable, dsStreams, dsWrites, dsPoll, dsRetention, dsRestarts, dsSettled, dsFresh>>

DsUnsubscribe(c) ==
  /\ dsConsumer[c].kind # "reader" /\ dsConsumer[c].status # "absent"
  /\ dsConsumer' = [dsConsumer EXCEPT ![c].status = "absent", ![c].pos = DsUnset, ![c].backoff = 0]
  /\ dsPoll' = [dsPoll EXCEPT ![c].orphan = dsPoll[c] # DsNoPoll]
  /\ UNCHANGED <<dsTable, dsStreams, dsWrites, dsRetention, dsRestarts, dsSettled, dsFresh>>

-----------------------------------------------------------------------------
(* One pass over a consumer.  A mapping checks the stream's ARN and its     *)
(* cooldown, and each kind has one thread.                                  *)
DsPolled(c) ==
  /\ dsConsumer[c].status = "running"
  /\ \A d \in DsConsumers : dsConsumer[d].kind = dsConsumer[c].kind => dsPoll[d] = DsNoPoll
  /\ dsConsumer[c].kind = "esm" => /\ dsConsumer[c].label = dsTable.label
                                   /\ dsConsumer[c].backoff = 0

DsPollStart(c) ==
  LET s == DsLive(DsTrimmed)
      pos == IF dsConsumer[c].pos > s.trimmed THEN dsConsumer[c].pos ELSE s.trimmed
  IN
  /\ dsConsumer[c].kind \in {"esm", "pipe"} /\ DsPolled(c)
  /\ IF dsConsumer[c].kind = "esm" THEN DsEnd(s) # s.trimmed ELSE pos < DsEnd(s)
  /\ dsStreams' = DsTrimmed
  /\ dsConsumer' = IF dsConsumer[c].kind = "esm"
                   THEN [dsConsumer EXCEPT ![c].pos = pos] ELSE dsConsumer
  /\ dsPoll' = [dsPoll EXCEPT ![c] =
                   [DsNoPoll EXCEPT !.phase = "fetch", !.pos = pos, !.end = DsEnd(s)]]
  /\ UNCHANGED <<dsTable, dsWrites, dsRetention, dsRestarts, dsSettled, dsFresh>>

(* A pass that finds nothing to read has still trimmed the stream.          *)
DsPollNothing(c) ==
  LET s == DsLive(DsTrimmed) IN
  /\ dsConsumer[c].kind \in {"esm", "pipe"} /\ DsPolled(c)
  /\ IF dsConsumer[c].kind = "esm" THEN DsEnd(s) = s.trimmed ELSE dsConsumer[c].pos >= DsEnd(s)
  /\ dsStreams' = DsTrimmed
  /\ UNCHANGED <<dsTable, dsWrites, dsConsumer, dsPoll, dsRetention, dsRestarts, dsSettled, dsFresh>>

(* The batch; a pipe takes as many records as there were at its poll.       *)
DsFetch(c) ==
  LET s == DsLive(DsTrimmed)
      limit == IF dsConsumer[c].kind = "esm" THEN DsBatchSize ELSE dsPoll[c].end - dsPoll[c].pos
      batch == DsFrom(s, dsPoll[c].pos, limit)
  IN
  /\ dsPoll[c].phase = "fetch"
  /\ dsStreams' = DsTrimmed
  /\ dsPoll' = [dsPoll EXCEPT ![c] = IF batch = <<>> THEN DsNoPoll
                                     ELSE [@ EXCEPT !.phase = "invoke", !.batch = batch]]
  /\ UNCHANGED <<dsTable, dsWrites, dsConsumer, dsRetention, dsRestarts, dsSettled, dsFresh>>

(* Faulty: one too many.                                                    *)
DsAdvanceOneMore(c) ==
  /\ dsConsumer' = [dsConsumer EXCEPT ![c].pos = dsPoll[c].pos + Len(dsPoll[c].batch) + 1,
                                      ![c].backoff = 0]
  /\ dsSettled' = [dsSettled EXCEPT ![c] = @ \cup DsNamesOf(dsPoll[c].batch)]
  /\ dsFresh' = [dsFresh EXCEPT ![c] = @ /\ ~dsPoll[c].orphan]
(* The poll advances the position it read, also of a consumer deleted (or   *)
(* deleted and created again) meanwhile.                                    *)
DsAdvance(c) ==
  /\ dsConsumer' = [dsConsumer EXCEPT ![c].pos = dsPoll[c].pos + Len(dsPoll[c].batch),
                                      ![c].backoff = 0]
  /\ dsSettled' = [dsSettled EXCEPT ![c] = @ \cup DsNamesOf(dsPoll[c].batch)]
  /\ dsFresh' = [dsFresh EXCEPT ![c] = @ /\ ~dsPoll[c].orphan]

DsFinished(c) ==
  /\ dsPoll[c].phase = "invoke"
  /\ dsPoll' = [dsPoll EXCEPT ![c] = DsNoPoll]
  /\ UNCHANGED <<dsTable, dsStreams, dsWrites, dsRetention, dsRestarts>>

(* The function, or the pipe's target, took the batch, or no record of it   *)
(* matched the filter.                                                      *)
DsHandled(c) ==
  /\ DsFinished(c)
  /\ DsAdvance(c)

DsTooOld(c) ==
  /\ dsConsumer[c].maxage > 0
  /\ \E i \in DOMAIN dsPoll[c].batch :
       dsPoll[c].batch[i].age > dsConsumer[c].maxage

(* Faulty: reported to OnFailure, and tried again.                          *)
DsDiscardedStays(c) ==
  /\ dsConsumer[c].kind = "esm" /\ DsTooOld(c)
  /\ DsFinished(c)
  /\ UNCHANGED <<dsConsumer, dsSettled, dsFresh>>

(* A failed batch older than MaximumRecordAgeInSeconds goes to OnFailure;   *)
(* the cooldown is left as it is, and it is over: the poll checked it.      *)
DsDiscarded(c) ==
  /\ dsConsumer[c].kind = "esm" /\ DsTooOld(c)
  /\ DsFinished(c)
  /\ DsAdvance(c)

DsFailed(c) ==
  /\ dsConsumer[c].kind = "esm" => ~DsTooOld(c)
  /\ DsFinished(c)
  /\ dsConsumer' = IF dsConsumer[c].kind = "esm"
                   THEN [dsConsumer EXCEPT ![c].backoff = 1] ELSE dsConsumer
  /\ UNCHANGED <<dsSettled, dsFresh>>

-----------------------------------------------------------------------------
(* GetShardIterator: at the horizon, at the end or at a record.             *)
DsGetShardIterator(c, label, skip) ==
  LET s == DsTrim(dsStreams[label]) IN
  /\ dsConsumer[c].kind \in {"none", "reader"} /\ "reader" \in DsKinds
  /\ label <= dsTable.label /\ skip <= Len(s.recs)
  /\ dsStreams' = [dsStreams EXCEPT ![label] = s]
  /\ dsConsumer' = [dsConsumer EXCEPT ![c] =
       [DsAbsent EXCEPT !.kind = "reader", !.status = "running", !.label = label,
                      !.pos = s.trimmed + skip]]
  /\ dsSettled' = [dsSettled EXCEPT ![c] = DsNamesOf(SubSeq(s.recs, 1, skip))]
  /\ dsFresh' = [dsFresh EXCEPT ![c] = TRUE]
  /\ UNCHANGED <<dsTable, dsWrites, dsPoll, dsRetention, dsRestarts>>

(* A page at the iterator's position, or TrimmedDataAccessException behind  *)
(* the horizon; the last page of a closed stream carries no next iterator.  *)
DsGetRecords(c) ==
  LET label == dsConsumer[c].label
      s == DsTrim(dsStreams[label])
      page == DsFrom(s, dsConsumer[c].pos, DsBatchSize)
      next == dsConsumer[c].pos + Len(page)
      closed == ~dsTable.enabled \/ dsTable.label # label
  IN
  /\ dsConsumer[c].kind = "reader" /\ dsConsumer[c].status = "running"
  /\ dsStreams' = [dsStreams EXCEPT ![label] = s]
  /\ IF dsConsumer[c].pos < s.trimmed THEN UNCHANGED <<dsConsumer, dsSettled>>
     ELSE /\ dsConsumer' = [dsConsumer EXCEPT ![c].pos = next,
                 ![c].status = IF closed /\ next >= DsEnd(s) THEN "absent" ELSE @]
          /\ dsSettled' = [dsSettled EXCEPT ![c] = @ \cup DsNamesOf(page)]
  /\ UNCHANGED <<dsTable, dsWrites, dsPoll, dsRetention, dsRestarts, dsFresh>>

(* A shutdown saves tables, mappings, pipes and their positions, but not    *)
(* the records nor how many were trimmed; iterators stay with the clients.  *)
DsRestart ==
  /\ dsRestarts < DsMaxRestarts
  /\ dsRestarts' = dsRestarts + 1
  /\ dsStreams' = [l \in DsLabels |-> DsNoStream]
  /\ dsPoll' = [c \in DsConsumers |-> DsNoPoll]
  /\ dsConsumer' = [c \in DsConsumers |->
       [dsConsumer[c] EXCEPT !.backoff = 0,
          !.status = IF dsConsumer[c].kind = "reader"
                        /\ (dsConsumer[c].label # dsTable.label \/ ~dsTable.enabled)
                     THEN "absent" ELSE @]]
  /\ dsFresh' = [c \in DsConsumers |-> FALSE]
  /\ UNCHANGED <<dsTable, dsWrites, dsRetention, dsSettled>>

DsOlder(r) == [r EXCEPT !.age = IF @ < DsCap THEN @ + 1 ELSE @]
DsOlderAll(recs) == [i \in DOMAIN recs |-> DsOlder(recs[i])]
DsTick ==
  /\ dsStreams' = [l \in DsLabels |-> [dsStreams[l] EXCEPT !.recs = DsOlderAll(@)]]
  /\ dsPoll' = [c \in DsConsumers |-> [dsPoll[c] EXCEPT !.batch = DsOlderAll(@)]]
  /\ dsConsumer' = [c \in DsConsumers |->
       [dsConsumer[c] EXCEPT !.backoff = IF @ > 0 THEN @ - 1 ELSE @]]
  /\ UNCHANGED <<dsTable, dsWrites, dsRetention, dsRestarts, dsSettled, dsFresh>>

DsPass(c) == DsPollStart(c) \/ DsPollNothing(c) \/ DsFetch(c)
             \/ DsHandled(c) \/ DsDiscarded(c) \/ DsFailed(c)

DsNext ==
  \/ DsWrite \/ DsDisable \/ DsEnable \/ DsRestart \/ DsTick
  \/ \E c \in DsConsumers :
       \/ \E kind \in DsKinds, start \in DsStarts, maxage \in DsRecordAges :
            DsSubscribe(c, kind, start, maxage)
       \/ DsToggle(c) \/ DsUnsubscribe(c) \/ DsPass(c)
       \/ \E label \in DsLabels, skip \in 0..DsMaxWrites : DsGetShardIterator(c, label, skip)
       \/ DsGetRecords(c)

DsFairness == WF_dsVars(DsTick) /\ \A c \in DsConsumers : WF_dsVars(DsPass(c))

DsSpec == DsInit /\ [][DsNext]_dsVars /\ DsFairness

-----------------------------------------------------------------------------
DsTypeOK ==
  /\ dsTable \in [label : DsLabels, enabled : BOOLEAN]
  /\ \A l \in DsLabels :
       /\ dsStreams[l].trimmed \in 0..DsMaxWrites
       /\ dsStreams[l].recs \in Seq([n : 1..DsMaxWrites, age : 0..DsCap])
  /\ dsWrites \in 0..DsMaxWrites /\ dsRestarts \in 0..DsMaxRestarts
  /\ dsConsumer \in [DsConsumers ->
       [kind : {"none", "esm", "pipe", "reader"}, status : {"absent", "running", "stopped"},
        label : 0..DsMaxLabels, pos : Nat \cup {DsUnset}, maxage : Nat, backoff : {0, 1}]]
  /\ \A c \in DsConsumers : dsPoll[c].phase \in {"idle", "fetch", "invoke"}
  /\ dsSettled \in [DsConsumers -> SUBSET (1..DsMaxWrites)]
  /\ dsFresh \in [DsConsumers -> BOOLEAN]

(* The records a consumer asked for and has still to see to.                *)
DsFollows(c) ==
  /\ dsConsumer[c].status # "absent"
  /\ dsConsumer[c].kind # "reader" =>
       dsTable.enabled /\ dsConsumer[c].label = dsTable.label
DsPassed(c) == LET s == dsStreams[dsConsumer[c].label]
             IN  {s.recs[i].n : i \in {j \in DOMAIN s.recs : s.trimmed + j <= dsConsumer[c].pos}}
DsPending(c) == DsNamesOf(dsStreams[dsConsumer[c].label].recs) \ dsSettled[c]

(* Whatever expires, fails, is discarded, written or closed between the     *)
(* steps of a poll, no live record comes to lie behind a consumer's         *)
(* position that it was not given (or did not ask for).  Said of positions  *)
(* that count in the current numbering: a restart loses that.               *)
DsNothingSkipped ==
  \A c \in DsConsumers : DsFollows(c) /\ dsFresh[c] => DsPassed(c) \subseteq dsSettled[c]

(* A position lags behind the horizon or the end, but never runs ahead of   *)
(* the stream, where it would wait for records to skip.                     *)
DsNeverAhead ==
  \A c \in DsConsumers : DsFollows(c) /\ dsFresh[c] =>
    dsConsumer[c].pos <= DsEnd(dsStreams[dsConsumer[c].label])

(* A batch that fails every time is given up at MaximumRecordAgeInSeconds:  *)
(* it cannot block the stream of a mapping that stays enabled for ever.     *)
DsPoisonPasses ==
  \A c \in DsConsumers, n \in 1..DsMaxWrites :
    (dsConsumer[c].kind = "esm" /\ dsConsumer[c].maxage > 0 /\ DsFollows(c) /\ dsFresh[c]
       /\ n \in DsPending(c))
    ~> (~DsFollows(c) \/ dsConsumer[c].status # "running" \/ ~dsFresh[c] \/ n \notin DsPending(c))
=============================================================================
