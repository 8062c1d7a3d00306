------------------------------ MODULE MCStreams ------------------------------
(* What feeds functions and targets, for TLC: a table's stream, the shards  *)
(* of a Kinesis stream, and the clock.  They share nothing: a behaviour is  *)
(* one of theirs, and source says whose.                                    *)
EXTENDS DdbStream, KinesisStream, Tickers

VARIABLE source

streamVars == <<source, dsVars, ksVars, tiVars>>

InitStreams ==
  /\ source \in {"table", "shards", "clock"}
  /\ DsInit /\ KsInit /\ TiInit
  /\ source # "table" => dsRetention = CHOOSE r \in DsRetentions : TRUE
  /\ source # "shards" => ksRetention = CHOOSE r \in KsRetentions : TRUE
  /\ source # "clock" => tiStore = CHOOSE s \in TiStores : TRUE

OfTable(A) == source = "table" /\ A /\ UNCHANGED <<source, ksVars, tiVars>>
OfShards(A) == source = "shards" /\ A /\ UNCHANGED <<source, dsVars, tiVars>>
OfClock(A) == source = "clock" /\ A /\ UNCHANGED <<source, dsVars, ksVars>>

(* The modules' own fairness.                                               *)
FairTable == /\ WF_streamVars(OfTable(DsTick))
             /\ \A c \in DsConsumers : WF_streamVars(OfTable(DsPass(c)))
FairShards ==
  /\ WF_streamVars(OfShards(KsTick)) /\ WF_streamVars(OfShards(KsPassStart))
  /\ WF_streamVars(OfShards(\E s \in KsShardIds : KsScan(s) \/ KsAnswer(s)))
  /\ \A s \in KsHealthy : SF_streamVars(OfShards(KsHandled(s)))

FairClock == /\ WF_streamVars(OfClock(TiSweepStart)) /\ WF_streamVars(OfClock(TiVisit))
             /\ WF_streamVars(OfClock(TiTick))

NextStreams == OfTable(DsNext) \/ OfShards(KsNext) \/ OfClock(TiNext)
SpecStreams == /\ InitStreams /\ [][NextStreams]_streamVars
               /\ FairTable /\ FairShards /\ FairClock

(* Positions, records, numberings and firing times fit together.            *)
StreamsTypeOK == DsTypeOK /\ DsNeverAhead /\ KsTypeOK /\ TiTypeOK

(* No consumer of either kind skips a record.                               *)
NothingSkipped == DsNothingSkipped /\ KsNothingSkipped

(* A one-time schedule fires once; what recurs waits its interval.          *)
FiresOnce == TiOnce /\ TiSpaced

(* A poison batch passes at its age limit; a failing shard starves no other;*)
(* what is scheduled and left alone fires.                                  *)
StreamsProgress == DsPoisonPasses /\ KsHealthyProgress /\ TiFires
=============================================================================
