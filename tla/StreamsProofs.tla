---------------------------- MODULE StreamsProofs ----------------------------
(***************************************************************************)
(* What feeds functions and targets, for every set of names, shards and    *)
(* consumers, every rate and retention, and any number of writes, puts and *)
(* restarts: what the two clock threads fire; and that no consumer of a    *)
(* table's stream, and no mapping over a Kinesis stream, is moved past a   *)
(* record it has neither handled, nor lost to trimming, nor given up.      *)
(***************************************************************************)
EXTENDS MCStreams, ListsProofs, TLAPS

(* The shapes of what the invariant speaks of.                              *)
TiSpans == {TiNever} \cup 0..TiCap
TiShaped ==
  /\ tiRecord \in [TiNames -> TiRecords] /\ tiSweep \in [TiNames -> TiRecords]
  /\ tiLast \in [TiNames -> TiSpans] /\ tiSince \in [TiNames -> TiSpans]
  /\ tiShots \in [TiNames -> 0..2] /\ tiPuts \in 0..TiMaxPuts

(* A request is known by its number: the copy a sweep took and the record   *)
(* of the same number are the same, whatever happened in between.           *)
TiSame == \A n \in TiNames :
  /\ tiRecord[n].put <= tiPuts /\ tiSweep[n].put <= tiPuts
  /\ tiRecord[n].put = 0 => tiRecord[n] = TiAbsent
  /\ tiSweep[n].put = 0 => tiSweep[n] = TiAbsent
  /\ tiRecord[n].put = tiSweep[n].put => tiRecord[n] = tiSweep[n]

(* What a record on file has fired is remembered, and no later than it was. *)
TiRemembers == \A n \in TiNames : TiKnown(n) =>
  /\ tiShots[n] > 0 => tiLast[n] # TiNever
  /\ tiSince[n] # TiNever => tiLast[n] # TiNever /\ tiLast[n] <= tiSince[n]

TiInv == TiShaped /\ TiSame /\ TiRemembers /\ TiOnce /\ TiSpaced

LEMMA TiNumbers ==
  /\ TiCap \in Nat /\ TiCap > 0 /\ TiNever = -1 /\ TiNever \in TiSpans /\ 0 \in TiSpans
  /\ TiAbsent \in TiRecords /\ TiAbsent.put = 0 /\ TiAbsent.kind = "none" /\ TiMaxPuts \in Nat
BY TiAssumption DEF TiCap, TiNever, TiSpans, TiAbsent, TiRecords

LEMMA TiInitInv == TiInit => TiInv
<1> SUFFICES ASSUME TiInit PROVE TiInv
  OBVIOUS
<1>1. TiShaped
  BY TiNumbers DEF TiInit, TiShaped
<1>2. TiSame /\ TiRemembers /\ TiOnce
  BY TiNumbers DEF TiInit, TiSame, TiRemembers, TiOnce, TiKnown
<1>3. TiSpaced
  BY DEF TiInit, TiSpaced, TiNoFiring, TiAbsent
<1> QED
  BY <1>1, <1>2, <1>3 DEF TiInv

(* A request that takes a number no record has.                             *)
LEMMA TiPutInv ==
  ASSUME TiInv, NEW n \in TiNames, NEW kind \in {"rate", "cron", "at"}, NEW on \in BOOLEAN,
         NEW due \in TiDues \cup {TiNever}, NEW after \in {"NONE", "DELETE"}, TiPut(n, kind, on, due, after)
  PROVE  TiInv'
<1> DEFINE rec == [kind |-> kind, on |-> on, due |-> due, after |-> after,
                   age |-> IF TiKnown(n) THEN tiRecord[n].age ELSE 0, put |-> tiPuts + 1]
<1>0. TiShaped /\ TiSame /\ TiRemembers /\ TiOnce
  BY DEF TiInv
<1>1. /\ tiPuts' = tiPuts + 1 /\ tiRecord' = [tiRecord EXCEPT ![n] = rec]
      /\ tiShots' = [tiShots EXCEPT ![n] = 0]
      /\ tiSince' = IF TiKnown(n) THEN tiSince ELSE [tiSince EXCEPT ![n] = TiNever]
      /\ tiPuts' \in 0..TiMaxPuts /\ UNCHANGED <<tiLast, tiSweep, tiFiring>>
  BY <1>0, TiNumbers DEF TiPut, TiShaped
<1>2. rec \in TiRecords /\ rec.put = tiPuts + 1
  <2>1. due \in {TiNever} \cup Nat /\ tiPuts + 1 \in 0..TiMaxPuts
    BY <1>0, TiAssumption DEF TiPut, TiShaped
  <2>2. tiRecord[n] \in TiRecords
    BY <1>0 DEF TiShaped
  <2> QED
    BY <1>0, <2>1, <2>2, TiNumbers DEF TiRecords, TiShaped
<1> HIDE DEF rec
<1>3. TiShaped'
  BY <1>0, <1>1, <1>2, TiNumbers DEF TiShaped
<1>4. TiSame'
  <2>1. \A m \in TiNames : tiRecord[m].put \in Nat /\ tiSweep[m].put \in Nat
    BY <1>0 DEF TiShaped, TiRecords
  <2> QED
    BY <1>0, <1>1, <1>2, <2>1 DEF TiShaped, TiSame
<1>5. \A m \in TiNames : m # n => /\ tiRecord'[m] = tiRecord[m] /\ tiShots'[m] = tiShots[m]
                                  /\ tiSince'[m] = tiSince[m] /\ tiLast'[m] = tiLast[m]
  BY <1>0, <1>1 DEF TiShaped
<1>6. /\ tiShots'[n] = 0 /\ tiLast'[n] = tiLast[n]
      /\ tiSince'[n] # TiNever => TiKnown(n) /\ tiSince'[n] = tiSince[n]
  BY <1>0, <1>1 DEF TiShaped
<1>7. TiRemembers'
  BY <1>0, <1>5, <1>6 DEF TiRemembers, TiKnown
<1>8. TiOnce'
  BY <1>0, <1>5, <1>6 DEF TiOnce, TiKnown
<1>9. TiSpaced'
  BY <1>1 DEF TiInv, TiSpaced
<1> QED
  BY <1>3, <1>4, <1>7, <1>8, <1>9 DEF TiInv

(* A step that only removes records, and may forget what those had fired.   *)
TiRemoves ==
  /\ \A n \in TiNames :
       /\ \/ tiRecord'[n] = TiAbsent
          \/ tiRecord'[n] = tiRecord[n] /\ (tiLast'[n] = tiLast[n] \/ tiLast[n] = TiNever)
       /\ tiSweep'[n] \in {TiAbsent, tiSweep[n]}
       /\ tiLast'[n] \in TiSpans
  /\ DOMAIN tiRecord' = TiNames /\ DOMAIN tiSweep' = TiNames /\ DOMAIN tiLast' = TiNames
  /\ tiRecord' = [n \in TiNames |-> tiRecord'[n]] /\ tiSweep' = [n \in TiNames |-> tiSweep'[n]]
  /\ tiLast' = [n \in TiNames |-> tiLast'[n]]
  /\ tiFiring' \in {tiFiring, TiNoFiring}
  /\ UNCHANGED <<tiPuts, tiShots, tiSince>>

LEMMA TiRemovesInv == TiInv /\ TiRemoves => TiInv'
<1> SUFFICES ASSUME TiInv, TiRemoves PROVE TiInv'
  OBVIOUS
<1>0. TiShaped /\ TiSame /\ TiRemembers /\ TiOnce
  BY DEF TiInv
<1>1. TiShaped'
  <2>1. \A n \in TiNames : tiRecord'[n] \in TiRecords /\ tiSweep'[n] \in TiRecords
    BY <1>0, TiNumbers DEF TiRemoves, TiShaped
  <2> QED
    BY <1>0, <2>1 DEF TiRemoves, TiShaped
<1>2. TiSame'
  <2>1. TiAbsent.put <= tiPuts
    BY <1>0, TiNumbers DEF TiShaped
  <2>2. \A n \in TiNames : tiRecord'[n] \in {TiAbsent, tiRecord[n]} /\ tiSweep'[n] \in {TiAbsent, tiSweep[n]}
    BY DEF TiRemoves
  <2>3. tiPuts' = tiPuts
    BY DEF TiRemoves
  <2> QED
    BY <1>0, <2>1, <2>2, <2>3, TiNumbers DEF TiSame
<1>3. ASSUME NEW n \in TiNames, tiRecord'[n] # TiAbsent
      PROVE  /\ tiShots'[n] > 0 => tiLast'[n] # TiNever
             /\ tiSince'[n] # TiNever => tiLast'[n] # TiNever /\ tiLast'[n] <= tiSince'[n]
  <2>1. /\ tiRecord'[n] = tiRecord[n] /\ tiShots'[n] = tiShots[n] /\ tiSince'[n] = tiSince[n]
        /\ tiLast'[n] = tiLast[n] \/ tiLast[n] = TiNever
    BY <1>3 DEF TiRemoves
  <2>2. /\ tiShots[n] > 0 => tiLast[n] # TiNever
        /\ tiSince[n] # TiNever => tiLast[n] # TiNever /\ tiLast[n] <= tiSince[n]
    BY <1>0, <1>3, <2>1 DEF TiRemembers, TiKnown
  <2> QED
    BY <2>1, <2>2
<1>a. TiRemembers'
  BY <1>3 DEF TiRemembers, TiKnown
<1>4. TiOnce'
  BY <1>0 DEF TiRemoves, TiOnce, TiKnown
<1>5. TiSpaced'
  BY DEF TiInv, TiRemoves, TiSpaced, TiNoFiring, TiAbsent
<1> QED
  BY <1>1, <1>2, <1>a, <1>4, <1>5 DEF TiInv

(* A countdown runs from the last firing, if there was one.                 *)
LEMMA TiAnchoredIs ==
  ASSUME TiShaped, NEW n \in TiNames, NEW r \in TiRecords
  PROVE  TiAnchored(n, r) \in TiSpans /\ (tiLast[n] # TiNever => TiAnchored(n, r) = tiLast[n])
<1>0. tiLast[n] \in TiSpans /\ r.age \in TiSpans
  BY DEF TiShaped, TiRecords, TiSpans
<1> QED
  BY <1>0, TiNumbers DEF TiAnchored

(* The steps that remove, forget or pass over.                              *)
LEMMA TiPassRemoves ==
  ASSUME TiShaped,
         \/ \E names \in SUBSET TiNames : TiDelete(names)
         \/ TiReset \/ TiFired \/ \E n \in TiNames : TiPass(n)
  PROVE  TiRemoves
<1>0. /\ tiRecord = [n \in TiNames |-> tiRecord[n]] /\ tiSweep = [n \in TiNames |-> tiSweep[n]]
      /\ tiLast = [n \in TiNames |-> tiLast[n]] /\ \A n \in TiNames : tiLast[n] \in TiSpans
  BY DEF TiShaped
<1>1. CASE \E names \in SUBSET TiNames : TiDelete(names)
  BY <1>0, <1>1 DEF TiDelete, TiRemoves
<1>2. CASE TiReset
  BY <1>0, <1>2, TiNumbers DEF TiReset, TiRemoves
<1>3. CASE TiFired
  BY <1>0, <1>3, TiNumbers DEF TiFired, TiRemoves
<1>4. ASSUME NEW n \in TiNames, TiPass(n) PROVE TiRemoves
  <2>1. TiAnchored(n, tiSweep[n]) \in TiSpans
    BY TiAnchoredIs DEF TiShaped
  <2>2. tiLast[n] # TiNever => TiAnchored(n, tiSweep[n]) = tiLast[n]
    BY TiAnchoredIs DEF TiShaped
  <2>3. /\ tiSweep' = [tiSweep EXCEPT ![n] = TiAbsent]
        /\ UNCHANGED <<tiFiring, tiPuts, tiShots, tiSince>>
        /\ \/ /\ tiRecord' = [tiRecord EXCEPT ![n] = TiAbsent] /\ tiLast' = [tiLast EXCEPT ![n] = TiNever]
           \/ tiRecord' = tiRecord /\ tiLast' = [tiLast EXCEPT ![n] = TiAnchored(n, tiSweep[n])]
           \/ tiRecord' = tiRecord /\ tiLast' = tiLast
    BY <1>4 DEF TiPass
  <2> QED
    BY <1>0, <2>1, <2>2, <2>3, TiNumbers DEF TiRemoves
<1> QED
  BY <1>1, <1>2, <1>3, <1>4

LEMMA TiSetStateInv ==
  ASSUME TiInv, NEW n \in TiNames, TiSetState(n)
  PROVE  TiInv'
<1> DEFINE on(r) == [r EXCEPT !.on = ~r.on]
<1>0. TiShaped /\ TiSame /\ TiRemembers /\ TiOnce /\ tiRecord[n] \in TiRecords /\ tiSweep[n] \in TiRecords
  BY DEF TiInv, TiShaped
<1>1. /\ tiRecord' = [tiRecord EXCEPT ![n] = on(tiRecord[n])]
      /\ tiSweep' = IF tiSweep[n].put = tiRecord[n].put THEN [tiSweep EXCEPT ![n] = on(tiSweep[n])] ELSE tiSweep
      /\ TiKnown(n) /\ UNCHANGED <<tiLast, tiFiring, tiPuts, tiShots, tiSince>>
  BY <1>0 DEF TiSetState, TiShaped, TiRecords
<1>2. \A r \in TiRecords : on(r) \in TiRecords /\ on(r).put = r.put /\ on(r).kind = r.kind
  BY DEF TiRecords
<1> HIDE DEF on
<1>3. TiShaped'
  BY <1>0, <1>1, <1>2 DEF TiShaped
<1>4. tiRecord[n].put # 0
  BY <1>0, <1>1 DEF TiSame, TiKnown
<1>5. /\ \A m \in TiNames : tiRecord'[m].put = tiRecord[m].put /\ tiSweep'[m].put = tiSweep[m].put
                            /\ tiRecord'[m].kind = tiRecord[m].kind
      /\ \A m \in TiNames : m # n => tiRecord'[m] = tiRecord[m] /\ tiSweep'[m] = tiSweep[m]
  BY <1>0, <1>1, <1>2 DEF TiShaped
<1>6. tiSweep[n].put = 0 => tiSweep'[n] = tiSweep[n]
  BY <1>1, <1>4
<1>7. tiRecord[n].put = tiSweep[n].put => tiRecord'[n] = tiSweep'[n]
  BY <1>0, <1>1 DEF TiSame, TiShaped
<1>8. TiSame'
  BY <1>0, <1>1, <1>4, <1>5, <1>6, <1>7 DEF TiSame
<1>9. TiRemembers'
  BY <1>0, <1>1, <1>5 DEF TiRemembers, TiKnown
<1>10. TiOnce'
  BY <1>0, <1>1, <1>5 DEF TiOnce, TiKnown
<1> QED
  BY <1>1, <1>3, <1>8, <1>9, <1>10 DEF TiInv, TiSpaced

LEMMA TiRestartInv == TiInv /\ TiRestart => TiInv'
<1> SUFFICES ASSUME TiInv, TiRestart PROVE TiInv'
  OBVIOUS
<1>1. TiShaped'
  BY TiNumbers DEF TiInv, TiRestart, TiShaped
<1>2. TiSame'
  <2>1. TiAbsent.put <= tiPuts
    BY TiNumbers DEF TiInv, TiShaped
  <2> QED
    BY <2>1, TiNumbers DEF TiInv, TiRestart, TiSame
<1>3. TiRemembers' /\ TiOnce'
  BY DEF TiRestart, TiRemembers, TiOnce, TiKnown
<1>4. TiSpaced'
  BY DEF TiRestart, TiSpaced, TiNoFiring, TiAbsent
<1> QED
  BY <1>1, <1>2, <1>3, <1>4 DEF TiInv

LEMMA TiSweepStartInv == TiInv /\ TiSweepStart => TiInv'
<1> SUFFICES ASSUME TiInv, TiSweepStart PROVE TiInv'
  OBVIOUS
<1>1. TiShaped'
  BY DEF TiInv, TiSweepStart, TiShaped
<1>2. TiSame'
  BY DEF TiInv, TiSweepStart, TiSame
<1>3. TiRemembers' /\ TiOnce' /\ TiSpaced'
  BY DEF TiInv, TiSweepStart, TiRemembers, TiOnce, TiKnown, TiSpaced
<1> QED
  BY <1>1, <1>2, <1>3 DEF TiInv

(* Time passes: what is remembered stays the later of the two.              *)
LEMMA TiOlderIs ==
  ASSUME NEW s \in TiSpans
  PROVE  /\ TiOlder(s) \in TiSpans /\ (TiOlder(s) = TiNever <=> s = TiNever)
         /\ \A t \in TiSpans : s # TiNever /\ s <= t => TiOlder(s) <= TiOlder(t)
         /\ s # TiNever => TiOlder(s) \in 0..TiCap
BY TiNumbers DEF TiOlder, TiSpans

LEMMA TiTickInv == TiInv /\ TiTick => TiInv'
<1> SUFFICES ASSUME TiInv, TiTick PROVE TiInv'
  OBVIOUS
<1> DEFINE rec(n) == IF ~TiKnown(n) THEN TiAbsent ELSE
             [tiRecord[n] EXCEPT !.age = TiOlder(@), !.due = IF @ = TiNever THEN @ ELSE TiSooner(@)]
<1>0. TiShaped /\ TiSame /\ TiRemembers /\ TiOnce
  BY DEF TiInv
<1>1. /\ tiRecord' = [n \in TiNames |-> rec(n)] /\ tiLast' = [n \in TiNames |-> TiOlder(tiLast[n])]
      /\ tiSince' = [n \in TiNames |-> TiOlder(tiSince[n])] /\ \A n \in TiNames : tiSweep[n] = TiAbsent
      /\ UNCHANGED <<tiSweep, tiFiring, tiPuts, tiShots>>
  BY DEF TiTick, TiIdle
<1>2. ASSUME NEW n \in TiNames
      PROVE  /\ rec(n) \in TiRecords /\ rec(n).put = tiRecord[n].put /\ rec(n).kind = tiRecord[n].kind
             /\ ~TiKnown(n) => rec(n) = TiAbsent
  <2>0. tiRecord[n] \in TiRecords
    BY <1>0 DEF TiShaped
  <2>1. CASE ~TiKnown(n)
    BY <2>1, TiNumbers DEF TiKnown
  <2>2. CASE TiKnown(n)
    <3> DEFINE age == TiOlder(tiRecord[n].age)
               due == IF tiRecord[n].due = TiNever THEN tiRecord[n].due ELSE TiSooner(tiRecord[n].due)
    <3>1. rec(n) = [tiRecord[n] EXCEPT !.age = age, !.due = due]
      BY <2>0, <2>2 DEF TiRecords
    <3>2. age \in 0..TiCap /\ due \in {TiNever} \cup Nat
      BY <2>0, TiOlderIs, TiNumbers DEF TiRecords, TiSpans, TiSooner
    <3> HIDE DEF age, due, rec
    <3> QED
      BY <2>0, <2>2, <3>1, <3>2 DEF TiRecords
  <2> QED
    BY <2>1, <2>2
<1> HIDE DEF rec
<1>3. TiShaped'
  <2>1. \A n \in TiNames : TiOlder(tiLast[n]) \in TiSpans /\ TiOlder(tiSince[n]) \in TiSpans
    BY <1>0, TiOlderIs DEF TiShaped
  <2> QED
    BY <1>0, <1>1, <1>2, <2>1 DEF TiShaped
<1>4. TiSame'
  <2>1. \A n \in TiNames : tiRecord'[n].put = 0 => tiRecord'[n] = TiAbsent
    BY <1>0, <1>1, <1>2 DEF TiSame, TiKnown
  <2> QED
    BY <1>0, <1>1, <1>2, <2>1, TiNumbers DEF TiSame
<1>5. TiRemembers'
  <2>1. ASSUME NEW n \in TiNames, TiKnown(n)'
        PROVE  /\ tiShots'[n] > 0 => tiLast'[n] # TiNever
               /\ tiSince'[n] # TiNever => tiLast'[n] # TiNever /\ tiLast'[n] <= tiSince'[n]
    <3>1. /\ tiShots[n] > 0 => tiLast[n] # TiNever
          /\ tiSince[n] # TiNever => tiLast[n] # TiNever /\ tiLast[n] <= tiSince[n]
      BY <1>0, <1>1, <1>2, <2>1 DEF TiRemembers, TiKnown
    <3>2. tiLast[n] \in TiSpans /\ tiSince[n] \in TiSpans
      BY <1>0 DEF TiShaped
    <3> QED
      BY <1>1, <3>1, <3>2, TiOlderIs
  <2> QED
    BY <2>1 DEF TiRemembers
<1>6. TiOnce'
  BY <1>0, <1>1, <1>2 DEF TiOnce, TiKnown
<1> QED
  BY <1>1, <1>3, <1>4, <1>5, <1>6 DEF TiInv, TiSpaced

(* A firing: of a one-time schedule it is the first of that request, and    *)
(* what recurs has waited since it was last fired.                          *)
LEMMA TiFireInv ==
  ASSUME TiInv, NEW n \in TiNames, TiFire(n)
  PROVE  TiInv'
<1> DEFINE r == tiSweep[n]
           gap == IF TiKnown(n) THEN tiSince[n] ELSE TiNever
           fires == tiStore = "schedules" \/ tiTargets[n]
<1>0. TiShaped /\ TiSame /\ TiRemembers /\ TiOnce /\ TiSpaced
  BY DEF TiInv
<1>1. /\ r # TiAbsent /\ TiIsDue(n, r) /\ tiFiring = TiNoFiring
      /\ tiSweep' = [tiSweep EXCEPT ![n] = TiAbsent] /\ tiLast' = [tiLast EXCEPT ![n] = 0]
      /\ UNCHANGED <<tiRecord, tiPuts>>
  BY DEF TiFire, TiFiredNow
<1>2. /\ fires => /\ tiFiring' = [name |-> n, rec |-> r, gap |-> gap]
                  /\ tiSince' = IF TiKnown(n) THEN [tiSince EXCEPT ![n] = 0] ELSE tiSince
                  /\ tiShots' = IF tiRecord[n].put = r.put
                                THEN [tiShots EXCEPT ![n] = IF tiShots[n] = 2 THEN 2 ELSE tiShots[n] + 1] ELSE tiShots
      /\ ~fires => UNCHANGED <<tiFiring, tiShots, tiSince>>
  BY <1>0 DEF TiFire, TiShaped
<1> HIDE DEF fires, gap
<1>3. TiShaped'
  <2>1. tiSweep' \in [TiNames -> TiRecords] /\ tiLast' \in [TiNames -> TiSpans]
    BY <1>0, <1>1, TiNumbers DEF TiShaped
  <2>2. tiSince' \in [TiNames -> TiSpans] /\ tiShots' \in [TiNames -> 0..2]
    BY <1>0, <1>2, TiNumbers DEF TiShaped
  <2> QED
    BY <1>0, <1>1, <2>1, <2>2 DEF TiShaped
<1>4. TiSame'
  <2>1. TiAbsent.put <= tiPuts
    BY <1>0, TiNumbers DEF TiShaped
  <2>2. \A m \in TiNames : tiSweep'[m] = IF m = n THEN TiAbsent ELSE tiSweep[m]
    BY <1>0, <1>1 DEF TiShaped
  <2> QED
    BY <1>0, <1>1, <2>1, <2>2, TiNumbers DEF TiSame
<1>5. \A m \in TiNames : m # n => tiShots'[m] = tiShots[m] /\ tiSince'[m] = tiSince[m] /\ tiLast'[m] = tiLast[m]
  BY <1>0, <1>1, <1>2 DEF TiShaped
<1>6. tiLast'[n] = 0 /\ tiSince'[n] \in {tiSince[n], 0} /\ tiSince[n] \in TiSpans
  BY <1>0, <1>1, <1>2 DEF TiShaped
<1>7. TiRemembers'
  <2>1. tiLast'[n] # TiNever /\ (tiSince'[n] # TiNever => tiLast'[n] <= tiSince'[n])
    BY <1>6, TiNumbers DEF TiSpans
  <2>2. ASSUME NEW m \in TiNames, m # n, TiKnown(m)'
        PROVE  /\ tiShots'[m] > 0 => tiLast'[m] # TiNever
               /\ tiSince'[m] # TiNever => tiLast'[m] # TiNever /\ tiLast'[m] <= tiSince'[m]
    BY <1>0, <1>1, <1>5, <2>2 DEF TiRemembers, TiKnown
  <2> QED
    BY <2>1, <2>2 DEF TiRemembers
<1>8. TiOnce'
  <2>1. ASSUME TiKnown(n), tiRecord[n].kind = "at" PROVE tiShots'[n] <= 1
    <3>1. CASE fires /\ tiRecord[n].put = r.put
      <4>1. tiRecord[n] = r
        BY <1>0, <3>1 DEF TiSame
      <4>2. tiLast[n] = TiNever
        BY <1>1, <2>1, <4>1 DEF TiIsDue
      <4>3. tiShots[n] = 0
        BY <1>0, <2>1, <4>2 DEF TiRemembers, TiShaped
      <4> QED
        BY <1>0, <1>2, <3>1, <4>3 DEF TiShaped
    <3>2. CASE ~(fires /\ tiRecord[n].put = r.put)
      BY <1>0, <1>2, <2>1, <3>2 DEF TiOnce
    <3> QED
      BY <3>1, <3>2
  <2> QED
    BY <1>0, <1>1, <1>5, <2>1 DEF TiOnce, TiKnown
<1>9. TiSpaced'
  <2>1. CASE ~fires
    BY <1>0, <1>2, <2>1 DEF TiSpaced
  <2>2. CASE fires
    <3>1. ASSUME r.kind \in {"rate", "cron"}, gap # TiNever PROVE gap >= TiInterval(r)
      <4>1. TiKnown(n) /\ gap = tiSince[n]
        BY <3>1 DEF gap
      <4>2. tiLast[n] # TiNever /\ tiLast[n] <= tiSince[n]
        BY <1>0, <3>1, <4>1 DEF TiRemembers
      <4>3. tiLast[n] >= TiInterval(r)
        <5>1. TiAnchored(n, r) = tiLast[n]
          BY <1>0, <4>2, TiAnchoredIs DEF TiShaped
        <5> QED
          BY <1>1, <3>1, <5>1 DEF TiIsDue
      <4>4. tiLast[n] \in Int /\ tiSince[n] \in Int /\ TiInterval(r) \in Int
        BY <1>0, TiAssumption, TiNumbers DEF TiShaped, TiSpans, TiInterval
      <4> QED
        BY <4>1, <4>2, <4>3, <4>4
    <3>2. tiFiring'.rec = r /\ tiFiring'.gap = gap
      BY <1>2, <2>2
    <3> QED
      BY <3>1, <3>2 DEF TiSpaced, TiInterval
  <2> QED
    BY <2>1, <2>2
<1> QED
  BY <1>3, <1>4, <1>7, <1>8, <1>9 DEF TiInv

(* What a firing holds, and which records have targets.                     *)
TiHeld == /\ tiFiring.rec \in TiRecords /\ tiFiring.gap \in TiSpans
          /\ tiTargets \in [TiNames -> BOOLEAN]

LEMMA TiHeldStep == TiShaped /\ TiHeld /\ [TiNext]_tiVars => TiHeld'
<1> SUFFICES ASSUME TiShaped, TiHeld, [TiNext]_tiVars PROVE TiHeld'
  OBVIOUS
<1>1. tiTargets' \in [TiNames -> BOOLEAN]
  <2>1. CASE tiTargets' = tiTargets
    BY <2>1 DEF TiHeld
  <2>2. CASE \E n \in TiNames : \E b \in BOOLEAN : tiTargets' = [tiTargets EXCEPT ![n] = b]
    BY <2>2 DEF TiHeld
  <2>3. CASE \E names \in SUBSET TiNames : tiTargets' = [n \in TiNames |-> tiTargets[n] /\ n \notin names]
    BY <2>3
  <2>4. CASE tiTargets' = [n \in TiNames |-> FALSE]
    BY <2>4
  <2> QED
    BY <2>1, <2>2, <2>3, <2>4 DEF TiNext, TiVisit, tiVars, TiPut, TiPutTargets, TiSetState, TiDelete,
       TiReset, TiRestart, TiSweepStart, TiFire, TiPass, TiFired, TiTick, TiHeld
<1>2. tiFiring'.rec \in TiRecords /\ tiFiring'.gap \in TiSpans
  <2>1. CASE tiFiring' = tiFiring
    BY <2>1 DEF TiHeld
  <2>2. CASE tiFiring' = TiNoFiring
    BY <2>2, TiNumbers DEF TiNoFiring
  <2>3. CASE \E n \in TiNames : tiFiring' = [name |-> n, rec |-> tiSweep[n],
                                            gap |-> IF TiKnown(n) THEN tiSince[n] ELSE TiNever]
    BY <2>3, TiNumbers DEF TiShaped
  <2> QED
    BY <2>1, <2>2, <2>3 DEF TiNext, TiVisit, tiVars, TiPut, TiPutTargets, TiSetState, TiDelete,
       TiReset, TiRestart, TiSweepStart, TiFire, TiPass, TiFired, TiTick
<1> QED
  BY <1>1, <1>2 DEF TiHeld

LEMMA TiTyped == TiInv /\ TiHeld => TiTypeOK
BY DEF TiInv, TiShaped, TiRemembers, TiHeld, TiSpans, TiTypeOK

LEMMA TiInvStep == TiInv /\ [TiNext]_tiVars => TiInv'
<1> SUFFICES ASSUME TiInv, [TiNext]_tiVars PROVE TiInv'
  OBVIOUS
<1>1. CASE \E n \in TiNames, kind \in {"rate", "cron", "at"}, on \in BOOLEAN,
              due \in TiDues \cup {TiNever}, after \in {"NONE", "DELETE"} : TiPut(n, kind, on, due, after)
  BY <1>1, TiPutInv
<1>2. CASE \E n \in TiNames : TiPutTargets(n)
  <2>1. UNCHANGED <<tiRecord, tiSweep, tiLast, tiSince, tiShots, tiPuts, tiFiring>>
    BY <1>2 DEF TiPutTargets
  <2> QED
    BY <2>1 DEF TiInv, TiShaped, TiSame, TiRemembers, TiKnown, TiOnce, TiSpaced
<1>3. CASE \E n \in TiNames : TiSetState(n)
  BY <1>3, TiSetStateInv
<1>4. CASE (\E names \in SUBSET TiNames : TiDelete(names)) \/ TiReset \/ TiFired \/ \E n \in TiNames : TiPass(n)
  <2>1. TiRemoves
    BY <1>4, TiPassRemoves DEF TiInv
  <2> QED
    BY <2>1, TiRemovesInv
<1>5. CASE TiRestart \/ TiSweepStart \/ TiTick \/ \E n \in TiNames : TiFire(n)
  BY <1>5, TiRestartInv, TiSweepStartInv, TiTickInv, TiFireInv
<1>6. CASE UNCHANGED tiVars
  BY <1>6 DEF tiVars, TiInv, TiShaped, TiSame, TiRemembers, TiKnown, TiOnce, TiSpaced
<1>7. CASE TiNext
  <2>1. CASE TiVisit
    BY <1>4, <1>5, <2>1 DEF TiVisit
  <2> QED
    BY <1>1, <1>2, <1>3, <1>4, <1>5, <1>7, <2>1 DEF TiNext
<1> QED
  BY <1>6, <1>7

-----------------------------------------------------------------------------
(* The consumers of a table's stream.                                       *)

(* The shapes of what the invariant speaks of.                              *)
DsRecs == [n : 1..DsMaxWrites, age : 0..DsCap]
DsStreamShapes == [recs : Seq(DsRecs), trimmed : Nat]
DsShapes == [kind : {"none", "esm", "pipe", "reader"}, status : {"absent", "running", "stopped"},
             label : 0..DsMaxLabels, pos : Nat \cup {DsUnset}, maxage : Nat, backoff : {0, 1}]
DsPollShapes == [phase : {"idle", "fetch", "invoke"}, pos : Nat, end : Nat,
                 batch : Seq(DsRecs), orphan : BOOLEAN]
DsShaped ==
  /\ dsTable \in [label : DsLabels, enabled : BOOLEAN]
  /\ dsStreams \in [DsLabels -> DsStreamShapes]
  /\ dsWrites \in 0..DsMaxWrites /\ \A l \in DsLabels : DsEnd(dsStreams[l]) <= dsWrites
  /\ dsConsumer \in [DsConsumers -> DsShapes] /\ dsPoll \in [DsConsumers -> DsPollShapes]
  /\ dsRetention \in DsRetentions /\ dsRestarts \in 0..DsMaxRestarts
  /\ dsSettled \in [DsConsumers -> SUBSET (1..DsMaxWrites)]
  /\ dsFresh \in [DsConsumers -> BOOLEAN]

(* Only threads poll; a poll that outlives its consumer is an orphan; and   *)
(* nobody follows a stream the table has yet to have.                       *)
DsOwned == \A c \in DsConsumers :
  /\ dsConsumer[c].status # "absent" => dsConsumer[c].label \in 1..dsTable.label
  /\ dsPoll[c] # DsNoPoll => /\ dsConsumer[c].kind \in {"esm", "pipe"}
                             /\ dsConsumer[c].status = "absent" => dsPoll[c].orphan

(* Position p lies in the stream, and what is before it is in S.            *)
DsGiven(s, p, S) == /\ p <= DsEnd(s)
                    /\ \A j \in DOMAIN s.recs : s.trimmed + j <= p => s.recs[j].n \in S

(* A position, the one a poll has read and the one it will leave.           *)
DsPlaced(c) ==
  LET s == dsStreams[dsConsumer[c].label]
      poll == dsPoll[c]
  IN DsFollows(c) /\ dsFresh[c] =>
       /\ DsGiven(s, dsConsumer[c].pos, dsSettled[c])
       /\ poll.phase = "fetch" /\ ~poll.orphan => DsGiven(s, poll.pos, dsSettled[c])
       /\ poll.phase = "invoke" /\ ~poll.orphan =>
            DsGiven(s, poll.pos + Len(poll.batch), dsSettled[c] \cup DsNamesOf(poll.batch))

DsInv == DsShaped /\ DsOwned /\ \A c \in DsConsumers : DsPlaced(c)

LEMMA DsNumbers ==
  ASSUME DsRetentions # {}
  PROVE  DsCap \in Nat
<1> DEFINE S == DsRetentions \cup DsRecordAges
<1>1. S \in SUBSET Nat /\ S \in SUBSET Int /\ IsFiniteSet(S) /\ S # {} BY DsAssumption DEF DsAssumption
<1>2. \E x \in S : \A y \in S : y <= x BY <1>1, GreatestIs
<1>3. (CHOOSE m \in S : \A x \in S : x <= m) \in S BY <1>2
<1> QED BY <1>1, <1>3 DEF DsCap

LEMMA DsShapesAre ==
  ASSUME DsShaped
  PROVE  /\ DsCap \in Nat /\ DsNoStream \in DsStreamShapes /\ DsAbsent \in DsShapes /\ DsNoPoll \in DsPollShapes
         /\ DsMaxWrites \in Nat /\ DsMaxLabels \in Nat /\ DsBatchSize \in Nat \ {0}
<1>1. DsCap \in Nat BY DsNumbers DEF DsShaped
<1> QED BY <1>1, DsAssumption DEF DsAssumption, DsNoStream, DsStreamShapes, DsAbsent, DsShapes, DsNoPoll, DsPollShapes, DsUnset

(* What is kept of a stream: the same records at the same absolute places.  *)
DsGrows(s, t) == \A p \in Int, S \in SUBSET Nat : DsGiven(s, p, S) => DsGiven(t, p, S)

LEMMA DsTrimIs ==
  ASSUME NEW s \in DsStreamShapes
  PROVE  /\ DsTrim(s) \in DsStreamShapes /\ DsEnd(DsTrim(s)) = DsEnd(s) /\ DsGrows(s, DsTrim(s))
         /\ s.trimmed <= DsTrim(s).trimmed
<1> DEFINE k == DsLeadingOld(s.recs)
           K == {i \in DOMAIN s.recs : \A j \in 1..i : DsOld(s.recs[j])}
           t == DsTrim(s)
<1>1. s.recs \in Seq(DsRecs) /\ s.trimmed \in Nat BY DEF DsStreamShapes
<1>2. Len(s.recs) \in Nat /\ DOMAIN s.recs = 1..Len(s.recs) BY <1>1
<1>3. k \in 0..Len(s.recs)
  <2>1. IsFiniteSet(1..Len(s.recs)) /\ Cardinality(1..Len(s.recs)) = Len(s.recs) BY <1>2, FS_Interval
  <2>2. K \in SUBSET (1..Len(s.recs)) BY <1>2
  <2>3. IsFiniteSet(K) /\ Cardinality(K) <= Len(s.recs) BY <2>1, <2>2, FS_Subset
  <2> QED BY <1>2, <2>3, FS_CardinalityType DEF DsLeadingOld
<1>4. t = [recs |-> SubSeq(s.recs, k + 1, Len(s.recs)), trimmed |-> s.trimmed + k] BY DEF DsTrim
<1> HIDE DEF k, t, K
<1>5. /\ t.recs \in Seq(DsRecs) /\ Len(t.recs) = Len(s.recs) - k
      /\ \A i \in DOMAIN t.recs : i + k \in DOMAIN s.recs /\ t.recs[i] = s.recs[i + k]
  <2>1. k + 1 \in Nat \ {0} /\ Len(s.recs) \in 0..Len(s.recs) BY <1>2, <1>3
  <2>2. t.recs = SubSeq(s.recs, k + 1, Len(s.recs)) BY <1>4
  <2>3. /\ t.recs \in Seq(DsRecs)
        /\ Len(t.recs) = IF k + 1 <= Len(s.recs) THEN Len(s.recs) - (k + 1) + 1 ELSE 0
        /\ \A i \in DOMAIN t.recs : k + 1 + i - 1 \in DOMAIN s.recs /\ t.recs[i] = s.recs[k + 1 + i - 1]
    BY <1>1, <2>1, <2>2, PartIs
  <2>4. \A i \in DOMAIN t.recs : i \in Nat /\ k + 1 + i - 1 = i + k
    <3>1. DOMAIN t.recs = 1..Len(t.recs) BY <2>3
    <3> QED BY <1>3, <3>1
  <2> QED BY SMTT(30), <1>2, <1>3, <2>3, <2>4
<1>6. t.trimmed = s.trimmed + k BY <1>4
<1>7. t \in DsStreamShapes BY <1>1, <1>3, <1>4, <1>5, <1>6 DEF DsStreamShapes
<1>8. DsEnd(t) = DsEnd(s) BY <1>1, <1>2, <1>3, <1>5, <1>6 DEF DsEnd
<1>9. DsGrows(s, t)
  <2> SUFFICES ASSUME NEW p \in Int, NEW S \in SUBSET Nat, DsGiven(s, p, S) PROVE DsGiven(t, p, S) BY DEF DsGrows
  <2>1. ASSUME NEW j \in DOMAIN t.recs, t.trimmed + j <= p PROVE t.recs[j].n \in S
    <3>1. j \in Nat
      <4>1. DOMAIN t.recs = 1..Len(t.recs) BY <1>5
      <4> QED BY <4>1
    <3>2. j + k \in DOMAIN s.recs /\ s.trimmed + (j + k) <= p /\ t.recs[j] = s.recs[j + k]
      BY SMTT(30), <1>1, <1>3, <1>5, <1>6, <2>1, <3>1
    <3> QED BY <3>2 DEF DsGiven
  <2> QED BY <1>8, <2>1 DEF DsGiven
<1> QED BY <1>1, <1>3, <1>6, <1>7, <1>8, <1>9 DEF t

(* A record is added at the end, where no position is.                      *)
LEMMA DsAppendIs ==
  ASSUME NEW s \in DsStreamShapes, NEW r \in DsRecs, DsCap \in Nat, DsMaxWrites \in Nat
  PROVE  LET t == [s EXCEPT !.recs = Append(@, r)]
         IN  t \in DsStreamShapes /\ DsEnd(t) = DsEnd(s) + 1 /\ DsGrows(s, t)
<1> DEFINE t == [s EXCEPT !.recs = Append(@, r)]
<1>1. s.recs \in Seq(DsRecs) /\ s.trimmed \in Nat /\ Len(s.recs) \in Nat BY DEF DsStreamShapes
<1>2. t = [recs |-> Append(s.recs, r), trimmed |-> s.trimmed] BY SMTT(30) DEF DsStreamShapes
<1>3. /\ Append(s.recs, r) \in Seq(DsRecs) /\ Len(Append(s.recs, r)) = Len(s.recs) + 1
      /\ \A i \in DOMAIN s.recs : Append(s.recs, r)[i] = s.recs[i]
      /\ DOMAIN s.recs = 1..Len(s.recs) /\ DOMAIN Append(s.recs, r) = 1..Len(s.recs) + 1
  BY <1>1
<1> HIDE DEF t
<1>4. t \in DsStreamShapes BY <1>1, <1>2, <1>3 DEF DsStreamShapes
<1>5. DsEnd(t) = DsEnd(s) + 1 BY <1>1, <1>2, <1>3 DEF DsEnd
<1>6. DsGrows(s, t)
  <2> SUFFICES ASSUME NEW p \in Int, NEW S \in SUBSET Nat, DsGiven(s, p, S) PROVE DsGiven(t, p, S) BY DEF DsGrows
  <2>1. DsEnd(s) \in Nat /\ p <= DsEnd(s) BY <1>1 DEF DsEnd, DsGiven
  <2>2. ASSUME NEW j \in DOMAIN t.recs, t.trimmed + j <= p PROVE t.recs[j].n \in S
    <3>1. j \in 1..Len(s.recs) + 1 /\ s.trimmed + j <= s.trimmed + Len(s.recs)
      BY <1>1, <1>2, <1>3, <2>1, <2>2 DEF DsEnd
    <3>2. j \in DOMAIN s.recs BY <1>1, <1>3, <3>1
    <3>3. s.trimmed + j <= p /\ t.recs[j] = s.recs[j] BY <1>2, <1>3, <2>2, <3>2
    <3> QED BY <3>2, <3>3 DEF DsGiven
  <2> QED BY <1>5, <2>1, <2>2 DEF DsGiven
<1> QED BY <1>4, <1>5, <1>6 DEF t

(* A page, from a position or from the horizon if that is later.            *)
LEMMA DsFromIs ==
  ASSUME NEW s \in DsStreamShapes, NEW pos \in Nat, NEW limit \in Int, DsMaxWrites \in Nat
  PROVE  LET b == DsFrom(s, pos, limit)
         IN  /\ b \in Seq(DsRecs) /\ DsNamesOf(b) \in SUBSET (1..DsMaxWrites)
             /\ \A S \in SUBSET Nat :
                  DsGiven(s, pos, S) => DsGiven(s, pos + Len(b), S \cup DsNamesOf(b))
<1> DEFINE b == DsFrom(s, pos, limit)
           offset == IF pos > s.trimmed THEN pos - s.trimmed ELSE 0
           last == IF offset + limit < Len(s.recs) THEN offset + limit ELSE Len(s.recs)
<1>1. s.recs \in Seq(DsRecs) /\ s.trimmed \in Nat /\ Len(s.recs) \in Nat
      /\ DOMAIN s.recs = 1..Len(s.recs)
  BY DEF DsStreamShapes
<1>2. offset \in Nat /\ offset + 1 \in Nat \ {0} /\ last \in Int /\ last <= Len(s.recs) BY SMTT(30), <1>1
<1>3. b = SubSeq(s.recs, offset + 1, last) BY DEF DsFrom
<1>4. offset = (IF pos > s.trimmed THEN pos - s.trimmed ELSE 0) OBVIOUS
<1> HIDE DEF b, offset, last
<1>5. /\ b \in Seq(DsRecs)
      /\ Len(b) = IF offset + 1 <= last THEN last - (offset + 1) + 1 ELSE 0
      /\ \A j \in DOMAIN s.recs : offset + 1 <= j /\ j <= last =>
           j - (offset + 1) + 1 \in DOMAIN b /\ b[j - (offset + 1) + 1] = s.recs[j]
  BY SMTT(30), <1>1, <1>2, <1>3, PartIs
<1>6. Len(b) \in Nat /\ DOMAIN b = 1..Len(b) BY <1>5
<1>7. DsNamesOf(b) \in SUBSET (1..DsMaxWrites)
  <2>1. \A i \in DOMAIN b : b[i] \in DsRecs BY <1>5
  <2> QED BY <2>1 DEF DsNamesOf, DsRecs
<1>8. ASSUME NEW S \in SUBSET Nat, DsGiven(s, pos, S)
      PROVE  DsGiven(s, pos + Len(b), S \cup DsNamesOf(b))
  <2>1. pos <= s.trimmed + Len(s.recs) BY <1>8 DEF DsGiven, DsEnd
  <2>a. /\ Len(b) = 0 \/ (offset + 1 <= last /\ Len(b) = last - offset)
        /\ offset + Len(b) <= Len(s.recs) \/ Len(b) = 0
        /\ pos <= s.trimmed + offset /\ (pos > s.trimmed => pos = s.trimmed + offset)
        /\ pos <= s.trimmed => offset = 0
    <3>1. Len(b) = 0 \/ (offset + 1 <= last /\ Len(b) = last - offset) BY <1>2, <1>5
    <3>2. CASE pos > s.trimmed
      <4>0. s.trimmed \in Nat /\ Len(s.recs) \in Nat BY <1>1
      <4>1. offset = pos - s.trimmed BY <1>4, <3>2
      <4>2. pos = s.trimmed + offset /\ ~(pos <= s.trimmed) BY <3>2, <4>0, <4>1
      <4>3. offset + Len(b) <= Len(s.recs) \/ Len(b) = 0 BY <1>2, <3>1, <4>0
      <4> QED BY <3>1, <4>0, <4>2, <4>3
    <3>3. CASE ~(pos > s.trimmed)
      <4>1. offset = 0 BY <1>4, <3>3
      <4> QED BY <1>1, <1>2, <3>1, <3>3, <4>1
    <3> QED BY <3>2, <3>3
  <2>2. pos + Len(b) <= DsEnd(s)
    BY <1>1, <1>2, <1>6, <2>1, <2>a DEF DsEnd
  <2>3. ASSUME NEW j \in DOMAIN s.recs, s.trimmed + j <= pos + Len(b)
        PROVE  s.recs[j].n \in S \cup DsNamesOf(b)
    <3>1. CASE s.trimmed + j <= pos BY <1>8, <3>1 DEF DsGiven
    <3>2. CASE ~(s.trimmed + j <= pos)
      <4>0. j \in Nat \ {0} BY <1>1
      <4>1. offset + 1 <= j /\ j <= last BY <1>1, <1>2, <1>6, <2>3, <2>a, <3>2, <4>0
      <4>2. j - (offset + 1) + 1 \in DOMAIN b /\ b[j - (offset + 1) + 1] = s.recs[j]
        BY <1>5, <4>1
      <4> QED BY <4>2 DEF DsNamesOf
    <3> QED BY <3>1, <3>2
  <2> QED BY <2>2, <2>3 DEF DsGiven
<1> QED BY <1>5, <1>7, <1>8 DEF b

(* A consumer that starts at a position did not ask for what is before it.  *)
LEMMA DsBeforeIs ==
  ASSUME NEW s \in DsStreamShapes, NEW k \in 0..Len(s.recs), DsMaxWrites \in Nat
  PROVE  LET S == DsNamesOf(SubSeq(s.recs, 1, k))
         IN  S \in SUBSET (1..DsMaxWrites) /\ DsGiven(s, s.trimmed + k, S)
<1> DEFINE t == SubSeq(s.recs, 1, k)
<1>1. s.recs \in Seq(DsRecs) /\ s.trimmed \in Nat /\ Len(s.recs) \in Nat /\ k \in Int /\ k <= Len(s.recs)
      /\ DOMAIN s.recs = 1..Len(s.recs) /\ 1 \in Nat \ {0}
  BY DEF DsStreamShapes
<1>2. /\ t \in Seq(DsRecs)
      /\ \A j \in DOMAIN s.recs : 1 <= j /\ j <= k => j - 1 + 1 \in DOMAIN t /\ t[j - 1 + 1] = s.recs[j]
  BY <1>1, PartIs
<1> HIDE DEF t
<1>3. DsNamesOf(t) \in SUBSET (1..DsMaxWrites)
  <2>1. \A i \in DOMAIN t : t[i] \in DsRecs BY <1>2
  <2> QED BY <2>1 DEF DsNamesOf, DsRecs
<1>4. ASSUME NEW j \in DOMAIN s.recs, s.trimmed + j <= s.trimmed + k PROVE s.recs[j].n \in DsNamesOf(t)
  <2>1. j \in Nat \ {0} /\ j <= k /\ j - 1 + 1 = j BY <1>1, <1>4
  <2>2. j \in DOMAIN t /\ t[j] = s.recs[j] BY <1>2, <2>1
  <2> QED BY <2>2 DEF DsNamesOf
<1>5. DsGiven(s, s.trimmed + k, DsNamesOf(t)) BY <1>1, <1>4 DEF DsGiven, DsEnd
<1> QED BY <1>3, <1>5 DEF t

LEMMA DsOlderIs ==
  ASSUME NEW recs \in Seq(DsRecs), DsCap \in Nat, DsMaxWrites \in Nat
  PROVE  /\ DsOlderAll(recs) \in Seq(DsRecs) /\ Len(DsOlderAll(recs)) = Len(recs)
         /\ DOMAIN DsOlderAll(recs) = DOMAIN recs
         /\ \A i \in DOMAIN recs : DsOlderAll(recs)[i].n = recs[i].n
         /\ DsNamesOf(DsOlderAll(recs)) = DsNamesOf(recs)
<1> DEFINE older == DsOlderAll(recs)
<1>1. Len(recs) \in Nat /\ DOMAIN recs = 1..Len(recs) /\ \A i \in DOMAIN recs : recs[i] \in DsRecs OBVIOUS
<1>2. \A r \in DsRecs : DsOlder(r) \in DsRecs /\ DsOlder(r).n = r.n BY DEF DsRecs, DsOlder
<1>3. older = [i \in 1..Len(recs) |-> DsOlder(recs[i])] BY <1>1 DEF DsOlderAll
<1> HIDE DEF older
<1>4. older \in [1..Len(recs) -> DsRecs] /\ \A i \in DOMAIN recs : older[i].n = recs[i].n BY <1>1, <1>2, <1>3
<1>5. older \in Seq(DsRecs) /\ Len(older) = Len(recs) BY <1>1, <1>4
<1>6. DOMAIN older = DOMAIN recs BY <1>1, <1>4
<1>7. DsNamesOf(older) = DsNamesOf(recs) BY <1>4, <1>6 DEF DsNamesOf
<1> QED BY <1>4, <1>5, <1>6, <1>7 DEF older

LEMMA DsTrimmedIs ==
  ASSUME DsShaped
  PROVE  /\ DsTrimmed \in [DsLabels -> DsStreamShapes] /\ DsLive(DsTrimmed) \in DsStreamShapes
         /\ \A l \in DsLabels : /\ DsEnd(DsTrimmed[l]) <= dsWrites
                                /\ DsGrows(dsStreams[l], DsTrimmed[l])
         /\ dsTable.enabled => DsLive(DsTrimmed) = DsTrimmed[dsTable.label]
<1>1. dsTable.label \in DsLabels /\ \A l \in DsLabels : dsStreams[l] \in DsStreamShapes BY DEF DsShaped
<1>2. \A l \in DsLabels : \/ DsTrimmed[l] = DsTrim(dsStreams[l]) \/ DsTrimmed[l] = dsStreams[l]
  BY <1>1 DEF DsTrimmed, DsShaped
<1>3. \A l \in DsLabels : /\ DsTrimmed[l] \in DsStreamShapes /\ DsEnd(DsTrimmed[l]) <= dsWrites
                          /\ DsGrows(dsStreams[l], DsTrimmed[l])
  <2> TAKE l \in DsLabels
  <2>1. CASE DsTrimmed[l] = DsTrim(dsStreams[l]) BY <1>1, <2>1, DsTrimIs DEF DsShaped
  <2>2. CASE DsTrimmed[l] = dsStreams[l] BY <1>1, <2>2 DEF DsGrows, DsShaped
  <2> QED BY <1>2, <2>1, <2>2
<1>4. DsTrimmed \in [DsLabels -> DsStreamShapes]
  <2>1. DsTrim(dsStreams[dsTable.label]) \in DsStreamShapes BY <1>1, DsTrimIs
  <2> QED BY <1>1, <2>1 DEF DsTrimmed, DsShaped
<1>5. DsLive(DsTrimmed) \in DsStreamShapes BY <1>1, <1>3, DsShapesAre DEF DsLive
<1> QED BY <1>3, <1>4, <1>5 DEF DsLive

(* A step that leaves a consumer alone, or ends its poll.                   *)
DsUntouched(c) ==
  /\ dsConsumer'[c].kind = dsConsumer[c].kind /\ dsConsumer'[c].label = dsConsumer[c].label
  /\ dsConsumer'[c].pos = dsConsumer[c].pos
  /\ dsConsumer'[c].status # "absent" => dsConsumer[c].status # "absent"
  /\ dsSettled'[c] = dsSettled[c] /\ (dsFresh'[c] => dsFresh[c])
  /\ \/ dsPoll'[c].phase = "idle"
     \/ /\ dsPoll'[c].phase = dsPoll[c].phase /\ dsPoll'[c].pos = dsPoll[c].pos
        /\ (~dsPoll'[c].orphan => ~dsPoll[c].orphan)
        /\ Len(dsPoll'[c].batch) = Len(dsPoll[c].batch)
        /\ DsNamesOf(dsPoll'[c].batch) = DsNamesOf(dsPoll[c].batch)

(* The table keeps its stream, closes it or goes on to another.             *)
DsMoves == /\ dsTable' = dsTable \/ ~dsTable'.enabled \/ dsTable.label < dsTable'.label
           /\ \A l \in DsLabels : DsGrows(dsStreams[l], dsStreams'[l])

LEMMA DsCarried ==
  ASSUME DsShaped, DsOwned, DsMoves, NEW c \in DsConsumers, DsPlaced(c), DsUntouched(c)
  PROVE  DsPlaced(c)'
<1> DEFINE s == dsStreams[dsConsumer[c].label]
           poll == dsPoll[c]
<1> SUFFICES ASSUME DsFollows(c)', dsFresh'[c] PROVE DsPlaced(c)' BY DEF DsPlaced
<1>0. /\ dsConsumer[c] \in DsShapes /\ poll \in DsPollShapes /\ dsTable.label \in DsLabels
      /\ dsSettled[c] \in SUBSET Nat /\ DsLabels \in SUBSET Int
  BY DsShapesAre DEF DsShaped, DsLabels
<1>1. dsConsumer[c].status # "absent" /\ dsConsumer[c].label \in 1..dsTable.label
  BY DEF DsFollows, DsUntouched, DsOwned
<1>a. dsTable.label \in 1..DsMaxLabels /\ DsMaxLabels \in Nat /\ dsConsumer[c].label \in Int
  <2>1. dsTable.label \in 1..DsMaxLabels BY <1>0 DEF DsLabels
  <2>2. dsConsumer[c].label \in 0..DsMaxLabels BY <1>0 DEF DsShapes
  <2> QED BY <2>1, <2>2, DsShapesAre
<1>2. DsFollows(c)
  <2>1. CASE dsConsumer[c].kind = "reader" BY <1>1, <2>1 DEF DsFollows
  <2>2. CASE dsConsumer[c].kind # "reader"
    <3>1. dsTable'.enabled /\ dsConsumer[c].label = dsTable'.label BY <2>2 DEF DsFollows, DsUntouched
    <3>2. ~(dsTable.label < dsTable'.label) BY <1>1, <1>a, <3>1
    <3>3. dsTable' = dsTable BY <3>1, <3>2 DEF DsMoves
    <3> QED BY <1>1, <3>1, <3>3 DEF DsFollows
  <2> QED BY <2>1, <2>2
<1>3. dsConsumer[c].label \in DsLabels BY <1>1, <1>a DEF DsLabels
<1>4. \A p \in Int, S \in SUBSET Nat : DsGiven(s, p, S) => DsGiven(dsStreams'[dsConsumer[c].label], p, S)
  BY <1>3 DEF DsMoves, DsGrows
<1>5. /\ DsGiven(s, dsConsumer[c].pos, dsSettled[c])
      /\ poll.phase = "fetch" /\ ~poll.orphan => DsGiven(s, poll.pos, dsSettled[c])
      /\ poll.phase = "invoke" /\ ~poll.orphan =>
           DsGiven(s, poll.pos + Len(poll.batch), dsSettled[c] \cup DsNamesOf(poll.batch))
  BY <1>2 DEF DsPlaced, DsUntouched
<1>6. /\ dsConsumer[c].pos \in Int /\ poll.pos \in Int /\ poll.pos + Len(poll.batch) \in Int
      /\ dsSettled[c] \cup DsNamesOf(poll.batch) \in SUBSET Nat
  <2>1. dsConsumer[c].pos \in Int /\ poll.pos \in Int BY <1>0 DEF DsShapes, DsPollShapes, DsUnset
  <2>2. poll.batch \in Seq(DsRecs) BY <1>0 DEF DsPollShapes
  <2>3. Len(poll.batch) \in Nat /\ \A i \in DOMAIN poll.batch : poll.batch[i] \in DsRecs BY <2>2
  <2>4. DsNamesOf(poll.batch) \in SUBSET Nat BY <2>3, DsShapesAre DEF DsNamesOf, DsRecs
  <2> QED BY <1>0, <2>1, <2>3, <2>4
<1> DEFINE t == dsStreams'[dsConsumer[c].label]
<1>7. /\ DsGiven(t, dsConsumer[c].pos, dsSettled[c])
      /\ poll.phase = "fetch" /\ ~poll.orphan => DsGiven(t, poll.pos, dsSettled[c])
      /\ poll.phase = "invoke" /\ ~poll.orphan =>
           DsGiven(t, poll.pos + Len(poll.batch), dsSettled[c] \cup DsNamesOf(poll.batch))
  <2> HIDE DEF s, t, poll
  <2>1. \A p \in Int, S \in SUBSET Nat : DsGiven(s, p, S) => DsGiven(t, p, S) BY <1>4 DEF s, t
  <2> QED BY <1>0, <1>5, <1>6, <2>1
<1> QED BY <1>7 DEF DsPlaced, DsUntouched

LEMMA DsInitInv == DsInit => DsInv
<1> SUFFICES ASSUME DsInit PROVE DsInv OBVIOUS
<1>1. DsRetentions # {} BY DEF DsInit
<1>2. DsCap \in Nat BY <1>1, DsNumbers
<1>3. 1 \in DsLabels BY DsAssumption DEF DsAssumption, DsLabels
<1>4. DsNoStream \in DsStreamShapes /\ DsAbsent \in DsShapes /\ DsNoPoll \in DsPollShapes /\ DsEnd(DsNoStream) = 0
  BY <1>2, DsAssumption DEF DsAssumption, DsNoStream, DsStreamShapes, DsAbsent, DsShapes, DsNoPoll, DsPollShapes, DsUnset, DsEnd
<1>5. DsShaped BY <1>3, <1>4, DsAssumption DEF DsAssumption, DsInit, DsShaped
<1>6. DsOwned BY DEF DsInit, DsOwned, DsAbsent
<1>7. \A c \in DsConsumers : DsPlaced(c) BY DEF DsInit, DsPlaced
<1> QED BY <1>5, <1>6, <1>7 DEF DsInv

(* The handlers that write and close the stream, and a pass that reads      *)
(* nothing.                                                                 *)
LEMMA DsStreamStepInv ==
  ASSUME DsInv, DsWrite \/ DsDisable \/ DsEnable \/ \E c \in DsConsumers : DsPollNothing(c)
  PROVE  DsInv'
<1>0. /\ DsShaped /\ DsOwned /\ dsTable.label \in DsLabels /\ dsTable \in [label : DsLabels, enabled : BOOLEAN]
      /\ \A l \in DsLabels : dsStreams[l] \in DsStreamShapes
  BY DEF DsInv, DsShaped
<1>1. UNCHANGED <<dsConsumer, dsPoll, dsRetention, dsRestarts, dsSettled, dsFresh>>
  BY DEF DsWrite, DsDisable, DsEnable, DsPollNothing
<1>2. /\ dsTable' \in [label : DsLabels, enabled : BOOLEAN] /\ dsTable.label <= dsTable'.label
      /\ dsTable' = dsTable \/ ~dsTable'.enabled \/ dsTable.label < dsTable'.label
  <2>0. dsTable.label \in 1..DsMaxLabels /\ DsMaxLabels \in Nat BY <1>0, DsShapesAre DEF DsLabels
  <2>1. CASE dsTable' = dsTable BY <1>0, <2>0, <2>1
  <2>2. CASE DsDisable
    <3>1. dsTable' = [label |-> dsTable.label, enabled |-> FALSE] BY <1>0, <2>2 DEF DsDisable
    <3> QED BY <1>0, <2>0, <3>1
  <2>3. CASE DsEnable BY <1>0, <2>0, <2>3 DEF DsEnable, DsLabels
  <2> QED BY <2>1, <2>2, <2>3 DEF DsWrite, DsPollNothing
<1>3. /\ dsStreams' \in [DsLabels -> DsStreamShapes] /\ dsWrites' \in 0..DsMaxWrites
      /\ \A l \in DsLabels : DsEnd(dsStreams'[l]) <= dsWrites' /\ DsGrows(dsStreams[l], dsStreams'[l])
  <2>1. CASE DsWrite
    <3> DEFINE r == [n |-> dsWrites + 1, age |-> 0]
               s == [dsStreams[dsTable.label] EXCEPT !.recs = Append(@, r)]
    <3>1. dsWrites' = dsWrites + 1 /\ dsWrites' \in 0..DsMaxWrites /\ r \in DsRecs /\ dsWrites \in Nat
      BY <1>0, <2>1, DsShapesAre DEF DsWrite, DsShaped, DsRecs
    <3>2. /\ s \in DsStreamShapes /\ DsEnd(s) = DsEnd(dsStreams[dsTable.label]) + 1
          /\ DsGrows(dsStreams[dsTable.label], s)
      BY <1>0, <3>1, DsShapesAre, DsAppendIs
    <3>3. dsStreams' = [dsStreams EXCEPT ![dsTable.label] = DsTrim(s)] BY <2>1 DEF DsWrite
    <3> HIDE DEF s, r
    <3>4. DsTrim(s) \in DsStreamShapes /\ DsEnd(DsTrim(s)) = DsEnd(s) /\ DsGrows(s, DsTrim(s)) BY <3>2, DsTrimIs
    <3>5. dsStreams' \in [DsLabels -> DsStreamShapes] BY <1>0, <3>3, <3>4 DEF DsShaped
    <3>6. \A l \in DsLabels : dsStreams'[l] = IF l = dsTable.label THEN DsTrim(s) ELSE dsStreams[l]
      BY <1>0, <3>3 DEF DsShaped
    <3>a. \A l \in DsLabels : DsEnd(dsStreams[l]) \in Int /\ DsEnd(dsStreams[l]) <= dsWrites
      <4> TAKE l \in DsLabels
      <4>1. dsStreams[l].recs \in Seq(DsRecs) /\ dsStreams[l].trimmed \in Nat BY <1>0 DEF DsStreamShapes
      <4> QED BY <1>0, <4>1 DEF DsEnd, DsShaped
    <3>7. \A l \in DsLabels : DsEnd(dsStreams'[l]) <= dsWrites'
      BY <1>0, <3>1, <3>2, <3>4, <3>6, <3>a
    <3>8. \A l \in DsLabels : DsGrows(dsStreams[l], dsStreams'[l]) BY <3>2, <3>4, <3>6 DEF DsGrows
    <3> QED BY <3>1, <3>5, <3>7, <3>8
  <2>2. CASE UNCHANGED <<dsStreams, dsWrites>> BY <1>0, <2>2 DEF DsShaped, DsGrows
  <2>3. CASE dsStreams' = DsTrimmed /\ dsWrites' = dsWrites BY <1>0, <2>3, DsTrimmedIs DEF DsShaped
  <2> QED BY <2>1, <2>2, <2>3 DEF DsDisable, DsEnable, DsPollNothing
<1>4. DsShaped' BY <1>0, <1>1, <1>2, <1>3 DEF DsShaped
<1>5. DsOwned'
  <2>0. dsTable.label \in Int /\ dsTable'.label \in Int BY <1>0, <1>2, DsShapesAre DEF DsLabels
  <2>1. \A k \in 1..dsTable.label : k \in 1..dsTable'.label BY <1>2, <2>0
  <2> QED BY <1>0, <1>1, <2>1 DEF DsOwned
<1>6. DsMoves BY <1>2, <1>3 DEF DsMoves
<1>7. \A c \in DsConsumers : DsPlaced(c)'
  <2> TAKE c \in DsConsumers
  <2>1. DsUntouched(c) BY <1>1 DEF DsUntouched
  <2> QED BY <1>0, <1>6, <2>1, DsCarried DEF DsInv
<1> QED BY <1>4, <1>5, <1>7 DEF DsInv

(* A step of one consumer: no more than old records go.                     *)
DsSteady ==
  /\ UNCHANGED <<dsTable, dsWrites, dsRetention, dsRestarts>>
  /\ \/ dsStreams' = dsStreams \/ dsStreams' = DsTrimmed
     \/ \E l \in DsLabels : dsStreams' = [dsStreams EXCEPT ![l] = DsTrim(dsStreams[l])]

LEMMA DsSteadyIs ==
  ASSUME DsShaped, DsSteady
  PROVE  /\ dsStreams' \in [DsLabels -> DsStreamShapes] /\ DsMoves
         /\ \A l \in DsLabels : DsEnd(dsStreams'[l]) <= dsWrites
<1>1. CASE dsStreams' = dsStreams BY <1>1 DEF DsShaped, DsMoves, DsSteady, DsGrows
<1>2. CASE dsStreams' = DsTrimmed BY <1>2, DsTrimmedIs DEF DsMoves, DsSteady
<1>3. ASSUME NEW m \in DsLabels, dsStreams' = [dsStreams EXCEPT ![m] = DsTrim(dsStreams[m])]
      PROVE  /\ dsStreams' \in [DsLabels -> DsStreamShapes] /\ DsMoves
             /\ \A l \in DsLabels : DsEnd(dsStreams'[l]) <= dsWrites
  <2>1. /\ DsTrim(dsStreams[m]) \in DsStreamShapes /\ DsEnd(DsTrim(dsStreams[m])) = DsEnd(dsStreams[m])
        /\ DsGrows(dsStreams[m], DsTrim(dsStreams[m]))
    BY DsTrimIs DEF DsShaped
  <2>2. \A l \in DsLabels : dsStreams'[l] = IF l = m THEN DsTrim(dsStreams[m]) ELSE dsStreams[l]
    BY <1>3 DEF DsShaped
  <2>3. dsStreams' \in [DsLabels -> DsStreamShapes] BY <1>3, <2>1 DEF DsShaped
  <2>4. \A l \in DsLabels : DsEnd(dsStreams'[l]) <= dsWrites BY <2>1, <2>2 DEF DsShaped
  <2>5. \A l \in DsLabels : DsGrows(dsStreams[l], dsStreams'[l]) BY <2>1, <2>2 DEF DsGrows
  <2> QED BY <2>3, <2>4, <2>5 DEF DsMoves, DsSteady
<1> QED BY <1>1, <1>2, <1>3 DEF DsSteady

(* What is left to show of such a step.                                     *)
LEMMA DsOneConsumer ==
  ASSUME DsInv, DsSteady, NEW c \in DsConsumers,
         NEW k \in DsShapes, NEW p \in DsPollShapes, NEW S \in SUBSET (1..DsMaxWrites), NEW f \in BOOLEAN,
         dsConsumer' = [dsConsumer EXCEPT ![c] = k], dsPoll' = [dsPoll EXCEPT ![c] = p],
         dsSettled' = [dsSettled EXCEPT ![c] = S], dsFresh' = [dsFresh EXCEPT ![c] = f],
         k.status # "absent" => k.label \in 1..dsTable.label,
         p # DsNoPoll => k.kind \in {"esm", "pipe"} /\ (k.status = "absent" => p.orphan),
         DsPlaced(c)'
  PROVE  DsInv'
<1>0. DsShaped /\ DsOwned BY DEF DsInv
<1>1. DsShaped' BY <1>0, DsSteadyIs DEF DsShaped, DsSteady
<1>2. /\ dsConsumer'[c] = k /\ dsPoll'[c] = p
      /\ \A d \in DsConsumers : d # c => /\ dsConsumer'[d] = dsConsumer[d] /\ dsPoll'[d] = dsPoll[d]
                                         /\ dsSettled'[d] = dsSettled[d] /\ dsFresh'[d] = dsFresh[d]
  BY <1>0 DEF DsShaped
<1>3. DsOwned' BY <1>0, <1>2 DEF DsOwned, DsSteady
<1>4. ASSUME NEW d \in DsConsumers, d # c PROVE DsPlaced(d)'
  <2>1. DsUntouched(d) BY <1>2, <1>4 DEF DsUntouched
  <2> QED BY <1>0, <2>1, DsSteadyIs, DsCarried DEF DsInv
<1> QED BY <1>1, <1>3, <1>4 DEF DsInv

(* The consumer as it was.                                                  *)
LEMMA DsSame ==
  ASSUME DsInv, NEW c \in DsConsumers
  PROVE  /\ dsConsumer[c] \in DsShapes /\ dsPoll[c] \in DsPollShapes
         /\ dsSettled[c] \in SUBSET (1..DsMaxWrites) /\ dsFresh[c] \in BOOLEAN
         /\ dsConsumer = [dsConsumer EXCEPT ![c] = dsConsumer[c]] /\ dsPoll = [dsPoll EXCEPT ![c] = dsPoll[c]]
         /\ dsSettled = [dsSettled EXCEPT ![c] = dsSettled[c]] /\ dsFresh = [dsFresh EXCEPT ![c] = dsFresh[c]]
         /\ dsConsumer[c].status # "absent" => dsConsumer[c].label \in 1..dsTable.label
         /\ dsPoll[c] # DsNoPoll => /\ dsConsumer[c].kind \in {"esm", "pipe"}
                                    /\ dsConsumer[c].status = "absent" => dsPoll[c].orphan
         /\ DsPlaced(c) /\ DsShaped /\ DsOwned
         /\ dsTable.label \in DsLabels /\ \A k \in 1..dsTable.label : k \in DsLabels /\ k \in 0..DsMaxLabels
<1>1. DsShaped /\ DsOwned /\ DsPlaced(c) BY DEF DsInv
<1>2. dsTable.label \in DsLabels /\ \A k \in 1..dsTable.label : k \in DsLabels /\ k \in 0..DsMaxLabels
  BY <1>1, DsShapesAre DEF DsShaped, DsLabels
<1> QED BY <1>1, <1>2 DEF DsShaped, DsOwned

(* A step that hands over nothing.                                          *)
LEMMA DsNoneHandled ==
  ASSUME DsInv, DsSteady, NEW c \in DsConsumers, NEW k \in DsShapes, NEW p \in DsPollShapes,
         dsConsumer' = [dsConsumer EXCEPT ![c] = k], dsPoll' = [dsPoll EXCEPT ![c] = p],
         UNCHANGED <<dsSettled, dsFresh>>,
         k.status # "absent" => k.label \in 1..dsTable.label,
         p # DsNoPoll => k.kind \in {"esm", "pipe"} /\ (k.status = "absent" => p.orphan),
         DsPlaced(c)'
  PROVE  DsInv'
<1>1. /\ dsSettled[c] \in SUBSET (1..DsMaxWrites) /\ dsFresh[c] \in BOOLEAN
      /\ dsSettled' = [dsSettled EXCEPT ![c] = dsSettled[c]] /\ dsFresh' = [dsFresh EXCEPT ![c] = dsFresh[c]]
  BY DsSame
<1> QED BY <1>1, DsOneConsumer

LEMMA DsSubscribeInv ==
  ASSUME DsInv, NEW c \in DsConsumers, NEW kind \in DsKinds, NEW start \in DsStarts,
         NEW maxage \in DsRecordAges, DsSubscribe(c, kind, start, maxage)
  PROVE  DsInv'
<1> DEFINE s == DsLive(DsTrimmed)
           pos == DsStartAt(s, start)
           k == [kind |-> kind, status |-> "running", label |-> dsTable.label, pos |-> pos,
                 maxage |-> maxage, backoff |-> 0]
           S == DsBefore(s, pos)
<1>0. /\ dsConsumer[c].status = "absent" /\ dsTable.enabled /\ kind # "reader" /\ dsStreams' = DsTrimmed
      /\ dsConsumer[c].kind \in {"none"} \cup (IF kind = "pipe" THEN {"pipe"} ELSE {})
      /\ dsConsumer' = [dsConsumer EXCEPT ![c] = k] /\ dsSettled' = [dsSettled EXCEPT ![c] = S]
      /\ dsFresh' = [dsFresh EXCEPT ![c] = TRUE]
      /\ UNCHANGED <<dsTable, dsWrites, dsPoll, dsRetention, dsRestarts>>
  BY DEF DsSubscribe
<1>1. /\ dsPoll[c] \in DsPollShapes /\ dsPoll = [dsPoll EXCEPT ![c] = dsPoll[c]]
      /\ dsPoll[c] # DsNoPoll => dsConsumer[c].kind \in {"esm", "pipe"} /\ dsPoll[c].orphan
      /\ DsShaped /\ dsTable.label \in DsLabels /\ dsTable.label \in 1..dsTable.label /\ dsTable.label \in 0..DsMaxLabels
  <2>1. dsTable.label \in 1..DsMaxLabels /\ DsMaxLabels \in Nat BY DsSame, DsShapesAre DEF DsLabels
  <2>2. dsTable.label \in 1..dsTable.label /\ dsTable.label \in 0..DsMaxLabels BY <2>1
  <2> QED BY <1>0, <2>2, DsSame
<1>2. /\ s \in DsStreamShapes /\ s = DsTrimmed[dsTable.label] BY <1>0, <1>1, DsTrimmedIs
<1> HIDE DEF s
<1>3. /\ s.recs \in Seq(DsRecs) /\ s.trimmed \in Nat /\ Len(s.recs) \in Nat
      /\ pos \in {s.trimmed, s.trimmed + Len(s.recs)}
  BY <1>2 DEF DsStreamShapes, DsStartAt, DsEnd
<1>4. pos \in Nat /\ pos - s.trimmed \in 0..Len(s.recs) /\ s.trimmed + (pos - s.trimmed) = pos BY <1>3
<1> HIDE DEF pos
<1>5. S \in SUBSET (1..DsMaxWrites) /\ DsGiven(s, pos, S)
  BY <1>1, <1>2, <1>4, DsShapesAre, DsBeforeIs DEF DsBefore
<1> HIDE DEF S
<1>6. k \in DsShapes
  BY <1>0, <1>1, <1>4, DsAssumption DEF DsAssumption, DsShapes
<1>7. DsSteady BY <1>0 DEF DsSteady
<1>8. k.status = "running" /\ k.label \in 1..dsTable.label /\ k.kind = kind BY <1>1
<1>9. dsPoll[c] # DsNoPoll => kind \in {"esm", "pipe"} BY <1>0, <1>1
<1>10. DsPlaced(c)'
  <2>1. dsConsumer'[c] = k /\ dsSettled'[c] = S /\ dsPoll'[c] = dsPoll[c] /\ dsStreams'[k.label] = s
    BY <1>0, <1>1, <1>2 DEF DsShaped
  <2>2. dsPoll[c].phase = "idle" \/ dsPoll[c].orphan BY <1>1 DEF DsNoPoll
  <2> QED BY <1>5, <2>1, <2>2 DEF DsPlaced
<1> HIDE DEF k
<1> QED BY <1>0, <1>1, <1>5, <1>6, <1>7, <1>8, <1>9, <1>10, DsOneConsumer

LEMMA DsToggleInv ==
  ASSUME DsInv, NEW c \in DsConsumers, DsToggle(c) \/ DsUnsubscribe(c)
  PROVE  DsInv'
<1>0. DsSteady BY DEF DsToggle, DsUnsubscribe, DsSteady
<1>1. CASE DsToggle(c)
  <2> DEFINE k == [dsConsumer[c] EXCEPT !.status = IF @ = "running" THEN "stopped" ELSE "running"]
  <2>1. /\ dsConsumer' = [dsConsumer EXCEPT ![c] = k] /\ dsConsumer[c].status # "absent"
        /\ UNCHANGED <<dsStreams, dsPoll, dsSettled, dsFresh>>
    BY <1>1 DEF DsToggle
  <2>2. /\ k \in DsShapes /\ k.status # "absent" /\ k.kind = dsConsumer[c].kind /\ k.label = dsConsumer[c].label
        /\ k.pos = dsConsumer[c].pos
    BY DsSame DEF DsShapes
  <2> HIDE DEF k
  <2>3. dsConsumer'[c] = k BY <2>1, DsSame DEF DsShaped
  <2>4. DsUntouched(c) BY <2>1, <2>2, <2>3 DEF DsUntouched
  <2>5. DsPlaced(c)' BY <1>0, <2>4, DsSame, DsSteadyIs, DsCarried
  <2>6. /\ dsPoll[c] \in DsPollShapes /\ dsPoll' = [dsPoll EXCEPT ![c] = dsPoll[c]]
        /\ k.label \in 1..dsTable.label /\ (dsPoll[c] # DsNoPoll => k.kind \in {"esm", "pipe"})
    BY <2>1, <2>2, DsSame
  <2> QED BY <1>0, <2>1, <2>2, <2>5, <2>6, DsNoneHandled
<1>2. CASE DsUnsubscribe(c)
  <2> DEFINE k == [dsConsumer[c] EXCEPT !.status = "absent", !.pos = DsUnset, !.backoff = 0]
             p == [dsPoll[c] EXCEPT !.orphan = (dsPoll[c] # DsNoPoll)]
  <2>1. /\ dsConsumer' = [dsConsumer EXCEPT ![c] = k] /\ dsPoll' = [dsPoll EXCEPT ![c] = p]
        /\ UNCHANGED <<dsSettled, dsFresh>>
    BY ZenonT(60), <1>2, DsSame DEF DsUnsubscribe, DsShapes, DsShaped
  <2>2. /\ k \in DsShapes /\ k.status = "absent" /\ k.kind = dsConsumer[c].kind
    BY DsSame DEF DsShapes
  <2>3. p \in DsPollShapes BY DsSame DEF DsPollShapes
  <2>4. dsPoll[c] # DsNoPoll => p.orphan
    BY DsSame DEF DsPollShapes
  <2>5. dsPoll[c] = DsNoPoll => p = DsNoPoll
    <3> SUFFICES ASSUME dsPoll[c] = DsNoPoll PROVE p = DsNoPoll OBVIOUS
    <3>1. (dsPoll[c] # DsNoPoll) = FALSE OBVIOUS
    <3>2. p = [phase |-> dsPoll[c].phase, pos |-> dsPoll[c].pos, end |-> dsPoll[c].end,
               batch |-> dsPoll[c].batch, orphan |-> (dsPoll[c] # DsNoPoll)]
      BY DsSame DEF DsPollShapes
    <3> HIDE DEF p
    <3>a. dsPoll[c].phase = "idle" /\ dsPoll[c].pos = 0 /\ dsPoll[c].end = 0 /\ dsPoll[c].batch = <<>>
      BY DEF DsNoPoll
    <3>3. p = [phase |-> "idle", pos |-> 0, end |-> 0, batch |-> <<>>, orphan |-> FALSE]
      BY <3>1, <3>2, <3>a, Zenon
    <3> QED BY <3>3 DEF DsNoPoll
  <2> HIDE DEF k, p
  <2>6. dsConsumer'[c] = k BY <2>1, DsSame DEF DsShaped
  <2>7. DsPlaced(c)' BY <2>2, <2>6 DEF DsPlaced, DsFollows
  <2>8. p # DsNoPoll => k.kind \in {"esm", "pipe"} /\ p.orphan BY <2>2, <2>4, <2>5, DsSame
  <2> QED BY <1>0, <2>1, <2>2, <2>3, <2>7, <2>8, DsNoneHandled
<1> QED BY <1>1, <1>2

LEMMA DsPollStartInv ==
  ASSUME DsInv, NEW c \in DsConsumers, DsPollStart(c)
  PROVE  DsInv'
<1> DEFINE s == DsLive(DsTrimmed)
           pos == IF dsConsumer[c].pos > s.trimmed THEN dsConsumer[c].pos ELSE s.trimmed
           k == IF dsConsumer[c].kind = "esm" THEN [dsConsumer[c] EXCEPT !.pos = pos] ELSE dsConsumer[c]
           p == [DsNoPoll EXCEPT !.phase = "fetch", !.pos = pos, !.end = DsEnd(s)]
<1>0. /\ dsConsumer[c].status = "running" /\ dsConsumer[c].kind \in {"esm", "pipe"}
      /\ dsStreams' = DsTrimmed /\ dsPoll' = [dsPoll EXCEPT ![c] = p]
      /\ UNCHANGED <<dsTable, dsWrites, dsRetention, dsRestarts, dsSettled, dsFresh>>
      /\ IF dsConsumer[c].kind = "esm" THEN DsEnd(s) # s.trimmed ELSE pos < DsEnd(s)
      /\ dsConsumer' = IF dsConsumer[c].kind = "esm"
                       THEN [dsConsumer EXCEPT ![c].pos = pos] ELSE dsConsumer
  BY DEF DsPollStart, DsPolled
<1>1. /\ DsShaped /\ dsConsumer[c] \in DsShapes /\ dsConsumer[c].label \in 1..dsTable.label /\ DsNoPoll \in DsPollShapes
      /\ dsConsumer = [dsConsumer EXCEPT ![c] = dsConsumer[c]] /\ DsPlaced(c)
      /\ dsTable.label \in DsLabels /\ dsSettled[c] \in SUBSET Nat
      /\ dsConsumer[c].pos \in Int
  BY <1>0, DsSame, DsShapesAre DEF DsShapes, DsUnset
<1>2. dsConsumer' = [dsConsumer EXCEPT ![c] = k] BY <1>0, <1>1 DEF DsShapes, DsShaped
<1>3. /\ s \in DsStreamShapes /\ (dsTable.enabled => s = DsTrimmed[dsTable.label]) BY <1>1, DsTrimmedIs
<1> HIDE DEF s
<1>4. /\ s.recs \in Seq(DsRecs) /\ s.trimmed \in Nat /\ Len(s.recs) \in Nat /\ DsEnd(s) \in Nat
      /\ DsEnd(s) = s.trimmed + Len(s.recs) /\ DOMAIN s.recs = 1..Len(s.recs)
  BY <1>3 DEF DsStreamShapes, DsEnd
<1>5. pos \in Nat /\ (pos = s.trimmed \/ (pos = dsConsumer[c].pos /\ pos > s.trimmed)) BY <1>1, <1>4
<1> HIDE DEF pos
<1>6. /\ k \in DsShapes /\ k.status = dsConsumer[c].status /\ k.kind = dsConsumer[c].kind
      /\ k.label = dsConsumer[c].label /\ k.pos \in {dsConsumer[c].pos, pos}
  BY <1>1, <1>5 DEF DsShapes
<1>7. p \in DsPollShapes /\ p.phase = "fetch" /\ p.pos = pos
  BY <1>1, <1>4, <1>5 DEF DsPollShapes, DsNoPoll
<1> HIDE DEF k, p
<1>8. DsSteady BY <1>0 DEF DsSteady
<1>9. DsPlaced(c)'
  <2>1. dsConsumer'[c] = k /\ dsPoll'[c] = p /\ dsSettled'[c] = dsSettled[c] /\ dsFresh'[c] = dsFresh[c]
    BY <1>0, <1>1, <1>2 DEF DsShaped
  <2> SUFFICES ASSUME DsFollows(c)', dsFresh[c]
               PROVE  /\ DsGiven(dsStreams'[dsConsumer[c].label], k.pos, dsSettled[c])
                      /\ DsGiven(dsStreams'[dsConsumer[c].label], pos, dsSettled[c])
    BY <1>6, <1>7, <2>1 DEF DsPlaced
  <2>2. dsTable.enabled /\ dsConsumer[c].label = dsTable.label /\ DsFollows(c)
    BY <1>0, <1>6, <2>1 DEF DsFollows
  <2>3. s = dsStreams'[dsConsumer[c].label] BY <1>0, <1>3, <2>2
  <2>4. DsGiven(s, dsConsumer[c].pos, dsSettled[c])
    <3>1. DsGiven(dsStreams[dsTable.label], dsConsumer[c].pos, dsSettled[c]) BY <1>1, <2>2 DEF DsPlaced
    <3>2. DsGrows(dsStreams[dsTable.label], s) BY <1>1, <1>3, <2>2, DsTrimmedIs
    <3> QED BY <1>1, <3>1, <3>2 DEF DsGrows
  <2>5. DsGiven(s, pos, dsSettled[c])
    <3>1. CASE pos = s.trimmed
      <4>1. pos <= DsEnd(s) BY <1>4, <3>1
      <4>2. \A j \in DOMAIN s.recs : ~(s.trimmed + j <= pos) BY <1>4, <3>1
      <4> QED BY <4>1, <4>2 DEF DsGiven
    <3> QED BY <1>5, <2>4, <3>1
  <2> QED BY <1>6, <2>3, <2>4, <2>5
<1>10. /\ k.label \in 1..dsTable.label /\ k.kind \in {"esm", "pipe"} /\ k.status # "absent"
  BY <1>0, <1>1, <1>6
<1> QED BY <1>0, <1>2, <1>6, <1>7, <1>8, <1>9, <1>10, DsNoneHandled

LEMMA DsFetchInv ==
  ASSUME DsInv, NEW c \in DsConsumers, DsFetch(c)
  PROVE  DsInv'
<1> DEFINE s == DsLive(DsTrimmed)
           limit == IF dsConsumer[c].kind = "esm" THEN DsBatchSize ELSE dsPoll[c].end - dsPoll[c].pos
           b == DsFrom(s, dsPoll[c].pos, limit)
           p == IF b = <<>> THEN DsNoPoll ELSE [dsPoll[c] EXCEPT !.phase = "invoke", !.batch = b]
<1>0. /\ dsPoll[c].phase = "fetch" /\ dsStreams' = DsTrimmed /\ dsPoll' = [dsPoll EXCEPT ![c] = p]
      /\ UNCHANGED <<dsTable, dsWrites, dsConsumer, dsRetention, dsRestarts, dsSettled, dsFresh>>
  BY DEF DsFetch
<1>1. /\ DsShaped /\ dsConsumer[c] \in DsShapes /\ dsPoll[c] \in DsPollShapes /\ DsNoPoll \in DsPollShapes
      /\ dsConsumer = [dsConsumer EXCEPT ![c] = dsConsumer[c]] /\ DsPlaced(c)
      /\ dsTable.label \in DsLabels /\ dsSettled[c] \in SUBSET Nat
      /\ dsConsumer[c].status # "absent" => dsConsumer[c].label \in 1..dsTable.label
      /\ dsPoll[c] # DsNoPoll => /\ dsConsumer[c].kind \in {"esm", "pipe"}
                                 /\ dsConsumer[c].status = "absent" => dsPoll[c].orphan
  BY DsSame, DsShapesAre
<1>2. /\ dsPoll[c].pos \in Nat /\ limit \in Int /\ dsPoll[c] # DsNoPoll /\ dsConsumer[c].pos \in Int
  BY SMTT(30), <1>0, <1>1, DsShapesAre DEF DsPollShapes, DsNoPoll, DsShapes, DsUnset
<1>3. /\ s \in DsStreamShapes /\ (dsTable.enabled => s = DsTrimmed[dsTable.label]) BY <1>1, DsTrimmedIs
<1> HIDE DEF s, limit
<1>4. /\ b \in Seq(DsRecs)
      /\ \A S \in SUBSET Nat :
           DsGiven(s, dsPoll[c].pos, S) => DsGiven(s, dsPoll[c].pos + Len(b), S \cup DsNamesOf(b))
  BY <1>1, <1>2, <1>3, DsShapesAre, DsFromIs
<1> HIDE DEF b
<1>5. /\ p \in DsPollShapes /\ p.phase # "fetch"
      /\ p.phase = "invoke" => p.batch = b /\ p.pos = dsPoll[c].pos
      /\ p.phase = "invoke" /\ ~p.orphan => ~dsPoll[c].orphan
      /\ p # DsNoPoll => p.orphan = dsPoll[c].orphan
  <2>1. CASE b = <<>> BY <1>1, <2>1 DEF DsNoPoll
  <2>2. CASE b # <<>>
    <3>1. p = [phase |-> "invoke", pos |-> dsPoll[c].pos, end |-> dsPoll[c].end, batch |-> b,
               orphan |-> dsPoll[c].orphan]
      BY <1>1, <2>2 DEF DsPollShapes
    <3> HIDE DEF p
    <3>2. p \in DsPollShapes BY <1>1, <1>4, <3>1 DEF DsPollShapes
    <3> QED BY <3>1, <3>2
  <2> QED BY <2>1, <2>2
<1> HIDE DEF p
<1>6. DsSteady BY <1>0 DEF DsSteady
<1>7. DsPlaced(c)'
  <2>1. dsPoll'[c] = p BY <1>0, <1>1 DEF DsShaped
  <2> SUFFICES ASSUME DsFollows(c)', dsFresh[c]
               PROVE  /\ DsGiven(dsStreams'[dsConsumer[c].label], dsConsumer[c].pos, dsSettled[c])
                      /\ ~dsPoll[c].orphan =>
                           DsGiven(dsStreams'[dsConsumer[c].label], dsPoll[c].pos + Len(b),
                                   dsSettled[c] \cup DsNamesOf(b))
    BY <1>0, <1>5, <2>1 DEF DsPlaced
  <2>2. DsFollows(c) /\ dsConsumer[c].label \in DsLabels BY <1>0, DsSame DEF DsFollows
  <2>3. DsGrows(dsStreams[dsConsumer[c].label], dsStreams'[dsConsumer[c].label])
    BY <1>0, <1>1, <2>2, DsTrimmedIs
  <2>4. DsGiven(dsStreams'[dsConsumer[c].label], dsConsumer[c].pos, dsSettled[c])
    BY <1>1, <1>2, <2>2, <2>3 DEF DsPlaced, DsGrows
  <2>5. ASSUME ~dsPoll[c].orphan
        PROVE  DsGiven(dsStreams'[dsConsumer[c].label], dsPoll[c].pos + Len(b), dsSettled[c] \cup DsNamesOf(b))
    <3>1. dsConsumer[c].kind # "reader" BY <1>1, <1>2
    <3>2. dsTable.enabled /\ dsConsumer[c].label = dsTable.label BY <2>2, <3>1 DEF DsFollows
    <3>3. s = dsStreams'[dsConsumer[c].label] BY <1>0, <1>3, <3>2
    <3>4. DsGiven(dsStreams[dsConsumer[c].label], dsPoll[c].pos, dsSettled[c])
      BY <1>0, <1>1, <2>2, <2>5 DEF DsPlaced
    <3>5. DsGiven(s, dsPoll[c].pos, dsSettled[c]) BY <1>1, <1>2, <2>3, <3>3, <3>4 DEF DsGrows
    <3> QED BY <1>1, <1>4, <3>3, <3>5
  <2> QED BY <2>4, <2>5
<1>8. p # DsNoPoll => dsConsumer[c].kind \in {"esm", "pipe"} /\ (dsConsumer[c].status = "absent" => p.orphan)
  BY <1>1, <1>2, <1>5
<1>9. dsConsumer' = [dsConsumer EXCEPT ![c] = dsConsumer[c]] /\ UNCHANGED <<dsSettled, dsFresh>> BY <1>0, <1>1
<1> QED BY <1>0, <1>1, <1>5, <1>6, <1>7, <1>8, <1>9, DsNoneHandled

(* The end of a poll that moves the position.                               *)
LEMMA DsAdvanceInv ==
  ASSUME DsInv, NEW c \in DsConsumers, DsFinished(c), DsAdvance(c)
  PROVE  DsInv'
<1> DEFINE k == [dsConsumer[c] EXCEPT !.pos = dsPoll[c].pos + Len(dsPoll[c].batch), !.backoff = 0]
           S == dsSettled[c] \cup DsNamesOf(dsPoll[c].batch)
           f == dsFresh[c] /\ ~dsPoll[c].orphan
<1>1. /\ DsShaped /\ dsConsumer[c] \in DsShapes /\ dsPoll[c] \in DsPollShapes /\ DsNoPoll \in DsPollShapes
      /\ dsSettled[c] \in SUBSET (1..DsMaxWrites) /\ DsPlaced(c) /\ dsFresh[c] \in BOOLEAN
      /\ dsConsumer[c].status # "absent" => dsConsumer[c].label \in 1..dsTable.label
  BY DsSame, DsShapesAre
<1>0. /\ dsPoll[c].phase = "invoke" /\ dsPoll' = [dsPoll EXCEPT ![c] = DsNoPoll]
      /\ UNCHANGED <<dsTable, dsStreams, dsWrites, dsRetention, dsRestarts>>
      /\ dsConsumer' = [dsConsumer EXCEPT ![c] = k] /\ dsSettled' = [dsSettled EXCEPT ![c] = S]
  BY <1>1 DEF DsFinished, DsAdvance, DsShaped, DsShapes
<1>a. dsFresh' = [dsFresh EXCEPT ![c] = f]
  BY <1>1 DEF DsAdvance, DsShaped
<1>2. /\ dsPoll[c].pos \in Nat /\ Len(dsPoll[c].batch) \in Nat /\ dsPoll[c].pos + Len(dsPoll[c].batch) \in Nat
      /\ DsNamesOf(dsPoll[c].batch) \in SUBSET (1..DsMaxWrites)
  <2>1. dsPoll[c].batch \in Seq(DsRecs) /\ dsPoll[c].pos \in Nat BY <1>1 DEF DsPollShapes
  <2>2. Len(dsPoll[c].batch) \in Nat /\ \A i \in DOMAIN dsPoll[c].batch : dsPoll[c].batch[i] \in DsRecs BY <2>1
  <2> QED BY <2>1, <2>2 DEF DsNamesOf, DsRecs
<1>3. /\ k \in DsShapes /\ k.status = dsConsumer[c].status /\ k.kind = dsConsumer[c].kind
      /\ k.label = dsConsumer[c].label /\ k.pos = dsPoll[c].pos + Len(dsPoll[c].batch)
  BY <1>1, <1>2 DEF DsShapes
<1>4. S \in SUBSET (1..DsMaxWrites) BY <1>1, <1>2
<1>5. f \in BOOLEAN /\ (f => dsFresh[c] /\ ~dsPoll[c].orphan) OBVIOUS
<1> HIDE DEF k, f
<1>6. DsSteady BY <1>0 DEF DsSteady
<1>7. DsPlaced(c)'
  <2>1. dsConsumer'[c] = k /\ dsPoll'[c] = DsNoPoll /\ dsSettled'[c] = S /\ dsFresh'[c] = f
    BY <1>0, <1>1, <1>a DEF DsShaped
  <2>2. DsNoPoll.phase = "idle" /\ dsStreams' = dsStreams BY <1>0 DEF DsNoPoll
  <2> SUFFICES ASSUME DsFollows(c)', dsFresh'[c] PROVE DsGiven(dsStreams'[dsConsumer'[c].label], dsConsumer'[c].pos, S)
    <3> HIDE DEF S
    <3> QED BY <2>1, <2>2 DEF DsPlaced
  <2>3. DsFollows(c) /\ dsFresh[c] /\ ~dsPoll[c].orphan BY <1>0, <1>3, <1>5, <2>1 DEF DsFollows
  <2>4. DsGiven(dsStreams[dsConsumer[c].label], k.pos, S) BY <1>0, <1>1, <1>3, <2>3 DEF DsPlaced
  <2> QED BY <1>3, <2>1, <2>2, <2>4
<1> HIDE DEF S
<1> QED BY <1>0, <1>1, <1>a, <1>3, <1>4, <1>5, <1>6, <1>7, DsOneConsumer

LEMMA DsFailedInv ==
  ASSUME DsInv, NEW c \in DsConsumers, DsFailed(c)
  PROVE  DsInv'
<1> DEFINE k == IF dsConsumer[c].kind = "esm" THEN [dsConsumer[c] EXCEPT !.backoff = 1] ELSE dsConsumer[c]
<1>1. /\ DsShaped /\ dsConsumer[c] \in DsShapes /\ DsNoPoll \in DsPollShapes
      /\ dsConsumer = [dsConsumer EXCEPT ![c] = dsConsumer[c]]
      /\ dsConsumer[c].status # "absent" => dsConsumer[c].label \in 1..dsTable.label
  BY DsSame, DsShapesAre
<1>0. /\ dsPoll' = [dsPoll EXCEPT ![c] = DsNoPoll] /\ dsConsumer' = [dsConsumer EXCEPT ![c] = k]
      /\ UNCHANGED <<dsTable, dsStreams, dsWrites, dsRetention, dsRestarts, dsSettled, dsFresh>>
  BY <1>1 DEF DsFinished, DsFailed, DsShaped, DsShapes
<1>2. /\ k \in DsShapes /\ k.status = dsConsumer[c].status /\ k.kind = dsConsumer[c].kind
      /\ k.label = dsConsumer[c].label /\ k.pos = dsConsumer[c].pos
  BY <1>1 DEF DsShapes
<1> HIDE DEF k
<1>3. DsSteady BY <1>0 DEF DsSteady
<1>4. dsConsumer'[c] = k /\ dsPoll'[c] = DsNoPoll BY <1>0, <1>1 DEF DsShaped
<1>5. DsUntouched(c) BY <1>0, <1>2, <1>4 DEF DsUntouched, DsNoPoll
<1>6. DsPlaced(c)' BY <1>3, <1>5, DsSame, DsSteadyIs, DsCarried
<1> QED BY <1>0, <1>1, <1>2, <1>3, <1>6, DsNoneHandled

LEMMA DsGetShardIteratorInv ==
  ASSUME DsInv, NEW c \in DsConsumers, NEW label \in DsLabels, NEW skip \in 0..DsMaxWrites,
         DsGetShardIterator(c, label, skip)
  PROVE  DsInv'
<1> DEFINE s == DsTrim(dsStreams[label])
           k == [DsAbsent EXCEPT !.kind = "reader", !.status = "running", !.label = label,
                                 !.pos = s.trimmed + skip]
           S == DsNamesOf(SubSeq(s.recs, 1, skip))
<1>0. /\ dsConsumer[c].kind \in {"none", "reader"} /\ label <= dsTable.label /\ skip <= Len(s.recs)
      /\ dsStreams' = [dsStreams EXCEPT ![label] = s] /\ dsConsumer' = [dsConsumer EXCEPT ![c] = k]
      /\ dsSettled' = [dsSettled EXCEPT ![c] = S] /\ dsFresh' = [dsFresh EXCEPT ![c] = TRUE]
      /\ UNCHANGED <<dsTable, dsWrites, dsPoll, dsRetention, dsRestarts>>
  BY DEF DsGetShardIterator
<1>1. /\ DsShaped /\ dsPoll[c] \in DsPollShapes /\ dsPoll = [dsPoll EXCEPT ![c] = dsPoll[c]]
      /\ dsPoll[c] = DsNoPoll /\ DsMaxWrites \in Nat /\ label \in 1..dsTable.label /\ label \in 0..DsMaxLabels
  <2>1. label \in 1..DsMaxLabels /\ dsTable.label \in 1..DsMaxLabels /\ DsMaxLabels \in Nat
    BY DsSame, DsShapesAre DEF DsLabels
  <2>2. label \in 1..dsTable.label /\ label \in 0..DsMaxLabels BY <1>0, <2>1
  <2> QED BY <1>0, <2>2, DsSame, DsShapesAre
<1>2. DsSteady BY <1>0 DEF DsSteady
<1>3. s \in DsStreamShapes BY <1>1, DsTrimIs DEF DsShaped
<1> HIDE DEF s
<1>4. s.recs \in Seq(DsRecs) /\ s.trimmed \in Nat /\ Len(s.recs) \in Nat BY <1>3 DEF DsStreamShapes
<1>5. skip \in 0..Len(s.recs) /\ s.trimmed + skip \in Nat BY <1>0, <1>1, <1>4
<1>6. S \in SUBSET (1..DsMaxWrites) /\ DsGiven(s, s.trimmed + skip, S) BY <1>1, <1>3, <1>5, DsBeforeIs
<1> HIDE DEF S
<1>7. DsAbsent \in DsShapes BY <1>1, DsShapesAre
<1>8. k \in DsShapes /\ k.status = "running" /\ k.label = label /\ k.pos = s.trimmed + skip
  BY <1>1, <1>5, <1>7 DEF DsShapes
<1> HIDE DEF k
<1>9. DsPlaced(c)'
  <2>1. dsConsumer'[c] = k /\ dsSettled'[c] = S /\ dsPoll'[c] = DsNoPoll /\ dsStreams'[k.label] = s
    BY <1>0, <1>1, <1>8 DEF DsShaped
  <2>2. DsNoPoll.phase = "idle" BY DEF DsNoPoll
  <2> QED BY <1>6, <1>8, <2>1, <2>2 DEF DsPlaced
<1> QED BY <1>0, <1>1, <1>2, <1>6, <1>8, <1>9, DsOneConsumer

LEMMA DsGetRecordsInv ==
  ASSUME DsInv, NEW c \in DsConsumers, DsGetRecords(c)
  PROVE  DsInv'
<1> DEFINE label == dsConsumer[c].label
           s == DsTrim(dsStreams[label])
           page == DsFrom(s, dsConsumer[c].pos, DsBatchSize)
           next == dsConsumer[c].pos + Len(page)
           ends == (~dsTable.enabled \/ dsTable.label # label) /\ next >= DsEnd(s)
           k == [dsConsumer[c] EXCEPT !.pos = next, !.status = IF ends THEN "absent" ELSE @]
           S == dsSettled[c] \cup DsNamesOf(page)
<1>0. /\ dsConsumer[c].kind = "reader" /\ dsConsumer[c].status = "running"
      /\ dsStreams' = [dsStreams EXCEPT ![label] = s]
      /\ UNCHANGED <<dsTable, dsWrites, dsPoll, dsRetention, dsRestarts, dsFresh>>
  BY DEF DsGetRecords
<1>1. /\ DsShaped /\ dsConsumer[c] \in DsShapes /\ dsPoll[c] \in DsPollShapes /\ dsPoll = [dsPoll EXCEPT ![c] = dsPoll[c]]
      /\ dsPoll[c] = DsNoPoll /\ label \in 1..dsTable.label /\ label \in DsLabels /\ DsPlaced(c)
      /\ dsSettled[c] \in SUBSET (1..DsMaxWrites) /\ dsFresh[c] \in BOOLEAN
      /\ dsFresh = [dsFresh EXCEPT ![c] = dsFresh[c]]
      /\ dsConsumer = [dsConsumer EXCEPT ![c] = dsConsumer[c]]
      /\ DsMaxWrites \in Nat /\ DsBatchSize \in Int
  BY <1>0, DsSame, DsShapesAre
<1>2. DsSteady BY <1>0, <1>1 DEF DsSteady
<1>3. CASE dsConsumer[c].pos < s.trimmed
  <2>1. UNCHANGED <<dsConsumer, dsSettled>> BY <1>3 DEF DsGetRecords
  <2>2. DsUntouched(c) BY <1>0, <2>1 DEF DsUntouched
  <2>3. DsPlaced(c)' BY <1>2, <2>2, DsSame, DsSteadyIs, DsCarried
  <2> QED BY <1>0, <1>1, <1>2, <2>1, <2>3, DsNoneHandled
<1>4. CASE ~(dsConsumer[c].pos < s.trimmed)
  <2>a. /\ dsConsumer' = [dsConsumer EXCEPT ![c].pos = next, ![c].status = IF ends THEN "absent" ELSE @]
        /\ dsSettled' = [dsSettled EXCEPT ![c] = S]
    BY <1>4 DEF DsGetRecords
  <2>0. /\ dsConsumer' = [dsConsumer EXCEPT ![c] = k] /\ dsSettled' = [dsSettled EXCEPT ![c] = S]
    <3> HIDE DEF s, page, next, ends, S
    <3> QED BY ZenonT(60), <1>1, <2>a DEF DsShaped, DsShapes
  <2>1. s \in DsStreamShapes /\ DsGrows(dsStreams[label], s) BY <1>1, DsTrimIs DEF DsShaped
  <2>2. dsConsumer[c].pos \in Nat
    <3>1. s.trimmed \in Nat /\ dsConsumer[c].pos \in Int BY <1>1, <2>1 DEF DsStreamShapes, DsShapes, DsUnset
    <3> QED BY <1>4, <3>1
  <2> HIDE DEF s
  <2>3. /\ page \in Seq(DsRecs) /\ DsNamesOf(page) \in SUBSET (1..DsMaxWrites)
        /\ \A T \in SUBSET Nat :
             DsGiven(s, dsConsumer[c].pos, T) => DsGiven(s, next, T \cup DsNamesOf(page))
    <3> HIDE DEF k, S, ends
    <3> QED BY <1>1, <2>1, <2>2, DsFromIs
  <2> HIDE DEF page
  <2>4. next \in Nat /\ S \in SUBSET (1..DsMaxWrites) /\ dsSettled[c] \in SUBSET Nat
    <3>1. Len(page) \in Nat BY <2>3
    <3> QED BY <1>1, <2>2, <2>3, <3>1
  <2> HIDE DEF next, ends
  <2>5. /\ k \in DsShapes /\ k.kind = "reader" /\ k.label = label /\ k.pos = next
    BY <1>0, <1>1, <2>4 DEF DsShapes
  <2> HIDE DEF k
  <2>6. dsConsumer'[c] = k /\ dsPoll'[c] = DsNoPoll /\ dsSettled'[c] = S /\ dsFresh'[c] = dsFresh[c]
        /\ dsStreams'[label] = s
    BY <1>0, <1>1, <2>0 DEF DsShaped
  <2>7. dsFresh[c] => DsGiven(s, next, S)
    <3>1. DsFollows(c) BY <1>0 DEF DsFollows
    <3>2. dsFresh[c] => DsGiven(dsStreams[label], dsConsumer[c].pos, dsSettled[c]) BY <1>1, <3>1 DEF DsPlaced
    <3>3. dsFresh[c] => DsGiven(s, dsConsumer[c].pos, dsSettled[c]) BY <2>1, <2>2, <2>4, <3>2 DEF DsGrows
    <3> QED BY <2>3, <2>4, <3>3
  <2>8. DsPlaced(c)'
    <3>1. DsNoPoll.phase = "idle" BY DEF DsNoPoll
    <3> HIDE DEF S, label
    <3> QED BY <2>5, <2>6, <2>7, <3>1 DEF DsPlaced
  <2>9. dsFresh' = [dsFresh EXCEPT ![c] = dsFresh[c]] /\ dsPoll' = [dsPoll EXCEPT ![c] = DsNoPoll]
        /\ DsNoPoll \in DsPollShapes /\ k.label \in 1..dsTable.label
    BY <1>0, <1>1, <2>5
  <2> HIDE DEF S
  <2> QED BY <1>1, <1>2, <2>0, <2>4, <2>5, <2>8, <2>9, DsOneConsumer
<1> QED BY <1>3, <1>4

(* The records and their count go together: no position counts any more.    *)
LEMMA DsRestartInv == DsInv /\ DsRestart => DsInv'
<1> SUFFICES ASSUME DsInv, DsRestart PROVE DsInv' OBVIOUS
<1> DEFINE k(c) == [dsConsumer[c] EXCEPT !.backoff = 0,
                      !.status = IF dsConsumer[c].kind = "reader"
                                    /\ (dsConsumer[c].label # dsTable.label \/ ~dsTable.enabled)
                                 THEN "absent" ELSE @]
<1>0. DsShaped /\ DsOwned BY DEF DsInv
<1>1. /\ dsConsumer' = [c \in DsConsumers |-> k(c)] /\ dsPoll' = [c \in DsConsumers |-> DsNoPoll]
      /\ dsStreams' = [l \in DsLabels |-> DsNoStream] /\ dsFresh' = [c \in DsConsumers |-> FALSE]
      /\ dsRestarts < DsMaxRestarts /\ dsRestarts' = dsRestarts + 1
      /\ UNCHANGED <<dsTable, dsWrites, dsRetention, dsSettled>>
  BY DEF DsRestart
<1>2. \A c \in DsConsumers : /\ k(c) \in DsShapes /\ k(c).label = dsConsumer[c].label
                             /\ k(c).status # "absent" => dsConsumer[c].status # "absent"
  BY ZenonT(60), <1>0 DEF DsShaped, DsShapes
<1> HIDE DEF k
<1>3. DsEnd(DsNoStream) = 0 BY DEF DsEnd, DsNoStream
<1>4. DsShaped' BY <1>0, <1>1, <1>2, <1>3, DsShapesAre, DsAssumption DEF DsAssumption, DsShaped
<1>5. DsOwned' BY <1>0, <1>1, <1>2 DEF DsOwned
<1>6. \A c \in DsConsumers : DsPlaced(c)' BY <1>1 DEF DsPlaced
<1> QED BY <1>4, <1>5, <1>6 DEF DsInv

LEMMA DsTickInv == DsInv /\ DsTick => DsInv'
<1> SUFFICES ASSUME DsInv, DsTick PROVE DsInv' OBVIOUS
<1> DEFINE t(l) == [dsStreams[l] EXCEPT !.recs = DsOlderAll(@)]
           p(c) == [dsPoll[c] EXCEPT !.batch = DsOlderAll(@)]
           k(c) == [dsConsumer[c] EXCEPT !.backoff = IF @ > 0 THEN @ - 1 ELSE @]
<1>0. DsShaped /\ DsOwned /\ DsCap \in Nat /\ DsMaxWrites \in Nat BY DsShapesAre DEF DsInv
<1>1. /\ dsStreams' = [l \in DsLabels |-> t(l)] /\ dsPoll' = [c \in DsConsumers |-> p(c)]
      /\ dsConsumer' = [c \in DsConsumers |-> k(c)]
      /\ UNCHANGED <<dsTable, dsWrites, dsRetention, dsRestarts, dsSettled, dsFresh>>
  BY DEF DsTick
<1>2. ASSUME NEW l \in DsLabels
      PROVE  t(l) \in DsStreamShapes /\ DsEnd(t(l)) = DsEnd(dsStreams[l]) /\ DsGrows(dsStreams[l], t(l))
  <2> DEFINE recs == dsStreams[l].recs
             older == DsOlderAll(recs)
  <2>1. recs \in Seq(DsRecs) /\ dsStreams[l].trimmed \in Nat /\ dsStreams[l] \in DsStreamShapes
    BY <1>0 DEF DsShaped, DsStreamShapes
  <2>2. t(l) = [recs |-> older, trimmed |-> dsStreams[l].trimmed] BY <2>1 DEF DsStreamShapes
  <2>3. /\ older \in Seq(DsRecs) /\ Len(older) = Len(recs) /\ DOMAIN older = DOMAIN recs
        /\ \A i \in DOMAIN recs : older[i].n = recs[i].n
    BY <1>0, <2>1, DsOlderIs
  <2> HIDE DEF t, older
  <2>4. t(l) \in DsStreamShapes /\ DsEnd(t(l)) = DsEnd(dsStreams[l])
    BY <2>1, <2>2, <2>3 DEF DsStreamShapes, DsEnd
  <2>5. DsGrows(dsStreams[l], t(l)) BY <2>2, <2>3, <2>4 DEF DsGrows, DsGiven
  <2> QED BY <2>4, <2>5
<1>3. ASSUME NEW c \in DsConsumers
      PROVE  /\ p(c) \in DsPollShapes /\ p(c).phase = dsPoll[c].phase /\ p(c).pos = dsPoll[c].pos
             /\ p(c).orphan = dsPoll[c].orphan /\ Len(p(c).batch) = Len(dsPoll[c].batch)
             /\ DsNamesOf(p(c).batch) = DsNamesOf(dsPoll[c].batch)
             /\ dsPoll[c] = DsNoPoll => p(c) = DsNoPoll
  <2>1. dsPoll[c] \in DsPollShapes /\ dsPoll[c].batch \in Seq(DsRecs) BY <1>0 DEF DsShaped, DsPollShapes
  <2> DEFINE older == DsOlderAll(dsPoll[c].batch)
  <2>2. /\ older \in Seq(DsRecs) /\ Len(older) = Len(dsPoll[c].batch)
        /\ DsNamesOf(older) = DsNamesOf(dsPoll[c].batch)
    BY <1>0, <2>1, DsOlderIs
  <2>3. p(c) = [phase |-> dsPoll[c].phase, pos |-> dsPoll[c].pos, end |-> dsPoll[c].end, batch |-> older,
                orphan |-> dsPoll[c].orphan]
    BY <2>1 DEF DsPollShapes
  <2> HIDE DEF p, older
  <2>4. p(c) \in DsPollShapes BY <2>1, <2>2, <2>3 DEF DsPollShapes
  <2>5. ASSUME dsPoll[c] = DsNoPoll PROVE p(c) = DsNoPoll
    <3>1. older = <<>>
      <4>1. Len(older) = 0 BY <2>2, <2>5 DEF DsNoPoll
      <4> QED BY <2>2, <4>1
    <3> QED BY <2>3, <2>5, <3>1 DEF DsNoPoll
  <2> QED BY <2>2, <2>3, <2>4, <2>5
<1>4. \A c \in DsConsumers :
        /\ k(c) \in DsShapes /\ k(c).kind = dsConsumer[c].kind /\ k(c).status = dsConsumer[c].status
        /\ k(c).label = dsConsumer[c].label /\ k(c).pos = dsConsumer[c].pos
  BY <1>0 DEF DsShaped, DsShapes
<1> HIDE DEF t, p, k
<1>5. DsShaped' BY <1>0, <1>1, <1>2, <1>3, <1>4 DEF DsShaped
<1>6. DsOwned' BY <1>0, <1>1, <1>3, <1>4 DEF DsOwned
<1>7. DsMoves BY <1>1, <1>2 DEF DsMoves
<1>8. \A c \in DsConsumers : DsPlaced(c)'
  <2> TAKE c \in DsConsumers
  <2>1. DsUntouched(c) BY <1>1, <1>3, <1>4 DEF DsUntouched
  <2> QED BY <1>0, <1>7, <2>1, DsCarried DEF DsInv
<1> QED BY <1>5, <1>6, <1>8 DEF DsInv

LEMMA DsInvStep == DsInv /\ [DsNext]_dsVars => DsInv'
<1> SUFFICES ASSUME DsInv, [DsNext]_dsVars PROVE DsInv' OBVIOUS
<1>1. ASSUME NEW c \in DsConsumers,
             \/ \E kind \in DsKinds, start \in DsStarts, maxage \in DsRecordAges :
                  DsSubscribe(c, kind, start, maxage)
             \/ DsToggle(c) \/ DsUnsubscribe(c) \/ DsPollStart(c) \/ DsFetch(c)
             \/ \E label \in DsLabels, skip \in 0..DsMaxWrites : DsGetShardIterator(c, label, skip)
             \/ DsGetRecords(c)
      PROVE  DsInv'
  BY <1>1, DsSubscribeInv, DsToggleInv, DsPollStartInv, DsFetchInv, DsGetShardIteratorInv, DsGetRecordsInv
<1>2. ASSUME NEW c \in DsConsumers, DsHandled(c) \/ DsDiscarded(c) \/ DsFailed(c) PROVE DsInv'
  BY <1>2, DsAdvanceInv, DsFailedInv DEF DsHandled, DsDiscarded
<1>3. CASE DsWrite \/ DsDisable \/ DsEnable \/ \E c \in DsConsumers : DsPollNothing(c)
  BY <1>3, DsStreamStepInv
<1>4. CASE DsRestart \/ DsTick BY <1>4, DsRestartInv, DsTickInv
<1>5. CASE UNCHANGED dsVars
  BY <1>5 DEF dsVars, DsInv, DsShaped, DsOwned, DsPlaced, DsFollows
<1> QED BY <1>1, <1>2, <1>3, <1>4, <1>5 DEF DsNext, DsPass

LEMMA DsInvMeans == DsInv => DsTypeOK /\ DsNeverAhead /\ DsNothingSkipped
<1> SUFFICES ASSUME DsInv PROVE DsTypeOK /\ DsNeverAhead /\ DsNothingSkipped OBVIOUS
<1>0. DsShaped /\ DsMaxWrites \in Nat BY DsShapesAre DEF DsInv
<1>1. DsTypeOK
  <2>1. ASSUME NEW l \in DsLabels
        PROVE  dsStreams[l].trimmed \in 0..DsMaxWrites /\ dsStreams[l].recs \in Seq(DsRecs)
    <3>1. dsStreams[l].recs \in Seq(DsRecs) /\ dsStreams[l].trimmed \in Nat
      BY <1>0 DEF DsShaped, DsStreamShapes
    <3>2. Len(dsStreams[l].recs) \in Nat BY <3>1
    <3> QED BY <1>0, <3>1, <3>2 DEF DsShaped, DsEnd
  <2>2. \A c \in DsConsumers : dsPoll[c].phase \in {"idle", "fetch", "invoke"}
    BY <1>0 DEF DsShaped, DsPollShapes
  <2> QED BY <1>0, <2>1, <2>2 DEF DsTypeOK, DsShaped, DsRecs, DsShapes
<1>2. DsNeverAhead BY DEF DsInv, DsPlaced, DsNeverAhead, DsGiven
<1>3. DsNothingSkipped BY DEF DsInv, DsPlaced, DsNothingSkipped, DsPassed, DsGiven
<1> QED BY <1>1, <1>2, <1>3

-----------------------------------------------------------------------------
(* A mapping over the shards of a Kinesis stream.                           *)

(* The shapes of what the invariant speaks of.                              *)
KsRecs == [n : 1..KsMaxPuts, age : 0..KsCap]
KsShardShapes == [made : BOOLEAN, open : BOOLEAN, recs : Seq(KsRecs)]
KsPositions == 0..KsMaxPuts \cup {KsNone}
KsMappings == [status : {"absent", "running", "stopped"}, start : {"TRIM_HORIZON", "LATEST"},
               anchored : BOOLEAN, pos : [KsShardIds -> KsPositions], backoff : {0, 1}]
KsPasses == [phase : {"idle", "scan", "invoke"}, todo : SUBSET KsShardIds,
             shard : KsShardIds \cup {KsNone}, pos : Nat, batch : Seq(KsRecs)]
KsShaped ==
  /\ ksShards \in [KsShardIds -> KsShardShapes] /\ ksPuts \in 0..KsMaxPuts
  /\ \A s \in KsShardIds : Len(ksShards[s].recs) <= ksPuts
  /\ ksMapping \in KsMappings /\ ksPass \in KsPasses /\ ksRetention \in KsRetentions
  /\ ksSettled \in SUBSET (1..KsMaxPuts) /\ ksShifted \in SUBSET KsShardIds

(* A pass visits open shards.  A shard that was never made has no position, *)
(* and one that a function works for has one, in the list's bounds.         *)
KsOwned ==
  /\ ksPass.todo \subseteq KsOpen
  /\ \A s \in KsShardIds : (ksShards[s].open => ksShards[s].made)
                           /\ (~ksShards[s].made => ksMapping.pos[s] = KsNone)
  /\ ksPass.phase = "invoke" => /\ ksPass.shard \in KsShardIds /\ ksMapping.pos[ksPass.shard] # KsNone
                                /\ ksPass.pos + Len(ksPass.batch) <= KsMaxPuts

(* Position p lies in the list, and what is before it is in S.              *)
KsGiven(recs, p, S) == p <= Len(recs) /\ \A j \in DOMAIN recs : j <= p => recs[j].n \in S

(* The position of a shard, and the one that the batch at work will leave.  *)
KsPlaced(s) ==
  ksShards[s].open /\ s \notin ksShifted /\ ksMapping.pos[s] # KsNone =>
    /\ KsGiven(ksShards[s].recs, ksMapping.pos[s], ksSettled)
    /\ ksPass.phase = "invoke" /\ ksPass.shard = s =>
         KsGiven(ksShards[s].recs, ksPass.pos + Len(ksPass.batch), ksSettled \cup KsRecordsOf(ksPass.batch))

KsInv == KsShaped /\ KsOwned /\ \A s \in KsShardIds : KsPlaced(s)

LEMMA KsNumbers ==
  ASSUME KsRetentions # {}
  PROVE  KsCap \in Nat
<1>1. KsRetentions \in SUBSET Nat /\ KsRetentions \in SUBSET Int /\ IsFiniteSet(KsRetentions)
  BY KsAssumption DEF KsAssumption
<1>2. \E x \in KsRetentions : \A y \in KsRetentions : y <= x BY <1>1, GreatestIs
<1>3. (CHOOSE m \in KsRetentions : \A x \in KsRetentions : x <= m) \in KsRetentions BY <1>2
<1>4. (CHOOSE m \in KsRetentions : \A x \in KsRetentions : x <= m) \in Nat BY <1>1, <1>3
<1> QED BY <1>4 DEF KsCap

LEMMA KsConstants ==
  ASSUME KsCap \in Nat
  PROVE  /\ KsMaxPuts \in Nat /\ KsBatchSize \in Nat \ {0} /\ KsNone = -1
         /\ KsIdle \in KsPasses /\ KsIdle.todo = {} /\ KsIdle.phase = "idle"
         /\ KsNoShard \in KsShardShapes /\ Len(KsNoShard.recs) = 0 /\ KsNoMapping \in KsMappings
BY KsAssumption DEF KsAssumption, KsNone, KsIdle, KsPasses, KsNoShard, KsShardShapes, KsNoMapping, KsMappings,
   KsUnanchored, KsPositions

LEMMA KsRecordsAre ==
  ASSUME NEW recs \in Seq(KsRecs)
  PROVE  KsRecordsOf(recs) \in SUBSET (1..KsMaxPuts)
<1>1. \A i \in DOMAIN recs : recs[i] \in KsRecs OBVIOUS
<1> QED BY <1>1 DEF KsRecordsOf, KsRecs

(* What expiry leaves of a list.                                            *)
LEMMA KsKeptIs ==
  ASSUME NEW recs \in Seq(KsRecs)
  PROVE  KsKept(recs) \in Seq(KsRecs) /\ Len(KsKept(recs)) <= Len(recs)
<1> DEFINE K == {i \in DOMAIN recs : ksRetention = 0 \/ recs[i].age <= ksRetention}
<1>1. K \in SUBSET DOMAIN recs /\ DOMAIN recs = 1..Len(recs) /\ Len(recs) \in Nat OBVIOUS
<1>2. KsKept(recs) = Picked(recs, K) BY DEF KsKept
<1> HIDE DEF K
<1> QED BY <1>1, <1>2, PickedIs, PickedShorter

(* The first positions of a list hold what is before them.                  *)
LEMMA KsBeforeIs ==
  ASSUME NEW recs \in Seq(KsRecs), NEW k \in 0..Len(recs)
  PROVE  KsGiven(recs, k, KsRecordsOf(SubSeq(recs, 1, k))) /\ SubSeq(recs, 1, k) \in Seq(KsRecs)
<1> DEFINE t == SubSeq(recs, 1, k)
<1>1. Len(recs) \in Nat /\ k \in Int /\ k <= Len(recs) /\ DOMAIN recs = 1..Len(recs) /\ 1 \in Nat \ {0} OBVIOUS
<1>2. /\ t \in Seq(KsRecs)
      /\ \A j \in DOMAIN recs : 1 <= j /\ j <= k => j - 1 + 1 \in DOMAIN t /\ t[j - 1 + 1] = recs[j]
  BY <1>1, PartIs
<1> HIDE DEF t
<1>3. ASSUME NEW j \in DOMAIN recs, j <= k PROVE recs[j].n \in KsRecordsOf(t)
  <2>1. j \in Nat \ {0} /\ j - 1 + 1 = j BY <1>1
  <2>2. j \in DOMAIN t /\ t[j] = recs[j] BY <1>2, <1>3, <2>1
  <2> QED BY <2>2 DEF KsRecordsOf
<1> QED BY <1>1, <1>2, <1>3 DEF t, KsGiven

(* A batch read at a position.                                              *)
LEMMA KsBatchIs ==
  ASSUME NEW recs \in Seq(KsRecs), NEW pos \in Nat, NEW last \in Int, last <= Len(recs)
  PROVE  LET b == SubSeq(recs, pos + 1, last)
         IN  /\ b \in Seq(KsRecs) /\ Len(b) \in Nat
             /\ b # <<>> => pos + Len(b) <= Len(recs)
             /\ \A S \in SUBSET Nat : b # <<>> /\ KsGiven(recs, pos, S)
                                        => KsGiven(recs, pos + Len(b), S \cup KsRecordsOf(b))
<1> DEFINE b == SubSeq(recs, pos + 1, last)
<1>1. Len(recs) \in Nat /\ DOMAIN recs = 1..Len(recs) /\ pos + 1 \in Nat \ {0} OBVIOUS
<1>2. /\ b \in Seq(KsRecs)
      /\ Len(b) = IF pos + 1 <= last THEN last - (pos + 1) + 1 ELSE 0
      /\ \A j \in DOMAIN recs : pos + 1 <= j /\ j <= last =>
           j - (pos + 1) + 1 \in DOMAIN b /\ b[j - (pos + 1) + 1] = recs[j]
  BY SMTT(30), <1>1, PartIs
<1> HIDE DEF b
<1>3. Len(b) \in Nat BY <1>2
<1>4. ASSUME b # <<>> PROVE pos + Len(b) = last
  <2>1. Len(b) # 0 BY <1>2, <1>4
  <2> QED BY <1>2, <2>1
<1>5. ASSUME NEW S \in SUBSET Nat, b # <<>>, KsGiven(recs, pos, S)
      PROVE  KsGiven(recs, pos + Len(b), S \cup KsRecordsOf(b))
  <2>1. ASSUME NEW j \in DOMAIN recs, j <= last PROVE recs[j].n \in S \cup KsRecordsOf(b)
    <3>1. j \in Nat BY <1>1
    <3>2. CASE j <= pos BY <1>5, <3>2 DEF KsGiven
    <3>3. CASE ~(j <= pos)
      <4>1. pos + 1 <= j BY <3>1, <3>3
      <4>2. j - (pos + 1) + 1 \in DOMAIN b /\ b[j - (pos + 1) + 1] = recs[j] BY <1>2, <2>1, <4>1
      <4> QED BY <4>2 DEF KsRecordsOf
    <3> QED BY <3>2, <3>3
  <2> QED BY <1>4, <1>5, <2>1 DEF KsGiven
<1> QED BY <1>2, <1>3, <1>4, <1>5 DEF b

LEMMA KsOlderIs ==
  ASSUME NEW recs \in Seq(KsRecs), KsCap \in Nat
  PROVE  /\ KsOlder(recs) \in Seq(KsRecs) /\ Len(KsOlder(recs)) = Len(recs)
         /\ \A p \in Int, S \in SUBSET Nat : KsGiven(recs, p, S) => KsGiven(KsOlder(recs), p, S)
<1> DEFINE o(r) == [r EXCEPT !.age = IF @ < KsCap THEN @ + 1 ELSE @]
           older == KsOlder(recs)
<1>1. Len(recs) \in Nat /\ DOMAIN recs = 1..Len(recs) /\ \A i \in DOMAIN recs : recs[i] \in KsRecs OBVIOUS
<1>2. \A r \in KsRecs : o(r) \in KsRecs /\ o(r).n = r.n BY DEF KsRecs
<1>3. older = [i \in 1..Len(recs) |-> o(recs[i])] BY <1>1 DEF KsOlder
<1> HIDE DEF older, o
<1>4. older \in [1..Len(recs) -> KsRecs] /\ \A i \in DOMAIN recs : older[i].n = recs[i].n BY <1>1, <1>2, <1>3
<1>5. older \in Seq(KsRecs) /\ Len(older) = Len(recs) /\ DOMAIN older = DOMAIN recs BY <1>1, <1>4
<1>6. ASSUME NEW p \in Int, NEW S \in SUBSET Nat, KsGiven(recs, p, S) PROVE KsGiven(older, p, S) BY <1>4, <1>5, <1>6 DEF KsGiven
<1> QED BY <1>5, <1>6 DEF older

LEMMA KsShapesAre ==
  ASSUME KsInv
  PROVE  /\ KsShaped /\ KsOwned /\ KsCap \in Nat /\ KsMaxPuts \in Nat /\ ksPuts \in Nat /\ ksPuts <= KsMaxPuts
         /\ \A s \in KsShardIds : /\ ksShards[s] \in KsShardShapes /\ ksShards[s].recs \in Seq(KsRecs)
                                  /\ Len(ksShards[s].recs) \in Nat /\ Len(ksShards[s].recs) <= ksPuts
                                  /\ ksMapping.pos[s] \in KsPositions /\ KsPlaced(s)
                                  /\ ksShards[s].open \in BOOLEAN /\ ksShards[s].made \in BOOLEAN
         /\ \A p \in KsPositions : p \in Int /\ (p # KsNone => p \in Nat /\ p \in 0..KsMaxPuts)
         /\ ksPass.pos \in Nat /\ ksPass.batch \in Seq(KsRecs) /\ Len(ksPass.batch) \in Nat
         /\ ksPass.pos + Len(ksPass.batch) \in Nat
         /\ KsRecordsOf(ksPass.batch) \in SUBSET (1..KsMaxPuts) /\ ksSettled \in SUBSET (1..KsMaxPuts)
         /\ \A S \in SUBSET (1..KsMaxPuts) : S \in SUBSET Nat
<1>1. KsShaped /\ KsOwned BY DEF KsInv
<1>2. KsCap \in Nat /\ KsMaxPuts \in Nat BY <1>1, KsNumbers, KsConstants DEF KsShaped
<1>3. ASSUME NEW s \in KsShardIds
      PROVE  /\ ksShards[s] \in KsShardShapes /\ ksShards[s].recs \in Seq(KsRecs)
             /\ Len(ksShards[s].recs) \in Nat /\ Len(ksShards[s].recs) <= ksPuts
             /\ ksMapping.pos[s] \in KsPositions /\ KsPlaced(s)
             /\ ksShards[s].open \in BOOLEAN /\ ksShards[s].made \in BOOLEAN
  <2>1. ksShards[s] \in KsShardShapes BY <1>1 DEF KsShaped
  <2>2. ksShards[s].recs \in Seq(KsRecs) BY <2>1 DEF KsShardShapes
  <2>3. Len(ksShards[s].recs) \in Nat BY <2>2
  <2>4. ksMapping.pos \in [KsShardIds -> KsPositions] BY <1>1 DEF KsShaped, KsMappings
  <2> QED BY <1>1, <2>1, <2>2, <2>3, <2>4 DEF KsInv, KsShaped, KsShardShapes
<1>4. ksPass.pos \in Nat /\ ksPass.batch \in Seq(KsRecs) BY <1>1 DEF KsShaped, KsPasses
<1>5. Len(ksPass.batch) \in Nat BY <1>4
<1>6. KsRecordsOf(ksPass.batch) \in SUBSET (1..KsMaxPuts) BY <1>4, KsRecordsAre
<1>7. \A p \in KsPositions : p \in Int /\ (p # KsNone => p \in Nat /\ p \in 0..KsMaxPuts)
  BY <1>2 DEF KsPositions, KsNone
<1>8. ksPuts \in Nat /\ ksPuts <= KsMaxPuts /\ ksSettled \in SUBSET (1..KsMaxPuts) BY <1>1, <1>2 DEF KsShaped
<1>9. \A S \in SUBSET (1..KsMaxPuts) : S \in SUBSET Nat BY <1>2
<1>10. ksPass.pos + Len(ksPass.batch) \in Nat BY <1>4, <1>5
<1> QED BY <1>1, <1>2, <1>3, <1>4, <1>5, <1>6, <1>7, <1>8, <1>9, <1>10

(* A step that leaves a shard's position alone; what is given stays given.  *)
KsUntouched(s) ==
  /\ ksShards'[s].open => ksShards[s].open
  /\ ksMapping'.pos[s] = ksMapping.pos[s] /\ ksShifted \subseteq ksShifted' /\ ksSettled \subseteq ksSettled'
  /\ ksShards'[s].open /\ s \notin ksShifted' /\ ksMapping.pos[s] # KsNone =>
       \A p \in Int, S \in SUBSET Nat : KsGiven(ksShards[s].recs, p, S) => KsGiven(ksShards'[s].recs, p, S)
  /\ ksPass'.phase = "invoke" /\ ksPass'.shard = s =>
       /\ ksPass.phase = "invoke" /\ ksPass.shard = s
       /\ ksPass'.pos = ksPass.pos /\ ksPass'.batch = ksPass.batch

LEMMA KsCarried ==
  ASSUME KsInv, NEW s \in KsShardIds, KsUntouched(s)
  PROVE  KsPlaced(s)'
<1> SUFFICES ASSUME ksShards'[s].open, s \notin ksShifted', ksMapping'.pos[s] # KsNone
             PROVE  /\ KsGiven(ksShards'[s].recs, ksMapping'.pos[s], ksSettled')
                    /\ ksPass'.phase = "invoke" /\ ksPass'.shard = s =>
                         KsGiven(ksShards'[s].recs, ksPass'.pos + Len(ksPass'.batch),
                                 ksSettled' \cup KsRecordsOf(ksPass'.batch))
  BY DEF KsPlaced
<1>1. /\ KsPlaced(s) /\ ksMapping.pos[s] \in Int /\ ksPass.pos + Len(ksPass.batch) \in Int
      /\ ksSettled \in SUBSET Nat /\ ksSettled \cup KsRecordsOf(ksPass.batch) \in SUBSET Nat
  BY KsShapesAre
<1>2. /\ ksShards[s].open /\ s \notin ksShifted /\ ksMapping.pos[s] # KsNone /\ ksMapping'.pos[s] = ksMapping.pos[s]
      /\ ksSettled \subseteq ksSettled'
      /\ \A p \in Int, S \in SUBSET Nat : KsGiven(ksShards[s].recs, p, S) => KsGiven(ksShards'[s].recs, p, S)
  BY DEF KsUntouched
<1>3. KsGiven(ksShards'[s].recs, ksMapping.pos[s], ksSettled) BY <1>1, <1>2 DEF KsPlaced
<1>4. KsGiven(ksShards'[s].recs, ksMapping'.pos[s], ksSettled') BY <1>2, <1>3 DEF KsGiven
<1>5. ASSUME ksPass'.phase = "invoke", ksPass'.shard = s
      PROVE  KsGiven(ksShards'[s].recs, ksPass'.pos + Len(ksPass'.batch), ksSettled' \cup KsRecordsOf(ksPass'.batch))
  <2>1. /\ ksPass.phase = "invoke" /\ ksPass.shard = s /\ ksPass'.pos = ksPass.pos /\ ksPass'.batch = ksPass.batch
    BY <1>5 DEF KsUntouched
  <2>2. KsGiven(ksShards'[s].recs, ksPass.pos + Len(ksPass.batch), ksSettled \cup KsRecordsOf(ksPass.batch))
    BY <1>1, <1>2, <2>1 DEF KsPlaced
  <2> QED BY <1>2, <2>1, <2>2 DEF KsGiven
<1> QED BY <1>4, <1>5

LEMMA KsInitInv == KsInit => KsInv
<1> SUFFICES ASSUME KsInit PROVE KsInv OBVIOUS
<1>1. KsCap \in Nat BY KsNumbers DEF KsInit
<1>2. \A s \in KsShardIds : /\ ksShards[s] = [made |-> s = 0, open |-> s = 0, recs |-> <<>>]
                            /\ ksMapping.pos[s] = KsNone
  BY DEF KsInit, KsNoShard, KsNoMapping, KsUnanchored
<1>3. \A s \in KsShardIds : ksShards[s] \in KsShardShapes /\ Len(ksShards[s].recs) = 0
                            /\ ksShards[s].open = ksShards[s].made
  <2> TAKE s \in KsShardIds
  <2>1. CASE s = 0
    <3>1. (s = 0) = TRUE BY <2>1
    <3>2. ksShards[s] = [made |-> TRUE, open |-> TRUE, recs |-> <<>>] BY <1>2, <3>1, Zenon
    <3> QED BY <3>2 DEF KsShardShapes
  <2>2. CASE s # 0
    <3>1. (s = 0) = FALSE BY <2>2
    <3>2. ksShards[s] = [made |-> FALSE, open |-> FALSE, recs |-> <<>>] BY <1>2, <3>1, Zenon
    <3> QED BY <3>2 DEF KsShardShapes
  <2> QED BY <2>1, <2>2
<1>4. ksShards \in [KsShardIds -> KsShardShapes]
  <2>1. ksShards = [s \in KsShardIds |-> ksShards[s]] BY DEF KsInit
  <2> QED BY <1>3, <2>1
<1>5. KsShaped
  <2>1. /\ KsMaxPuts \in Nat /\ ksMapping \in KsMappings /\ ksPass \in KsPasses /\ ksPuts = 0
        /\ ksRetention \in KsRetentions /\ ksSettled = {} /\ ksShifted = {}
    BY <1>1, KsConstants DEF KsInit
  <2> QED BY <1>3, <1>4, <2>1 DEF KsShaped
<1>6. KsOwned BY <1>1, <1>2, <1>3, KsConstants DEF KsInit, KsOwned
<1>7. \A s \in KsShardIds : KsPlaced(s) BY <1>2 DEF KsPlaced
<1> QED BY <1>5, <1>6, <1>7 DEF KsInv

(* A put and the calls that only expire: the lists are swept, and one may   *)
(* get a record.                                                            *)
LEMMA KsSweepInv ==
  ASSUME KsInv, KsExpire \/ \E s \in KsShardIds : KsPut(s)
  PROVE  KsInv'
<1> DEFINE kept(x) == KsKept(ksShards[x].recs)
           r == [n |-> ksPuts + 1, age |-> 0]
<1>0. /\ ksShifted' = ksShifted \cup KsShortened
      /\ UNCHANGED <<ksMapping, ksPass, ksRetention, ksRestarts, ksSettled>>
  BY DEF KsExpire, KsPut
<1>1. \A x \in KsShardIds : kept(x) \in Seq(KsRecs) /\ Len(kept(x)) \in Nat /\ Len(kept(x)) <= ksPuts
  <2> TAKE x \in KsShardIds
  <2>1. kept(x) \in Seq(KsRecs) /\ Len(kept(x)) <= Len(ksShards[x].recs) BY KsShapesAre, KsKeptIs
  <2>2. Len(kept(x)) \in Nat BY <2>1
  <2> QED BY <2>1, <2>2, KsShapesAre
<1> HIDE DEF kept
<1>2. /\ ksPuts' \in 0..KsMaxPuts /\ ksPuts <= ksPuts' /\ ksShards' \in [KsShardIds -> KsShardShapes]
      /\ \A x \in KsShardIds :
           /\ ksShards'[x].open = ksShards[x].open /\ ksShards'[x].made = ksShards[x].made
           /\ \/ ksShards'[x].recs = kept(x)
              \/ ksShards'[x].recs = Append(kept(x), r) /\ ksPuts' = ksPuts + 1 /\ r \in KsRecs
  <2> DEFINE swept(x) == [ksShards[x] EXCEPT !.recs = kept(x)]
  <2>1. KsSwept(ksShards) = [x \in KsShardIds |-> swept(x)] BY DEF KsSwept, kept
  <2>2. \A x \in KsShardIds : /\ swept(x) \in KsShardShapes /\ swept(x).recs = kept(x)
                              /\ swept(x).open = ksShards[x].open /\ swept(x).made = ksShards[x].made
    BY <1>1, KsShapesAre DEF KsShardShapes
  <2> HIDE DEF swept
  <2>3. CASE KsExpire
    <3>1. ksShards' = [x \in KsShardIds |-> swept(x)] /\ ksPuts' = ksPuts BY <2>1, <2>3 DEF KsExpire
    <3> QED BY <2>2, <3>1, KsShapesAre
  <2>4. ASSUME NEW s \in KsShardIds, KsPut(s)
        PROVE  /\ ksPuts' \in 0..KsMaxPuts /\ ksPuts <= ksPuts' /\ ksShards' \in [KsShardIds -> KsShardShapes]
               /\ \A x \in KsShardIds :
                    /\ ksShards'[x].open = ksShards[x].open /\ ksShards'[x].made = ksShards[x].made
                    /\ \/ ksShards'[x].recs = kept(x)
                       \/ ksShards'[x].recs = Append(kept(x), r) /\ ksPuts' = ksPuts + 1 /\ r \in KsRecs
    <3> DEFINE put == [swept(s) EXCEPT !.recs = Append(kept(s), r)]
    <3>1. ksPuts' = ksPuts + 1 /\ ksPuts' \in 0..KsMaxPuts /\ r \in KsRecs /\ ksPuts <= ksPuts'
      BY <2>4, KsShapesAre DEF KsPut, KsRecs
    <3>2. Append(kept(s), r) \in Seq(KsRecs) BY <1>1, <3>1
    <3> HIDE DEF r
    <3>3. put \in KsShardShapes /\ put.recs = Append(kept(s), r) /\ put.open = ksShards[s].open
          /\ put.made = ksShards[s].made
      BY <2>2, <3>2 DEF KsShardShapes
    <3>4. ksShards' = [[x \in KsShardIds |-> swept(x)] EXCEPT ![s] = put]
      <4>1. ksShards' = [KsSwept(ksShards) EXCEPT ![s].recs = Append(@, r)] BY <2>4 DEF KsPut, r
      <4>2. [x \in KsShardIds |-> swept(x)][s] = swept(s) OBVIOUS
      <4> QED BY <2>1, <2>2, <4>1, <4>2
    <3> HIDE DEF put
    <3>5. \A x \in KsShardIds : ksShards'[x] = IF x = s THEN put ELSE swept(x) BY <3>4
    <3>6. ksShards' \in [KsShardIds -> KsShardShapes] BY <2>2, <3>3, <3>4
    <3> QED BY <2>2, <3>1, <3>3, <3>5, <3>6
  <2> QED BY <2>3, <2>4
<1> HIDE DEF r
<1>3. \A x \in KsShardIds : Len(ksShards'[x].recs) <= ksPuts'
  <2> TAKE x \in KsShardIds
  <2>1. kept(x) \in Seq(KsRecs) /\ Len(kept(x)) \in Nat /\ Len(kept(x)) <= ksPuts BY <1>1
  <2>2. Len(Append(kept(x), r)) = Len(kept(x)) + 1 BY <2>1
  <2> QED BY <1>2, <2>1, <2>2, KsShapesAre
<1>4. KsShaped' BY <1>0, <1>2, <1>3, KsShapesAre DEF KsShaped, KsShortened, KsOpen
<1>5. KsOwned' BY <1>0, <1>2, KsShapesAre DEF KsOwned, KsOpen
<1>6. ASSUME NEW x \in KsShardIds PROVE KsPlaced(x)'
  <2>1. ASSUME ksShards'[x].open, x \notin ksShifted', ksMapping.pos[x] # KsNone,
               NEW p \in Int, NEW S \in SUBSET Nat, KsGiven(ksShards[x].recs, p, S)
        PROVE  KsGiven(ksShards'[x].recs, p, S)
    <3>1. kept(x) = ksShards[x].recs BY <1>0, <1>2, <2>1 DEF KsShortened, KsOpen, kept
    <3>2. CASE ksShards'[x].recs = kept(x) BY <2>1, <3>1, <3>2
    <3>3. CASE ksShards'[x].recs = Append(kept(x), r)
      <4> DEFINE recs == kept(x)
      <4>1. recs \in Seq(KsRecs) /\ Len(recs) \in Nat BY <1>1
      <4> HIDE DEF recs
      <4>2. /\ DOMAIN recs = 1..Len(recs) /\ DOMAIN Append(recs, r) = 1..Len(recs) + 1
            /\ Len(Append(recs, r)) = Len(recs) + 1 /\ \A j \in DOMAIN recs : Append(recs, r)[j] = recs[j]
        BY <4>1
      <4>3. KsGiven(recs, p, S) BY <2>1, <3>1 DEF recs
      <4>4. ASSUME NEW j \in DOMAIN Append(recs, r), j <= p PROVE Append(recs, r)[j].n \in S
        <5>1. j \in DOMAIN recs BY <4>1, <4>2, <4>3, <4>4 DEF KsGiven
        <5> QED BY <4>2, <4>3, <4>4, <5>1 DEF KsGiven
      <4>5. KsGiven(Append(recs, r), p, S) BY <4>1, <4>2, <4>3, <4>4 DEF KsGiven
      <4> QED BY <3>3, <4>5 DEF recs
    <3> QED BY <1>2, <3>2, <3>3
  <2>2. KsUntouched(x) BY <1>0, <1>2, <2>1 DEF KsUntouched
  <2> QED BY <2>2, KsCarried
<1> QED BY <1>4, <1>5, <1>6 DEF KsInv

(* A new shard has no position yet, and one that is replaced none that      *)
(* counts.                                                                  *)
LEMMA KsReshardInv ==
  ASSUME KsInv, NEW old \in SUBSET KsOpen, NEW new \in SUBSET KsShardIds, KsReshard(old, new)
  PROVE  KsInv'
<1>0. /\ \A s \in new : ~ksShards[s].made
      /\ ksPass' = (IF ksPass.phase = "scan" THEN KsIdle ELSE [ksPass EXCEPT !.todo = {}])
      /\ UNCHANGED <<ksPuts, ksMapping, ksRetention, ksRestarts, ksSettled, ksShifted>>
  BY DEF KsReshard
<1> DEFINE closed == [KsNoShard EXCEPT !.made = TRUE]
           fresh == [KsNoShard EXCEPT !.made = TRUE, !.open = TRUE]
<1>a. /\ KsNoShard \in KsShardShapes /\ KsNoShard.recs = <<>> /\ Len(KsNoShard.recs) = 0 /\ ~KsNoShard.open
  BY KsShapesAre, KsConstants DEF KsNoShard
<1>2. /\ closed \in KsShardShapes /\ Len(closed.recs) = 0 /\ closed.made /\ ~closed.open
      /\ fresh \in KsShardShapes /\ Len(fresh.recs) = 0 /\ fresh.made /\ fresh.open
  BY <1>a DEF KsShardShapes
<1>1. ASSUME NEW s \in KsShardIds
      PROVE  \/ ksShards'[s] = closed
             \/ s \in new /\ ksShards'[s] = fresh
             \/ ksShards'[s] = ksShards[s]
  <2>1. CASE s \in old BY <2>1 DEF KsReshard
  <2>2. CASE s \notin old /\ s \in new BY <2>2 DEF KsReshard
  <2>3. CASE s \notin old /\ s \notin new BY <2>3 DEF KsReshard
  <2> QED BY <2>1, <2>2, <2>3
<1> HIDE DEF closed, fresh
<1>3. ASSUME NEW s \in KsShardIds
      PROVE  /\ ksShards'[s] \in KsShardShapes /\ Len(ksShards'[s].recs) <= ksPuts
             /\ ksShards'[s].open => ksShards'[s].made
             /\ ~ksShards'[s].made => ~ksShards[s].made
             /\ ksShards'[s].open => ksShards'[s] = ksShards[s] \/ ksMapping.pos[s] = KsNone
  <2>1. CASE ksShards'[s] = closed BY <1>2, <2>1, KsShapesAre
  <2>2. CASE s \in new /\ ksShards'[s] = fresh
    <3>1. ksMapping.pos[s] = KsNone BY <1>0, <2>2, KsShapesAre DEF KsOwned
    <3> QED BY <1>2, <2>2, <3>1, KsShapesAre
  <2>3. CASE ksShards'[s] = ksShards[s] BY <2>3, KsShapesAre DEF KsOwned
  <2> QED BY <1>1, <2>1, <2>2, <2>3
<1>4. ksShards' \in [KsShardIds -> KsShardShapes]
  <2>1. ksShards' = [s \in KsShardIds |-> ksShards'[s]] BY DEF KsReshard
  <2> QED BY <1>3, <2>1
<1>5. /\ ksPass' \in KsPasses /\ ksPass'.todo = {} /\ ksPass'.phase # "scan"
      /\ ksPass'.phase = "invoke" => /\ ksPass.phase = "invoke" /\ ksPass'.shard = ksPass.shard
                                     /\ ksPass'.pos = ksPass.pos /\ ksPass'.batch = ksPass.batch
  <2>1. CASE ksPass.phase = "scan" BY <1>0, <2>1, KsShapesAre, KsConstants
  <2>2. CASE ksPass.phase # "scan" BY <1>0, <2>2, KsShapesAre DEF KsShaped, KsPasses
  <2> QED BY <2>1, <2>2
<1>6. KsShaped' BY <1>0, <1>3, <1>4, <1>5, KsShapesAre DEF KsShaped
<1>7. KsOwned' BY <1>0, <1>3, <1>5, KsShapesAre DEF KsOwned, KsOpen
<1>8. ASSUME NEW s \in KsShardIds PROVE KsPlaced(s)'
  <2>1. CASE ksShards'[s] = ksShards[s]
    <3>1. KsUntouched(s) BY <1>0, <1>5, <2>1 DEF KsUntouched
    <3> QED BY <3>1, KsCarried
  <2>2. CASE ksShards'[s] # ksShards[s] BY <1>0, <1>3, <2>2 DEF KsPlaced
  <2> QED BY <2>1, <2>2
<1> QED BY <1>6, <1>7, <1>8 DEF KsInv

(* The calls that change the mapping's status; a failed batch; a restart.   *)
(* Positions stay, or there were none.                                      *)
LEMMA KsMappingInv ==
  ASSUME KsInv,
         \/ \E start \in {"TRIM_HORIZON", "LATEST"} : KsCreateMapping(start)
         \/ KsUpdateMapping \/ KsDeleteMapping \/ KsFailed \/ KsRestart
  PROVE  KsInv'
<1>0. /\ KsShaped /\ KsOwned /\ ksMapping \in KsMappings /\ ksPass \in KsPasses /\ KsIdle \in KsPasses
      /\ KsIdle.todo = {} /\ KsIdle.phase = "idle" /\ KsNoMapping \in KsMappings
      /\ \A s \in KsShardIds : KsNoMapping.pos[s] = KsNone
  BY KsShapesAre, KsConstants DEF KsShaped, KsNoMapping, KsUnanchored
<1>1. UNCHANGED <<ksShards, ksPuts, ksRetention, ksSettled, ksShifted>>
  BY DEF KsCreateMapping, KsUpdateMapping, KsDeleteMapping, KsFailed, KsRestart
<1>2. /\ ksMapping' \in KsMappings
      /\ ksMapping'.pos = ksMapping.pos \/ (ksPass.phase = "idle" /\ \A s \in KsShardIds : ksMapping'.pos[s] = KsNone)
  <2>1. CASE \E start \in {"TRIM_HORIZON", "LATEST"} : KsCreateMapping(start)
    BY ZenonT(60), <1>0, <2>1 DEF KsCreateMapping, KsMappings
  <2>2. CASE KsUpdateMapping BY <1>0, <2>2 DEF KsUpdateMapping, KsMappings
  <2>3. CASE KsDeleteMapping BY <1>0, <2>3 DEF KsDeleteMapping, KsMappings
  <2>4. CASE KsFailed \/ KsRestart BY <1>0, <2>4 DEF KsFailed, KsRestart, KsMappings
  <2> QED BY <2>1, <2>2, <2>3, <2>4
<1>3. /\ ksPass' \in KsPasses /\ ksPass'.todo \subseteq ksPass.todo
      /\ ksPass'.phase = "invoke" => ksPass' = ksPass
  <2>1. CASE KsFailed
    <3>1. KsAfter \in KsPasses /\ KsAfter.todo = ksPass.todo /\ KsAfter.phase # "invoke"
      <4>1. CASE ksPass.todo = {} BY <1>0, <4>1 DEF KsAfter
      <4>2. CASE ksPass.todo # {} BY <1>0, <4>2 DEF KsAfter, KsPasses
      <4> QED BY <4>1, <4>2
    <3> QED BY <2>1, <3>1 DEF KsFailed
  <2>2. CASE ksPass' = ksPass BY <1>0, <2>2
  <2>3. CASE KsRestart BY <1>0, <2>3 DEF KsRestart
  <2> QED BY <2>1, <2>2, <2>3 DEF KsCreateMapping, KsUpdateMapping, KsDeleteMapping
<1>4. KsShaped' BY <1>0, <1>1, <1>2, <1>3 DEF KsShaped
<1>5. KsOwned' BY <1>0, <1>1, <1>2, <1>3 DEF KsOwned, KsOpen
<1>6. ASSUME NEW s \in KsShardIds PROVE KsPlaced(s)'
  <2>1. CASE ksMapping'.pos[s] = KsNone BY <2>1 DEF KsPlaced
  <2>2. CASE ksMapping'.pos = ksMapping.pos
    <3>1. KsUntouched(s) BY <1>1, <1>3, <2>2 DEF KsUntouched
    <3> QED BY <3>1, KsCarried
  <2> QED BY <1>2, <2>1, <2>2
<1> QED BY <1>4, <1>5, <1>6 DEF KsInv

LEMMA KsTickInv == KsInv /\ KsTick => KsInv'
<1> SUFFICES ASSUME KsInv, KsTick PROVE KsInv' OBVIOUS
<1> DEFINE t(s) == [ksShards[s] EXCEPT !.recs = KsOlder(@)]
<1>0. /\ ksShards' = [s \in KsShardIds |-> t(s)] /\ ksMapping' = [ksMapping EXCEPT !.backoff = 0]
      /\ UNCHANGED <<ksPuts, ksPass, ksRetention, ksRestarts, ksSettled, ksShifted>>
  BY DEF KsTick
<1>1. ASSUME NEW s \in KsShardIds
      PROVE  /\ t(s) \in KsShardShapes /\ t(s).open = ksShards[s].open /\ t(s).made = ksShards[s].made
             /\ Len(t(s).recs) = Len(ksShards[s].recs)
             /\ \A p \in Int, S \in SUBSET Nat : KsGiven(ksShards[s].recs, p, S) => KsGiven(t(s).recs, p, S)
  <2>1. /\ KsOlder(ksShards[s].recs) \in Seq(KsRecs) /\ Len(KsOlder(ksShards[s].recs)) = Len(ksShards[s].recs)
        /\ \A p \in Int, S \in SUBSET Nat :
             KsGiven(ksShards[s].recs, p, S) => KsGiven(KsOlder(ksShards[s].recs), p, S)
    BY KsShapesAre, KsOlderIs
  <2>2. t(s) = [made |-> ksShards[s].made, open |-> ksShards[s].open, recs |-> KsOlder(ksShards[s].recs)]
    BY KsShapesAre DEF KsShardShapes
  <2> HIDE DEF t
  <2> QED BY <2>1, <2>2, KsShapesAre DEF KsShardShapes
<1> HIDE DEF t
<1>2. ksMapping' \in KsMappings /\ ksMapping'.pos = ksMapping.pos
  BY <1>0, KsShapesAre DEF KsShaped, KsMappings
<1>3. KsShaped' BY <1>0, <1>1, <1>2, KsShapesAre DEF KsShaped
<1>4. KsOwned' BY <1>0, <1>1, <1>2, KsShapesAre DEF KsOwned, KsOpen
<1>5. ASSUME NEW s \in KsShardIds PROVE KsPlaced(s)'
  <2>1. KsUntouched(s) BY <1>0, <1>1, <1>2 DEF KsUntouched
  <2> QED BY <2>1, KsCarried
<1> QED BY <1>3, <1>4, <1>5 DEF KsInv

(* The first pass anchors the positions at the start or the end; the        *)
(* records before them were not asked for.                                  *)
LEMMA KsPassStartInv == KsInv /\ KsPassStart => KsInv'
<1> SUFFICES ASSUME KsInv, KsPassStart PROVE KsInv' OBVIOUS
<1> DEFINE recs(s) == ksShards[s].recs
<1>0. /\ ksMapping' = [ksMapping EXCEPT !.anchored = TRUE, !.pos = KsAnchors]
      /\ ksSettled' = (IF ksMapping.anchored THEN ksSettled ELSE ksSettled \cup KsSkipped(KsAnchors))
      /\ ksPass' = [KsIdle EXCEPT !.phase = "scan", !.todo = KsOpen] /\ ksPass = KsIdle
      /\ UNCHANGED <<ksShards, ksPuts, ksRetention, ksRestarts, ksShifted>>
  BY DEF KsPassStart
<1>1. ASSUME NEW s \in KsShardIds, ~ksMapping.anchored
      PROVE  /\ KsAnchors[s] \in {KsNone, 0, Len(recs(s))} /\ KsAnchors[s] \in KsPositions
             /\ ~ksShards[s].open => KsAnchors[s] = KsNone
             /\ KsAnchors[s] # KsNone => KsAnchors[s] \in 0..Len(recs(s))
  <2>1. /\ KsAnchors[s] \in {KsNone, 0, Len(recs(s))} /\ (~ksShards[s].open => KsAnchors[s] = KsNone)
    BY <1>1 DEF KsAnchors, KsOpen
  <2>2. Len(recs(s)) \in Nat /\ Len(recs(s)) <= KsMaxPuts BY KsShapesAre
  <2> QED BY <2>1, <2>2, KsShapesAre DEF KsPositions
<1>2. KsAnchors \in [KsShardIds -> KsPositions]
  <2>1. CASE ksMapping.anchored BY <2>1, KsShapesAre DEF KsAnchors, KsShaped, KsMappings
  <2>2. CASE ~ksMapping.anchored
    <3>1. KsAnchors = [s \in KsShardIds |-> KsAnchors[s]] BY <2>2 DEF KsAnchors
    <3> QED BY <1>1, <2>2, <3>1
  <2> QED BY <2>1, <2>2
<1>3. ksMapping' \in KsMappings /\ ksMapping'.pos = KsAnchors
  BY <1>0, <1>2, KsShapesAre DEF KsShaped, KsMappings
<1>4. ASSUME NEW s \in KsShardIds, ksShards[s].open, ~ksMapping.anchored, KsAnchors[s] # KsNone
      PROVE  /\ KsGiven(recs(s), KsAnchors[s], KsRecordsOf(SubSeq(recs(s), 1, KsAnchors[s])))
             /\ KsRecordsOf(SubSeq(recs(s), 1, KsAnchors[s])) \in SUBSET (1..KsMaxPuts)
  BY <1>1, <1>4, KsShapesAre, KsBeforeIs, KsRecordsAre
<1>5. ~ksMapping.anchored => KsSkipped(KsAnchors) \in SUBSET (1..KsMaxPuts)
  BY <1>4 DEF KsSkipped, KsOpen
<1>6. ksSettled' \in SUBSET (1..KsMaxPuts) /\ ksSettled \subseteq ksSettled' BY <1>0, <1>5, KsShapesAre
<1>7. ksPass' \in KsPasses /\ ksPass'.todo = KsOpen /\ ksPass'.phase = "scan"
  BY <1>0, KsShapesAre, KsConstants DEF KsPasses, KsOpen
<1>8. KsShaped' BY <1>0, <1>3, <1>6, <1>7, KsShapesAre DEF KsShaped
<1>9. KsOwned'
  <2>1. ASSUME NEW s \in KsShardIds, ~ksShards[s].made PROVE KsAnchors[s] = KsNone
    <3>1. ~ksShards[s].open /\ ksMapping.pos[s] = KsNone BY <2>1, KsShapesAre DEF KsOwned
    <3>2. CASE ksMapping.anchored BY <3>1, <3>2 DEF KsAnchors
    <3> QED BY <1>1, <3>1, <3>2
  <2> QED BY <1>0, <1>3, <1>7, <2>1, KsShapesAre DEF KsOwned, KsOpen
<1>10. ASSUME NEW s \in KsShardIds PROVE KsPlaced(s)'
  <2>1. CASE ksMapping.anchored
    <3>1. ksMapping'.pos = ksMapping.pos BY <1>3, <2>1 DEF KsAnchors
    <3>2. KsUntouched(s) BY <1>0, <1>6, <1>7, <3>1 DEF KsUntouched
    <3> QED BY <3>2, KsCarried
  <2>2. CASE ~ksMapping.anchored
    <3> SUFFICES ASSUME ksShards[s].open, KsAnchors[s] # KsNone
                 PROVE  KsGiven(recs(s), KsAnchors[s], ksSettled')
      BY <1>0, <1>3, <1>7 DEF KsPlaced
    <3>1. KsRecordsOf(SubSeq(recs(s), 1, KsAnchors[s])) \subseteq ksSettled'
      BY <1>0, <2>2 DEF KsSkipped, KsOpen
    <3>2. KsGiven(recs(s), KsAnchors[s], KsRecordsOf(SubSeq(recs(s), 1, KsAnchors[s]))) BY <1>4, <2>2
    <3> QED BY <3>1, <3>2 DEF KsGiven
  <2> QED BY <2>1, <2>2
<1> QED BY <1>8, <1>9, <1>10 DEF KsInv

(* A pass that goes on, or ends.                                            *)
LEMMA KsVisitedIs ==
  ASSUME KsInv, NEW s \in KsShardIds, ksPass.phase = "scan"
  PROVE  /\ KsVisited(s) \in KsPasses /\ KsVisited(s).todo \subseteq ksPass.todo
         /\ KsVisited(s).phase # "invoke"
<1>0. /\ ksPass \in KsPasses /\ KsIdle \in KsPasses /\ KsIdle.todo = {} /\ KsIdle.phase = "idle"
  BY KsShapesAre, KsConstants DEF KsShaped
<1>1. CASE ksPass.todo = {s} BY <1>0, <1>1 DEF KsVisited
<1>2. CASE ksPass.todo # {s} BY <1>0, <1>2 DEF KsVisited, KsPasses
<1> QED BY <1>1, <1>2

LEMMA KsAfterIs ==
  ASSUME KsInv
  PROVE  KsAfter \in KsPasses /\ KsAfter.todo = ksPass.todo /\ KsAfter.phase # "invoke"
<1>0. /\ ksPass \in KsPasses /\ KsIdle \in KsPasses /\ KsIdle.todo = {} /\ KsIdle.phase = "idle"
  BY KsShapesAre, KsConstants DEF KsShaped
<1>1. CASE ksPass.todo = {} BY <1>0, <1>1 DEF KsAfter
<1>2. CASE ksPass.todo # {} BY <1>0, <1>2 DEF KsAfter, KsPasses
<1> QED BY <1>1, <1>2

(* A step that sets one position.                                           *)
LEMMA KsSetsInv ==
  ASSUME KsInv, NEW s \in KsShardIds, NEW pos \in 0..KsMaxPuts,
         ksMapping' \in KsMappings, ksMapping'.pos = [ksMapping.pos EXCEPT ![s] = pos],
         ksShards[s].made,
         ksPass' \in KsPasses, ksPass'.todo \subseteq ksPass.todo, ksPass'.phase # "invoke",
         ksSettled' \in SUBSET (1..KsMaxPuts), ksSettled \subseteq ksSettled',
         UNCHANGED <<ksShards, ksPuts, ksRetention, ksShifted>>,
         ksShards[s].open /\ s \notin ksShifted => KsGiven(ksShards[s].recs, pos, ksSettled')
  PROVE  KsInv'
<1>1. ksMapping.pos \in [KsShardIds -> KsPositions] BY KsShapesAre DEF KsShaped, KsMappings
<1>2. ksMapping'.pos[s] = pos /\ \A x \in KsShardIds : x # s => ksMapping'.pos[x] = ksMapping.pos[x] BY <1>1
<1>3. KsShaped' BY KsShapesAre DEF KsShaped
<1>4. KsOwned' BY <1>2, KsShapesAre DEF KsOwned, KsOpen
<1>5. KsPlaced(s)' BY <1>2 DEF KsPlaced
<1>6. ASSUME NEW x \in KsShardIds, x # s PROVE KsPlaced(x)'
  <2>1. KsUntouched(x) BY <1>2, <1>6 DEF KsUntouched
  <2> QED BY <2>1, KsCarried
<1> QED BY <1>3, <1>4, <1>5, <1>6 DEF KsInv

LEMMA KsNewShardInv ==
  ASSUME KsInv, NEW s \in KsShardIds, KsNewShard(s)
  PROVE  KsInv'
<1> DEFINE recs == ksShards[s].recs
           pos == Len(recs)
<1>0. /\ ksPass.phase = "scan" /\ s \in ksPass.todo /\ ksPass' = KsVisited(s)
      /\ ksMapping' = [ksMapping EXCEPT !.pos[s] = pos] /\ ksSettled' = ksSettled \cup KsRecordsOf(recs)
      /\ UNCHANGED <<ksShards, ksPuts, ksRetention, ksShifted>>
  BY DEF KsNewShard
<1>1. /\ recs \in Seq(KsRecs) /\ pos \in Nat /\ pos <= KsMaxPuts /\ ksShards[s].made
      /\ ksMapping \in KsMappings
  BY <1>0, KsShapesAre DEF KsOwned, KsOpen, KsShaped
<1>2. pos \in 0..KsMaxPuts /\ pos \in KsPositions BY <1>1, KsShapesAre DEF KsPositions
<1>3. ksMapping' \in KsMappings /\ ksMapping'.pos = [ksMapping.pos EXCEPT ![s] = pos]
  <2> HIDE DEF pos
  <2> QED BY <1>0, <1>1, <1>2 DEF KsMappings
<1>4. ksSettled' \in SUBSET (1..KsMaxPuts) /\ ksSettled \subseteq ksSettled'
  BY <1>0, <1>1, KsShapesAre, KsRecordsAre
<1>5. KsGiven(recs, pos, ksSettled') BY <1>0, <1>1 DEF KsGiven, KsRecordsOf
<1>6. /\ ksPass' \in KsPasses /\ ksPass'.todo \subseteq ksPass.todo /\ ksPass'.phase # "invoke"
  BY <1>0, KsVisitedIs
<1> HIDE DEF pos
<1> QED BY <1>0, <1>1, <1>2, <1>3, <1>4, <1>5, <1>6, KsSetsInv

LEMMA KsHandledInv ==
  ASSUME KsInv, NEW s \in KsShardIds, KsHandled(s)
  PROVE  KsInv'
<1> DEFINE pos == ksPass.pos + Len(ksPass.batch)
<1>0. /\ ksPass.phase = "invoke" /\ ksPass.shard = s /\ ksPass' = KsAfter
      /\ ksMapping' = [ksMapping EXCEPT !.pos[s] = pos, !.backoff = 0]
      /\ ksSettled' = ksSettled \cup KsRecordsOf(ksPass.batch)
      /\ UNCHANGED <<ksShards, ksPuts, ksRetention, ksShifted>>
  BY DEF KsHandled
<1>1. pos \in Nat /\ pos <= KsMaxPuts /\ ksMapping.pos[s] # KsNone /\ ksShards[s].made
      /\ ksMapping \in KsMappings /\ KsPlaced(s)
  BY <1>0, KsShapesAre DEF KsOwned, KsShaped
<1> HIDE DEF pos
<1>2. pos \in 0..KsMaxPuts /\ pos \in KsPositions BY <1>1, KsShapesAre DEF KsPositions
<1>3. ksMapping' \in KsMappings /\ ksMapping'.pos = [ksMapping.pos EXCEPT ![s] = pos]
  BY <1>0, <1>1, <1>2 DEF KsMappings
<1>4. ksSettled' \in SUBSET (1..KsMaxPuts) /\ ksSettled \subseteq ksSettled'
  BY <1>0, KsShapesAre
<1>5. ksShards[s].open /\ s \notin ksShifted => KsGiven(ksShards[s].recs, pos, ksSettled')
  BY <1>0, <1>1 DEF KsPlaced, pos
<1>6. /\ ksPass' \in KsPasses /\ ksPass'.todo \subseteq ksPass.todo /\ ksPass'.phase # "invoke"
  BY <1>0, KsAfterIs
<1> QED BY <1>0, <1>1, <1>2, <1>3, <1>4, <1>5, <1>6, KsSetsInv

LEMMA KsReadInv ==
  ASSUME KsInv, NEW s \in KsShardIds, KsRead(s)
  PROVE  KsInv'
<1> DEFINE pos == ksMapping.pos[s]
           recs == ksShards[s].recs
           end == Len(recs)
           last == IF pos + KsBatchSize < end THEN pos + KsBatchSize ELSE end
           b == SubSeq(recs, pos + 1, last)
<1>0. /\ ksPass.phase = "scan" /\ s \in ksPass.todo /\ pos # KsNone
      /\ ksPass' = (IF b = <<>> THEN KsVisited(s)
                    ELSE [ksPass EXCEPT !.phase = "invoke", !.todo = @ \ {s},
                                        !.shard = s, !.pos = pos, !.batch = b])
      /\ UNCHANGED <<ksShards, ksPuts, ksMapping, ksRetention, ksRestarts, ksSettled, ksShifted>>
  BY DEF KsRead
<1>1. /\ recs \in Seq(KsRecs) /\ end \in Nat /\ end <= KsMaxPuts /\ pos \in Nat /\ KsBatchSize \in Nat
      /\ ksPass \in KsPasses /\ KsPlaced(s) /\ ksSettled \in SUBSET Nat
  <2>1. end <= KsMaxPuts BY KsShapesAre
  <2> QED BY <1>0, <2>1, KsShapesAre, KsConstants DEF KsShaped
<1>2. last \in Int /\ last <= end BY <1>1
<1> HIDE DEF last, pos
<1>3. /\ b \in Seq(KsRecs) /\ Len(b) \in Nat /\ (b # <<>> => pos + Len(b) <= end)
      /\ \A S \in SUBSET Nat : b # <<>> /\ KsGiven(recs, pos, S)
                                 => KsGiven(recs, pos + Len(b), S \cup KsRecordsOf(b))
  BY <1>1, <1>2, KsBatchIs
<1> HIDE DEF b, recs
<1>4. CASE b = <<>>
  <2>1. /\ ksPass' \in KsPasses /\ ksPass'.todo \subseteq ksPass.todo /\ ksPass'.phase # "invoke"
    BY <1>0, <1>4, KsVisitedIs
  <2>2. KsShaped' BY <1>0, <2>1, KsShapesAre DEF KsShaped
  <2>3. KsOwned' BY <1>0, <2>1, KsShapesAre DEF KsOwned, KsOpen
  <2>4. ASSUME NEW x \in KsShardIds PROVE KsPlaced(x)'
    <3>1. KsUntouched(x) BY <1>0, <2>1 DEF KsUntouched
    <3> QED BY <3>1, KsCarried
  <2> QED BY <2>2, <2>3, <2>4 DEF KsInv
<1>5. CASE b # <<>>
  <2>1. /\ ksPass' \in KsPasses /\ ksPass'.todo \subseteq ksPass.todo /\ ksPass'.phase = "invoke"
        /\ ksPass'.shard = s /\ ksPass'.pos = pos /\ ksPass'.batch = b
    BY <1>0, <1>1, <1>3, <1>5 DEF KsPasses
  <2>2. KsShaped' BY <1>0, <2>1, KsShapesAre DEF KsShaped
  <2>3. KsOwned'
    <3>1. pos + Len(b) <= KsMaxPuts BY <1>1, <1>3, <1>5, KsShapesAre
    <3>2. ksMapping'.pos[s] # KsNone BY <1>0 DEF pos
    <3> QED BY <1>0, <2>1, <3>1, <3>2, KsShapesAre DEF KsOwned, KsOpen
  <2>4. ASSUME NEW x \in KsShardIds, x # s PROVE KsPlaced(x)'
    <3>1. KsUntouched(x) BY <1>0, <2>1, <2>4 DEF KsUntouched
    <3> QED BY <3>1, KsCarried
  <2>5. KsPlaced(s)'
    <3> SUFFICES ASSUME ksShards[s].open, s \notin ksShifted
                 PROVE  /\ KsGiven(ksShards[s].recs, ksMapping.pos[s], ksSettled)
                        /\ KsGiven(ksShards[s].recs, pos + Len(b), ksSettled \cup KsRecordsOf(b))
      BY <1>0, <2>1 DEF KsPlaced
    <3>1. KsGiven(recs, pos, ksSettled) BY <1>0, <1>1 DEF KsPlaced, recs, pos
    <3>2. KsGiven(recs, pos + Len(b), ksSettled \cup KsRecordsOf(b)) BY <1>1, <1>3, <1>5, <3>1
    <3> QED BY <3>1, <3>2 DEF recs, pos
  <2> QED BY <2>2, <2>3, <2>4, <2>5 DEF KsInv
<1> QED BY <1>4, <1>5

LEMMA KsInvStep == KsInv /\ [KsNext]_ksVars => KsInv'
<1> SUFFICES ASSUME KsInv, [KsNext]_ksVars PROVE KsInv' OBVIOUS
<1>1. CASE KsExpire \/ \E s \in KsShardIds : KsPut(s) BY <1>1, KsSweepInv
<1>2. CASE \/ \E start \in {"TRIM_HORIZON", "LATEST"} : KsCreateMapping(start)
           \/ KsUpdateMapping \/ KsDeleteMapping \/ KsFailed \/ KsRestart
  BY <1>2, KsMappingInv
<1>3. CASE KsPassStart \/ KsTick BY <1>3, KsPassStartInv, KsTickInv
<1>4. CASE \E s \in KsShardIds : KsScan(s) \/ KsHandled(s)
  BY <1>4, KsNewShardInv, KsReadInv, KsHandledInv DEF KsScan
<1>5. ASSUME NEW s \in KsShardIds, NEW a \in KsShardIds, NEW b \in KsShardIds,
             KsSplitShard(s, a, b) \/ KsMergeShards(a, b, s)
      PROVE  KsInv'
  <2>1. CASE KsSplitShard(s, a, b)
    <3>1. {s} \in SUBSET KsOpen /\ {a, b} \in SUBSET KsShardIds /\ KsReshard({s}, {a, b})
      BY <2>1 DEF KsSplitShard
    <3> QED BY <3>1, KsReshardInv
  <2>2. CASE KsMergeShards(a, b, s)
    <3>1. {a, b} \in SUBSET KsOpen /\ {s} \in SUBSET KsShardIds /\ KsReshard({a, b}, {s})
      BY <2>2 DEF KsMergeShards
    <3> QED BY <3>1, KsReshardInv
  <2> QED BY <1>5, <2>1, <2>2
<1>6. CASE UNCHANGED ksVars
  BY <1>6 DEF ksVars, KsInv, KsShaped, KsOwned, KsOpen, KsPlaced
<1> QED BY <1>1, <1>2, <1>3, <1>4, <1>5, <1>6 DEF KsNext

LEMMA KsInvMeans == KsInv => KsTypeOK /\ KsNothingSkipped
<1> SUFFICES ASSUME KsInv PROVE KsTypeOK /\ KsNothingSkipped OBVIOUS
<1>1. KsTypeOK
  <2>1. /\ ksMapping \in KsMappings /\ ksPass \in KsPasses /\ ksSettled \subseteq 1..KsMaxPuts
        /\ ksShifted \subseteq KsShardIds
    BY KsShapesAre DEF KsShaped
  <2>2. ksPass.phase \in {"idle", "scan", "invoke"} /\ ksPass.todo \subseteq KsShardIds BY <2>1 DEF KsPasses
  <2> QED BY <2>1, <2>2, KsShapesAre DEF KsTypeOK, KsRecs, KsMappings, KsPositions
<1>2. ASSUME NEW s \in KsShardIds, ksShards[s].open, ksMapping.pos[s] # KsNone, s \notin ksShifted
      PROVE  KsBehind(s) \subseteq ksSettled
  <2> DEFINE recs == ksShards[s].recs
             pos == ksMapping.pos[s]
  <2>1. KsGiven(recs, pos, ksSettled) BY <1>2, KsShapesAre DEF KsPlaced
  <2>2. recs \in Seq(KsRecs) /\ pos \in Int /\ pos <= Len(recs) /\ 1 \in Nat \ {0} /\ pos \in Nat
        /\ Len(recs) \in Nat
    BY <1>2, <2>1, KsShapesAre DEF KsGiven
  <2> HIDE DEF recs, pos
  <2>3. \A i \in DOMAIN SubSeq(recs, 1, pos) :
          /\ 1 + i - 1 \in DOMAIN recs /\ 1 + i - 1 <= pos /\ SubSeq(recs, 1, pos)[i] = recs[1 + i - 1]
    BY <2>2, PartIs
  <2>4. \A i \in DOMAIN SubSeq(recs, 1, pos) : SubSeq(recs, 1, pos)[i].n \in ksSettled
    BY <2>1, <2>3 DEF KsGiven
  <2> QED BY <2>4 DEF KsBehind, KsRecordsOf, recs, pos
<1> QED BY <1>1, <1>2 DEF KsNothingSkipped, KsOpen

-----------------------------------------------------------------------------
(* A step of the composition is a step of one part, and the others stand.   *)
LEMMA StreamsSteps == [NextStreams]_streamVars => [TiNext]_tiVars /\ [DsNext]_dsVars /\ [KsNext]_ksVars
<1> SUFFICES ASSUME [NextStreams]_streamVars PROVE [TiNext]_tiVars /\ [DsNext]_dsVars /\ [KsNext]_ksVars
  OBVIOUS
<1>1. CASE UNCHANGED streamVars BY <1>1 DEF streamVars
<1>2. CASE NextStreams
  BY <1>2 DEF NextStreams, OfTable, OfShards, OfClock
<1> QED BY <1>1, <1>2

StreamsInv == TiInv /\ TiHeld /\ DsInv /\ KsInv

LEMMA StreamsInvAlways == SpecStreams => []StreamsInv
<1>1. InitStreams => StreamsInv
  <2>1. InitStreams => TiHeld
    BY TiNumbers DEF InitStreams, TiInit, TiHeld, TiNoFiring
  <2> QED BY <2>1, TiInitInv, DsInitInv, KsInitInv DEF InitStreams, StreamsInv
<1>2. StreamsInv /\ [NextStreams]_streamVars => StreamsInv'
  BY StreamsSteps, TiInvStep, TiHeldStep, DsInvStep, KsInvStep DEF StreamsInv, TiInv
<1> QED BY <1>1, <1>2, PTL DEF SpecStreams

(* A one-time schedule fires once for each request that made it, and what   *)
(* recurs waits its interval between two firings, for any number of rules   *)
(* and schedules, however their handlers, a reset and restarts fall into a  *)
(* sweep.                                                                   *)
THEOREM FiresAsScheduled == SpecStreams => []FiresOnce
<1>1. StreamsInv => FiresOnce BY DEF StreamsInv, TiInv, FiresOnce
<1> QED BY <1>1, StreamsInvAlways, PTL

(* No record is skipped: what a stream still has before the position of a   *)
(* mapping, a pipe or an iterator was handled or given up at its age limit, *)
(* for any number of consumers, shards and records, whatever is trimmed,    *)
(* split, merged, stopped and restarted between a poll's fetch and its      *)
(* advance (lambda_svc.py:8036, 8202).  Positions of before a restart       *)
(* (dsFresh) and shards whose list shrank (ksShifted) are excepted.         *)
THEOREM NoRecordSkipped == SpecStreams => []NothingSkipped
<1>1. StreamsInv => NothingSkipped BY DsInvMeans, KsInvMeans DEF StreamsInv, NothingSkipped
<1> QED BY <1>1, StreamsInvAlways, PTL

(* Records, positions and numberings fit together: no consumer of a table's *)
(* stream is ahead of its end, no position lies outside its shard, and what *)
(* the clock fired and has on record is remembered.                         *)
THEOREM PositionsFit == SpecStreams => []StreamsTypeOK
<1>1. StreamsInv => StreamsTypeOK
  BY DsInvMeans, KsInvMeans, TiTyped DEF StreamsInv, StreamsTypeOK
<1> QED BY <1>1, StreamsInvAlways, PTL
=============================================================================
