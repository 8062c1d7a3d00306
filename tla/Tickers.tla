------------------------------- MODULE Tickers -------------------------------
(***************************************************************************)
(* The two daemon threads that fire by the clock: EventBridge's sweep over *)
(* scheduled rules and the Scheduler's over its schedules (tiStore says    *)
(* which).  A sweep copies the list of records, then visits them one by    *)
(* one; handlers on the event loop put, disable, delete and reset under    *)
(* it.  What was fired when is kept apart from the records, by name:       *)
(* deleting a record leaves it, and a restart forgets it.                  *)
(*                                                                         *)
(* Ages are relative and saturate at TiCap; between two sweeps a thread    *)
(* sleeps at least a unit.  No time passes during a sweep: all of it uses  *)
(* the time of its start.  A cron expression is one that matches once a    *)
(* unit, and StartDate is left out (State has the same effect).  TiMaxPuts *)
(* and TiMaxRestarts bound a behaviour.                                    *)
(***************************************************************************)
EXTENDS Integers

CONSTANTS TiNames, TiStores, TiRate, TiDues, TiMaxPuts, TiMaxRestarts

ASSUME TiAssumption ==
  /\ TiStores \subseteq {"rules", "schedules"}
  /\ TiRate \in Nat \ {0} /\ TiDues \subseteq Nat
  /\ TiMaxPuts \in Nat /\ TiMaxRestarts \in Nat

VARIABLES
  tiStore,
  tiRecord,   \* name -> its record
  tiTargets,  \* name -> it has targets (a schedule's are in its record)
  tiLast,     \* name -> time since the entry in _..._last_fired, if it has one
  tiSweep,    \* name -> the record a sweep has yet to visit
  tiFiring,   \* the name and record whose targets are being invoked;
              \* gap is history: the time since it fired before
  tiSlept,    \* the thread has slept since its last sweep
  tiPuts, tiRestarts,
  \* History, for the properties only.
  tiShots,    \* name -> how often its record fired since it was put, up to twice
  tiSince     \* name -> time since this rule or schedule fired

tiVars == <<tiStore, tiRecord, tiTargets, tiLast, tiSweep, tiFiring, tiSlept,
            tiPuts, tiRestarts, tiShots, tiSince>>

TiCap == TiRate
TiNever == -1
TiOlder(t) == IF t = TiNever \/ t = TiCap THEN t ELSE t + 1
TiSooner(t) == IF t = 0 THEN 0 ELSE t - 1

(* put is the number of the request that made this record; due is the time  *)
(* until an at() moment, or until EndDate for one that recurs; TiNever is   *)
(* no EndDate.                                                              *)
TiAbsent == [kind |-> "none", on |-> FALSE, due |-> TiNever, after |-> "NONE", age |-> 0, put |-> 0]
TiNoFiring == [name |-> "none", rec |-> TiAbsent, gap |-> TiNever]

TiKnown(n) == tiRecord[n] # TiAbsent
TiIdle == tiFiring = TiNoFiring /\ \A n \in TiNames : tiSweep[n] = TiAbsent

TiInit ==
  /\ tiStore \in TiStores
  /\ tiRecord = [n \in TiNames |-> TiAbsent] /\ tiTargets = [n \in TiNames |-> FALSE]
  /\ tiLast = [n \in TiNames |-> TiNever]
  /\ tiSweep = [n \in TiNames |-> TiAbsent] /\ tiFiring = TiNoFiring
  /\ tiSlept = FALSE /\ tiPuts = 0 /\ tiRestarts = 0
  /\ tiShots = [n \in TiNames |-> 0] /\ tiSince = [n \in TiNames |-> TiNever]

-----------------------------------------------------------------------------
(* PutRule creates or replaces and keeps the creation time; CreateSchedule  *)
(* refuses a name it has, UpdateSchedule one it has not, and keeps it too.  *)
(* Rules have no at(), no EndDate and no ActionAfterCompletion.             *)
TiPut(n, kind, on, due, after) ==
  /\ tiPuts < TiMaxPuts /\ tiPuts' = tiPuts + 1
  /\ kind \in {"rate", "cron"} \/ (kind = "at" /\ due # TiNever)
  /\ tiStore = "rules" => kind # "at" /\ due = TiNever /\ after = "NONE"
  /\ tiRecord' = [tiRecord EXCEPT ![n] =
       [kind |-> kind, on |-> on, due |-> due, after |-> after,
        age |-> IF TiKnown(n) THEN @.age ELSE 0, put |-> tiPuts + 1]]
  /\ tiTargets' = [tiTargets EXCEPT ![n] = @ \/ tiStore = "schedules"]
  /\ tiShots' = [tiShots EXCEPT ![n] = 0]
  /\ tiSince' = IF TiKnown(n) THEN tiSince ELSE [tiSince EXCEPT ![n] = TiNever]
  /\ UNCHANGED <<tiStore, tiSlept, tiLast, tiSweep, tiFiring, tiRestarts>>

(* PutTargets needs the rule; RemoveTargets takes them all here.            *)
TiPutTargets(n) ==
  /\ tiStore = "rules" /\ TiKnown(n)
  /\ tiTargets' = [tiTargets EXCEPT ![n] = ~@]
  /\ UNCHANGED <<tiStore, tiSlept, tiRecord, tiLast, tiSweep, tiFiring, tiPuts, tiRestarts, tiShots, tiSince>>

(* EnableRule and DisableRule change the record in place, so a sweep that   *)
(* has it sees the change.                                                  *)
TiSetState(n) ==
  /\ tiStore = "rules" /\ TiKnown(n)
  /\ tiRecord' = [tiRecord EXCEPT ![n].on = ~@]
  /\ tiSweep' = IF tiSweep[n].put = tiRecord[n].put
                THEN [tiSweep EXCEPT ![n].on = ~@] ELSE tiSweep
  /\ UNCHANGED <<tiStore, tiSlept, tiTargets, tiLast, tiFiring, tiPuts, tiRestarts, tiShots, tiSince>>

(* DeleteRule, DeleteSchedule; a bus or a schedule group takes its own along.*)
TiDelete(names) ==
  /\ names # {} /\ \A n \in names : TiKnown(n)
  /\ tiRecord' = [n \in TiNames |-> IF n \in names THEN TiAbsent ELSE tiRecord[n]]
  /\ tiTargets' = [n \in TiNames |-> tiTargets[n] /\ n \notin names]
  /\ UNCHANGED <<tiStore, tiSlept, tiLast, tiSweep, tiFiring, tiPuts, tiRestarts, tiShots, tiSince>>

(* A reset.  EventBridge forgets what it fired: the visit it hits may find  *)
(* the entry it just checked gone, and the sweep ends with the KeyError.    *)
TiReset ==
  /\ \E n \in TiNames : TiKnown(n)
  /\ tiRecord' = [n \in TiNames |-> TiAbsent] /\ tiTargets' = [n \in TiNames |-> FALSE]
  /\ tiLast' = IF tiStore = "rules" THEN [n \in TiNames |-> TiNever] ELSE tiLast
  /\ \/ UNCHANGED tiSweep
     \/ /\ tiStore = "rules" /\ tiFiring = TiNoFiring /\ \E n \in TiNames : tiSweep[n].on
        /\ tiSweep' = [n \in TiNames |-> TiAbsent]
  /\ UNCHANGED <<tiStore, tiSlept, tiFiring, tiPuts, tiRestarts, tiShots, tiSince>>

(* The records persist, what was fired does not.                            *)
TiRestart ==
  /\ tiRestarts < TiMaxRestarts /\ tiRestarts' = tiRestarts + 1
  /\ tiLast' = [n \in TiNames |-> TiNever]
  /\ tiSlept' = FALSE
  /\ tiSweep' = [n \in TiNames |-> TiAbsent] /\ tiFiring' = TiNoFiring
  /\ tiShots' = [n \in TiNames |-> 0] /\ tiSince' = [n \in TiNames |-> TiNever]
  /\ UNCHANGED <<tiStore, tiRecord, tiTargets, tiPuts>>

-----------------------------------------------------------------------------
TiSweepStart ==
  /\ TiIdle /\ tiSlept /\ tiSlept' = FALSE
  /\ tiSweep' = tiRecord
  /\ UNCHANGED <<tiStore, tiRecord, tiTargets, tiLast, tiFiring, tiPuts, tiRestarts, tiShots, tiSince>>

(* Faulty: no EndDate is one that is past.                                  *)
TiOverWithout(r) == r.kind # "at" /\ r.due <= 0
TiOver(r) == r.kind # "at" /\ r.due = 0
TiInterval(r) == IF r.kind = "rate" THEN TiRate ELSE 1

(* The countdown begins at the creation for a rate and, for a cron          *)
(* expression, when a sweep first sees it.                                  *)
TiAnchored(n, r) == IF tiLast[n] # TiNever THEN tiLast[n] ELSE IF r.kind = "rate" THEN r.age ELSE 0

TiIsDue(n, r) ==
  /\ r.on /\ ~TiOver(r)
  /\ IF r.kind = "at" THEN r.due = 0 /\ tiLast[n] = TiNever
     ELSE TiAnchored(n, r) >= TiInterval(r)

(* Faulty: an at() moment is remembered only where it stays on record.      *)
TiLastForgetsAt(n, r) == IF r.kind = "at" THEN TiNever ELSE 0
(* Faulty: a rate counts from its creation, not from its last firing.       *)
TiLastKeepsAnchor(n, r) == IF r.kind = "rate" THEN TiAnchored(n, r) ELSE 0
TiFiredNow(n, r) == 0

(* A record that is due, by the copy the sweep took.  Whether there are     *)
(* targets to invoke is looked up now.                                      *)
TiFire(n) ==
  LET r == tiSweep[n] IN
  /\ tiFiring = TiNoFiring /\ r # TiAbsent /\ TiIsDue(n, r)
  /\ tiSweep' = [tiSweep EXCEPT ![n] = TiAbsent]
  /\ tiLast' = [tiLast EXCEPT ![n] = TiFiredNow(n, r)]
  /\ IF tiStore = "schedules" \/ tiTargets[n]
     THEN /\ tiFiring' = [name |-> n, rec |-> r, gap |-> IF TiKnown(n) THEN tiSince[n] ELSE TiNever]
          /\ tiShots' = IF tiRecord[n].put = r.put THEN [tiShots EXCEPT ![n] = IF @ = 2 THEN 2 ELSE @ + 1] ELSE tiShots
          /\ tiSince' = IF TiKnown(n) THEN [tiSince EXCEPT ![n] = 0] ELSE tiSince
     ELSE UNCHANGED <<tiFiring, tiShots, tiSince>>
  /\ UNCHANGED <<tiStore, tiSlept, tiRecord, tiTargets, tiPuts, tiRestarts>>

(* One that is not.  A schedule past its EndDate may be removed: by name,   *)
(* whatever record that name has by now.                                    *)
TiPass(n) ==
  LET r == tiSweep[n]
      gone == r.on /\ TiOver(r) /\ r.after = "DELETE"
  IN
  /\ tiFiring = TiNoFiring /\ r # TiAbsent /\ ~TiIsDue(n, r)
  /\ tiSweep' = [tiSweep EXCEPT ![n] = TiAbsent]
  /\ tiRecord' = IF gone THEN [tiRecord EXCEPT ![n] = TiAbsent] ELSE tiRecord
  /\ tiTargets' = IF gone THEN [tiTargets EXCEPT ![n] = FALSE] ELSE tiTargets
  /\ tiLast' = CASE gone -> [tiLast EXCEPT ![n] = TiNever]
                 [] r.on /\ ~TiOver(r) /\ r.kind # "at" -> [tiLast EXCEPT ![n] = TiAnchored(n, r)]
                 [] OTHER -> tiLast
  /\ UNCHANGED <<tiStore, tiSlept, tiFiring, tiPuts, tiRestarts, tiShots, tiSince>>

(* The targets have answered or failed.  A one-time schedule to be deleted  *)
(* after its completion is, again by name.                                  *)
TiFired ==
  LET n == tiFiring.name
      gone == tiFiring.rec.kind = "at" /\ tiFiring.rec.after = "DELETE"
  IN
  /\ tiFiring # TiNoFiring /\ tiFiring' = TiNoFiring
  /\ tiRecord' = IF gone THEN [tiRecord EXCEPT ![n] = TiAbsent] ELSE tiRecord
  /\ tiTargets' = IF gone THEN [tiTargets EXCEPT ![n] = FALSE] ELSE tiTargets
  /\ tiLast' = IF gone THEN [tiLast EXCEPT ![n] = TiNever] ELSE tiLast
  /\ UNCHANGED <<tiStore, tiSlept, tiSweep, tiPuts, tiRestarts, tiShots, tiSince>>

TiTick ==
  /\ TiIdle /\ tiSlept' = TRUE
  /\ tiRecord' = [n \in TiNames |-> IF ~TiKnown(n) THEN TiAbsent ELSE
       [tiRecord[n] EXCEPT !.age = TiOlder(@), !.due = IF @ = TiNever THEN @ ELSE TiSooner(@)]]
  /\ tiLast' = [n \in TiNames |-> TiOlder(tiLast[n])]
  /\ tiSince' = [n \in TiNames |-> TiOlder(tiSince[n])]
  /\ UNCHANGED <<tiStore, tiTargets, tiSweep, tiFiring, tiPuts, tiRestarts, tiShots>>

TiVisit == (\E n \in TiNames : TiFire(n) \/ TiPass(n)) \/ TiFired

TiNext ==
  \/ \E n \in TiNames, kind \in {"rate", "cron", "at"}, on \in BOOLEAN,
        due \in TiDues \cup {TiNever}, after \in {"NONE", "DELETE"} :
       TiPut(n, kind, on, due, after)
  \/ \E n \in TiNames : TiPutTargets(n) \/ TiSetState(n)
  \/ \E names \in SUBSET TiNames : TiDelete(names)
  \/ TiReset \/ TiRestart \/ TiSweepStart \/ TiVisit \/ TiTick

(* The threads loop, and the clock runs.                                    *)
TiFairness == /\ WF_tiVars(TiSweepStart) /\ WF_tiVars(TiVisit) /\ WF_tiVars(TiTick)
TiSpec == TiInit /\ [][TiNext]_tiVars /\ TiFairness

-----------------------------------------------------------------------------
TiRecords == [kind : {"none", "rate", "cron", "at"}, on : BOOLEAN,
              due : {TiNever} \cup Nat, after : {"NONE", "DELETE"},
              age : 0..TiCap, put : 0..TiMaxPuts]

(* Types; and what fired and is still on record is remembered, or a sweep   *)
(* would fire it again (scheduler.py:639, eventbridge.py:4549).             *)
TiTypeOK ==
  /\ tiRecord \in [TiNames -> TiRecords] /\ tiSweep \in [TiNames -> TiRecords]
  /\ tiFiring.rec \in TiRecords /\ tiFiring.gap \in {TiNever} \cup 0..TiCap
  /\ tiTargets \in [TiNames -> BOOLEAN]
  /\ tiLast \in [TiNames -> {TiNever} \cup 0..TiCap]
  /\ \A n \in TiNames : TiKnown(n) /\ tiShots[n] > 0 => tiLast[n] # TiNever

(* A one-time schedule fires once, however its sweep, its update and its    *)
(* deletion interleave.                                                     *)
TiOnce == \A n \in TiNames : TiKnown(n) /\ tiRecord[n].kind = "at" => tiShots[n] <= 1

(* A rule or schedule that recurs waits its interval between two firings,   *)
(* also when it is replaced, disabled or removed under a sweep.             *)
TiSpaced == tiFiring.rec.kind \in {"rate", "cron"} /\ tiFiring.gap # TiNever
               => tiFiring.gap >= TiInterval(tiFiring.rec)

TiAwaits(n) == /\ TiKnown(n) /\ tiRecord[n].on /\ tiTargets[n]
               /\ IF tiRecord[n].kind = "at" THEN tiLast[n] = TiNever
                  ELSE tiRecord[n].due = TiNever

(* What is enabled and left alone fires, again and again if it recurs; a    *)
(* one-time schedule does if its name has not fired before.                 *)
TiFires == \A n \in TiNames : []<>(~TiAwaits(n)) \/ []<>(tiFiring.name = n)
=============================================================================
