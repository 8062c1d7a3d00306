----------------------------- MODULE CacheCluster -----------------------------
(***************************************************************************)
(* An ElastiCache cluster identifier: its record, the container that bears *)
(* its name, and the handlers on pool threads that create, delete and      *)
(* reset it, each in several steps with Docker calls outside the lock; the *)
(* start deferred to the background while the image is pulled; and the     *)
(* reaper of abandoned containers.  Docker gives a name to one container   *)
(* at a time.  CcOps numbers the operations of a behaviour; a record and a *)
(* container are known by the operation that made them.                    *)
(***************************************************************************)
EXTENDS Naturals

CONSTANTS CcOps, CcMaxOps

ASSUME CcAssumption == CcMaxOps \in Nat /\ CcOps = 1..CcMaxOps

VARIABLES
  ccRecord,  \* 0 or the record: its operation, container and status
  ccBox,     \* the container that bears the name: its operation (0: none) and state
  ccOp,      \* operation -> what it is, how far it is, the containers it holds
  ccNext,    \* the operation that starts next
  ccReaper,  \* the pass in progress and the containers a record vouched for
  \* History, for the properties only.
  ccRaced    \* a create or a reset wrote over a record it had not looked at

ccVars == <<ccRecord, ccBox, ccOp, ccNext, ccReaper, ccRaced>>

CcNoRecord == [op |-> 0, cid |-> 0, status |-> "none"]
CcNoBox == [op |-> 0, state |-> "none"]
CcUnused == [kind |-> "none", phase |-> "idle", cid |-> 0, seen |-> 0]

CcInit ==
  /\ ccRecord = CcNoRecord
  /\ ccBox = CcNoBox
  /\ ccOp = [o \in CcOps |-> CcUnused]
  /\ ccNext = 1
  /\ ccReaper = [phase |-> "idle", live |-> {}]
  /\ ccRaced = FALSE

CcAt(o, kind, phase) == ccOp[o].kind = kind /\ ccOp[o].phase = phase
CcGo(o, phase) ==
  ccOp' = [ccOp EXCEPT ![o] = IF phase = "done" THEN [CcUnused EXCEPT !.phase = "done"]
                                                ELSE [@ EXCEPT !.phase = phase]]
CcRemoved(cid) == IF ccBox.op = cid THEN CcNoBox ELSE ccBox

-----------------------------------------------------------------------------
(* CreateCacheCluster finds no such record.  With the image at hand it will *)
(* start the container itself, else the start is deferred.                  *)
CcCreate(o, kind) ==
  /\ o = ccNext /\ ccRecord = CcNoRecord
  /\ ccNext' = ccNext + 1
  /\ ccOp' = [ccOp EXCEPT ![o] = [CcUnused EXCEPT !.kind = kind,
                !.phase = IF kind = "create" THEN "starting" ELSE "writing"]]
  /\ UNCHANGED <<ccRecord, ccBox, ccReaper, ccRaced>>

(* Docker starts the container, or refuses: the name is taken, or anything  *)
(* else; then there is a fallback endpoint and no container.                *)
CcStart(o) ==
  /\ ccOp[o].kind \in {"create", "deferred"} /\ ccOp[o].phase = "starting"
  /\ \/ /\ ccBox = CcNoBox
        /\ ccBox' = [op |-> o, state |-> "running"]
        /\ ccOp' = [ccOp EXCEPT ![o].phase = "started", ![o].cid = o]
     \/ /\ ccOp' = [ccOp EXCEPT ![o].phase = "started"]
        /\ UNCHANGED ccBox
  /\ UNCHANGED <<ccRecord, ccNext, ccReaper, ccRaced>>

(* The handler writes the record, whatever has been written since it looked.*)
CcWrite(o) ==
  /\ CcAt(o, "create", "started") \/ CcAt(o, "deferred", "writing")
  /\ ccRecord' = IF ccOp[o].kind = "create"
                 THEN [op |-> o, cid |-> ccOp[o].cid, status |-> "available"]
                 ELSE [op |-> o, cid |-> 0, status |-> "creating"]
  /\ ccRaced' = (ccRaced \/ ccRecord # CcNoRecord)
  /\ CcGo(o, IF ccOp[o].kind = "create" THEN "done" ELSE "starting")
  /\ UNCHANGED <<ccBox, ccNext, ccReaper>>

(* Faulty: any record of that name will do.                                 *)
CcPublishToAny(o) ==
  /\ CcAt(o, "deferred", "started")
  /\ IF ccRecord # CcNoRecord
     THEN /\ ccRecord' = [ccRecord EXCEPT !.cid = ccOp[o].cid, !.status = "available"]
          /\ CcGo(o, "done")
     ELSE CcGo(o, "orphaned") /\ UNCHANGED ccRecord
  /\ UNCHANGED <<ccBox, ccNext, ccReaper, ccRaced>>
(* Faulty: a start that ended without a container is not published.         *)
CcPublishOnlyBoxes(o) ==
  /\ CcAt(o, "deferred", "started")
  /\ IF ccRecord.op = o /\ ccOp[o].cid # 0
     THEN /\ ccRecord' = [ccRecord EXCEPT !.cid = ccOp[o].cid, !.status = "available"]
          /\ CcGo(o, "done")
     ELSE CcGo(o, "orphaned") /\ UNCHANGED ccRecord
  /\ UNCHANGED <<ccBox, ccNext, ccReaper, ccRaced>>
(* Faulty: the record is left creating.                                     *)
CcPublishHalf(o) ==
  /\ CcAt(o, "deferred", "started")
  /\ IF ccRecord.op = o
     THEN /\ ccRecord' = [ccRecord EXCEPT !.cid = ccOp[o].cid]
          /\ CcGo(o, "done")
     ELSE CcGo(o, "orphaned") /\ UNCHANGED ccRecord
  /\ UNCHANGED <<ccBox, ccNext, ccReaper, ccRaced>>
(* Under the resource's lock: the same record, or the start is orphaned.    *)
CcPublish(o) ==
  /\ CcAt(o, "deferred", "started")
  /\ IF ccRecord.op = o
     THEN /\ ccRecord' = [ccRecord EXCEPT !.cid = ccOp[o].cid, !.status = "available"]
          /\ CcGo(o, "done")
     ELSE CcGo(o, "orphaned") /\ UNCHANGED ccRecord
  /\ UNCHANGED <<ccBox, ccNext, ccReaper, ccRaced>>

(* Faulty: nobody tears an orphan down.                                     *)
CcTeardownLeft(o) ==
  /\ CcAt(o, "deferred", "orphaned")
  /\ CcGo(o, "done")
  /\ UNCHANGED <<ccRecord, ccBox, ccNext, ccReaper, ccRaced>>
CcTeardown(o) ==
  /\ CcAt(o, "deferred", "orphaned")
  /\ ccBox' = IF ccOp[o].cid = 0 THEN ccBox ELSE CcRemoved(ccOp[o].cid)
  /\ CcGo(o, "done")
  /\ UNCHANGED <<ccRecord, ccNext, ccReaper, ccRaced>>

-----------------------------------------------------------------------------
(* DeleteCacheCluster takes the record out under the lock,                  *)
CcDelete(o) ==
  /\ o = ccNext /\ ccRecord # CcNoRecord
  /\ ccNext' = ccNext + 1
  /\ ccRecord' = CcNoRecord
  /\ ccOp' = [ccOp EXCEPT ![o] = [kind |-> "delete", phase |-> "locating",
                                  cid |-> ccRecord.cid, seen |-> 0]]
  /\ UNCHANGED <<ccBox, ccReaper, ccRaced>>

(* finds the container by its id or, failing that, by its name,             *)
CcLocate(o) ==
  /\ CcAt(o, "delete", "locating")
  /\ ccOp' = [ccOp EXCEPT ![o].phase = "removing", ![o].seen = ccBox.op]
  /\ UNCHANGED <<ccRecord, ccBox, ccNext, ccReaper, ccRaced>>

(* and removes that.                                                        *)
CcRemove(o) ==
  /\ CcAt(o, "delete", "removing")
  /\ ccBox' = IF ccOp[o].seen = 0 THEN ccBox ELSE CcRemoved(ccOp[o].seen)
  /\ CcGo(o, "done")
  /\ UNCHANGED <<ccRecord, ccNext, ccReaper, ccRaced>>

(* reset removes the containers of the records it finds, then the records.  *)
CcReset(o) ==
  /\ o = ccNext
  /\ ccNext' = ccNext + 1
  /\ ccOp' = [ccOp EXCEPT ![o] = [kind |-> "reset", phase |-> "clearing",
                                  cid |-> ccRecord.cid, seen |-> ccRecord.op]]
  /\ ccBox' = IF ccRecord.cid = 0 THEN ccBox ELSE CcRemoved(ccRecord.cid)
  /\ UNCHANGED <<ccRecord, ccReaper, ccRaced>>

CcClear(o) ==
  /\ CcAt(o, "reset", "clearing")
  /\ ccRecord' = CcNoRecord
  /\ ccRaced' = (ccRaced \/ ccRecord.cid # ccOp[o].cid)
  /\ CcGo(o, "done")
  /\ UNCHANGED <<ccBox, ccNext, ccReaper>>

-----------------------------------------------------------------------------
(* The engine may exit; long after, the reaper may take the container.      *)
CcExit ==
  /\ ccBox.state = "running"
  /\ ccBox' = [ccBox EXCEPT !.state = "exited"]
  /\ UNCHANGED <<ccRecord, ccOp, ccNext, ccReaper, ccRaced>>

CcAge ==
  /\ ccBox.state = "exited"
  /\ ccBox' = [ccBox EXCEPT !.state = "abandoned"]
  /\ UNCHANGED <<ccRecord, ccOp, ccNext, ccReaper, ccRaced>>

CcReapLook ==
  /\ ccReaper.phase = "idle"
  /\ ccReaper' = [phase |-> "removing", live |-> {ccRecord.cid}]
  /\ UNCHANGED <<ccRecord, ccBox, ccOp, ccNext, ccRaced>>

(* Faulty: a record of the name vouches for whatever bears it.              *)
CcReapSpares ==
  /\ ccReaper.phase = "removing"
  /\ ccBox' = IF ccBox.state = "abandoned" /\ ccRecord = CcNoRecord THEN CcNoBox ELSE ccBox
  /\ ccReaper' = [phase |-> "idle", live |-> {}]
  /\ UNCHANGED <<ccRecord, ccOp, ccNext, ccRaced>>
CcReap ==
  /\ ccReaper.phase = "removing"
  /\ ccBox' = IF ccBox.state = "abandoned" /\ ccBox.op \notin ccReaper.live THEN CcNoBox ELSE ccBox
  /\ ccReaper' = [phase |-> "idle", live |-> {}]
  /\ UNCHANGED <<ccRecord, ccOp, ccNext, ccRaced>>

CcProceed(o) == CcStart(o) \/ CcWrite(o) \/ CcPublish(o) \/ CcTeardown(o) \/ CcLocate(o)
                \/ CcRemove(o) \/ CcClear(o)

CcNext ==
  \/ CcExit \/ CcAge \/ CcReapLook \/ CcReap
  \/ \E o \in CcOps :
       \/ \E kind \in {"create", "deferred"} : CcCreate(o, kind)
       \/ CcDelete(o) \/ CcReset(o) \/ CcProceed(o)

(* Handlers and background threads go on, and so does the reaper's.         *)
CcFairness ==
  /\ WF_ccVars(\E o \in CcOps : CcProceed(o))
  /\ WF_ccVars(CcAge) /\ WF_ccVars(CcReapLook) /\ WF_ccVars(CcReap)

CcSpec == CcInit /\ [][CcNext]_ccVars /\ CcFairness

-----------------------------------------------------------------------------
CcTypeOK ==
  /\ ccRecord \in [op : CcOps \cup {0}, cid : CcOps \cup {0},
                   status : {"none", "creating", "available"}]
  /\ ccBox \in [op : CcOps \cup {0}, state : {"none", "running", "exited", "abandoned"}]
  /\ ccOp \in [CcOps -> [kind : {"none", "create", "deferred", "delete", "reset"},
       phase : {"idle", "starting", "started", "writing", "orphaned", "locating", "removing",
                "clearing", "done"},
       cid : CcOps \cup {0}, seen : CcOps \cup {0}]]
  /\ ccNext \in 1..(CcMaxOps + 1) /\ ccRaced \in BOOLEAN
  /\ ccRecord.op = 0 <=> ccRecord.status = "none"
  /\ ccRecord.status # "available" => ccRecord.cid = 0
  /\ ccBox.op = 0 <=> ccBox.state = "none"

(* A container runs because a record has it, or an operation that has not   *)
(* finished will publish it or take it away: no delete, deferred start,     *)
(* re-creation or Docker failure leaves one that only the reaper's eyes     *)
(* could find.  Two creates past each other's check, and a reset that       *)
(* clears what it has not looked at, are left out.                          *)
CcNoOrphan ==
  ccBox # CcNoBox /\ ~ccRaced =>
    \/ ccRecord.cid = ccBox.op
    \/ \E o \in CcOps : /\ ccOp[o].phase \notin {"idle", "done"}
                        /\ ccBox.op \in {ccOp[o].cid, ccOp[o].seen} \/ ccOp[o].phase = "locating"

(* A cluster never adopts the container of an earlier one of its name.      *)
CcOwnContainer == ccRecord.cid \in {0, ccRecord.op}

(* No cluster stays creating: its start is published or it is deleted, and  *)
(* of a name that is used again only finitely many are created.             *)
CcLeavesCreating == (ccRecord.status = "creating") ~> (ccRecord.status # "creating")

(* An engine that exited and belongs to nobody is reclaimed.                *)
CcReclaimed ==
  (ccBox.state = "abandoned" /\ ccRecord.cid # ccBox.op)
    ~> (ccBox.state # "abandoned" \/ ccRecord.cid = ccBox.op)
=============================================================================
