-------------------------- MODULE BackgroundProofs --------------------------
(***************************************************************************)
(* What the machinery off the event loop promises for any number of        *)
(* requests, operations, workers and services, any number of runs and      *)
(* resets, and however long it runs: reentrant requests, the containers of *)
(* cache clusters, the gateway with its reset and its files, and, from     *)
(* ProcessProofs, the two pools of worker processes and the ECS service.   *)
(***************************************************************************)
EXTENDS MCBackground, ProcessProofs

(* Reentrant requests, nested to any depth.                                 *)
RrTypes ==
  /\ rrTask \in [RrRequests -> {"idle", "awaiting", "absorbing"} \cup RrEnded]
  /\ rrThread \in [RrRequests -> {"none", "working", "posted", "gone"}]
  /\ rrFuture \in [RrRequests -> BOOLEAN] /\ rrParent \in [RrRequests -> RrRequests]
  /\ rrCounts \in [reentrant : Nat, background : Nat]

RrBusy == {r \in RrRequests : rrThread[r] \in {"working", "posted"}}
RrCounted == rrCounts.reentrant = Cardinality(RrBusy) /\ rrCounts.background = rrBackground

(* Why nobody goes on early: whoever ended had its future, a future is set  *)
(* by a thread that is done, and a thread is done only when no request it   *)
(* issued is still awaited.                                                 *)
RrChain == \A r \in RrRequests :
  /\ rrTask[r] = "idle" => rrThread[r] = "none"
  /\ rrTask[r] \in {"returned", "cancelled"} => rrFuture[r]
  /\ rrFuture[r] => rrThread[r] \in {"posted", "gone"}
  /\ rrThread[r] \in {"posted", "gone"} => RrNested(r) = {}

RrInv == RrTypes /\ RrCounted /\ RrChain

-----------------------------------------------------------------------------
LEMMA RrBusyFinite == IsFiniteSet(RrBusy) /\ Cardinality(RrBusy) \in Nat
BY RrAssumption, FS_Subset, FS_CardinalityType DEF RrBusy

LEMMA RrInitInv == RrInit => RrInv
<1> SUFFICES ASSUME RrInit PROVE RrInv
  OBVIOUS
<1>1. RrBusy = {}
  BY DEF RrInit, RrBusy
<1>2. Cardinality(RrBusy) = 0
  BY <1>1, FS_EmptySet
<1> QED
  BY <1>2 DEF RrInit, RrInv, RrTypes, RrCounted, RrChain, RrEnded, RrNested

(* A step that leaves threads and counters alone leaves the count right.    *)
LEMMA RrCountKept ==
  ASSUME RrCounted, UNCHANGED <<rrThread, rrCounts, rrBackground>>
  PROVE  RrCounted'
BY DEF RrCounted, RrBusy

LEMMA RrStartInv ==
  ASSUME RrInv, NEW r \in RrRequests, NEW p \in RrRequests, RrStart(r, p)
  PROVE  RrInv'
<1>1. r \notin RrBusy /\ RrBusy' = RrBusy \cup {r}
  BY DEF RrInv, RrTypes, RrChain, RrStart, RrBusy
<1>2. Cardinality(RrBusy') = Cardinality(RrBusy) + 1
  BY <1>1, RrBusyFinite, FS_AddElement
<1>3. RrTypes' /\ RrCounted'
  BY <1>2, RrBusyFinite DEF RrInv, RrTypes, RrCounted, RrStart
<1>4. RrChain'
  <2> SUFFICES ASSUME NEW q \in RrRequests
               PROVE  /\ rrTask'[q] = "idle" => rrThread'[q] = "none"
                      /\ rrTask'[q] \in {"returned", "cancelled"} => rrFuture'[q]
                      /\ rrFuture'[q] => rrThread'[q] \in {"posted", "gone"}
                      /\ rrThread'[q] \in {"posted", "gone"} => RrNested(q)' = {}
    BY DEF RrChain
  <2>1. rrFuture'[r] = FALSE
    BY DEF RrInv, RrTypes, RrChain, RrStart
  <2>2. ASSUME rrThread'[q] \in {"posted", "gone"} PROVE RrNested(q)' = {}
    <3>1. q # r /\ q # p /\ rrThread[q] \in {"posted", "gone"}
      BY <2>2 DEF RrInv, RrTypes, RrStart, RrMayIssue
    <3>2. RrNested(q) = {}
      BY <3>1 DEF RrInv, RrChain
    <3> QED
      BY <3>1, <3>2 DEF RrInv, RrTypes, RrStart, RrNested
  <2> QED
    BY <2>1, <2>2 DEF RrInv, RrTypes, RrChain, RrStart
<1> QED
  BY <1>3, <1>4 DEF RrInv

LEMMA RrPostInv ==
  ASSUME RrInv, NEW r \in RrRequests, RrPost(r)
  PROVE  RrInv'
<1>1. RrBusy' = RrBusy
  BY DEF RrInv, RrTypes, RrPost, RrBusy
<1> QED
  BY <1>1 DEF RrInv, RrTypes, RrCounted, RrChain, RrPost, RrNested

LEMMA RrGoneInv ==
  ASSUME RrInv, NEW r \in RrRequests, RrGone(r)
  PROVE  RrInv'
<1>1. r \in RrBusy /\ RrBusy' = RrBusy \ {r}
  BY DEF RrInv, RrTypes, RrGone, RrBusy
<1>2. Cardinality(RrBusy') = Cardinality(RrBusy) - 1 /\ Cardinality(RrBusy') \in Nat
  BY <1>1, RrBusyFinite, FS_RemoveElement, FS_CardinalityType
<1>3. RrTypes' /\ RrCounted'
  BY <1>2, RrBusyFinite DEF RrInv, RrTypes, RrCounted, RrGone
<1> QED
  BY <1>3 DEF RrInv, RrTypes, RrChain, RrGone, RrNested

LEMMA RrTaskInv ==
  ASSUME RrInv, NEW r \in RrRequests,
         RrRefused(r) \/ RrDeliver(r) \/ RrReturn(r) \/ RrCancel(r) \/ RrReraise(r)
  PROVE  RrInv'
<1>1. RrCounted'
  BY RrCountKept DEF RrInv, RrRefused, RrDeliver, RrReturn, RrCancel, RrReraise
<1>2. RrTypes'
  BY DEF RrInv, RrTypes, RrEnded, RrRefused, RrDeliver, RrReturn, RrCancel, RrReraise
<1>3. \A q \in RrRequests : RrNested(q)' \subseteq RrNested(q)
  BY DEF RrInv, RrTypes, RrNested, RrRefused, RrDeliver, RrReturn, RrCancel, RrReraise
<1>4. RrChain'
  BY <1>3 DEF RrInv, RrTypes, RrChain, RrRefused, RrDeliver, RrReturn, RrCancel, RrReraise
<1> QED
  BY <1>1, <1>2, <1>4 DEF RrInv

LEMMA RrBackgroundInv ==
  ASSUME RrInv, RrSpawn \/ RrBackgroundEnds \/ UNCHANGED rrVars
  PROVE  RrInv'
<1>1. Cardinality(RrBusy') = Cardinality(RrBusy)
  BY DEF RrBusy, RrSpawn, RrBackgroundEnds, rrVars
<1>2. rrBackground \in Nat
  BY DEF RrInv, RrTypes, RrCounted
<1>3. CASE RrSpawn
  <2>1. RrTypes' /\ RrCounted'
    BY <1>1, <1>2, <1>3 DEF RrInv, RrTypes, RrCounted, RrSpawn
  <2> QED
    BY <2>1, <1>3 DEF RrInv, RrChain, RrNested, RrSpawn
<1>4. CASE RrBackgroundEnds
  <2>1. RrTypes' /\ RrCounted'
    BY <1>1, <1>2, <1>4 DEF RrInv, RrTypes, RrCounted, RrBackgroundEnds
  <2> QED
    BY <2>1, <1>4 DEF RrInv, RrChain, RrNested, RrBackgroundEnds
<1>5. CASE UNCHANGED rrVars
  <2>1. RrTypes' /\ RrCounted'
    BY <1>1, <1>5 DEF RrInv, RrTypes, RrCounted, rrVars
  <2> QED
    BY <2>1, <1>5 DEF RrInv, RrChain, RrNested, rrVars
<1> QED
  BY <1>3, <1>4, <1>5

LEMMA RrInvStep == RrInv /\ [RrNext]_rrVars => RrInv'
<1> SUFFICES ASSUME RrInv, [RrNext]_rrVars PROVE RrInv'
  OBVIOUS
<1>1. CASE \E r \in RrRequests, p \in RrRequests : RrStart(r, p)
  BY <1>1, RrStartInv
<1>2. CASE \E r \in RrRequests : RrPost(r)
  BY <1>2, RrPostInv
<1>3. CASE \E r \in RrRequests : RrGone(r)
  BY <1>3, RrGoneInv
<1>4. CASE \E r \in RrRequests : RrRefused(r) \/ RrDeliver(r) \/ RrReturn(r) \/ RrCancel(r) \/ RrReraise(r)
  BY <1>4, RrTaskInv
<1>5. CASE RrSpawn \/ RrBackgroundEnds \/ UNCHANGED rrVars
  BY <1>5, RrBackgroundInv
<1> QED
  BY <1>1, <1>2, <1>3, <1>4, <1>5 DEF RrNext

-----------------------------------------------------------------------------
(* The containers of a cluster identifier, for any number of operations.    *)
CcKinds == {"none", "create", "deferred", "delete", "reset"}
CcPhases == {"idle", "starting", "started", "writing", "orphaned", "locating", "removing",
             "clearing", "done"}
CcOperation == [kind : CcKinds, phase : CcPhases, cid : CcOps \cup {0}, seen : CcOps \cup {0}]

CcStarts(o) == ccOp[o].kind \in {"create", "deferred"}

(* How far each kind of operation can be, and which container it has.       *)
CcShape ==
  \A o \in CcOps :
    /\ o >= ccNext => ccOp[o] = CcUnused
    /\ ccOp[o].kind = "create" => ccOp[o].phase \in {"starting", "started"}
    /\ ccOp[o].kind = "deferred" => ccOp[o].phase \in {"writing", "starting", "started", "orphaned"}
    /\ CcStarts(o) => /\ ccOp[o].cid \in {0, o}
                      /\ ccOp[o].cid # 0 => ccOp[o].phase \in {"started", "orphaned"}

(* The operation x has made its container, if ever it does.                 *)
CcBorn(x) == x # 0 => x < ccNext /\ ccOp[x].phase \notin {"writing", "starting"}

(* A record names a container that was made; a deferred start has not been  *)
(* published; and a reset has removed the container it is about to forget.  *)
CcKnown ==
  /\ CcBorn(ccRecord.cid) /\ CcOwnContainer
  /\ \A o \in CcOps :
       /\ ccOp[o].kind = "deferred" /\ ccRecord.op = o => ccRecord.cid = 0
       /\ ccOp[o].kind = "reset" => /\ CcBorn(ccOp[o].cid)
                                    /\ ccOp[o].cid # 0 => ccBox.op # ccOp[o].cid

(* Who will publish the container or take it away: CcNoOrphan without the   *)
(* operations that hold one number of it and do nothing about it.           *)
CcKeeps(o) ==
  \/ CcStarts(o) /\ ccOp[o].phase \in {"started", "orphaned"} /\ ccOp[o].cid = ccBox.op
  \/ /\ ccOp[o].kind = "delete"
     /\ ccOp[o].phase = "locating" \/ (ccOp[o].phase = "removing" /\ ccOp[o].seen = ccBox.op)

CcKept == ccBox.op # 0 /\ ~ccRaced => ccRecord.cid = ccBox.op \/ \E o \in CcOps : CcKeeps(o)

CcInv == CcTypeOK /\ CcShape /\ CcKnown /\ CcKept

-----------------------------------------------------------------------------
LEMMA OpsAreNumbers == CcOps \subseteq Nat /\ 0 \notin CcOps /\ CcMaxOps \in Nat /\ CcOps = 1..CcMaxOps
BY CcAssumption

LEMMA CcTypes ==
  ASSUME CcTypeOK
  PROVE  /\ ccOp \in [CcOps -> CcOperation]
         /\ \A o \in CcOps : ccOp[o] \in CcOperation
BY DEF CcTypeOK, CcOperation, CcKinds, CcPhases

LEMMA CcInitInv == CcInit => CcInv
<1> SUFFICES ASSUME CcInit PROVE CcInv OBVIOUS
<1>1. CcTypeOK
  <2>1. CcUnused \in CcOperation BY DEF CcUnused, CcOperation, CcKinds, CcPhases
  <2>2. ccOp \in [CcOps -> CcOperation] BY <2>1 DEF CcInit
  <2>3. ccNext \in 1..(CcMaxOps + 1) BY OpsAreNumbers DEF CcInit
  <2> QED BY <2>2, <2>3 DEF CcInit, CcTypeOK, CcNoRecord, CcNoBox, CcOperation, CcKinds, CcPhases
<1>2. CcShape BY DEF CcInit, CcShape, CcStarts, CcUnused
<1>3. CcKnown BY DEF CcInit, CcKnown, CcBorn, CcOwnContainer, CcUnused, CcNoRecord
<1>4. CcKept BY DEF CcInit, CcKept, CcNoBox
<1> QED BY <1>1, <1>2, <1>3, <1>4 DEF CcInv

(* Every variable keeps its type.                                           *)
LEMMA CcTypeStep == CcTypeOK /\ CcShape /\ CcKnown /\ [CcNext]_ccVars => CcTypeOK'
<1> USE OpsAreNumbers
<1> SUFFICES ASSUME CcTypeOK, CcShape, CcKnown, [CcNext]_ccVars PROVE CcTypeOK' OBVIOUS
<1>0. ccOp \in [CcOps -> CcOperation] /\ \A o \in CcOps : ccOp[o] \in CcOperation BY CcTypes
<1>a. ASSUME NEW o \in CcOps, NEW phase \in CcPhases, CcGo(o, phase) PROVE ccOp' \in [CcOps -> CcOperation]
  <2>1. [CcUnused EXCEPT !.phase = "done"] \in CcOperation
    BY DEF CcUnused, CcOperation, CcKinds, CcPhases
  <2>2. [ccOp[o] EXCEPT !.phase = phase] \in CcOperation BY <1>0 DEF CcOperation
  <2> QED BY <1>0, <1>a, <2>1, <2>2 DEF CcGo
<1>b. ASSUME ccOp' \in [CcOps -> CcOperation], UNCHANGED <<ccRecord, ccBox, ccNext, ccRaced>>
      PROVE  CcTypeOK'
  BY <1>b DEF CcTypeOK, CcOperation, CcKinds, CcPhases
<1>c. ASSUME NEW cid, CcTypeOK PROVE CcRemoved(cid) \in {ccBox, CcNoBox} BY DEF CcRemoved
<1>1. ASSUME NEW o \in CcOps, NEW kind \in {"create", "deferred"}, CcCreate(o, kind) PROVE CcTypeOK'
  <2>1. ccOp' \in [CcOps -> CcOperation]
    BY <1>0, <1>1 DEF CcCreate, CcUnused, CcOperation, CcKinds, CcPhases
  <2>2. ccNext' \in 1..(CcMaxOps + 1) BY <1>1 DEF CcCreate
  <2> QED BY <1>1, <2>1, <2>2 DEF CcCreate, CcTypeOK, CcOperation, CcKinds, CcPhases
<1>2. ASSUME NEW o \in CcOps, CcStart(o) PROVE CcTypeOK'
  <2>a. /\ [ccOp[o] EXCEPT !.phase = "started", !.cid = o] \in CcOperation
        /\ [ccOp[o] EXCEPT !.phase = "started"] \in CcOperation
    BY <1>0 DEF CcOperation, CcPhases
  <2>b. \/ ccOp' = [ccOp EXCEPT ![o] = [ccOp[o] EXCEPT !.phase = "started", !.cid = o]]
        \/ ccOp' = [ccOp EXCEPT ![o] = [ccOp[o] EXCEPT !.phase = "started"]]
    <3>1. CASE ccOp' = [ccOp EXCEPT ![o].phase = "started", ![o].cid = o] BY <1>0, <3>1 DEF CcOperation
    <3>2. CASE ccOp' = [ccOp EXCEPT ![o].phase = "started"] BY <1>0, <3>2 DEF CcOperation
    <3> QED BY <1>2, <3>1, <3>2 DEF CcStart
  <2>1. ccOp' \in [CcOps -> CcOperation] BY <1>0, <2>a, <2>b
  <2> QED BY <1>2, <2>1 DEF CcStart, CcTypeOK, CcOperation, CcKinds, CcPhases
<1>3. ASSUME NEW o \in CcOps, CcWrite(o) PROVE CcTypeOK'
  <2>1. ccOp' \in [CcOps -> CcOperation] BY <1>3, <1>a DEF CcWrite, CcPhases
  <2>2. ccOp[o].cid \in CcOps \cup {0} BY <1>0 DEF CcOperation
  <2> QED BY <1>3, <2>1, <2>2 DEF CcWrite, CcTypeOK, CcOperation, CcKinds, CcPhases
<1>4. ASSUME NEW o \in CcOps, CcPublish(o) PROVE CcTypeOK'
  <2>1. ccOp' \in [CcOps -> CcOperation] BY <1>4, <1>a DEF CcPublish, CcPhases
  <2>2. ccOp[o].cid \in CcOps \cup {0} BY <1>0 DEF CcOperation
  <2>4. UNCHANGED <<ccBox, ccNext, ccReaper, ccRaced>> BY <1>4 DEF CcPublish
  <2>5. CASE ccRecord.op = o
    <3>1. ccRecord' = [ccRecord EXCEPT !.cid = ccOp[o].cid, !.status = "available"]
      BY <1>4, <2>5 DEF CcPublish
    <3>2. o # 0 BY OpsAreNumbers
    <3> QED BY <2>1, <2>2, <2>4, <2>5, <3>1, <3>2 DEF CcTypeOK, CcOperation, CcKinds, CcPhases
  <2>6. CASE ccRecord.op # o
    <3>1. ccRecord' = ccRecord BY <1>4, <2>6 DEF CcPublish
    <3> QED BY <2>1, <2>4, <3>1 DEF CcTypeOK, CcOperation, CcKinds, CcPhases
  <2> QED BY <2>5, <2>6
<1>5. ASSUME NEW o \in CcOps, CcTeardown(o) \/ CcRemove(o) PROVE CcTypeOK'
  <2>1. ccOp' \in [CcOps -> CcOperation] BY <1>5, <1>a DEF CcTeardown, CcRemove, CcPhases
  <2> QED BY <1>5, <2>1
          DEF CcTeardown, CcRemove, CcRemoved, CcNoBox, CcTypeOK, CcOperation, CcKinds, CcPhases
<1>6. ASSUME NEW o \in CcOps, CcDelete(o) PROVE CcTypeOK'
  <2>1. ccOp' \in [CcOps -> CcOperation]
    BY <1>0, <1>6 DEF CcDelete, CcTypeOK, CcOperation, CcKinds, CcPhases
  <2>2. ccNext' \in 1..(CcMaxOps + 1) BY <1>6 DEF CcDelete
  <2> QED BY <1>6, <2>1, <2>2 DEF CcDelete, CcNoRecord, CcTypeOK, CcOperation, CcKinds, CcPhases
<1>7. ASSUME NEW o \in CcOps, CcLocate(o) PROVE CcTypeOK'
  <2>1. ccBox.op \in CcOps \cup {0} BY DEF CcTypeOK
  <2>2. [ccOp[o] EXCEPT !.phase = "removing", !.seen = ccBox.op] \in CcOperation
    <3>1. ccOp[o] \in CcOperation BY <1>0
    <3> QED BY <2>1, <3>1 DEF CcOperation, CcPhases
  <2>3. ccOp' = [ccOp EXCEPT ![o] = [ccOp[o] EXCEPT !.phase = "removing", !.seen = ccBox.op]]
    BY <1>0, <1>7 DEF CcLocate
  <2>4. ccOp' \in [CcOps -> CcOperation] BY <1>0, <2>2, <2>3
  <2> QED BY <1>7, <1>b, <2>4 DEF CcLocate
<1>8. ASSUME NEW o \in CcOps, CcReset(o) PROVE CcTypeOK'
  <2>1. ccOp' \in [CcOps -> CcOperation]
    BY <1>0, <1>8 DEF CcReset, CcTypeOK, CcOperation, CcKinds, CcPhases
  <2>2. ccNext' \in 1..(CcMaxOps + 1) BY <1>8 DEF CcReset
  <2> QED BY <1>8, <2>1, <2>2
          DEF CcReset, CcRemoved, CcNoBox, CcTypeOK, CcOperation, CcKinds, CcPhases
<1>9. ASSUME NEW o \in CcOps, CcClear(o) PROVE CcTypeOK'
  <2>1. ccOp' \in [CcOps -> CcOperation] BY <1>9, <1>a DEF CcClear, CcPhases
  <2> QED BY <1>9, <2>1 DEF CcClear, CcNoRecord, CcTypeOK, CcOperation, CcKinds, CcPhases
<1>10. CASE CcExit \/ CcAge \/ CcReapLook \/ CcReap
  BY <1>10 DEF CcExit, CcAge, CcReapLook, CcReap, CcNoBox, CcTypeOK
<1>11. CASE UNCHANGED ccVars BY <1>11 DEF ccVars, CcTypeOK
<1> QED
  BY <1>1, <1>2, <1>3, <1>4, <1>5, <1>6, <1>7, <1>8, <1>9, <1>10, <1>11 DEF CcNext, CcProceed

-----------------------------------------------------------------------------
(* An operation's step changes the other operations' records in nothing.    *)
CcGone == [CcUnused EXCEPT !.phase = "done"]

LEMMA CcGoes ==
  ASSUME CcTypeOK, NEW o \in CcOps, NEW phase, CcGo(o, phase)
  PROVE  /\ \A x \in CcOps : x # o => ccOp'[x] = ccOp[x]
         /\ phase = "done" => ccOp'[o] = CcGone
         /\ phase # "done" => ccOp'[o] = [ccOp[o] EXCEPT !.phase = phase]
<1>1. ccOp \in [CcOps -> CcOperation] BY CcTypes
<1> QED BY <1>1 DEF CcGo, CcGone

(* A handler starts on an operation nobody has used.                        *)
CcBegins(o, new) ==
  /\ o = ccNext /\ ccNext' = ccNext + 1
  /\ ccOp'[o] = new /\ \A x \in CcOps : x # o => ccOp'[x] = ccOp[x]

(* An operation in use goes on.                                             *)
CcChanges(o, new) ==
  /\ o < ccNext /\ ccNext' = ccNext
  /\ ccOp'[o] = new /\ \A x \in CcOps : x # o => ccOp'[x] = ccOp[x]

LEMMA CcUsed ==
  ASSUME CcTypeOK, CcShape, NEW o \in CcOps, ccOp[o] # CcUnused
  PROVE  o < ccNext
<1>1. o \in Nat /\ ccNext \in Nat BY OpsAreNumbers DEF CcTypeOK
<1> QED BY <1>1 DEF CcShape

(* What each action makes of the operation that takes it.                   *)
LEMMA CcEffects ==
  ASSUME CcTypeOK, CcShape, NEW o \in CcOps
  PROVE  /\ \A kind \in {"create", "deferred"} : CcCreate(o, kind) =>
              CcBegins(o, [kind |-> kind, phase |-> IF kind = "create" THEN "starting" ELSE "writing",
                           cid |-> 0, seen |-> 0])
         /\ CcDelete(o) => CcBegins(o, [kind |-> "delete", phase |-> "locating",
                                        cid |-> ccRecord.cid, seen |-> 0])
         /\ CcReset(o) => CcBegins(o, [kind |-> "reset", phase |-> "clearing",
                                       cid |-> ccRecord.cid, seen |-> ccRecord.op])
         /\ CcStart(o) => \/ CcChanges(o, [ccOp[o] EXCEPT !.phase = "started"]) /\ ccBox' = ccBox
                          \/ /\ CcChanges(o, [ccOp[o] EXCEPT !.phase = "started", !.cid = o])
                             /\ ccBox' = [op |-> o, state |-> "running"] /\ ccBox = CcNoBox
         /\ CcWrite(o) => CcChanges(o, IF ccOp[o].kind = "create" THEN CcGone
                                       ELSE [ccOp[o] EXCEPT !.phase = "starting"])
         /\ CcPublish(o) => CcChanges(o, IF ccRecord.op = o THEN CcGone
                                         ELSE [ccOp[o] EXCEPT !.phase = "orphaned"])
         /\ CcLocate(o) => CcChanges(o, [ccOp[o] EXCEPT !.phase = "removing", !.seen = ccBox.op])
         /\ CcTeardown(o) \/ CcRemove(o) \/ CcClear(o) => CcChanges(o, CcGone)
<1>0. ccOp \in [CcOps -> CcOperation] BY CcTypes
<1>u. o < ccNext \/ ccOp[o] = CcUnused BY CcUsed
<1>1. ASSUME NEW kind \in {"create", "deferred"}, CcCreate(o, kind)
      PROVE  CcBegins(o, [kind |-> kind, phase |-> IF kind = "create" THEN "starting" ELSE "writing",
                          cid |-> 0, seen |-> 0])
  BY <1>0, <1>1 DEF CcCreate, CcBegins, CcUnused
<1>2. CcDelete(o) => CcBegins(o, [kind |-> "delete", phase |-> "locating",
                                  cid |-> ccRecord.cid, seen |-> 0])
  BY <1>0 DEF CcDelete, CcBegins
<1>3. CcReset(o) => CcBegins(o, [kind |-> "reset", phase |-> "clearing",
                                 cid |-> ccRecord.cid, seen |-> ccRecord.op])
  BY <1>0 DEF CcReset, CcBegins
<1>4. ASSUME CcStart(o)
      PROVE  \/ CcChanges(o, [ccOp[o] EXCEPT !.phase = "started"]) /\ ccBox' = ccBox
             \/ /\ CcChanges(o, [ccOp[o] EXCEPT !.phase = "started", !.cid = o])
                /\ ccBox' = [op |-> o, state |-> "running"] /\ ccBox = CcNoBox
  <2>1. o < ccNext BY <1>4, <1>u DEF CcStart, CcUnused
  <2> QED BY <1>0, <1>4, <2>1 DEF CcStart, CcChanges
<1>5. ASSUME CcWrite(o)
      PROVE  CcChanges(o, IF ccOp[o].kind = "create" THEN CcGone
                          ELSE [ccOp[o] EXCEPT !.phase = "starting"])
  <2>1. o < ccNext BY <1>5, <1>u DEF CcWrite, CcAt, CcUnused
  <2> QED BY <1>5, <2>1, CcGoes DEF CcWrite, CcChanges
<1>6. ASSUME CcPublish(o)
      PROVE  CcChanges(o, IF ccRecord.op = o THEN CcGone
                          ELSE [ccOp[o] EXCEPT !.phase = "orphaned"])
  <2>1. o < ccNext BY <1>6, <1>u DEF CcPublish, CcAt, CcUnused
  <2> QED BY <1>6, <2>1, CcGoes DEF CcPublish, CcChanges
<1>7. ASSUME CcLocate(o)
      PROVE  CcChanges(o, [ccOp[o] EXCEPT !.phase = "removing", !.seen = ccBox.op])
  <2>1. o < ccNext BY <1>7, <1>u DEF CcLocate, CcAt, CcUnused
  <2> QED BY <1>0, <1>7, <2>1 DEF CcLocate, CcChanges
<1>8. ASSUME CcTeardown(o) \/ CcRemove(o) \/ CcClear(o) PROVE CcChanges(o, CcGone)
  <2>1. o < ccNext BY <1>8, <1>u DEF CcTeardown, CcRemove, CcClear, CcAt, CcUnused
  <2> QED BY <1>8, <2>1, CcGoes DEF CcTeardown, CcRemove, CcClear, CcChanges
<1> QED BY <1>1, <1>2, <1>3, <1>4, <1>5, <1>6, <1>7, <1>8

(* The shape of one operation and of the number that comes next.            *)
CcFits(x, op, next) ==
  /\ x >= next => op = CcUnused
  /\ op.kind = "create" => op.phase \in {"starting", "started"}
  /\ op.kind = "deferred" => op.phase \in {"writing", "starting", "started", "orphaned"}
  /\ op.kind \in {"create", "deferred"} => /\ op.cid \in {0, x}
                                           /\ op.cid # 0 => op.phase \in {"started", "orphaned"}

LEMMA CcShapeStep == CcTypeOK /\ CcShape /\ [CcNext]_ccVars => CcShape'
<1> SUFFICES ASSUME CcTypeOK, CcShape, [CcNext]_ccVars PROVE CcShape' OBVIOUS
<1>0. /\ ccNext \in Nat /\ CcOps \subseteq Nat /\ 0 \notin CcOps
      /\ \A x \in CcOps : ccOp[x] \in CcOperation /\ CcFits(x, ccOp[x], ccNext)
  BY OpsAreNumbers, CcTypes DEF CcTypeOK, CcShape, CcFits, CcStarts
<1>a. ASSUME \A x \in CcOps : CcFits(x, ccOp'[x], ccNext') PROVE CcShape'
  BY <1>a DEF CcShape, CcFits, CcStarts
<1>b. ASSUME NEW o \in CcOps, NEW new, CcBegins(o, new), CcFits(o, new, o + 1) PROVE CcShape'
  <2>1. ASSUME NEW x \in CcOps, x # o PROVE CcFits(x, ccOp'[x], ccNext')
    BY <1>0, <1>b, <2>1 DEF CcFits, CcBegins
  <2>2. CcFits(o, ccOp'[o], ccNext') BY <1>b DEF CcBegins
  <2> QED BY <1>a, <2>1, <2>2
<1>c. ASSUME NEW o \in CcOps, NEW new, CcChanges(o, new), CcFits(o, new, ccNext) PROVE CcShape'
  <2>1. ASSUME NEW x \in CcOps, x # o PROVE CcFits(x, ccOp'[x], ccNext')
    BY <1>0, <1>c, <2>1 DEF CcChanges
  <2>2. CcFits(o, ccOp'[o], ccNext') BY <1>c DEF CcChanges
  <2> QED BY <1>a, <2>1, <2>2
<1>d. ASSUME NEW o \in CcOps, o < ccNext PROVE ~(o >= ccNext) BY <1>0, <1>d
<1>e. ASSUME NEW o \in CcOps, CcChanges(o, CcGone) PROVE CcShape'
  <2>1. CcFits(o, CcGone, ccNext) BY <1>0, <1>e DEF CcChanges, CcFits, CcGone, CcUnused
  <2> QED BY <1>c, <1>e, <2>1
<1>1. ASSUME NEW o \in CcOps, NEW kind \in {"create", "deferred"}, CcCreate(o, kind) PROVE CcShape'
  <2> DEFINE new == [kind |-> kind, phase |-> IF kind = "create" THEN "starting" ELSE "writing",
                     cid |-> 0, seen |-> 0]
  <2>1. CcBegins(o, new) BY <1>1, CcEffects
  <2>2. CcFits(o, new, o + 1) BY <1>0 DEF CcFits
  <2> QED BY <1>b, <2>1, <2>2
<1>2. ASSUME NEW o \in CcOps, CcDelete(o) \/ CcReset(o) PROVE CcShape'
  <2> DEFINE gone == [kind |-> "delete", phase |-> "locating", cid |-> ccRecord.cid, seen |-> 0]
             wipe == [kind |-> "reset", phase |-> "clearing", cid |-> ccRecord.cid, seen |-> ccRecord.op]
  <2>1. CcBegins(o, gone) \/ CcBegins(o, wipe) BY <1>2, CcEffects
  <2>2. CcFits(o, gone, o + 1) /\ CcFits(o, wipe, o + 1) BY <1>0 DEF CcFits
  <2> QED BY <1>b, <2>1, <2>2
<1>3. ASSUME NEW o \in CcOps, CcStart(o) PROVE CcShape'
  <2> DEFINE without == [ccOp[o] EXCEPT !.phase = "started"]
             with == [ccOp[o] EXCEPT !.phase = "started", !.cid = o]
  <2>1. CcChanges(o, without) \/ CcChanges(o, with) BY <1>3, CcEffects
  <2>2. o < ccNext BY <2>1 DEF CcChanges
  <2>3. CcFits(o, without, ccNext) /\ CcFits(o, with, ccNext)
    BY <1>0, <1>3, <1>d, <2>2 DEF CcFits, CcOperation, CcStart
  <2> QED BY <1>c, <2>1, <2>3
<1>4. ASSUME NEW o \in CcOps, CcWrite(o) PROVE CcShape'
  <2> DEFINE new == [ccOp[o] EXCEPT !.phase = "starting"]
  <2>1. CcChanges(o, CcGone) \/ (CcAt(o, "deferred", "writing") /\ CcChanges(o, new))
    BY <1>4, CcEffects DEF CcWrite, CcAt
  <2>2. ASSUME CcAt(o, "deferred", "writing"), CcChanges(o, new) PROVE CcFits(o, new, ccNext)
    <3>1. o < ccNext BY <2>2 DEF CcChanges
    <3> QED BY <1>0, <1>d, <2>2, <3>1 DEF CcFits, CcOperation, CcAt
  <2> QED BY <1>c, <1>e, <2>1, <2>2
<1>5. ASSUME NEW o \in CcOps, CcPublish(o) PROVE CcShape'
  <2> DEFINE new == [ccOp[o] EXCEPT !.phase = "orphaned"]
  <2>1. CcChanges(o, CcGone) \/ CcChanges(o, new) BY <1>5, CcEffects
  <2>2. ASSUME CcChanges(o, new) PROVE CcFits(o, new, ccNext)
    <3>1. o < ccNext BY <2>2 DEF CcChanges
    <3> QED BY <1>0, <1>d, <1>5, <3>1 DEF CcFits, CcOperation, CcPublish, CcAt
  <2> QED BY <1>c, <1>e, <2>1, <2>2
<1>6. ASSUME NEW o \in CcOps, CcLocate(o) PROVE CcShape'
  <2> DEFINE new == [ccOp[o] EXCEPT !.phase = "removing", !.seen = ccBox.op]
  <2>1. CcChanges(o, new) BY <1>6, CcEffects
  <2>2. o < ccNext BY <2>1 DEF CcChanges
  <2>3. CcFits(o, new, ccNext) BY <1>0, <1>d, <1>6, <2>2 DEF CcFits, CcOperation, CcLocate, CcAt
  <2> QED BY <1>c, <2>1, <2>3
<1>7. ASSUME NEW o \in CcOps, CcTeardown(o) \/ CcRemove(o) \/ CcClear(o) PROVE CcShape'
  BY <1>e, <1>7, CcEffects
<1>8. CASE CcExit \/ CcAge \/ CcReapLook \/ CcReap \/ UNCHANGED ccVars
  BY <1>8 DEF CcExit, CcAge, CcReapLook, CcReap, ccVars, CcShape, CcStarts
<1> QED BY <1>1, <1>2, <1>3, <1>4, <1>5, <1>6, <1>7, <1>8 DEF CcNext, CcProceed

-----------------------------------------------------------------------------
(* What any step does to the operations and to the name, for the facts      *)
(* below: one operation of CcOps begins or goes on, or none.                *)
CcOthersStay(o) == \A x \in CcOps : x # o => ccOp'[x] = ccOp[x]

(* A container that was made stays made: nobody starts twice.               *)
LEMMA CcBornStays ==
  ASSUME CcTypeOK, CcShape, [CcNext]_ccVars, NEW x \in CcOps \cup {0}, CcBorn(x)
  PROVE  CcBorn(x)'
<1> SUFFICES ASSUME x # 0 PROVE x < ccNext' /\ ccOp'[x].phase \notin {"writing", "starting"}
  BY DEF CcBorn
<1>0. /\ x \in CcOps /\ x < ccNext /\ ccOp[x].phase \notin {"writing", "starting"}
      /\ x \in Nat /\ ccNext \in Nat /\ ccOp[x] \in CcOperation
  BY OpsAreNumbers, CcTypes DEF CcBorn, CcTypeOK
<1>1. ASSUME NEW o \in CcOps, NEW new, CcBegins(o, new)
      PROVE  x < ccNext' /\ ccOp'[x].phase \notin {"writing", "starting"}
  BY <1>0, <1>1 DEF CcBegins
<1>2. ASSUME NEW o \in CcOps, NEW new, CcChanges(o, new),
             o = x => new.phase \notin {"writing", "starting"}
      PROVE  x < ccNext' /\ ccOp'[x].phase \notin {"writing", "starting"}
  BY <1>0, <1>2 DEF CcChanges
<1>3. CASE \E o \in CcOps : \/ \E kind \in {"create", "deferred"} : CcCreate(o, kind)
                            \/ CcDelete(o) \/ CcReset(o)
  BY <1>1, <1>3, CcEffects
<1>4. ASSUME NEW o \in CcOps, CcStart(o) \/ CcWrite(o)
      PROVE  x < ccNext' /\ ccOp'[x].phase \notin {"writing", "starting"}
  <2>1. CASE CcStart(o)
    <3>1. o # x BY <1>0, <2>1 DEF CcStart
    <3> QED BY <1>2, <2>1, <3>1, CcEffects
  <2>2. CASE CcWrite(o)
    <3>1. CcGone.phase = "done" BY DEF CcGone, CcUnused
    <3>2. o = x => ccOp[o].kind = "create" BY <1>0, <2>2 DEF CcWrite, CcAt
    <3> QED BY <1>2, <2>2, <3>1, <3>2, CcEffects
  <2> QED BY <1>4, <2>1, <2>2
<1>5. ASSUME NEW o \in CcOps, CcPublish(o) \/ CcLocate(o) \/ CcTeardown(o) \/ CcRemove(o) \/ CcClear(o)
      PROVE  x < ccNext' /\ ccOp'[x].phase \notin {"writing", "starting"}
  <2>0. ccOp[o] \in CcOperation BY CcTypes
  <2>1. CcGone.phase = "done" BY DEF CcGone, CcUnused
  <2>2. [ccOp[o] EXCEPT !.phase = "orphaned"].phase = "orphaned" BY <2>0 DEF CcOperation
  <2>3. [ccOp[o] EXCEPT !.phase = "removing", !.seen = ccBox.op].phase = "removing"
    BY <2>0 DEF CcOperation
  <2> QED BY <1>2, <1>5, <2>1, <2>2, <2>3, CcEffects
<1>6. CASE CcExit \/ CcAge \/ CcReapLook \/ CcReap \/ UNCHANGED ccVars
  BY <1>0, <1>6 DEF CcExit, CcAge, CcReapLook, CcReap, ccVars
<1> QED BY <1>3, <1>4, <1>5, <1>6 DEF CcNext, CcProceed

(* The name goes to a container that was not made before, or to none.       *)
LEMMA CcNameStep ==
  ASSUME CcTypeOK, [CcNext]_ccVars
  PROVE  \/ ccBox'.op \in {0, ccBox.op}
         \/ \E o \in CcOps : CcStart(o) /\ ccBox'.op = o /\ ccOp[o].phase = "starting"
<1> USE DEF CcRemoved, CcNoBox
<1>1. ASSUME NEW o \in CcOps, CcStart(o)
      PROVE  ccBox'.op \in {0, ccBox.op} \/ (ccBox'.op = o /\ ccOp[o].phase = "starting")
  <2>1. ccOp[o].phase = "starting" /\ (ccBox' = ccBox \/ ccBox' = [op |-> o, state |-> "running"])
    BY <1>1 DEF CcStart
  <2> QED BY <2>1
<1>2. CASE \E o \in CcOps : \/ \E kind \in {"create", "deferred"} : CcCreate(o, kind)
                            \/ CcDelete(o) \/ CcReset(o) \/ CcWrite(o) \/ CcPublish(o)
  BY <1>2 DEF CcCreate, CcDelete, CcReset, CcWrite, CcPublish
<1>3. CASE \E o \in CcOps : CcTeardown(o) \/ CcLocate(o) \/ CcRemove(o) \/ CcClear(o)
  BY <1>3 DEF CcTeardown, CcLocate, CcRemove, CcClear
<1>4. CASE CcExit \/ CcAge \/ CcReapLook \/ CcReap \/ UNCHANGED ccVars
  BY <1>4 DEF CcExit, CcAge, CcReapLook, CcReap, ccVars, CcTypeOK
<1> QED BY <1>1, <1>2, <1>3, <1>4 DEF CcNext, CcProceed

(* The record names a container that was made, and its own.                 *)
LEMMA CcRecordStep ==
  ASSUME CcTypeOK, CcShape, CcKnown, [CcNext]_ccVars
  PROVE  /\ CcBorn(ccRecord.cid)' /\ CcOwnContainer'
         /\ \A x \in CcOps : ccOp'[x].kind = "deferred" /\ ccRecord'.op = x => ccRecord'.cid = 0
<1> DEFINE Good == /\ CcBorn(ccRecord.cid)' /\ CcOwnContainer'
                   /\ \A x \in CcOps : ccOp'[x].kind = "deferred" /\ ccRecord'.op = x => ccRecord'.cid = 0
<1> SUFFICES Good OBVIOUS
<1>0. /\ ccRecord.cid \in CcOps \cup {0} /\ 0 \notin CcOps /\ CcOps \subseteq Nat
      /\ \A x \in CcOps : ccOp[x] \in CcOperation
  BY OpsAreNumbers, CcTypes DEF CcTypeOK
<1>1. CcBorn(ccRecord.cid) /\ CcOwnContainer BY DEF CcKnown
<1>2. \A x \in CcOps : ccOp[x].kind = "deferred" /\ ccRecord.op = x => ccRecord.cid = 0
  BY DEF CcKnown
<1>a. ASSUME ccRecord' = ccRecord,
             \A x \in CcOps : ccOp'[x].kind = "deferred" => ccOp[x].kind = "deferred" \/ ccRecord.op # x
      PROVE  Good
  <2>1. CcBorn(ccRecord.cid)' BY <1>0, <1>1, <1>a, CcBornStays
  <2> QED BY <1>1, <1>2, <1>a, <2>1 DEF CcOwnContainer
<1>b. ASSUME ccRecord' = CcNoRecord PROVE Good
  BY <1>b DEF CcNoRecord, CcBorn, CcOwnContainer
<1>3. ASSUME NEW o \in CcOps, NEW kind \in {"create", "deferred"}, CcCreate(o, kind) PROVE Good
  <2>1. CcOthersStay(o) BY <1>3, CcEffects DEF CcBegins, CcOthersStay
  <2>2. ccRecord' = ccRecord /\ ccRecord.op # o BY <1>0, <1>3 DEF CcCreate, CcNoRecord
  <2> HIDE DEF Good
  <2> QED BY <1>a, <2>1, <2>2 DEF CcOthersStay
<1>4. ASSUME NEW o \in CcOps, CcReset(o) PROVE Good
  <2>0. CcBegins(o, [kind |-> "reset", phase |-> "clearing", cid |-> ccRecord.cid, seen |-> ccRecord.op])
    BY <1>4, CcEffects
  <2>1. CcOthersStay(o) /\ ccOp'[o].kind = "reset" BY <2>0 DEF CcBegins, CcOthersStay
  <2>2. ccRecord' = ccRecord BY <1>4 DEF CcReset
  <2> HIDE DEF Good
  <2> QED BY <1>a, <2>1, <2>2 DEF CcOthersStay
<1>5. ASSUME NEW o \in CcOps, CcDelete(o) \/ CcClear(o) PROVE Good
  <2> HIDE DEF Good
  <2> QED BY <1>b, <1>5 DEF CcDelete, CcClear
<1>6. ASSUME NEW o \in CcOps, CcWrite(o) PROVE Good
  <2>1. CcOthersStay(o) /\ (ccOp[o].kind = "create" => ccOp'[o] = CcGone) /\ o < ccNext /\ ccNext' = ccNext
    BY <1>6, CcEffects DEF CcChanges, CcOthersStay
  <2>2. CASE ccOp[o].kind = "create"
    <3>1. ccRecord'.op = o /\ ccRecord'.cid = ccOp[o].cid BY <1>6, <2>2 DEF CcWrite
    <3>2. ccRecord'.cid \in {0, o} BY <2>2, <3>1 DEF CcShape, CcStarts
    <3>3. ccOp'[o].phase = "done" /\ ccOp'[o].kind = "none" BY <2>1, <2>2 DEF CcGone, CcUnused
    <3> QED BY <1>0, <2>1, <3>1, <3>2, <3>3 DEF CcBorn, CcOwnContainer
  <2>3. CASE ccOp[o].kind # "create"
    <3>1. ccRecord'.cid = 0 BY <1>6, <2>3 DEF CcWrite
    <3> QED BY <3>1 DEF CcBorn, CcOwnContainer
  <2> QED BY <2>2, <2>3
<1>7. ASSUME NEW o \in CcOps, CcPublish(o) PROVE Good
  <2>1. /\ CcOthersStay(o) /\ (ccRecord.op = o => ccOp'[o] = CcGone) /\ o < ccNext /\ ccNext' = ccNext
        /\ ccRecord.op # o => ccOp'[o].kind = ccOp[o].kind
    <3>1. CcChanges(o, IF ccRecord.op = o THEN CcGone ELSE [ccOp[o] EXCEPT !.phase = "orphaned"])
      BY <1>7, CcEffects
    <3>2. /\ CcOthersStay(o) /\ o < ccNext /\ ccNext' = ccNext
          /\ ccOp'[o] = (IF ccRecord.op = o THEN CcGone ELSE [ccOp[o] EXCEPT !.phase = "orphaned"])
      BY <3>1 DEF CcChanges, CcOthersStay
    <3>3. ccOp[o] \in CcOperation
      BY <1>0
    <3> QED BY <3>2, <3>3 DEF CcOperation
  <2>2. CASE ccRecord.op = o
    <3>1. ccRecord'.op = o /\ ccRecord'.cid = ccOp[o].cid BY <1>7, <2>2 DEF CcPublish, CcTypeOK
    <3>2. ccRecord'.cid \in {0, o} BY <1>7, <3>1 DEF CcShape, CcStarts, CcPublish, CcAt
    <3>3. ccOp'[o].phase = "done" /\ ccOp'[o].kind = "none" BY <2>1, <2>2 DEF CcGone, CcUnused
    <3> QED BY <1>0, <2>1, <3>1, <3>2, <3>3 DEF CcBorn, CcOwnContainer
  <2>3. CASE ccRecord.op # o
    <3>1. ccRecord' = ccRecord BY <1>7, <2>3 DEF CcPublish
    <3> HIDE DEF Good
    <3> QED BY <1>a, <2>1, <2>3, <3>1 DEF CcOthersStay
  <2> QED BY <2>2, <2>3
<1>8. ASSUME NEW o \in CcOps, CcStart(o) \/ CcTeardown(o) \/ CcLocate(o) \/ CcRemove(o) PROVE Good
  <2>1. CcOthersStay(o) BY <1>8, CcEffects DEF CcChanges, CcOthersStay
  <2>2. ccOp'[o].kind \in {ccOp[o].kind, "none"}
    <3>1. /\ [ccOp[o] EXCEPT !.phase = "started"].kind = ccOp[o].kind
          /\ [ccOp[o] EXCEPT !.phase = "started", !.cid = o].kind = ccOp[o].kind
          /\ [ccOp[o] EXCEPT !.phase = "removing", !.seen = ccBox.op].kind = ccOp[o].kind
          /\ CcGone.kind = "none"
      BY <1>0 DEF CcOperation, CcGone, CcUnused
    <3>2. \E new \in {[ccOp[o] EXCEPT !.phase = "started"], [ccOp[o] EXCEPT !.phase = "started", !.cid = o],
                      [ccOp[o] EXCEPT !.phase = "removing", !.seen = ccBox.op], CcGone} : CcChanges(o, new)
      BY <1>8, CcEffects
    <3>3. \E new \in {[ccOp[o] EXCEPT !.phase = "started"], [ccOp[o] EXCEPT !.phase = "started", !.cid = o],
                      [ccOp[o] EXCEPT !.phase = "removing", !.seen = ccBox.op], CcGone} : ccOp'[o] = new
      BY <3>2 DEF CcChanges
    <3> QED BY <3>1, <3>3
  <2>3. ccRecord' = ccRecord BY <1>8 DEF CcStart, CcTeardown, CcLocate, CcRemove
  <2> HIDE DEF Good
  <2> QED BY <1>a, <2>1, <2>2, <2>3 DEF CcOthersStay
<1>9. CASE CcExit \/ CcAge \/ CcReapLook \/ CcReap \/ UNCHANGED ccVars
  <2>1. ccRecord' = ccRecord /\ ccOp' = ccOp BY <1>9 DEF CcExit, CcAge, CcReapLook, CcReap, ccVars
  <2> HIDE DEF Good
  <2> QED BY <1>a, <2>1
<1> HIDE DEF Good
<1> QED
  BY <1>3, <1>4, <1>5, <1>6, <1>7, <1>8, <1>9 DEF CcNext, CcProceed

(* A reset that is under way has removed the container it read of.          *)
LEMMA CcResetStep ==
  ASSUME CcTypeOK, CcShape, CcKnown, [CcNext]_ccVars, NEW x \in CcOps, ccOp'[x].kind = "reset"
  PROVE  CcBorn(ccOp[x].cid)' /\ (ccOp'[x].cid # 0 => ccBox'.op # ccOp'[x].cid)
<1>0. /\ ccRecord.cid \in CcOps \cup {0} /\ 0 \notin CcOps /\ CcOps \subseteq Nat
      /\ \A y \in CcOps : ccOp[y] \in CcOperation
  BY OpsAreNumbers, CcTypes DEF CcTypeOK
<1>1. CASE CcReset(x)
  <2>0. CcBegins(x, [kind |-> "reset", phase |-> "clearing", cid |-> ccRecord.cid, seen |-> ccRecord.op])
    BY <1>1, CcEffects
  <2>1. ccOp'[x].cid = ccRecord.cid BY <2>0 DEF CcBegins
  <2>2. CcBorn(ccRecord.cid) BY DEF CcKnown
  <2>3. CcBorn(ccOp[x].cid)' BY <1>0, <2>1, <2>2, CcBornStays DEF CcBorn
  <2>4. ccOp'[x].cid # 0 => ccBox'.op # ccOp'[x].cid
    BY <1>1, <2>1 DEF CcReset, CcRemoved, CcNoBox
  <2> QED BY <2>3, <2>4
<1>2. CASE ~CcReset(x)
  <2>1. ccOp'[x] = ccOp[x]
    <3>1. ASSUME NEW o \in CcOps, NEW new, CcBegins(o, new) \/ CcChanges(o, new), o = x => new.kind # "reset"
          PROVE  ccOp'[x] = ccOp[x]
      BY <3>1 DEF CcBegins, CcChanges
    <3>2. ASSUME NEW o \in CcOps, \/ \E kind \in {"create", "deferred"} : CcCreate(o, kind)
                                 \/ CcDelete(o) \/ (CcReset(o) /\ o # x)
          PROVE  ccOp'[x] = ccOp[x]
      <4>1. CASE \E kind \in {"create", "deferred"} : CcCreate(o, kind)
        <5>1. PICK kind \in {"create", "deferred"} : CcCreate(o, kind) BY <4>1
        <5> DEFINE new == [kind |-> kind, phase |-> IF kind = "create" THEN "starting" ELSE "writing",
                           cid |-> 0, seen |-> 0]
        <5>2. CcBegins(o, new) BY <5>1, CcEffects
        <5> QED BY <3>1, <5>2
      <4>2. CASE CcDelete(o)
        <5> DEFINE new == [kind |-> "delete", phase |-> "locating", cid |-> ccRecord.cid, seen |-> 0]
        <5>2. CcBegins(o, new) BY <4>2, CcEffects
        <5> QED BY <3>1, <5>2
      <4>3. CASE CcReset(o) /\ o # x
        <5> DEFINE new == [kind |-> "reset", phase |-> "clearing", cid |-> ccRecord.cid, seen |-> ccRecord.op]
        <5>2. CcBegins(o, new) BY <4>3, CcEffects
        <5> QED BY <3>1, <4>3, <5>2
      <4> QED BY <3>2, <4>1, <4>2, <4>3
    <3>3. ASSUME NEW o \in CcOps, CcProceed(o) PROVE ccOp'[x] = ccOp[x]
      <4>1. CASE CcStart(o)
        <5>1. [ccOp[o] EXCEPT !.phase = "started"].kind # "reset"
          BY <1>0, <4>1 DEF CcStart, CcOperation
        <5>2. [ccOp[o] EXCEPT !.phase = "started", !.cid = o].kind # "reset"
          BY <1>0, <4>1 DEF CcStart, CcOperation
        <5> QED BY <3>1, <4>1, <5>1, <5>2, CcEffects
      <4>2. CASE CcWrite(o) \/ CcPublish(o) \/ CcLocate(o)
        <5>0. ccOp[o].kind # "reset" BY <4>2 DEF CcWrite, CcPublish, CcLocate, CcAt
        <5>1. /\ [ccOp[o] EXCEPT !.phase = "starting"].kind # "reset"
              /\ [ccOp[o] EXCEPT !.phase = "orphaned"].kind # "reset"
              /\ [ccOp[o] EXCEPT !.phase = "removing", !.seen = ccBox.op].kind # "reset"
          BY <1>0, <5>0 DEF CcOperation
        <5>2. CcGone.kind # "reset" BY DEF CcGone, CcUnused
        <5> QED BY <3>1, <4>2, <5>1, <5>2, CcEffects
      <4>3. CASE CcTeardown(o) \/ CcRemove(o) \/ CcClear(o)
        <5>2. CcGone.kind # "reset" BY DEF CcGone, CcUnused
        <5> QED BY <3>1, <4>3, <5>2, CcEffects
      <4> QED BY <3>3, <4>1, <4>2, <4>3 DEF CcProceed
    <3>4. CASE CcExit \/ CcAge \/ CcReapLook \/ CcReap \/ UNCHANGED ccVars
      BY <3>4 DEF CcExit, CcAge, CcReapLook, CcReap, ccVars
    <3> QED BY <1>2, <3>2, <3>3, <3>4 DEF CcNext
  <2>2. CcBorn(ccOp[x].cid) /\ (ccOp[x].cid # 0 => ccBox.op # ccOp[x].cid) BY <2>1 DEF CcKnown
  <2>3. ccOp[x].cid \in CcOps \cup {0} BY <1>0 DEF CcOperation
  <2>4. CcBorn(ccOp[x].cid)' BY <2>1, <2>2, <2>3, CcBornStays DEF CcBorn
  <2>5. ccOp[x].cid # 0 => ccBox'.op # ccOp[x].cid
    BY <2>2, CcNameStep DEF CcBorn
  <2> QED BY <2>1, <2>4, <2>5
<1> QED BY <1>1, <1>2

LEMMA CcKnownStep == CcTypeOK /\ CcShape /\ CcKnown /\ [CcNext]_ccVars => CcKnown'
BY CcRecordStep, CcResetStep DEF CcKnown

-----------------------------------------------------------------------------
(* One that keeps the container goes on keeping it when it takes no step.   *)
LEMMA CcKeepsOn ==
  ASSUME NEW k \in CcOps, CcKeeps(k), ccOp'[k] = ccOp[k], ccBox'.op = ccBox.op
  PROVE  CcKeeps(k)'
BY DEF CcKeeps, CcStarts

(* Whatever takes the container's number from one puts it with another.     *)
LEMMA CcKeptStep == CcTypeOK /\ CcShape /\ CcKnown /\ CcKept /\ [CcNext]_ccVars => CcKept'
<1> SUFFICES ASSUME CcTypeOK, CcShape, CcKnown, CcKept, [CcNext]_ccVars, ccBox'.op # 0, ~ccRaced'
             PROVE  ccRecord'.cid = ccBox'.op \/ \E k \in CcOps : CcKeeps(k)'
  BY DEF CcKept
<1> DEFINE Has == ccRecord'.cid = ccBox'.op \/ \E k \in CcOps : CcKeeps(k)'
<1> SUFFICES Has OBVIOUS
<1>0. /\ CcOps \subseteq Nat /\ 0 \notin CcOps /\ \A x \in CcOps : ccOp[x] \in CcOperation
  BY OpsAreNumbers, CcTypes
<1>a. ASSUME NEW o \in CcOps, CcOthersStay(o), ccBox' = ccBox, NEW k \in CcOps, CcKeeps(k), k # o PROVE Has
  BY <1>a, CcKeepsOn DEF CcOthersStay
<1>b. ~ccRaced /\ ccBox.op # 0 => ccRecord.cid = ccBox.op \/ \E k \in CcOps : CcKeeps(k)
  BY DEF CcKept
<1>1. ASSUME NEW o \in CcOps, NEW kind \in {"create", "deferred"}, CcCreate(o, kind) PROVE Has
  <2>1. CcOthersStay(o) BY <1>1, CcEffects DEF CcBegins, CcOthersStay
  <2>2. ccBox' = ccBox /\ ccRecord' = ccRecord /\ ~ccRaced BY <1>1 DEF CcCreate
  <2>3. ~CcKeeps(o)
    <3>1. ccOp[o] = CcUnused BY <1>0, <1>1 DEF CcShape, CcCreate
    <3> QED BY <3>1 DEF CcUnused, CcKeeps, CcStarts
  <2> QED BY <1>a, <1>b, <2>1, <2>2, <2>3
<1>2. ASSUME NEW o \in CcOps, CcDelete(o) PROVE Has
  <2>1. CcBegins(o, [kind |-> "delete", phase |-> "locating", cid |-> ccRecord.cid, seen |-> 0])
    BY <1>2, CcEffects
  <2>2. ccOp'[o].kind = "delete" /\ ccOp'[o].phase = "locating" BY <2>1 DEF CcBegins
  <2> QED BY <2>2 DEF CcKeeps
<1>3. ASSUME NEW o \in CcOps, CcReset(o) PROVE Has
  <2>0. CcBegins(o, [kind |-> "reset", phase |-> "clearing", cid |-> ccRecord.cid, seen |-> ccRecord.op])
    BY <1>3, CcEffects
  <2>1. CcOthersStay(o) BY <2>0 DEF CcBegins, CcOthersStay
  <2>2. ccBox' = ccBox /\ ccRecord.cid # ccBox.op /\ ~ccRaced BY <1>3 DEF CcReset, CcRemoved, CcNoBox
  <2>3. ~CcKeeps(o)
    <3>1. ccOp[o] = CcUnused BY <1>0, <1>3 DEF CcShape, CcReset
    <3> QED BY <3>1 DEF CcUnused, CcKeeps, CcStarts
  <2> QED BY <1>a, <1>b, <2>1, <2>2, <2>3
<1>4. ASSUME NEW o \in CcOps, CcStart(o) PROVE Has
  <2> DEFINE without == [ccOp[o] EXCEPT !.phase = "started"]
             with == [ccOp[o] EXCEPT !.phase = "started", !.cid = o]
  <2>1. CASE CcChanges(o, without) /\ ccBox' = ccBox
    <3>1. CcOthersStay(o) /\ ccRecord' = ccRecord /\ ~ccRaced
      BY <1>4, <2>1 DEF CcStart, CcChanges, CcOthersStay
    <3>2. ~CcKeeps(o) BY <1>4 DEF CcStart, CcKeeps, CcStarts
    <3> QED BY <1>a, <1>b, <2>1, <3>1, <3>2
  <2>2. CASE CcChanges(o, with) /\ ccBox' = [op |-> o, state |-> "running"]
    <3>1. with.kind = ccOp[o].kind /\ with.phase = "started" /\ with.cid = o
      BY <1>0 DEF CcOperation
    <3>2. ccOp'[o] = with /\ ccBox'.op = o BY <2>2 DEF CcChanges
    <3> HIDE DEF with
    <3>3. CcKeeps(o)' BY <1>4, <3>1, <3>2 DEF CcKeeps, CcStarts, CcStart
    <3> QED BY <3>3
  <2> HIDE DEF Has
  <2> QED BY <1>4, <2>1, <2>2, CcEffects
<1>5. ASSUME NEW o \in CcOps, CcWrite(o) PROVE Has
  <2>1. CcOthersStay(o) BY <1>5, CcEffects DEF CcChanges, CcOthersStay
  <2>2. ccBox' = ccBox /\ ~ccRaced /\ ccRecord = CcNoRecord BY <1>5 DEF CcWrite
  <2>3. PICK k \in CcOps : CcKeeps(k) BY <1>b, <2>2 DEF CcNoRecord
  <2>4. CASE k = o
    <3>1. ccOp[o].kind = "create" /\ ccOp[o].cid = ccBox.op
      BY <1>5, <2>3, <2>4 DEF CcWrite, CcAt, CcKeeps, CcStarts
    <3>2. ccRecord'.cid = ccOp[o].cid BY <1>5, <3>1 DEF CcWrite
    <3> QED BY <2>2, <3>1, <3>2
  <2> QED BY <1>a, <2>1, <2>2, <2>3, <2>4
<1>6. ASSUME NEW o \in CcOps, CcPublish(o) PROVE Has
  <2>1. CcOthersStay(o) BY <1>6, CcEffects DEF CcChanges, CcOthersStay
  <2>2. ccBox' = ccBox /\ ~ccRaced BY <1>6 DEF CcPublish
  <2>3. CASE ccRecord.op = o
    <3>1. ccRecord.cid = 0 BY <1>6, <2>3 DEF CcKnown, CcPublish, CcAt
    <3>2. PICK k \in CcOps : CcKeeps(k) BY <1>b, <2>2, <3>1
    <3>3. CASE k = o
      <4>1. ccOp[o].cid = ccBox.op BY <1>6, <3>2, <3>3 DEF CcPublish, CcAt, CcKeeps
      <4>2. ccRecord'.cid = ccOp[o].cid BY <1>6, <2>3 DEF CcPublish, CcTypeOK
      <4> QED BY <2>2, <4>1, <4>2
    <3> QED BY <1>a, <2>1, <2>2, <3>2, <3>3
  <2>4. CASE ccRecord.op # o
    <3>1. ccRecord' = ccRecord BY <1>6, <2>4 DEF CcPublish
    <3>2. CcKeeps(o) => CcKeeps(o)'
      <4> DEFINE new == [ccOp[o] EXCEPT !.phase = "orphaned"]
      <4>1. CcChanges(o, new) BY <1>6, <2>4, CcEffects
      <4>2. new.kind = "deferred" /\ new.phase = "orphaned" /\ new.cid = ccOp[o].cid
        BY <1>0, <1>6 DEF CcOperation, CcPublish, CcAt
      <4>3. ccOp'[o] = new BY <4>1 DEF CcChanges
      <4> HIDE DEF new
      <4> QED BY <1>6, <2>2, <4>2, <4>3 DEF CcKeeps, CcStarts, CcPublish, CcAt
    <3> QED BY <1>a, <1>b, <2>1, <2>2, <3>1, <3>2
  <2> QED BY <2>3, <2>4
<1>7. ASSUME NEW o \in CcOps, CcTeardown(o) \/ CcRemove(o) PROVE Has
  <2>1. CcOthersStay(o) BY <1>7, CcEffects DEF CcChanges, CcOthersStay
  <2>2. ccBox' = ccBox /\ ~ccRaced /\ ccRecord' = ccRecord
    BY <1>7 DEF CcTeardown, CcRemove, CcRemoved, CcNoBox
  <2>3. ~CcKeeps(o)
    BY <1>7, <2>2 DEF CcTeardown, CcRemove, CcAt, CcKeeps, CcStarts, CcRemoved, CcNoBox
  <2> QED BY <1>a, <1>b, <2>1, <2>2, <2>3
<1>8. ASSUME NEW o \in CcOps, CcLocate(o) PROVE Has
  <2> DEFINE new == [ccOp[o] EXCEPT !.phase = "removing", !.seen = ccBox.op]
  <2>1. CcChanges(o, new) BY <1>8, CcEffects
  <2>2. new.kind = "delete" /\ new.phase = "removing" /\ new.seen = ccBox.op
    BY <1>0, <1>8 DEF CcOperation, CcLocate, CcAt
  <2>3. ccOp'[o] = new /\ ccBox' = ccBox BY <1>8, <2>1 DEF CcChanges, CcLocate
  <2> HIDE DEF new
  <2>4. CcKeeps(o)' BY <2>2, <2>3 DEF CcKeeps
  <2> QED BY <2>4
<1>9. ASSUME NEW o \in CcOps, CcClear(o) PROVE Has
  <2>1. CcOthersStay(o) BY <1>9, CcEffects DEF CcChanges, CcOthersStay
  <2>2. ccBox' = ccBox /\ ~ccRaced /\ ccRecord.cid = ccOp[o].cid /\ ccOp[o].kind = "reset"
    BY <1>9 DEF CcClear, CcAt
  <2>3. ccRecord.cid # ccBox.op BY <2>2 DEF CcKnown
  <2>4. ~CcKeeps(o) BY <2>2 DEF CcKeeps, CcStarts
  <2> QED BY <1>a, <1>b, <2>1, <2>2, <2>3, <2>4
<1>10. CASE CcExit \/ CcAge \/ CcReapLook \/ CcReap \/ UNCHANGED ccVars
  <2>1. ccOp' = ccOp /\ ccRecord' = ccRecord /\ ~ccRaced /\ ccBox'.op = ccBox.op
    BY <1>10 DEF CcExit, CcAge, CcReapLook, CcReap, CcNoBox, ccVars, CcTypeOK
  <2> QED BY <1>b, <2>1, CcKeepsOn
<1> HIDE DEF Has
<1> QED BY <1>1, <1>2, <1>3, <1>4, <1>5, <1>6, <1>7, <1>8, <1>9, <1>10 DEF CcNext, CcProceed

-----------------------------------------------------------------------------
(* The inductive invariant implies what is promised.                        *)
LEMMA CcInvPromises == CcInv => CcTypeOK /\ CcNoOrphan /\ CcOwnContainer
<1> SUFFICES ASSUME CcInv, ccBox # CcNoBox, ~ccRaced
             PROVE  \/ ccRecord.cid = ccBox.op
                    \/ \E o \in CcOps : /\ ccOp[o].phase \notin {"idle", "done"}
                                        /\ ccBox.op \in {ccOp[o].cid, ccOp[o].seen} \/ ccOp[o].phase = "locating"
  BY DEF CcInv, CcNoOrphan, CcKnown
<1>1. ccBox.op # 0 BY DEF CcInv, CcTypeOK, CcNoBox
<1>2. ccRecord.cid = ccBox.op \/ \E o \in CcOps : CcKeeps(o) BY <1>1 DEF CcInv, CcKept
<1> QED BY <1>2 DEF CcKeeps

LEMMA CcInvStep == CcInv /\ [CcNext]_ccVars => CcInv'
BY CcTypeStep, CcShapeStep, CcKnownStep, CcKeptStep DEF CcInv

-----------------------------------------------------------------------------
(* The gateway over any number of runs, resets and writes.                  *)
(* The shapes of the gateway's records, wherever GwTypeOK leaves them open. *)
GwTypes ==
  /\ gwRun \in [phase : {"down", "up", "stopping"}, format : Nat, broken : SUBSET GwIds]
  /\ gwModule \in [GwIds -> {"none", "loaded", "error"}]
  /\ gwWrites \in Nat /\ gwBoots \in Nat
  /\ gwMemory \in [GwIds -> SUBSET (1..gwWrites)]
  /\ gwFile \in [GwIds -> [format : Nat, holds : SUBSET (1..gwWrites)]]
  /\ gwKept \in [GwIds -> SUBSET (1..gwWrites)]
  /\ gwSaving \in [left : SUBSET GwIds, writing : SUBSET GwIds, tmp : SUBSET (1..gwWrites)]
  /\ gwLock \in Seq(GwRequests \cup {"reset"})
  /\ gwWiping \in [on : BOOLEAN, left : SUBSET GwIds]
  /\ gwRequest \in [GwRequests -> {"idle", "gate", "past"}]
  /\ gwSeen \in [GwRequests -> Nat]
  /\ gwResets \in [begun : Nat, done : Nat, mark : Nat, wiped : Nat]

(* Which phase leaves what at rest.                                         *)
GwPhases ==
  /\ gwRun.phase # "stopping" => gwSaving = GwNotSaving
  /\ gwRun.phase = "down" => gwWiping = GwNotWiping
  /\ ~GwUp => gwLock = <<>> /\ \A q \in GwRequests : gwRequest[q] = "idle"
  /\ GwUp /\ gwWiping.on => GwHolds("reset")

(* Who waits for the lock waits once, and is who is at the gate.            *)
GwQueue ==
  /\ \A i, j \in 1..Len(gwLock) : gwLock[i] = gwLock[j] => i = j
  /\ \A q \in GwRequests : gwRequest[q] = "gate" <=> \E i \in 1..Len(gwLock) : gwLock[i] = q

(* A request that came during a reset waits behind it until it is answered. *)
GwBehind ==
  /\ gwResets.done <= gwResets.begun
  /\ \A q \in GwRequests :
       /\ gwSeen[q] <= gwResets.begun
       /\ gwRequest[q] # "idle" /\ gwSeen[q] > gwResets.done => gwRequest[q] = "gate" /\ gwWiping.on

(* What a reset has come past holds nothing older than the reset; what it   *)
(* has answered for is nowhere.                                             *)
GwOlder(n) == 1..n
GwWiped ==
  /\ gwResets.wiped <= gwResets.mark /\ gwResets.mark <= gwWrites
  /\ \A s \in GwIds : /\ gwModule[s] # "loaded" => gwMemory[s] = {}
                      /\ gwMemory[s] \cap GwOlder(gwResets.wiped) = {}
                      /\ gwFile[s].holds \cap GwOlder(gwResets.wiped) = {}
                      /\ gwWiping.on /\ s \notin gwWiping.left => gwMemory[s] \cap GwOlder(gwResets.mark) = {}
  /\ gwSaving.tmp \cap GwOlder(gwResets.wiped) = {}

(* What is saved is in the file and, until it is written again, in the      *)
(* memory or the temporary file that will replace it.                       *)
GwSafe ==
  /\ GwSavedStays
  /\ gwWiping.on => gwKept = GwNothing
  /\ \A s \in GwIds :
       /\ GwUp \/ s \in gwSaving.left => (gwModule[s] = "loaded" => gwKept[s] \subseteq gwMemory[s])
       /\ GwUp \/ s \in gwSaving.left => (gwModule[s] = "none" => gwKept[s] = {})
       /\ s \in gwSaving.writing => gwKept[s] \subseteq gwSaving.tmp /\ gwSaving.writing = {s}

GwInv == GwTypes /\ GwPhases /\ GwQueue /\ GwBehind /\ GwWiped /\ GwSafe

-----------------------------------------------------------------------------
LEMMA GwNumbers == /\ "reset" \notin GwRequests /\ GwFormats \subseteq Nat \ {0}
                   /\ GwServices \in Nat /\ GwIds \subseteq Nat
BY GwAssumption DEF GwIds

LEMMA GwInitInv == GwInit => GwInv
<1> SUFFICES ASSUME GwInit PROVE GwInv OBVIOUS
<1>0. GwIds \subseteq Nat BY GwNumbers
<1>1. GwTypes
  <2>1. gwRun \in [phase : {"down", "up", "stopping"}, format : Nat, broken : SUBSET GwIds]
    BY DEF GwInit, GwDown
  <2>2. gwFile \in [GwIds -> [format : Nat, holds : SUBSET (1..gwWrites)]] BY DEF GwInit, GwNoFile
  <2>3. gwMemory \in [GwIds -> SUBSET (1..gwWrites)] /\ gwKept \in [GwIds -> SUBSET (1..gwWrites)]
    BY DEF GwInit, GwNothing
  <2>4. /\ gwModule \in [GwIds -> {"none", "loaded", "error"}]
        /\ gwRequest \in [GwRequests -> {"idle", "gate", "past"}] /\ gwSeen \in [GwRequests -> Nat]
    BY DEF GwInit, GwIdle
  <2>5. gwSaving \in [left : SUBSET GwIds, writing : SUBSET GwIds, tmp : SUBSET (1..gwWrites)]
    BY DEF GwInit, GwNotSaving
  <2> QED BY <2>1, <2>2, <2>3, <2>4, <2>5 DEF GwInit, GwTypes, GwNotWiping
<1>2. GwPhases BY DEF GwInit, GwPhases, GwUp, GwDown, GwIdle
<1>3. GwQueue BY DEF GwInit, GwQueue, GwIdle
<1>4. GwBehind BY DEF GwInit, GwBehind
<1>5. GwWiped BY <1>0 DEF GwInit, GwWiped, GwOlder, GwNothing, GwNoFile, GwNotSaving, GwNotWiping
<1>6. GwSafe BY DEF GwInit, GwSafe, GwSavedStays, GwNothing, GwNotSaving, GwNotWiping, GwUp, GwDown
<1> QED BY <1>1, <1>2, <1>3, <1>4, <1>5, <1>6 DEF GwInv

-----------------------------------------------------------------------------
(* Types, one action after the other.                                       *)
LEMMA GwTypeStep == GwTypes /\ [GwNext]_gwVars => GwTypes'
<1> SUFFICES ASSUME GwTypes, [GwNext]_gwVars PROVE GwTypes' OBVIOUS
<1> USE GwNumbers
<1>0. /\ gwWrites \in Nat /\ gwMemory \in [GwIds -> SUBSET (1..gwWrites)]
      /\ gwFile \in [GwIds -> [format : Nat, holds : SUBSET (1..gwWrites)]]
      /\ gwKept \in [GwIds -> SUBSET (1..gwWrites)]
      /\ gwSaving \in [left : SUBSET GwIds, writing : SUBSET GwIds, tmp : SUBSET (1..gwWrites)]
      /\ gwLock \in Seq(GwRequests \cup {"reset"})
      /\ gwRun \in [phase : {"down", "up", "stopping"}, format : Nat, broken : SUBSET GwIds]
      /\ gwResets \in [begun : Nat, done : Nat, mark : Nat, wiped : Nat]
  BY DEF GwTypes
<1>1. ASSUME NEW f \in GwFormats, NEW broken \in SUBSET GwIds, NEW failing \in SUBSET GwIds,
             GwBoot(f, broken, failing)
      PROVE  GwTypes'
  <2>1. gwRun' \in [phase : {"down", "up", "stopping"}, format : Nat, broken : SUBSET GwIds]
    BY <1>1 DEF GwBoot
  <2>2. gwModule' \in [GwIds -> {"none", "loaded", "error"}] BY <1>1 DEF GwBoot
  <2>3. gwMemory' \in [GwIds -> SUBSET (1..gwWrites)] BY <1>0, <1>1 DEF GwBoot
  <2>4. gwKept' \in [GwIds -> SUBSET (1..gwWrites)] BY <1>0, <1>1 DEF GwBoot
  <2>5. gwBoots' \in Nat BY <1>1 DEF GwBoot, GwTypes
  <2>6. UNCHANGED <<gwFile, gwSaving, gwLock, gwWiping, gwRequest, gwWrites, gwSeen, gwResets>>
    BY <1>1 DEF GwBoot
  <2> QED BY <2>1, <2>2, <2>3, <2>4, <2>5, <2>6 DEF GwTypes
<1>2. ASSUME NEW q \in GwRequests, GwArrive(q) PROVE GwTypes'
  <2>1. gwLock' \in Seq(GwRequests \cup {"reset"}) BY <1>2 DEF GwArrive, GwTypes
  <2>2. gwSeen' \in [GwRequests -> Nat] /\ gwRequest' \in [GwRequests -> {"idle", "gate", "past"}]
    BY <1>2 DEF GwArrive, GwTypes
  <2> QED BY <1>2, <2>1, <2>2 DEF GwArrive, GwTypes
<1>3. ASSUME NEW q \in GwRequests, GwPass(q) PROVE GwTypes'
  <2>1. gwLock' \in Seq(GwRequests \cup {"reset"}) BY <1>3 DEF GwPass, GwHolds, GwTypes
  <2>2. gwRequest' \in [GwRequests -> {"idle", "gate", "past"}] BY <1>3 DEF GwPass, GwTypes
  <2> QED BY <1>3, <2>1, <2>2 DEF GwPass, GwTypes
<1>4. ASSUME NEW q \in GwRequests, NEW s \in GwIds, NEW writes \in BOOLEAN, NEW ends \in BOOLEAN,
             GwHandle(q, s, writes, ends)
      PROVE  GwTypes'
  <2>1. gwWrites' \in {gwWrites, gwWrites + 1} BY <1>4 DEF GwHandle
  <2>2. gwWrites' \in Nat /\ 1..gwWrites \subseteq 1..gwWrites' BY <1>0, <2>1
  <2>3. gwMemory' \in [GwIds -> SUBSET (1..gwWrites')]
    <3>1. CASE writes
      <4>1. gwWrites' = gwWrites + 1 /\ gwMemory' = [gwMemory EXCEPT ![s] = @ \cup {gwWrites + 1}]
        BY <1>4, <3>1 DEF GwHandle
      <4>2. gwMemory[s] \cup {gwWrites + 1} \subseteq 1..gwWrites' BY <1>0, <4>1
      <4> QED BY <1>0, <2>2, <4>1, <4>2
    <3>2. CASE ~writes BY <1>0, <1>4, <2>2, <3>2 DEF GwHandle
    <3> QED BY <3>1, <3>2
  <2>4. /\ gwFile \in [GwIds -> [format : Nat, holds : SUBSET (1..gwWrites')]]
        /\ gwKept \in [GwIds -> SUBSET (1..gwWrites')]
        /\ gwSaving \in [left : SUBSET GwIds, writing : SUBSET GwIds, tmp : SUBSET (1..gwWrites')]
    BY <1>0, <2>2
  <2>5. gwModule' \in [GwIds -> {"none", "loaded", "error"}] BY <1>4 DEF GwHandle, GwTypes
  <2>6. gwRequest' \in [GwRequests -> {"idle", "gate", "past"}] /\ gwSeen' \in [GwRequests -> Nat]
    BY <1>4 DEF GwHandle, GwTypes
  <2> QED BY <1>4, <2>2, <2>3, <2>4, <2>5, <2>6 DEF GwHandle, GwTypes
<1>5. CASE GwResetArrives
  <2>1. gwLock' \in Seq(GwRequests \cup {"reset"}) BY <1>0, <1>5 DEF GwResetArrives
  <2> QED BY <1>5, <2>1 DEF GwResetArrives, GwTypes
<1>13. CASE GwResetBegins
  <2>1. gwKept' \in [GwIds -> SUBSET (1..gwWrites)] BY <1>13 DEF GwResetBegins, GwNothing
  <2>2. gwResets' \in [begun : Nat, done : Nat, mark : Nat, wiped : Nat]
    <3>1. gwResets.begun + 1 \in Nat BY <1>0
    <3>2. gwResets' = [gwResets EXCEPT !.begun = gwResets.begun + 1, !.mark = gwWrites]
      BY <1>13 DEF GwResetBegins
    <3> QED BY <1>0, <3>1, <3>2
  <2> QED BY <1>13, <2>1, <2>2 DEF GwResetBegins, GwTypes
<1>6. ASSUME NEW s \in GwIds, GwResetService(s) PROVE GwTypes'
  <2>1. gwMemory' \in [GwIds -> SUBSET (1..gwWrites)] BY <1>0, <1>6 DEF GwResetService
  <2>2. gwWiping' \in [on : BOOLEAN, left : SUBSET GwIds] BY <1>6 DEF GwResetService, GwTypes
  <2> QED BY <1>6, <2>1, <2>2 DEF GwResetService, GwTypes
<1>7. CASE GwResetFiles
  <2>1. gwFile' \in [GwIds -> [format : Nat, holds : SUBSET (1..gwWrites)]]
    BY <1>7 DEF GwResetFiles, GwNoFile
  <2>2. gwKept' \in [GwIds -> SUBSET (1..gwWrites)] BY <1>7 DEF GwResetFiles, GwNothing
  <2>3. gwLock' \in Seq(GwRequests \cup {"reset"}) BY <1>7 DEF GwResetFiles, GwHolds, GwTypes
  <2>4. gwResets' \in [begun : Nat, done : Nat, mark : Nat, wiped : Nat] BY <1>7 DEF GwResetFiles, GwTypes
  <2> QED BY <1>7, <2>1, <2>2, <2>3, <2>4 DEF GwResetFiles, GwTypes, GwNotWiping
<1>8. CASE GwShutdown
  <2>1. gwSaving' \in [left : SUBSET GwIds, writing : SUBSET GwIds, tmp : SUBSET (1..gwWrites)]
    BY <1>8 DEF GwShutdown, GwNotSaving
  <2>2. gwRun' \in [phase : {"down", "up", "stopping"}, format : Nat, broken : SUBSET GwIds]
    BY <1>0, <1>8 DEF GwShutdown
  <2>3. gwRequest' \in [GwRequests -> {"idle", "gate", "past"}] /\ gwSeen' \in [GwRequests -> Nat]
    BY <1>8 DEF GwShutdown, GwIdle
  <2>4. gwLock' \in Seq(GwRequests \cup {"reset"}) BY <1>8 DEF GwShutdown
  <2> QED BY <1>8, <2>1, <2>2, <2>3, <2>4 DEF GwShutdown, GwTypes
<1>9. ASSUME NEW s \in GwIds, GwWrite(s) PROVE GwTypes'
  <2>1. gwSaving' \in [left : SUBSET GwIds, writing : SUBSET GwIds, tmp : SUBSET (1..gwWrites)]
    BY <1>0, <1>9 DEF GwWrite
  <2> QED BY <1>9, <2>1 DEF GwWrite, GwTypes
<1>10. ASSUME NEW s \in GwIds, NEW succeeds \in BOOLEAN, GwReplace(s, succeeds) PROVE GwTypes'
  <2>1. gwSaving' \in [left : SUBSET GwIds, writing : SUBSET GwIds, tmp : SUBSET (1..gwWrites)]
    BY <1>0, <1>10 DEF GwReplace
  <2>2. gwFile' \in [GwIds -> [format : Nat, holds : SUBSET (1..gwWrites)]]
    <3>1. [format |-> gwRun.format, holds |-> gwSaving.tmp] \in [format : Nat, holds : SUBSET (1..gwWrites)]
      BY DEF GwTypes
    <3> QED BY <1>0, <1>10, <3>1 DEF GwReplace
  <2>3. gwKept' \in [GwIds -> SUBSET (1..gwWrites)]
    <3>1. gwKept[s] \cup gwSaving.tmp \in SUBSET (1..gwWrites) BY <1>0
    <3> QED BY <1>0, <1>10, <3>1 DEF GwReplace
  <2> QED BY <1>10, <2>1, <2>2, <2>3 DEF GwReplace, GwTypes
<1>11. CASE GwExit \/ GwCrash
  <2>0. GwEnds BY <1>11 DEF GwExit, GwCrash
  <2>1. gwRun' \in [phase : {"down", "up", "stopping"}, format : Nat, broken : SUBSET GwIds]
    BY <2>0 DEF GwEnds, GwDown
  <2>2. gwSaving' \in [left : SUBSET GwIds, writing : SUBSET GwIds, tmp : SUBSET (1..gwWrites)]
    BY <2>0 DEF GwEnds, GwNotSaving
  <2>3. gwMemory' \in [GwIds -> SUBSET (1..gwWrites)] BY <2>0 DEF GwEnds, GwNothing
  <2> QED BY <2>0, <2>1, <2>2, <2>3 DEF GwEnds, GwTypes, GwIdle, GwNotWiping
<1>12. CASE UNCHANGED gwVars BY <1>12 DEF gwVars, GwTypes
<1> QED
  BY <1>1, <1>2, <1>3, <1>4, <1>5, <1>6, <1>7, <1>8, <1>9, <1>10, <1>11, <1>12, <1>13 DEF GwNext

-----------------------------------------------------------------------------
(* A queue's head stays while others come; the lock's facts are these two.  *)
LEMMA GwHeadStays ==
  ASSUME GwTypes, NEW x \in GwRequests \cup {"reset"}, gwLock' = Append(gwLock, x)
  PROVE  /\ \A y : GwHolds(y) => GwHolds(y)'
         /\ Len(gwLock') = Len(gwLock) + 1 /\ gwLock'[Len(gwLock) + 1] = x
         /\ \A i \in 1..Len(gwLock) : gwLock'[i] = gwLock[i]
BY DEF GwTypes, GwHolds

LEMMA GwPhaseStep == GwTypes /\ GwPhases /\ [GwNext]_gwVars => GwPhases'
<1> SUFFICES ASSUME GwTypes, GwPhases, [GwNext]_gwVars PROVE GwPhases' OBVIOUS
<1> USE GwNumbers
<1>1. ASSUME NEW f \in GwFormats, NEW broken \in SUBSET GwIds, NEW failing \in SUBSET GwIds,
             GwBoot(f, broken, failing)
      PROVE  GwPhases'
  BY <1>1 DEF GwBoot, GwPhases, GwUp, GwNotWiping
<1>2. ASSUME NEW q \in GwRequests, GwArrive(q) PROVE GwPhases'
  BY <1>2, GwHeadStays DEF GwArrive, GwPhases, GwUp
<1>3. ASSUME NEW q \in GwRequests, GwPass(q) PROVE GwPhases'
  <2>1. ~gwWiping.on BY <1>3 DEF GwPass, GwPhases, GwHolds
  <2> QED BY <1>3, <2>1 DEF GwPass, GwPhases, GwUp
<1>4. ASSUME NEW q \in GwRequests, NEW s \in GwIds, NEW writes \in BOOLEAN, NEW ends \in BOOLEAN,
             GwHandle(q, s, writes, ends)
      PROVE  GwPhases'
  BY <1>4 DEF GwHandle, GwPhases, GwUp, GwHolds
<1>5. CASE GwResetArrives
  BY <1>5, GwHeadStays DEF GwResetArrives, GwPhases, GwUp
<1>6. CASE GwResetBegins
  BY <1>6 DEF GwResetBegins, GwPhases, GwUp, GwHolds
<1>7. ASSUME NEW s \in GwIds, GwResetService(s) PROVE GwPhases'
  <2>1. gwWiping'.on = gwWiping.on BY <1>7 DEF GwResetService, GwTypes
  <2>2. gwRun.phase # "down" BY <1>7 DEF GwResetService, GwPhases, GwNotWiping
  <2> QED BY <1>7, <2>1, <2>2 DEF GwResetService, GwPhases, GwUp, GwHolds
<1>8. CASE GwResetFiles
  BY <1>8 DEF GwResetFiles, GwPhases, GwUp, GwHolds, GwNotWiping
<1>9. CASE GwShutdown
  <2>1. gwRun'.phase = "stopping" BY <1>9 DEF GwShutdown, GwTypes
  <2> QED BY <1>9, <2>1 DEF GwShutdown, GwPhases, GwUp, GwIdle
<1>10. ASSUME NEW s \in GwIds, NEW succeeds \in BOOLEAN, GwWrite(s) \/ GwReplace(s, succeeds)
       PROVE  GwPhases'
  <2>1. gwRun.phase = "stopping" BY <1>10 DEF GwWrite, GwReplace, GwPhases, GwNotSaving
  <2> QED BY <1>10, <2>1 DEF GwWrite, GwReplace, GwPhases, GwUp
<1>11. CASE GwExit \/ GwCrash
  BY <1>11 DEF GwExit, GwCrash, GwEnds, GwDown, GwPhases, GwUp, GwIdle, GwNotWiping
<1>12. CASE UNCHANGED gwVars BY <1>12 DEF gwVars, GwPhases, GwUp, GwHolds
<1> QED
  BY <1>1, <1>2, <1>3, <1>4, <1>5, <1>6, <1>7, <1>8, <1>9, <1>10, <1>11, <1>12 DEF GwNext

(* Which of the steps move the queue, and how.                              *)
LEMMA GwQueueStep == GwTypes /\ GwPhases /\ GwQueue /\ [GwNext]_gwVars => GwQueue'
<1> SUFFICES ASSUME GwTypes, GwPhases, GwQueue, [GwNext]_gwVars PROVE GwQueue' OBVIOUS
<1> USE GwNumbers
<1>0. gwLock \in Seq(GwRequests \cup {"reset"}) /\ Len(gwLock) \in Nat
      /\ gwRequest \in [GwRequests -> {"idle", "gate", "past"}]
  BY DEF GwTypes
<1>a. ASSUME gwLock' = gwLock, \A q \in GwRequests : gwRequest'[q] = "gate" <=> gwRequest[q] = "gate"
      PROVE  GwQueue'
  BY <1>a DEF GwQueue
<1>b. ASSUME gwLock' = <<>>, \A q \in GwRequests : gwRequest'[q] = "idle" PROVE GwQueue'
  BY <1>b DEF GwQueue
<1>c. ASSUME gwLock # <<>>, gwLock' = Tail(gwLock),
             \A q \in GwRequests : IF q = Head(gwLock) THEN gwRequest'[q] # "gate" ELSE gwRequest'[q] = gwRequest[q]
      PROVE  GwQueue'
  <2>1. Len(gwLock') = Len(gwLock) - 1 /\ \A i \in 1..Len(gwLock') : gwLock'[i] = gwLock[i + 1]
    BY <1>0, <1>c
  <2>2. Head(gwLock) = gwLock[1] /\ 1 \in 1..Len(gwLock) BY <1>0, <1>c
  <2>3. \A i, j \in 1..Len(gwLock') : gwLock'[i] = gwLock'[j] => i = j
    BY <1>0, <2>1 DEF GwQueue
  <2>4. ASSUME NEW q \in GwRequests PROVE gwRequest'[q] = "gate" <=> \E i \in 1..Len(gwLock') : gwLock'[i] = q
    <3>1. CASE q = Head(gwLock)
      <4>1. ASSUME NEW i \in 1..Len(gwLock'), gwLock'[i] = q PROVE FALSE
        BY <1>0, <2>1, <2>2, <3>1, <4>1 DEF GwQueue
      <4> QED BY <1>c, <3>1, <4>1
    <3>2. CASE q # Head(gwLock)
      <4>1. gwRequest'[q] = "gate" <=> \E i \in 1..Len(gwLock) : gwLock[i] = q BY <1>c, <3>2 DEF GwQueue
      <4>2. ASSUME NEW i \in 1..Len(gwLock), gwLock[i] = q PROVE \E k \in 1..Len(gwLock') : gwLock'[k] = q
        <5>1. i # 1 BY <2>2, <3>2, <4>2
        <5>2. i - 1 \in 1..Len(gwLock') /\ (i - 1) + 1 = i BY <1>0, <2>1, <5>1
        <5> QED BY <2>1, <4>2, <5>2
      <4>3. ASSUME NEW k \in 1..Len(gwLock'), gwLock'[k] = q PROVE \E i \in 1..Len(gwLock) : gwLock[i] = q
        <5>1. k + 1 \in 1..Len(gwLock) BY <1>0, <2>1
        <5> QED BY <2>1, <4>3, <5>1
      <4> QED BY <4>1, <4>2, <4>3
    <3> QED BY <3>1, <3>2
  <2> QED BY <2>3, <2>4 DEF GwQueue
<1>d. ASSUME NEW x \in GwRequests \cup {"reset"}, gwLock' = Append(gwLock, x),
             \A i \in 1..Len(gwLock) : gwLock[i] # x,
             \A q \in GwRequests : IF q = x THEN gwRequest'[q] = "gate" ELSE gwRequest'[q] = gwRequest[q]
      PROVE  GwQueue'
  <2>1. /\ Len(gwLock') = Len(gwLock) + 1 /\ gwLock'[Len(gwLock) + 1] = x
        /\ \A i \in 1..Len(gwLock) : gwLock'[i] = gwLock[i]
    BY <1>d, GwHeadStays
  <2>2. \A i \in 1..Len(gwLock') : i \in 1..Len(gwLock) \/ i = Len(gwLock) + 1 BY <1>0, <2>1
  <2>3. \A i, j \in 1..Len(gwLock') : gwLock'[i] = gwLock'[j] => i = j
    BY <1>d, <2>1, <2>2 DEF GwQueue
  <2>4. ASSUME NEW q \in GwRequests PROVE gwRequest'[q] = "gate" <=> \E i \in 1..Len(gwLock') : gwLock'[i] = q
    <3>1. CASE q = x
      <4>1. Len(gwLock) + 1 \in 1..Len(gwLock') BY <1>0, <2>1
      <4> QED BY <1>d, <2>1, <3>1, <4>1
    <3>2. CASE q # x
      <4>1. \A i \in 1..Len(gwLock) : i \in 1..Len(gwLock') BY <1>0, <2>1
      <4> QED BY <1>d, <2>1, <2>2, <3>2, <4>1 DEF GwQueue
    <3> QED BY <3>1, <3>2
  <2> QED BY <2>3, <2>4 DEF GwQueue
<1>1. ASSUME NEW q \in GwRequests, GwArrive(q) PROVE GwQueue'
  <2>1. gwRequest[q] = "idle" /\ gwRequest' = [gwRequest EXCEPT ![q] = "gate"] /\ gwLock' = Append(gwLock, q)
    BY <1>1 DEF GwArrive
  <2>2. \A i \in 1..Len(gwLock) : gwLock[i] # q BY <2>1 DEF GwQueue
  <2> QED BY <1>0, <1>d, <2>1, <2>2
<1>2. ASSUME NEW q \in GwRequests, GwPass(q) PROVE GwQueue'
  BY <1>0, <1>2, <1>c DEF GwPass, GwHolds
<1>3. ASSUME NEW q \in GwRequests, NEW s \in GwIds, NEW writes \in BOOLEAN, NEW ends \in BOOLEAN,
             GwHandle(q, s, writes, ends)
      PROVE  GwQueue'
  <2>1. gwRequest[q] = "past" /\ gwLock' = gwLock
        /\ gwRequest' \in {gwRequest, [gwRequest EXCEPT ![q] = "idle"]}
    BY <1>3 DEF GwHandle
  <2> QED BY <1>0, <1>a, <2>1
<1>4. CASE GwResetArrives
  <2>1. DOMAIN gwLock = 1..Len(gwLock) BY <1>0
  <2> QED BY <1>4, <1>d, <2>1 DEF GwResetArrives
<1>5. CASE GwResetFiles
  <2>1. CASE GwHolds("reset") BY <1>5, <1>c, <2>1 DEF GwResetFiles, GwHolds
  <2>2. CASE ~GwHolds("reset") BY <1>5, <1>a, <2>2 DEF GwResetFiles
  <2> QED BY <2>1, <2>2
<1>6. CASE GwShutdown BY <1>6, <1>b DEF GwShutdown, GwIdle
<1>7. CASE GwExit \/ GwCrash BY <1>7, <1>b DEF GwExit, GwCrash, GwEnds, GwIdle
<1>8. ASSUME NEW f \in GwFormats, NEW broken \in SUBSET GwIds, NEW failing \in SUBSET GwIds,
             GwBoot(f, broken, failing)
      PROVE  GwQueue'
  BY <1>8, <1>a DEF GwBoot
<1>9. ASSUME NEW s \in GwIds, NEW succeeds \in BOOLEAN,
             GwResetService(s) \/ GwWrite(s) \/ GwReplace(s, succeeds)
      PROVE  GwQueue'
  BY <1>9, <1>a DEF GwResetService, GwWrite, GwReplace
<1>10. CASE GwResetBegins \/ UNCHANGED gwVars BY <1>10, <1>a DEF GwResetBegins, gwVars
<1> QED BY <1>1, <1>2, <1>3, <1>4, <1>5, <1>6, <1>7, <1>8, <1>9, <1>10 DEF GwNext

(* A request can pass no reset that was under way when it came.             *)
LEMMA GwBehindStep == GwTypes /\ GwPhases /\ GwQueue /\ GwBehind /\ [GwNext]_gwVars => GwBehind'
<1> SUFFICES ASSUME GwTypes, GwPhases, GwQueue, GwBehind, [GwNext]_gwVars PROVE GwBehind' OBVIOUS
<1> USE GwNumbers
<1>0. /\ gwResets \in [begun : Nat, done : Nat, mark : Nat, wiped : Nat]
      /\ gwRequest \in [GwRequests -> {"idle", "gate", "past"}] /\ gwSeen \in [GwRequests -> Nat]
      /\ gwLock \in Seq(GwRequests \cup {"reset"})
  BY DEF GwTypes
<1>a. ASSUME UNCHANGED <<gwResets, gwSeen, gwWiping>>, gwRequest' = gwRequest PROVE GwBehind'
  BY <1>a DEF GwBehind
<1>b. ASSUME gwResets' = gwResets, \A q \in GwRequests : gwSeen'[q] = 0 PROVE GwBehind'
  BY <1>0, <1>b DEF GwBehind
<1>1. ASSUME NEW q \in GwRequests, GwArrive(q) PROVE GwBehind'
  <2>1. /\ gwSeen' = [gwSeen EXCEPT ![q] = IF GwHolds("reset") /\ gwWiping.on THEN gwResets.begun ELSE 0]
        /\ gwRequest' = [gwRequest EXCEPT ![q] = "gate"] /\ UNCHANGED <<gwResets, gwWiping>>
    BY <1>1 DEF GwArrive
  <2>2. /\ (gwSeen'[q] = gwResets.begun /\ gwWiping.on) \/ gwSeen'[q] = 0
        /\ gwRequest'[q] = "gate"
        /\ \A r \in GwRequests : r # q => gwSeen'[r] = gwSeen[r] /\ gwRequest'[r] = gwRequest[r]
    BY <1>0, <2>1
  <2> QED BY <1>0, <2>1, <2>2 DEF GwBehind
<1>2. ASSUME NEW q \in GwRequests, GwPass(q) PROVE GwBehind'
  <2>1. ~gwWiping.on BY <1>2 DEF GwPass, GwPhases, GwHolds
  <2>2. /\ gwRequest'[q] = "past" /\ \A r \in GwRequests : r # q => gwRequest'[r] = gwRequest[r]
        /\ UNCHANGED <<gwResets, gwWiping, gwSeen>>
    BY <1>0, <1>2 DEF GwPass
  <2>3. gwRequest[q] = "gate"
    <3>1. 1 \in 1..Len(gwLock) /\ gwLock[1] = q BY <1>0, <1>2 DEF GwPass, GwHolds
    <3> QED BY <3>1 DEF GwQueue
  <2> QED BY <1>0, <2>1, <2>2, <2>3 DEF GwBehind
<1>3. ASSUME NEW q \in GwRequests, NEW s \in GwIds, NEW writes \in BOOLEAN, NEW ends \in BOOLEAN,
             GwHandle(q, s, writes, ends)
      PROVE  GwBehind'
  <2>1. CASE ends
    <3>1. gwRequest' = [gwRequest EXCEPT ![q] = "idle"] /\ gwSeen' = [gwSeen EXCEPT ![q] = 0]
          /\ UNCHANGED <<gwResets, gwWiping>>
      BY <1>3, <2>1 DEF GwHandle
    <3>2. /\ gwRequest'[q] = "idle" /\ gwSeen'[q] = 0
          /\ \A r \in GwRequests : r # q => gwSeen'[r] = gwSeen[r] /\ gwRequest'[r] = gwRequest[r]
      BY <1>0, <3>1
    <3> QED BY <1>0, <3>1, <3>2 DEF GwBehind
  <2>2. CASE ~ends BY <1>3, <1>a, <2>2 DEF GwHandle
  <2> QED BY <2>1, <2>2
<1>4. CASE GwResetBegins
  <2>1. gwResets'.begun = gwResets.begun + 1 /\ gwResets'.done = gwResets.done /\ gwWiping'.on
        /\ UNCHANGED <<gwSeen, gwRequest>> /\ ~gwWiping.on
    BY <1>0, <1>4 DEF GwResetBegins
  <2> QED BY <1>0, <2>1 DEF GwBehind
<1>5. ASSUME NEW s \in GwIds, GwResetService(s) PROVE GwBehind'
  <2>1. gwWiping'.on = gwWiping.on /\ UNCHANGED <<gwResets, gwSeen, gwRequest>>
    BY <1>5 DEF GwResetService, GwTypes
  <2> QED BY <2>1 DEF GwBehind
<1>6. CASE GwResetFiles
  <2>0. UNCHANGED <<gwSeen, gwRequest>> BY <1>6 DEF GwResetFiles
  <2>1. CASE GwUp
    <3>1. gwResets'.done = gwResets.begun /\ gwResets'.begun = gwResets.begun
      BY <1>0, <1>6, <2>1 DEF GwResetFiles
    <3> QED BY <1>0, <2>0, <3>1 DEF GwBehind
  <2>2. CASE ~GwUp
    <3>1. gwResets' = gwResets /\ \A q \in GwRequests : gwRequest'[q] = "idle"
      BY <1>6, <2>0, <2>2 DEF GwResetFiles, GwPhases
    <3> QED BY <1>0, <2>0, <3>1 DEF GwBehind
  <2> QED BY <2>1, <2>2
<1>7. CASE GwShutdown \/ GwExit \/ GwCrash
  BY <1>7, <1>b DEF GwShutdown, GwExit, GwCrash, GwEnds
<1>8. ASSUME NEW f \in GwFormats, NEW broken \in SUBSET GwIds, NEW failing \in SUBSET GwIds,
             GwBoot(f, broken, failing)
      PROVE  GwBehind'
  BY <1>8, <1>a DEF GwBoot
<1>9. ASSUME NEW s \in GwIds, NEW succeeds \in BOOLEAN, GwWrite(s) \/ GwReplace(s, succeeds)
      PROVE  GwBehind'
  BY <1>9, <1>a DEF GwWrite, GwReplace
<1>10. CASE GwResetArrives \/ UNCHANGED gwVars BY <1>10, <1>a DEF GwResetArrives, gwVars
<1> QED BY <1>1, <1>2, <1>3, <1>4, <1>5, <1>6, <1>7, <1>8, <1>9, <1>10 DEF GwNext

(* What the reset has come past stays empty of what it wipes, wherever the  *)
(* memory, the files and the temporary file go from there.                  *)
LEMMA GwWipedStep == GwTypes /\ GwPhases /\ GwWiped /\ [GwNext]_gwVars => GwWiped'
<1> SUFFICES ASSUME GwTypes, GwPhases, GwWiped, [GwNext]_gwVars PROVE GwWiped' OBVIOUS
<1> USE GwNumbers
<1>0. /\ gwResets \in [begun : Nat, done : Nat, mark : Nat, wiped : Nat] /\ gwWrites \in Nat
      /\ gwMemory \in [GwIds -> SUBSET (1..gwWrites)]
      /\ gwFile \in [GwIds -> [format : Nat, holds : SUBSET (1..gwWrites)]]
      /\ gwModule \in [GwIds -> {"none", "loaded", "error"}]
      /\ gwWiping \in [on : BOOLEAN, left : SUBSET GwIds]
      /\ gwSaving \in [left : SUBSET GwIds, writing : SUBSET GwIds, tmp : SUBSET (1..gwWrites)]
  BY DEF GwTypes
<1>a. ASSUME UNCHANGED <<gwResets, gwWrites, gwModule, gwMemory, gwFile, gwWiping>>,
             \/ gwSaving'.tmp = gwSaving.tmp \/ gwSaving'.tmp = {}
             \/ \E s \in GwIds : gwSaving'.tmp = gwMemory[s]
      PROVE  GwWiped'
  BY <1>a DEF GwWiped
<1>1. ASSUME NEW f \in GwFormats, NEW broken \in SUBSET GwIds, NEW failing \in SUBSET GwIds,
             GwBoot(f, broken, failing)
      PROVE  GwWiped'
  <2>1. \A s \in GwIds : /\ gwMemory'[s] \in {gwFile[s].holds, {}}
                         /\ gwModule'[s] # "loaded" => gwMemory'[s] = {}
    BY <1>1 DEF GwBoot
  <2>2. UNCHANGED <<gwResets, gwWrites, gwFile, gwSaving, gwWiping>> /\ ~gwWiping.on
    BY <1>1 DEF GwBoot, GwPhases, GwNotWiping
  <2> QED BY <2>1, <2>2 DEF GwWiped
<1>2. ASSUME NEW q \in GwRequests, NEW s \in GwIds, NEW writes \in BOOLEAN, NEW ends \in BOOLEAN,
             GwHandle(q, s, writes, ends)
      PROVE  GwWiped'
  <2>1. UNCHANGED <<gwResets, gwFile, gwSaving, gwWiping>> BY <1>2 DEF GwHandle
  <2>2. /\ \A x \in GwIds : x # s => gwModule'[x] = gwModule[x]
        /\ gwModule[s] = "loaded" => gwModule'[s] = "loaded"
        /\ writes => gwModule'[s] = "loaded"
    BY <1>0, <1>2 DEF GwHandle
  <2>3. CASE ~writes
    <3>1. UNCHANGED <<gwWrites, gwMemory>> BY <1>2, <2>3 DEF GwHandle
    <3> QED BY <2>1, <2>2, <3>1 DEF GwWiped
  <2>4. CASE writes
    <3>1. gwWrites' = gwWrites + 1 /\ gwMemory' = [gwMemory EXCEPT ![s] = @ \cup {gwWrites + 1}]
      BY <1>2, <2>4 DEF GwHandle
    <3>2. /\ gwMemory'[s] = gwMemory[s] \cup {gwWrites + 1}
          /\ \A x \in GwIds : x # s => gwMemory'[x] = gwMemory[x]
      BY <1>0, <3>1
    <3>3. gwWrites + 1 \notin GwOlder(gwResets.wiped) /\ gwWrites + 1 \notin GwOlder(gwResets.mark)
      BY <1>0 DEF GwWiped, GwOlder
    <3>4. gwResets.wiped <= gwResets.mark /\ gwResets.mark <= gwWrites + 1 BY <1>0 DEF GwWiped
    <3>5. ASSUME NEW x \in GwIds
          PROVE  /\ gwModule'[x] # "loaded" => gwMemory'[x] = {}
                 /\ gwMemory'[x] \cap GwOlder(gwResets.wiped) = {}
                 /\ gwWiping.on /\ x \notin gwWiping.left => gwMemory'[x] \cap GwOlder(gwResets.mark) = {}
      BY <2>2, <2>4, <3>2, <3>3 DEF GwWiped
    <3> QED BY <2>1, <3>1, <3>4, <3>5 DEF GwWiped
  <2> QED BY <2>3, <2>4
<1>3. CASE GwResetBegins
  <2>1. gwResets'.mark = gwWrites /\ gwResets'.wiped = gwResets.wiped /\ gwWiping'.left = GwIds
        /\ UNCHANGED <<gwWrites, gwModule, gwMemory, gwFile, gwSaving>>
    BY <1>0, <1>3 DEF GwResetBegins
  <2> QED BY <1>0, <2>1 DEF GwWiped
<1>4. ASSUME NEW s \in GwIds, GwResetService(s) PROVE GwWiped'
  <2>1. /\ gwMemory'[s] = {} /\ \A x \in GwIds : x # s => gwMemory'[x] = gwMemory[x]
        /\ gwWiping'.left = gwWiping.left \ {s} /\ gwWiping.on
        /\ UNCHANGED <<gwResets, gwWrites, gwModule, gwFile, gwSaving>>
    BY <1>0, <1>4 DEF GwResetService, GwWiped
  <2> QED BY <2>1 DEF GwWiped
<1>5. CASE GwResetFiles
  <2>1. /\ \A s \in GwIds : gwFile'[s].holds = {} /\ gwMemory[s] \cap GwOlder(gwResets.mark) = {}
        /\ ~gwWiping'.on /\ gwResets'.mark = gwResets.mark /\ gwResets'.wiped \in {gwResets.mark, gwResets.wiped}
        /\ gwResets' # gwResets => GwUp
        /\ UNCHANGED <<gwWrites, gwModule, gwMemory, gwSaving>>
    BY <1>0, <1>5 DEF GwResetFiles, GwWiped, GwNoFile, GwNotWiping
  <2>2. gwResets' # gwResets => gwSaving.tmp = {} BY <2>1 DEF GwPhases, GwUp, GwNotSaving
  <2>3. /\ gwResets'.wiped <= gwResets'.mark /\ gwResets'.mark <= gwWrites'
        /\ gwSaving'.tmp \cap GwOlder(gwResets'.wiped) = {}
    BY <1>0, <2>1, <2>2 DEF GwWiped
  <2>4. ASSUME NEW s \in GwIds
        PROVE  gwMemory'[s] \cap GwOlder(gwResets'.wiped) = {} /\ (gwModule'[s] # "loaded" => gwMemory'[s] = {})
    BY <2>1 DEF GwWiped
  <2> QED BY <2>1, <2>3, <2>4 DEF GwWiped
<1>6. CASE GwShutdown
  <2>1. gwSaving'.tmp = {} BY <1>6 DEF GwShutdown, GwNotSaving
  <2> QED BY <1>6, <1>a, <2>1 DEF GwShutdown
<1>7. ASSUME NEW s \in GwIds, GwWrite(s) PROVE GwWiped'
  <2>1. gwSaving'.tmp \in {gwMemory[s], gwSaving.tmp} BY <1>0, <1>7 DEF GwWrite
  <2> QED BY <1>7, <1>a, <2>1 DEF GwWrite
<1>8. ASSUME NEW s \in GwIds, NEW succeeds \in BOOLEAN, GwReplace(s, succeeds) PROVE GwWiped'
  <2>1. /\ gwSaving'.tmp = {}
        /\ \A x \in GwIds : gwFile'[x].holds \in {gwFile[x].holds, gwSaving.tmp}
        /\ UNCHANGED <<gwResets, gwWrites, gwModule, gwMemory, gwWiping>>
    BY <1>0, <1>8 DEF GwReplace
  <2> QED BY <2>1 DEF GwWiped
<1>9. CASE GwExit \/ GwCrash
  <2>1. /\ \A s \in GwIds : gwMemory'[s] = {}
        /\ gwSaving'.tmp = {} /\ ~gwWiping'.on /\ UNCHANGED <<gwResets, gwWrites, gwFile>>
    BY <1>9 DEF GwExit, GwCrash, GwEnds, GwNothing, GwNotSaving, GwNotWiping
  <2> QED BY <2>1 DEF GwWiped
<1>10. ASSUME NEW q \in GwRequests, GwArrive(q) \/ GwPass(q) PROVE GwWiped'
  BY <1>10, <1>a DEF GwArrive, GwPass
<1>11. CASE GwResetArrives \/ UNCHANGED gwVars BY <1>11, <1>a DEF GwResetArrives, gwVars
<1> QED BY <1>1, <1>2, <1>3, <1>4, <1>5, <1>6, <1>7, <1>8, <1>9, <1>10, <1>11 DEF GwNext

(* What was saved is never replaced by less.                                *)
LEMMA GwSafeStep == GwTypes /\ GwPhases /\ GwSafe /\ [GwNext]_gwVars => GwSafe'
<1> SUFFICES ASSUME GwTypes, GwPhases, GwSafe, [GwNext]_gwVars PROVE GwSafe' OBVIOUS
<1> USE GwNumbers DEF GwSavedStays
<1>0. /\ gwMemory \in [GwIds -> SUBSET (1..gwWrites)]
      /\ gwFile \in [GwIds -> [format : Nat, holds : SUBSET (1..gwWrites)]]
      /\ gwKept \in [GwIds -> SUBSET (1..gwWrites)]
      /\ gwModule \in [GwIds -> {"none", "loaded", "error"}]
      /\ gwWiping \in [on : BOOLEAN, left : SUBSET GwIds]
      /\ gwSaving \in [left : SUBSET GwIds, writing : SUBSET GwIds, tmp : SUBSET (1..gwWrites)]
      /\ gwRun \in [phase : {"down", "up", "stopping"}, format : Nat, broken : SUBSET GwIds]
  BY DEF GwTypes
<1>a. ASSUME UNCHANGED <<gwRun, gwModule, gwMemory, gwFile, gwSaving, gwWiping, gwKept>> PROVE GwSafe'
  BY <1>a DEF GwSafe, GwUp
<1>b. ASSUME gwKept' = GwNothing PROVE GwSafe' \/ \E s \in GwIds : s \in gwSaving'.writing /\ gwSaving'.writing # {s}
  BY <1>b DEF GwSafe, GwNothing
<1>1. ASSUME NEW f \in GwFormats, NEW broken \in SUBSET GwIds, NEW failing \in SUBSET GwIds,
             GwBoot(f, broken, failing)
      PROVE  GwSafe'
  <2>1. /\ gwSaving = GwNotSaving /\ gwWiping = GwNotWiping
        /\ UNCHANGED <<gwFile, gwSaving, gwWiping>>
    BY <1>1 DEF GwBoot, GwPhases
  <2>2. ASSUME NEW s \in GwIds
        PROVE  /\ gwKept'[s] \subseteq gwFile[s].holds
               /\ gwModule'[s] = "loaded" => gwKept'[s] \subseteq gwMemory'[s]
               /\ gwModule'[s] = "none" => gwKept'[s] = {}
    <3>1. gwKept'[s] = gwKept[s] \/ gwKept'[s] = {} BY <1>1 DEF GwBoot
    <3>2. (s \notin failing /\ ~(gwFile[s].format > f)) \/ gwKept'[s] = {}
      BY <1>1 DEF GwBoot
    <3>3. gwModule'[s] = "loaded" /\ s \notin failing => gwMemory'[s] = gwFile[s].holds
      BY <1>1 DEF GwBoot
    <3>4. gwModule'[s] = "none" => gwFile[s] = GwNoFile \/ gwFile[s].format > f
      BY <1>0, <1>1 DEF GwBoot, GwReadable
    <3>5. gwKept[s] \subseteq gwFile[s].holds BY DEF GwSafe
    <3>6. gwFile[s] = GwNoFile => gwFile[s].holds = {} BY DEF GwNoFile
    <3> QED BY <3>1, <3>2, <3>3, <3>4, <3>5, <3>6
  <2> QED BY <2>1, <2>2 DEF GwSafe, GwNotSaving, GwNotWiping
<1>2. ASSUME NEW q \in GwRequests, NEW s \in GwIds, NEW writes \in BOOLEAN, NEW ends \in BOOLEAN,
             GwHandle(q, s, writes, ends)
      PROVE  GwSafe'
  <2>1. UNCHANGED <<gwRun, gwFile, gwSaving, gwWiping, gwKept>> /\ GwUp BY <1>2 DEF GwHandle
  <2>2. /\ \A x \in GwIds : gwMemory[x] \subseteq gwMemory'[x]
        /\ \A x \in GwIds : x # s => gwModule'[x] = gwModule[x]
        /\ gwModule'[s] # "none" /\ (gwModule[s] # "none" => gwModule'[s] = gwModule[s])
    BY <1>0, <1>2 DEF GwHandle
  <2>3. gwSaving = GwNotSaving BY <2>1 DEF GwPhases, GwUp
  <2> QED BY <2>1, <2>2, <2>3 DEF GwSafe, GwUp, GwNotSaving
<1>3. CASE GwResetBegins
  <2>1. gwSaving' = GwNotSaving BY <1>3 DEF GwResetBegins, GwPhases, GwUp
  <2> QED BY <1>3, <1>b, <2>1 DEF GwResetBegins, GwNotSaving
<1>4. ASSUME NEW s \in GwIds, GwResetService(s) PROVE GwSafe'
  <2>1. gwKept' = GwNothing /\ gwSaving' = gwSaving BY <1>4 DEF GwResetService, GwSafe
  <2> QED BY <1>b, <2>1 DEF GwSafe
<1>5. CASE GwResetFiles
  <2>1. gwKept' = GwNothing /\ gwSaving' = gwSaving BY <1>5 DEF GwResetFiles
  <2> QED BY <1>b, <2>1 DEF GwSafe
<1>6. CASE GwShutdown
  <2>1. /\ GwUp /\ gwSaving'.left \subseteq GwIds /\ gwSaving'.writing = {}
        /\ UNCHANGED <<gwModule, gwMemory, gwFile, gwWiping, gwKept>> /\ ~GwUp'
    BY <1>0, <1>6 DEF GwShutdown, GwNotSaving, GwUp
  <2> QED BY <2>1 DEF GwSafe
<1>7. ASSUME NEW s \in GwIds, GwWrite(s) PROVE GwSafe'
  <2>1. UNCHANGED <<gwRun, gwModule, gwMemory, gwFile, gwWiping, gwKept>> /\ gwSaving.writing = {} /\ ~GwUp
        /\ s \in gwSaving.left
    BY <1>7 DEF GwWrite, GwFirst, GwUp
  <2>2. CASE GwHasState(s)
    <3>1. gwSaving'.left = gwSaving.left /\ gwSaving'.writing = {s} /\ gwSaving'.tmp = gwMemory[s]
      BY <1>0, <1>7, <2>2 DEF GwWrite
    <3>2. gwKept[s] \subseteq gwMemory[s] BY <2>1, <2>2 DEF GwHasState, GwSafe
    <3> QED BY <2>1, <3>1, <3>2 DEF GwSafe, GwUp
  <2>3. CASE ~GwHasState(s)
    <3>1. gwSaving'.left \subseteq gwSaving.left /\ gwSaving'.writing = {}
      BY <1>0, <1>7, <2>1, <2>3 DEF GwWrite
    <3> QED BY <2>1, <3>1 DEF GwSafe, GwUp
  <2> QED BY <2>2, <2>3
<1>8. ASSUME NEW s \in GwIds, NEW succeeds \in BOOLEAN, GwReplace(s, succeeds) PROVE GwSafe'
  <2>1. /\ gwSaving'.left = gwSaving.left \ {s} /\ gwSaving'.writing = {}
        /\ UNCHANGED <<gwRun, gwModule, gwMemory, gwWiping>> /\ ~GwUp /\ s \in gwSaving.writing
    BY <1>8 DEF GwReplace, GwPhases, GwUp, GwNotSaving
  <2>2. gwKept[s] \subseteq gwSaving.tmp /\ gwKept[s] \subseteq gwFile[s].holds BY <2>1 DEF GwSafe
  <2>3. /\ \A x \in GwIds : x # s => gwKept'[x] = gwKept[x] /\ gwFile'[x] = gwFile[x]
        /\ gwKept'[s] \subseteq gwFile'[s].holds
        /\ gwWiping.on => gwKept' = gwKept
    <3>1. CASE succeeds
      <4>1. gwFile' = [gwFile EXCEPT ![s] = [format |-> gwRun.format, holds |-> gwSaving.tmp]]
        BY <1>8, <3>1 DEF GwReplace
      <4>2. \/ gwKept' = gwKept
            \/ ~gwWiping.on /\ gwKept' = [gwKept EXCEPT ![s] = gwKept[s] \cup gwSaving.tmp]
        BY <1>8, <3>1 DEF GwReplace
      <4>3. gwFile \in [GwIds -> [format : Nat, holds : SUBSET (1..gwWrites)]] BY <1>0
      <4>4. gwKept \in [GwIds -> SUBSET (1..gwWrites)] BY <1>0
      <4>5. gwFile'[s] = [format |-> gwRun.format, holds |-> gwSaving.tmp] BY ONLY <4>1, <4>3, s \in GwIds
      <4>6. \A x \in GwIds : x # s => gwFile'[x] = gwFile[x] BY ONLY <4>1, <4>3, s \in GwIds
      <4>7. gwFile'[s].holds = gwSaving.tmp BY ONLY <4>5
      <4>8. gwKept'[s] = gwKept[s] \/ gwKept'[s] = gwKept[s] \cup gwSaving.tmp
        BY ONLY <4>2, <4>4, s \in GwIds
      <4>9. \A x \in GwIds : x # s => gwKept'[x] = gwKept[x] BY ONLY <4>2, <4>4, s \in GwIds
      <4>10. gwWiping.on => gwKept' = gwKept BY ONLY <4>2
      <4>11. gwKept'[s] \subseteq gwSaving.tmp BY ONLY <2>2, <4>8
      <4> QED BY ONLY <4>6, <4>7, <4>9, <4>10, <4>11
    <3>2. CASE ~succeeds BY <1>8, <2>2, <3>2 DEF GwReplace
    <3> QED BY <3>1, <3>2
  <2> QED BY <2>1, <2>3 DEF GwSafe, GwUp
<1>9. CASE GwExit \/ GwCrash
  <2>1. /\ ~GwUp' /\ gwSaving'.left = {} /\ gwSaving'.writing = {} /\ ~gwWiping'.on
        /\ UNCHANGED <<gwFile, gwKept>>
    BY <1>9 DEF GwExit, GwCrash, GwEnds, GwNotSaving, GwNotWiping, GwDown, GwUp
  <2> QED BY <2>1 DEF GwSafe
<1>10. ASSUME NEW q \in GwRequests, GwArrive(q) \/ GwPass(q) PROVE GwSafe'
  BY <1>10, <1>a DEF GwArrive, GwPass
<1>11. CASE GwResetArrives \/ UNCHANGED gwVars BY <1>11, <1>a DEF GwResetArrives, gwVars
<1> QED BY <1>1, <1>2, <1>3, <1>4, <1>5, <1>6, <1>7, <1>8, <1>9, <1>10, <1>11 DEF GwNext

-----------------------------------------------------------------------------
LEMMA GwInvStep == GwInv /\ [GwNext]_gwVars => GwInv'
BY GwTypeStep, GwPhaseStep, GwQueueStep, GwBehindStep, GwWipedStep, GwSafeStep DEF GwInv

LEMMA GwInvPromises == GwInv => GwTypeOK /\ GwNoHalfReset /\ GwResetSticks /\ GwSavedStays
<1> SUFFICES ASSUME GwInv PROVE GwTypeOK /\ GwNoHalfReset /\ GwResetSticks /\ GwSavedStays OBVIOUS
<1>0. GwTypes /\ GwPhases /\ GwQueue /\ GwBehind /\ GwWiped /\ GwSafe BY DEF GwInv
<1>1. GwTypeOK
  <2>1. DOMAIN gwLock = 1..Len(gwLock) BY <1>0 DEF GwTypes
  <2>2. /\ gwRun.phase \in {"down", "up", "stopping"}
        /\ \A s \in GwIds : gwMemory[s] \cup gwFile[s].holds \cup gwKept[s] \subseteq 1..gwWrites
    BY <1>0 DEF GwTypes
  <2>3. \A q \in GwRequests : gwRequest[q] = "gate" <=> \E i \in DOMAIN gwLock : gwLock[i] = q
    BY <1>0, <2>1 DEF GwQueue
  <2> QED BY <1>0, <2>2, <2>3 DEF GwTypeOK, GwTypes, GwPhases, GwBehind, GwWiped
<1>2. GwNoHalfReset
  <2>1. \A q \in GwRequests : gwSeen[q] \in Nat /\ gwResets.done \in Nat BY <1>0 DEF GwTypes
  <2> QED BY <1>0, <2>1 DEF GwBehind, GwNoHalfReset
<1>3. GwResetSticks BY <1>0 DEF GwWiped, GwResetSticks, GwOlder
<1>4. GwSavedStays BY <1>0 DEF GwSafe
<1> QED BY <1>1, <1>2, <1>3, <1>4
-----------------------------------------------------------------------------
(* The parts share nothing: a step of the composition is a step of each     *)
(* part or leaves it alone.                                                 *)
LEMMA BackgroundSteps ==
  [NextBackground]_backgroundVars => /\ [LwNext]_lwVars /\ [NpNext]_npVars /\ [RrNext]_rrVars
                                     /\ [CcNext]_ccVars /\ [EcNext]_ecVars /\ [GwNext]_gwVars
<1> SUFFICES ASSUME [NextBackground]_backgroundVars
             PROVE  /\ [LwNext]_lwVars /\ [NpNext]_npVars /\ [RrNext]_rrVars
                    /\ [CcNext]_ccVars /\ [EcNext]_ecVars /\ [GwNext]_gwVars
  OBVIOUS
<1>1. CASE UNCHANGED backgroundVars BY <1>1 DEF backgroundVars
<1>2. CASE NextBackground
  BY <1>2 DEF NextBackground, OfWorkers, OfNode, OfReentrant, OfCache, OfEcs, OfGateway
<1> QED BY <1>1, <1>2

BackgroundInv == LwInv /\ NpInv /\ RrInv /\ CcInv /\ EcInv /\ GwInv

LEMMA BackgroundInvariance == SpecBackground => []BackgroundInv
<1>1. InitBackground => BackgroundInv
  BY LwInitInv, NpInitInv, RrInitInv, CcInitInv, EcInvInit, GwInitInv DEF InitBackground, BackgroundInv
<1>2. BackgroundInv /\ [NextBackground]_backgroundVars => BackgroundInv'
  BY BackgroundSteps, LwInvStep, NpInvStep, RrInvStep, CcInvStep, EcInvStep, GwInvStep DEF BackgroundInv
<1> QED BY <1>1, <1>2, PTL DEF SpecBackground

(* A request that came during a reset is not handled before it has ended,   *)
(* what a reset has wiped does not come back in this run or a later one,    *)
(* and what a shutdown has saved survives crashes, failed saves and runs    *)
(* that do not import the service.                                          *)
THEOREM GatewayPromises == SpecBackground => []GatewayKeepsWord
<1>1. BackgroundInv => GatewayKeepsWord BY GwInvPromises DEF GatewayKeepsWord, BackgroundInv
<1> QED BY <1>1, BackgroundInvariance, PTL

(* However creations, deletions, resets and the reaper interleave on one    *)
(* identifier, no container of a cluster is left without a record or an     *)
(* operation that will remove it, and a cluster's endpoint is of the        *)
(* container that was started for it.                                       *)
THEOREM ClustersKeepTheirContainers == SpecBackground => [](CcTypeOK /\ CcNoOrphan /\ CcOwnContainer)
<1>1. BackgroundInv => CcTypeOK /\ CcNoOrphan /\ CcOwnContainer BY CcInvPromises DEF BackgroundInv
<1> QED BY <1>1, BackgroundInvariance, PTL

(* The live counters of /_ministack/health count exactly the threads that   *)
(* run_reentrant and spawn_background started and that are not gone.        *)
THEOREM CountersExact == SpecBackground => []RrTypeOK
<1>1. BackgroundInv => RrTypeOK
  BY DEF BackgroundInv, RrInv, RrTypes, RrCounted, RrBusy, RrTypeOK
<1> QED BY <1>1, BackgroundInvariance, PTL

(* run_reentrant never returns before its worker is done, whatever is       *)
(* cancelled, how often, and however deep requests reenter the server.      *)
THEOREM NoEarlyReturn == SpecBackground => []RrNoEarlyReturn
<1>1. BackgroundInv => RrNoEarlyReturn
  BY DEF BackgroundInv, RrInv, RrChain, RrNoEarlyReturn
<1> QED BY <1>1, BackgroundInvariance, PTL

(* What an update of a function's code displaced is not run by a call that  *)
(* begins afterwards, no call waits for the worker its own caller holds,    *)
(* and a cluster's endpoint is its own container's: for any number of calls *)
(* nested in each other, of workers, updates, resets and reaper passes.     *)
THEOREM EachHasItsOwn == SpecBackground => []EachItsOwn
<1>1. BackgroundInv => EachItsOwn
  BY LwInvPromises, CcInvPromises DEF BackgroundInv, EachItsOwn
<1> QED BY <1>1, BackgroundInvariance, PTL

(* No process of the local executor is left without an entry of the pool,   *)
(* a holder or a remover, and the pool has an entry once.                   *)
THEOREM WorkersKnown == SpecBackground => [](LwTypeOK /\ LwNoOrphans)
<1>1. BackgroundInv => LwTypeOK /\ LwNoOrphans BY LwInvPromises DEF BackgroundInv
<1> QED BY <1>1, BackgroundInvariance, PTL

(* The same of the Node workers, of which no more than MaxIdle and the      *)
(* first stay warm, and none evaluates more often than it may.              *)
THEOREM NodePoolBounded == SpecBackground => [](NpTypeOK /\ NpWarmBound /\ NpNoOrphans)
<1>1. BackgroundInv => NpTypeOK /\ NpWarmBound /\ NpNoOrphans BY NpInvPromises DEF BackgroundInv
<1> QED BY <1>1, BackgroundInvariance, PTL

(* Whatever is cancelled, stopped, reset or deleted in the middle of what:  *)
(* no worker process is without an entry, a holder or a remover; no cluster *)
(* container is without a record or an operation that removes it; no task   *)
(* container is up, and no metadata token registered, without an active     *)
(* task or somebody about to dispose of it, the sidecars of an exited       *)
(* essential container excepted; and when DeleteService has answered, no    *)
(* task of the service is active.                                           *)
THEOREM NothingIsForgotten == SpecBackground => []NothingForgotten
<1>1. ASSUME BackgroundInv PROVE NothingForgotten
  <2>1. LwNoOrphans /\ NpNoOrphans /\ CcNoOrphan
    BY <1>1, LwInvPromises, NpInvPromises, CcInvPromises DEF BackgroundInv
  <2>2. EcNothingLeft /\ EcDeletedStops
    BY <1>1, EcNothingLeftHolds, EcDeletedStopsHolds DEF BackgroundInv, EcInv
  <2> QED
    BY <2>1, <2>2 DEF NothingForgotten
<1> QED BY <1>1, BackgroundInvariance, PTL

(* Records and counters are as the code keeps them: live counters are       *)
(* exact, no worker is in its pool twice, the warm Node workers keep their  *)
(* bound, and a service in use has exactly one primary deployment, which    *)
(* counts failures only up to the circuit breaker's threshold.              *)
THEOREM RecordsAndBounds == SpecBackground => []BackgroundTypeOK
<1>1. ASSUME BackgroundInv PROVE BackgroundTypeOK
  <2>1. LwTypeOK /\ NpTypeOK /\ NpWarmBound /\ CcTypeOK /\ GwTypeOK
    BY <1>1, LwInvPromises, NpInvPromises, CcInvPromises, GwInvPromises DEF BackgroundInv
  <2>2. RrTypeOK
    BY <1>1 DEF BackgroundInv, RrInv, RrTypes, RrCounted, RrBusy, RrTypeOK
  <2>3. EcTypeOK
    BY <1>1, EcTypesHold DEF BackgroundInv, EcInv
  <2> QED
    BY <2>1, <2>2, <2>3 DEF BackgroundTypeOK
<1> QED BY <1>1, BackgroundInvariance, PTL

(* A running task of another deployment than the primary is picked to be    *)
(* stopped by a completed rollout, by one that failed with nothing to roll  *)
(* back to, or while as many tasks as desired run besides: for any number   *)
(* of tasks, updates, failures and reconciliations that overlap.            *)
THEOREM OldTasksServe == SpecBackground => EcOldTasksStay
<1> DEFINE Stopping(j) == {t \in EcRunning : t \in ecJob'[j].stop \ ecJob[j].stop}
           Kept(j) ==
             (j[2] # "call" \/ ecService'.status = "ACTIVE") /\ ecService.desired > 0
                 /\ (\E t \in Stopping(j) : ecTask[t].dep # EcPrimary)
               => EcRollout' = "COMPLETED" \/ EcNoWayBack'
                    \/ Cardinality(EcRunning \ Stopping(j)) >= ecService.desired
<1>1. BackgroundInv /\ [NextBackground]_backgroundVars => [\A j \in EcJobs : Kept(j)]_ecVars
  <2> SUFFICES ASSUME BackgroundInv, EcNext, NEW j \in EcJobs PROVE Kept(j) BY BackgroundSteps
  <2> SUFFICES ASSUME j[2] # "call" \/ ecService'.status = "ACTIVE", ecService.desired > 0,
                      NEW t \in Stopping(j), ecTask[t].dep # EcPrimary
               PROVE  EcRollout' = "COMPLETED" \/ EcNoWayBack'
                        \/ Cardinality(EcRunning \ Stopping(j)) >= ecService.desired
    OBVIOUS
  <2>1. EcDeploymentsInv /\ EcFailedForGood /\ EcTypes BY DEF BackgroundInv, EcInv, EcTasksInv
  <2> QED BY <2>1, EcOldTasksStayStep
<1> QED BY <1>1, BackgroundInvariance, PTL DEF SpecBackground, EcOldTasksStay

=============================================================================
