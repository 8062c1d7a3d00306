--------------------------- MODULE CfnStackProofs ---------------------------
(***************************************************************************)
(* What CfnStack promises for any templates and any number of resources,   *)
(* operations and failures, by one inductive invariant.                    *)
(***************************************************************************)
EXTENDS CfnStack, ListsProofs, FiniteSetTheorems, TLAPS

-----------------------------------------------------------------------------
(* CloudFormation: the record of a stack, its operation and its resources.  *)

CfDeployPcs == {"start", "next", "busy", "failed", "parked", "rollback"}
CfPcs == CfDeployPcs \cup {"idle", "clean", "remove", "revert", "undo", "continue"}
CfWorking == {"CREATE_IN_PROGRESS", "UPDATE_IN_PROGRESS", "ROLLBACK_IN_PROGRESS", "UPDATE_ROLLBACK_IN_PROGRESS"}
CfWhole == {"CREATE_COMPLETE", "UPDATE_COMPLETE", "UPDATE_ROLLBACK_COMPLETE"}
CfEmptied == {"none", "ROLLBACK_COMPLETE", "ROLLBACK_FAILED", "DELETE_COMPLETE"}
CfStatuses == CfWorking \cup CfWhole \cup CfEmptied \cup
  {"CREATE_FAILED", "UPDATE_FAILED", "UPDATE_ROLLBACK_FAILED", "DELETE_FAILED", "DELETE_IN_PROGRESS"}

CfRec == [pid : {0} \cup CfPids, ver : Nat, needs : SUBSET CfPids]
CfTmpl == CfTemplates \cup {CfBare}
CfStackRecord == [status : CfStatuses, res : [CfIds -> CfRec], tmpl : CfTmpl,
                  pending : [CfIds -> [kind : {"no", "revert", "delete"}, to : CfRec]], cancel : BOOLEAN]
CfOpRecord == [pc : CfPcs, update : BOOLEAN, tmpl : CfTmpl, prevRes : [CfIds -> CfRec], prevTmpl : CfTmpl,
               todo : SUBSET CfIds, cur : SUBSET CfIds, want : CfRec, created : Seq(CfIds),
               replaced : Seq(CfIds \X CfPids), tried : Seq(CfIds), reverts : Seq(CfIds), dels : Seq(CfIds),
               cleanup : BOOLEAN, disable : BOOLEAN]
CfDelRecord == [pc : {"idle", "start", "deleting"}, todo : SUBSET CfIds, failed : BOOLEAN, own : BOOLEAN,
                res : [CfIds -> CfRec]]
CfShapes ==
  /\ cfStack \in CfStackRecord /\ cfOp \in CfOpRecord /\ cfDel \in CfDelRecord
  /\ cfWorld \in [CfPids -> [there : BOOLEAN, ver : Nat, needs : SUBSET CfPids]]
  /\ cfMade \in Nat /\ cfOps \in 0..CfMaxOps /\ cfTold \in SUBSET CfPids /\ cfUndone \in {"no", "overlap", "kept"}

(* An operation makes at most one physical resource for each id.            *)
CfPer == Cardinality(CfIds)
CfBudget ==
  /\ cfMade <= CfPer * cfOps
  /\ cfOp.pc = "start" => cfMade + CfPer <= CfPer * cfOps
  /\ cfOp.pc \in {"next", "busy"} => cfMade + Cardinality(cfOp.todo \cup cfOp.cur) <= CfPer * cfOps

(* The physical resources an id had or has belong to no other.              *)
CfOf(i) == {cfStack.res[i].pid, cfOp.prevRes[i].pid, cfDel.res[i].pid, cfStack.pending[i].to.pid} \ {0}
CfApart ==
  /\ \A i \in CfIds : CfOf(i) \subseteq 1..cfMade
  /\ \A i, j \in CfIds : i # j => CfOf(i) \cap CfOf(j) = {}
CfKnown == cfTold \subseteq 1..cfMade /\ \A p \in CfPids : cfWorld[p].there => p <= cfMade
CfAtWork ==
  /\ cfOp.pc = "busy" => \E i \in CfIds : cfOp.cur = {i} /\ i \notin cfOp.todo /\ cfOp.want.pid = cfOp.prevRes[i].pid
  /\ cfOp.pc \in {"start", "next"} => cfOp.cur = {}
  /\ ~cfOp.update => cfOp.prevRes = CfNoRes
  /\ \A k \in DOMAIN cfOp.replaced : cfOp.replaced[k][2] = cfOp.prevRes[cfOp.replaced[k][1]].pid
  /\ \A i \in CfIds : cfStack.pending[i].kind = "no" => cfStack.pending[i].to.pid = 0

CfAlways == CfShapes /\ CfBudget /\ CfApart /\ CfKnown /\ CfAtWork

-----------------------------------------------------------------------------
(* The bounds are numbers.                                                  *)
LEMMA CfNumbers ==
  /\ CfPer \in Nat /\ CfMaxOps \in Nat /\ CfPids = 1..(CfPer * CfMaxOps) /\ Cardinality(CfPids) = CfPer * CfMaxOps
  /\ CfPids \subseteq Nat \ {0}
  /\ \A S \in SUBSET CfIds : /\ Cardinality(S) \in 0..CfPer
                             /\ \A i \in S : Cardinality(S \ {i}) = Cardinality(S) - 1 /\ Cardinality(S) >= 1
<1>1. IsFiniteSet(CfIds) BY CfAssumption
<1>2. CfPer \in Nat /\ CfMaxOps \in Nat BY <1>1, CfAssumption, FS_CardinalityType DEF CfPer
<1>3. CfPids = 1..(CfPer * CfMaxOps) BY DEF CfPids, CfPer
<1>4. Cardinality(CfPids) = CfPer * CfMaxOps
  <2>1. \A n \in Nat : Cardinality(1..n) = n BY FS_Interval
  <2>2. CfPer * CfMaxOps \in Nat BY <1>2
  <2> QED BY <1>3, <2>1, <2>2
<1>5. ASSUME NEW S \in SUBSET CfIds
      PROVE  /\ Cardinality(S) \in 0..CfPer
             /\ \A i \in S : Cardinality(S \ {i}) = Cardinality(S) - 1 /\ Cardinality(S) >= 1
  <2>1. IsFiniteSet(S) /\ Cardinality(S) <= CfPer BY <1>1, FS_Subset DEF CfPer
  <2>2. Cardinality(S) \in Nat BY <2>1, FS_CardinalityType
  <2>3. ASSUME NEW i \in S PROVE Cardinality(S \ {i}) = Cardinality(S) - 1 /\ Cardinality(S) >= 1
    <3>1. Cardinality(S \ {i}) = Cardinality(S) - 1 BY <2>1, FS_RemoveElement
    <3>2. IsFiniteSet(S \ {i}) BY <2>1, FS_Subset
    <3>3. Cardinality(S \ {i}) \in Nat BY <3>2, FS_CardinalityType
    <3> QED BY <2>2, <3>1, <3>3
  <2> QED BY <1>2, <2>1, <2>2, <2>3
<1>6. CfPids \subseteq Nat \ {0} BY <1>2, <1>3
<1> QED BY <1>2, <1>3, <1>4, <1>5, <1>6

LEMMA CfPidsIs == CfPids \subseteq Nat \ {0} /\ CfMaxOps \in Nat
BY CfNumbers

(* What a template gives each resource, and whom it lets refer to whom.     *)
LEMMA CfTmplIs ==
  ASSUME NEW t \in CfTmpl
  PROVE  /\ t.ver \in [CfIds -> Nat] /\ t.deps \in SUBSET (CfIds \X CfIds) /\ t.retain \in SUBSET CfIds
         /\ \A i, d \in CfIds : <<i, d>> \in t.deps => i \in CfTmplIds(t) /\ d \in CfTmplIds(t)
         /\ CfTmplIds(t) \in SUBSET CfIds
<1>1. CASE t = CfBare BY <1>1 DEF CfBare, CfTmplIds
<1>2. CASE t \in CfTemplates
  <2>1. t \in [ver : [CfIds -> Nat], deps : SUBSET (CfIds \X CfIds), retain : SUBSET CfIds] BY <1>2, CfAssumption
  <2>2. \A d \in t.deps : t.ver[d[1]] > 0 /\ t.ver[d[2]] > 0 BY <1>2, CfAssumption
  <2> QED BY <2>1, <2>2 DEF CfTmplIds
<1> QED BY <1>1, <1>2 DEF CfTmpl

(* The types of the fields, of the idle operation and of empty records.     *)
LEMMA CfFields ==
  ASSUME CfShapes
  PROVE  /\ cfStack.status \in CfStatuses /\ cfStack.res \in [CfIds -> CfRec] /\ cfStack.tmpl \in CfTmpl
         /\ cfStack.pending \in [CfIds -> [kind : {"no", "revert", "delete"}, to : CfRec]] /\ cfStack.cancel \in BOOLEAN
         /\ cfOp.pc \in CfPcs /\ cfOp.update \in BOOLEAN /\ cfOp.tmpl \in CfTmpl /\ cfOp.prevRes \in [CfIds -> CfRec]
         /\ cfOp.prevTmpl \in CfTmpl /\ cfOp.todo \in SUBSET CfIds /\ cfOp.cur \in SUBSET CfIds /\ cfOp.want \in CfRec
         /\ cfOp.created \in Seq(CfIds) /\ cfOp.replaced \in Seq(CfIds \X CfPids) /\ cfOp.tried \in Seq(CfIds)
         /\ cfOp.reverts \in Seq(CfIds) /\ cfOp.dels \in Seq(CfIds) /\ cfOp.cleanup \in BOOLEAN /\ cfOp.disable \in BOOLEAN
         /\ cfDel.pc \in {"idle", "start", "deleting"} /\ cfDel.todo \in SUBSET CfIds /\ cfDel.failed \in BOOLEAN
         /\ cfDel.own \in BOOLEAN /\ cfDel.res \in [CfIds -> CfRec]
         /\ \A i \in CfIds : cfStack.res[i] \in CfRec /\ cfOp.prevRes[i] \in CfRec /\ cfDel.res[i] \in CfRec
                             /\ cfStack.pending[i].kind \in {"no", "revert", "delete"} /\ cfStack.pending[i].to \in CfRec
         /\ \A r \in CfRec : r.pid \in {0} \cup CfPids /\ r.ver \in Nat /\ r.needs \in SUBSET CfPids
<1>1. cfStack.status \in CfStatuses /\ cfStack.res \in [CfIds -> CfRec] /\ cfStack.tmpl \in CfTmpl
         /\ cfStack.pending \in [CfIds -> [kind : {"no", "revert", "delete"}, to : CfRec]] /\ cfStack.cancel \in BOOLEAN
  BY DEF CfShapes, CfStackRecord
<1>2. /\ cfOp.pc \in CfPcs /\ cfOp.update \in BOOLEAN /\ cfOp.tmpl \in CfTmpl /\ cfOp.prevRes \in [CfIds -> CfRec]
      /\ cfOp.prevTmpl \in CfTmpl /\ cfOp.todo \in SUBSET CfIds /\ cfOp.cur \in SUBSET CfIds /\ cfOp.want \in CfRec
      /\ cfOp.created \in Seq(CfIds) /\ cfOp.replaced \in Seq(CfIds \X CfPids) /\ cfOp.tried \in Seq(CfIds)
      /\ cfOp.reverts \in Seq(CfIds) /\ cfOp.dels \in Seq(CfIds) /\ cfOp.cleanup \in BOOLEAN /\ cfOp.disable \in BOOLEAN
  BY DEF CfShapes, CfOpRecord
<1>3. cfDel.pc \in {"idle", "start", "deleting"} /\ cfDel.todo \in SUBSET CfIds /\ cfDel.failed \in BOOLEAN
         /\ cfDel.own \in BOOLEAN /\ cfDel.res \in [CfIds -> CfRec]
  BY DEF CfShapes, CfDelRecord
<1>4. \A r \in CfRec : r.pid \in {0} \cup CfPids /\ r.ver \in Nat /\ r.needs \in SUBSET CfPids BY DEF CfRec
<1> QED BY <1>1, <1>2, <1>3, <1>4

LEMMA CfBlank ==
  /\ CfNoRec \in CfRec /\ CfNoRes \in [CfIds -> CfRec] /\ CfBare \in CfTmpl
  /\ CfNoPending \in [CfIds -> [kind : {"no", "revert", "delete"}, to : CfRec]]
  /\ CfNothing \in [kind : {"no", "revert", "delete"}, to : CfRec]
  /\ CfIdle \in CfOpRecord /\ CfNoDelete \in CfDelRecord
  /\ CfGone \in [there : BOOLEAN, ver : Nat, needs : SUBSET CfPids]
<1>1. CfNoRec \in CfRec BY DEF CfNoRec, CfRec
<1>2. CfNoRes \in [CfIds -> CfRec] BY <1>1 DEF CfNoRes
<1>3. CfBare \in CfTmpl BY DEF CfTmpl
<1>4. CfNothing \in [kind : {"no", "revert", "delete"}, to : CfRec] BY <1>1 DEF CfNothing
<1>5. CfNoPending \in [CfIds -> [kind : {"no", "revert", "delete"}, to : CfRec]] BY <1>4 DEF CfNoPending
<1>6. CfIdle \in CfOpRecord BY <1>1, <1>2, <1>3 DEF CfIdle, CfOpRecord, CfPcs
<1>7. CfNoDelete \in CfDelRecord BY <1>2 DEF CfNoDelete, CfDelRecord
<1>8. CfGone \in [there : BOOLEAN, ver : Nat, needs : SUBSET CfPids] BY DEF CfGone
<1> QED BY <1>1, <1>2, <1>3, <1>4, <1>5, <1>6, <1>7, <1>8

LEMMA CfInitAlways == CfInit => CfAlways
<1> SUFFICES ASSUME CfInit PROVE CfAlways OBVIOUS
<1>1. CfShapes BY CfBlank, CfNumbers DEF CfInit, CfShapes, CfStackRecord, CfStatuses, CfEmptied
<1>2. CfBudget BY CfNumbers DEF CfInit, CfBudget, CfIdle
<1>3. CfApart BY DEF CfInit, CfApart, CfOf, CfIdle, CfNoDelete, CfNoRes, CfNoRec, CfNoPending, CfNothing
<1>4. CfKnown BY DEF CfInit, CfKnown, CfGone
<1>5. CfAtWork BY DEF CfInit, CfAtWork, CfIdle, CfNoPending, CfNothing, CfNoRec
<1> QED BY <1>1, <1>2, <1>3, <1>4, <1>5 DEF CfAlways

(* What a call, the deploy task, the rollback and the delete task write has *)
(* the shape of the records.                                                *)
LEMMA CfCallsShapes == ASSUME CfAlways, CfCalls PROVE CfShapes'
<1> USE CfFields, CfBlank, CfPidsIs DEF CfAlways
<1>0. CfShapes OBVIOUS
<1>1. ASSUME NEW t \in CfTemplates, NEW disable \in BOOLEAN, CfCreate(t, disable) PROVE CfShapes'
  <2>1. cfStack' \in CfStackRecord BY <1>1 DEF CfCreate, CfStackRecord, CfStatuses, CfWorking, CfTmpl
  <2>2. cfOp' \in CfOpRecord BY <1>1 DEF CfCreate, CfOpRecord, CfPcs, CfDeployPcs, CfTmpl
  <2> QED BY <1>1, <2>1, <2>2 DEF CfCreate, CfShapes
<1>2. ASSUME NEW t \in CfTemplates, NEW disable \in BOOLEAN, CfUpdate(t, disable) PROVE CfShapes'
  <2>1. cfStack' \in CfStackRecord BY <1>2 DEF CfUpdate, CfSetStatus, CfStackRecord, CfStatuses, CfWorking, CfShapes
  <2>2. cfOp' \in CfOpRecord BY <1>2 DEF CfUpdate, CfOpRecord, CfPcs, CfDeployPcs, CfTmpl
  <2> QED BY <1>2, <2>1, <2>2 DEF CfUpdate, CfShapes
<1>3. CASE CfCancelUpdate
  <2>1. cfStack' \in CfStackRecord BY <1>3 DEF CfCancelUpdate, CfStackRecord, CfShapes
  <2> QED BY <1>3, <2>1 DEF CfCancelUpdate, CfShapes
<1>4. CASE CfRollbackStack
  <2>1. cfStack' \in CfStackRecord
    BY <1>4 DEF CfRollbackStack, CfSetStatus, CfStackRecord, CfStatuses, CfWorking, CfShapes
  <2>2. cfOp' \in CfOpRecord BY <1>4 DEF CfRollbackStack, CfOpRecord, CfPcs, CfDeployPcs, CfShapes
  <2> QED BY <1>4, <2>1, <2>2 DEF CfRollbackStack, CfShapes
<1>5. CASE CfDelete
  <2>1. cfDel' \in CfDelRecord BY <1>5 DEF CfDelete, CfDelRecord
  <2> QED BY <1>5, <2>1 DEF CfDelete, CfShapes
<1>6. ASSUME NEW skip \in SUBSET CfIds, CfContinueUpdateRollback(skip) PROVE CfShapes'
  <2>1. [i \in CfIds |-> IF i \in skip THEN CfNothing ELSE cfStack.pending[i]]
          \in [CfIds -> [kind : {"no", "revert", "delete"}, to : CfRec]] OBVIOUS
  <2>2. cfStack' \in CfStackRecord
    BY <1>6, <2>1 DEF CfContinueUpdateRollback, CfStackRecord, CfStatuses, CfWorking, CfShapes
  <2>3. CfPending \ skip \in SUBSET CfIds BY DEF CfPending
  <2>4. cfOp' \in CfOpRecord BY <1>6, <2>3 DEF CfContinueUpdateRollback, CfOpRecord, CfPcs, CfShapes
  <2>5. cfTold' \in SUBSET CfPids
    <3>1. {cfStack.pending[i].to.pid : i \in skip} \ {0} \subseteq CfPids BY DEF CfRec
    <3> QED BY <1>6, <3>1 DEF CfContinueUpdateRollback, CfTell, CfShapes
  <2> QED BY <1>6, <2>2, <2>4, <2>5 DEF CfContinueUpdateRollback, CfShapes
<1> QED BY <1>1, <1>2, <1>3, <1>4, <1>5, <1>6 DEF CfCalls

(* The next physical id is within the bound, and is nobody's yet.           *)
LEMMA CfNextPid ==
  ASSUME CfAlways, NEW i \in CfIds, cfOp.pc = "busy", cfOp.cur = {i}
  PROVE  /\ cfMade + 1 \in CfPids /\ cfMade + 1 + Cardinality(cfOp.todo) <= CfPer * cfOps
         /\ i \notin cfOp.todo /\ cfOp.want.pid = cfOp.prevRes[i].pid
<1> USE CfFields DEF CfAlways
<1>1. i \notin cfOp.todo /\ cfOp.want.pid = cfOp.prevRes[i].pid BY DEF CfAtWork
<1>2. cfOp.todo \cup cfOp.cur \in SUBSET CfIds /\ i \in cfOp.todo \cup cfOp.cur
      /\ (cfOp.todo \cup cfOp.cur) \ {i} = cfOp.todo
  BY <1>1
<1>3. Cardinality(cfOp.todo) = Cardinality(cfOp.todo \cup cfOp.cur) - 1 /\ Cardinality(cfOp.todo \cup cfOp.cur) \in Nat
      /\ Cardinality(cfOp.todo) \in Nat
  <2>1. \A S \in SUBSET CfIds : /\ Cardinality(S) \in 0..CfPer
                                /\ \A j \in S : Cardinality(S \ {j}) = Cardinality(S) - 1
    BY CfNumbers
  <2>2. Cardinality((cfOp.todo \cup cfOp.cur) \ {i}) = Cardinality(cfOp.todo \cup cfOp.cur) - 1 BY <1>2, <2>1
  <2>3. Cardinality(cfOp.todo \cup cfOp.cur) \in 0..CfPer /\ Cardinality(cfOp.todo) \in 0..CfPer BY <1>2, <2>1
  <2>4. CfPer \in Nat BY CfNumbers
  <2>5. Cardinality((cfOp.todo \cup cfOp.cur) \ {i}) = Cardinality(cfOp.todo) BY <1>2, Zenon
  <2> HIDE CfFields DEF CfAlways
  <2> QED BY <2>2, <2>3, <2>4, <2>5
<1>4. cfMade + Cardinality(cfOp.todo \cup cfOp.cur) <= CfPer * cfOps BY DEF CfBudget
<1>5. CfPer * cfOps <= CfPer * CfMaxOps /\ CfPer * cfOps \in Nat /\ CfPer * CfMaxOps \in Nat
  <2>1. cfOps \in Nat /\ cfOps <= CfMaxOps BY DEF CfShapes
  <2> QED BY <2>1, CfNumbers
<1>6. cfMade \in Nat BY DEF CfShapes
<1> QED BY <1>1, <1>3, <1>4, <1>5, <1>6, CfNumbers

(* What Front and Last leave of a list.                                     *)
LEMMA CfFrontIs ==
  ASSUME NEW S, NEW s \in Seq(S), s # <<>>
  PROVE  /\ Len(s) \in Nat \ {0} /\ Last(s) = s[Len(s)] /\ Last(s) \in S /\ DOMAIN s = 1..Len(s)
         /\ Front(s) \in Seq(S) /\ DOMAIN Front(s) = 1..(Len(s) - 1)
         /\ \A k \in 1..(Len(s) - 1) : Front(s)[k] = s[k]
<1>1. Len(s) \in Nat \ {0} /\ Last(s) = s[Len(s)] /\ Last(s) \in S /\ DOMAIN s = 1..Len(s) BY DEF Last
<1>2. Front(s) = SubSeq(s, 1, Len(s) - 1) BY DEF Front
<1>3. Front(s) \in Seq(S) /\ DOMAIN Front(s) = 1..(Len(s) - 1) BY <1>1, <1>2
<1>4. \A k \in 1..(Len(s) - 1) : Front(s)[k] = s[k] BY <1>1, <1>2
<1> QED BY <1>1, <1>3, <1>4

LEMMA CfDeployShapes == ASSUME CfAlways, CfDeploy PROVE CfShapes'
<1> USE CfFields, CfBlank, CfPidsIs DEF CfAlways
<1>0. CfShapes /\ cfStack \in CfStackRecord /\ cfOp \in CfOpRecord BY DEF CfShapes
<1>1. CASE CfBegin
  <2>1. CfTmplIds(cfOp.tmpl) \in SUBSET CfIds BY DEF CfTmplIds
  <2>2. cfOp' \in CfOpRecord BY <1>0, <1>1, <2>1 DEF CfBegin, CfOpRecord, CfPcs, CfDeployPcs
  <2>3. cfStack' \in CfStackRecord BY <1>0, <1>1 DEF CfBegin, CfStackRecord
  <2> QED BY <1>1, <2>2, <2>3 DEF CfBegin, CfShapes
<1>2. CASE CfCancelled
  <2>2. cfOp' \in CfOpRecord BY <1>0, <1>2 DEF CfCancelled, CfOpRecord, CfPcs, CfDeployPcs
  <2>3. cfStack' \in CfStackRecord BY <1>0, <1>2 DEF CfCancelled, CfStackRecord
  <2> QED BY <1>2, <2>2, <2>3 DEF CfCancelled, CfShapes
<1>3. CASE CfCleaned
  <2>1. (IF cfOp.update THEN CfHeld(cfOp.prevRes) \ CfTmplIds(cfOp.tmpl) ELSE {}) \in SUBSET CfIds BY DEF CfHeld
  <2>2. cfOp' \in CfOpRecord BY <1>0, <1>3, <2>1 DEF CfCleaned, CfOpRecord, CfPcs
  <2> QED BY <1>3, <2>2 DEF CfCleaned, CfShapes
<1>4. CASE CfComplete
  <2>1. cfStack' \in CfStackRecord BY <1>0, <1>4 DEF CfComplete, CfStackRecord, CfStatuses, CfWhole
  <2> QED BY <1>4, <2>1 DEF CfComplete, CfShapes
<1>5. CASE CfFailed
  <2>1. cfStack' \in CfStackRecord BY <1>0, <1>5 DEF CfFailed, CfSetStatus, CfStackRecord, CfStatuses
  <2>2. cfOp' \in CfOpRecord BY <1>0, <1>5 DEF CfFailed, CfOpRecord, CfPcs, CfDeployPcs
  <2> QED BY <1>5, <2>1, <2>2 DEF CfFailed, CfShapes
<1>6. ASSUME NEW i \in CfIds, CfResource(i) PROVE CfShapes'
  <2>0. \A d \in CfIds : cfStack.res[d].pid \in {0} \cup CfPids OBVIOUS
  <2>1. {cfStack.res[d].pid : d \in {d \in CfIds : <<i, d>> \in cfOp.tmpl.deps}} \ {0} \in SUBSET CfPids
    <3> SUFFICES ASSUME NEW n \in {cfStack.res[d].pid : d \in {d \in CfIds : <<i, d>> \in cfOp.tmpl.deps}} \ {0}
                 PROVE  n \in CfPids
      OBVIOUS
    <3>1. PICK d \in CfIds : n = cfStack.res[d].pid OBVIOUS
    <3> QED BY <2>0, <3>1
  <2>2. cfOp.tmpl.ver[i] \in Nat BY CfTmplIs
  <2>3. [pid |-> IF cfOp.update THEN cfOp.prevRes[i].pid ELSE 0, ver |-> cfOp.tmpl.ver[i],
         needs |-> {cfStack.res[d].pid : d \in {d \in CfIds : <<i, d>> \in cfOp.tmpl.deps}} \ {0}] \in CfRec
    BY <2>1, <2>2 DEF CfRec
  <2>4. cfOp' \in CfOpRecord BY <1>0, <1>6, <2>3, ZenonT(40) DEF CfResource, CfOpRecord, CfPcs, CfDeployPcs
  <2> QED BY <1>6, <2>4 DEF CfResource, CfShapes
<1>7. ASSUME NEW i \in CfIds, NEW p \in CfPids, CfRecorded(i, p)
      PROVE  /\ cfStack' \in CfStackRecord
             /\ cfWorld' \in [CfPids -> [there : BOOLEAN, ver : Nat, needs : SUBSET CfPids]]
  <2>1. [cfOp.want EXCEPT !.pid = p] \in CfRec BY DEF CfRec
  <2>2. [cfStack.res EXCEPT ![i] = [cfOp.want EXCEPT !.pid = p]] \in [CfIds -> CfRec] BY <2>1
  <2>3. cfStack' \in CfStackRecord BY <1>0, <1>7, <2>2 DEF CfRecorded, CfStackRecord
  <2>4. CfProps(cfOp.want) \in [there : BOOLEAN, ver : Nat, needs : SUBSET CfPids] BY DEF CfProps, CfRec
  <2> QED BY <1>7, <2>3, <2>4 DEF CfRecorded, CfShapes
<1>8. ASSUME NEW i \in CfIds, CfProvisioned(i) PROVE CfShapes'
  <2>1. cfMade + 1 \in CfPids BY <1>8, CfNextPid DEF CfProvisioned
  <2>2. (IF cfOp.want.pid > 0 THEN cfOp.want.pid ELSE cfMade + 1) \in CfPids
    <3>1. cfOp.want.pid \in {0} \cup CfPids OBVIOUS
    <3> QED BY <2>1, <3>1
  <2>3. /\ cfStack' \in CfStackRecord
        /\ cfWorld' \in [CfPids -> [there : BOOLEAN, ver : Nat, needs : SUBSET CfPids]]
    BY <1>7, <1>8, <2>2 DEF CfProvisioned
  <2>4. Append(cfOp.created, i) \in Seq(CfIds) OBVIOUS
  <2>5. cfOp' \in CfOpRecord BY <1>0, <1>8, <2>4 DEF CfProvisioned, CfOpRecord, CfPcs, CfDeployPcs
  <2> QED BY <1>8, <2>3, <2>5 DEF CfProvisioned, CfShapes
<1>9. ASSUME NEW i \in CfIds, CfReplaced(i) PROVE CfShapes'
  <2>1. cfMade + 1 \in CfPids BY <1>9, CfNextPid DEF CfReplaced
  <2>2. cfOp.want.pid \in CfPids BY <1>9 DEF CfRec, CfReplaced
  <2>3. /\ cfStack' \in CfStackRecord
        /\ cfWorld' \in [CfPids -> [there : BOOLEAN, ver : Nat, needs : SUBSET CfPids]]
    BY <1>7, <1>9, <2>1 DEF CfReplaced
  <2>4. Append(cfOp.created, i) \in Seq(CfIds) /\ Append(cfOp.replaced, <<i, cfOp.want.pid>>) \in Seq(CfIds \X CfPids)
    BY <2>2
  <2>5. cfOp' \in CfOpRecord BY <1>0, <1>9, <2>4 DEF CfReplaced, CfOpRecord, CfPcs, CfDeployPcs
  <2> QED BY <1>9, <2>3, <2>5 DEF CfReplaced, CfShapes
<1>10. ASSUME NEW i \in CfIds, NEW partly \in BOOLEAN, CfFails(i, partly) PROVE CfShapes'
  <2>1. (IF partly THEN <<i>> ELSE <<>>) \in Seq(CfIds) OBVIOUS
  <2>2. cfOp' \in CfOpRecord BY <1>0, <1>10, <2>1 DEF CfFails, CfOpRecord, CfPcs, CfDeployPcs
  <2>3. CfProps(cfOp.want) \in [there : BOOLEAN, ver : Nat, needs : SUBSET CfPids] BY DEF CfProps, CfRec
  <2>4. cfWorld' \in [CfPids -> [there : BOOLEAN, ver : Nat, needs : SUBSET CfPids]]
    BY <1>10, <2>3 DEF CfFails, CfShapes
  <2> QED BY <1>10, <2>2, <2>4 DEF CfFails, CfShapes
<1>11. ASSUME NEW ok \in BOOLEAN, CfOutputs(ok) PROVE CfShapes'
  <2>1. cfOp' \in CfOpRecord BY <1>0, <1>11 DEF CfOutputs, CfOpRecord, CfPcs, CfDeployPcs
  <2> QED BY <1>11, <2>1 DEF CfOutputs, CfShapes
<1>12. ASSUME NEW ok \in BOOLEAN, CfCleanReplaced(ok) PROVE CfShapes'
  <2>1. Front(cfOp.replaced) \in Seq(CfIds \X CfPids) /\ Last(cfOp.replaced) \in CfIds \X CfPids
    BY <1>12, CfFrontIs DEF CfCleanReplaced
  <2>2. cfOp' \in CfOpRecord BY <1>0, <1>12, <2>1 DEF CfCleanReplaced, CfOpRecord, CfPcs
  <2>3. cfTold' \in SUBSET CfPids BY <1>12, <2>1 DEF CfCleanReplaced, CfShapes, CfTell
  <2>4. cfWorld' \in [CfPids -> [there : BOOLEAN, ver : Nat, needs : SUBSET CfPids]]
    BY <1>12 DEF CfCleanReplaced, CfDestroy, CfShapes
  <2> QED BY <1>12, <2>2, <2>3, <2>4 DEF CfCleanReplaced, CfShapes
<1>13. ASSUME NEW i \in CfIds, NEW ok \in BOOLEAN, CfRemove(i, ok) PROVE CfShapes'
  <2>1. cfOp' \in CfOpRecord BY <1>0, <1>13 DEF CfRemove, CfOpRecord, CfPcs
  <2>2. cfTold' \in SUBSET CfPids BY <1>13 DEF CfRemove, CfShapes, CfTell, CfRec
  <2>3. cfWorld' \in [CfPids -> [there : BOOLEAN, ver : Nat, needs : SUBSET CfPids]]
    BY <1>13 DEF CfRemove, CfDestroy, CfShapes
  <2>4. [cfStack EXCEPT !.res[i] = CfNoRec] \in CfStackRecord BY <1>0 DEF CfStackRecord
  <2>5. cfStack' \in CfStackRecord BY <1>0, <1>13, <2>4 DEF CfRemove
  <2> QED BY <1>13, <2>1, <2>2, <2>3, <2>5 DEF CfRemove, CfShapes
<1> QED BY <1>1, <1>2, <1>3, <1>4, <1>5, <1>6, <1>8, <1>9, <1>10, <1>11, <1>12, <1>13 DEF CfDeploy

LEMMA CfRevertShapes ==
  ASSUME CfShapes, NEW r \in CfRec, NEW i \in CfIds, NEW ok \in BOOLEAN, CfRevertTo(r, i, ok)
  PROVE  /\ cfStack' \in CfStackRecord
         /\ cfWorld' \in [CfPids -> [there : BOOLEAN, ver : Nat, needs : SUBSET CfPids]]
<1>1. (IF ok THEN CfNothing ELSE [kind |-> "revert", to |-> r]) \in [kind : {"no", "revert", "delete"}, to : CfRec]
  BY CfBlank
<1>2. cfStack' \in CfStackRecord BY <1>1 DEF CfRevertTo, CfShapes, CfStackRecord
<1>3. CfProps(r) \in [there : BOOLEAN, ver : Nat, needs : SUBSET CfPids] BY CfFields DEF CfProps
<1>4. cfWorld' \in [CfPids -> [there : BOOLEAN, ver : Nat, needs : SUBSET CfPids]]
  BY <1>3 DEF CfRevertTo, CfShapes
<1> QED BY <1>2, <1>4

LEMMA CfUndoingShapes == ASSUME CfAlways, CfUndoing PROVE CfShapes'
<1> USE CfFields, CfBlank, CfPidsIs DEF CfAlways
<1>0. CfShapes /\ cfStack \in CfStackRecord /\ cfOp \in CfOpRecord BY DEF CfShapes
<1>1. CASE CfRollBack
  <2>1. /\ Picked(cfOp.created, {k \in DOMAIN cfOp.created : CfToRevert(cfOp.created[k])}) \in Seq(CfIds)
        /\ Picked(cfOp.created, {k \in DOMAIN cfOp.created : ~CfInPlace(cfOp.created[k])}) \in Seq(CfIds)
    BY PickedIs
  <2>2. Picked(cfOp.created, {k \in DOMAIN cfOp.created : CfToRevert(cfOp.created[k])}) \o cfOp.tried \in Seq(CfIds)
    BY <2>1
  <2>3. cfOp' \in CfOpRecord BY <1>0, <1>1, <2>1, <2>2 DEF CfRollBack, CfOpRecord, CfPcs
  <2>4. cfStack' \in CfStackRecord BY <1>0, <1>1 DEF CfRollBack, CfSetStatus, CfStackRecord, CfStatuses, CfWorking
  <2> QED BY <1>1, <2>3, <2>4 DEF CfRollBack, CfShapes
<1>2. CASE CfReverted
  <2>1. cfOp' \in CfOpRecord BY <1>0, <1>2, ZenonT(40) DEF CfReverted, CfOpRecord, CfPcs
  <2> QED BY <1>2, <2>1 DEF CfReverted, CfShapes
<1>3. CASE CfRolledBack
  <2>1. CfRollbackStatus \in CfStatuses BY DEF CfRollbackStatus, CfStatuses, CfWhole, CfEmptied
  <2>2. cfStack' \in CfStackRecord BY <1>0, <1>3, <2>1 DEF CfRolledBack, CfStackRecord
  <2>3. cfDel' \in CfDelRecord BY <1>3 DEF CfRolledBack, CfDelRecord, CfShapes
  <2> QED BY <1>3, <2>2, <2>3 DEF CfRolledBack, CfShapes
<1>4. CASE CfContinued
  <2>1. cfStack' \in CfStackRecord BY <1>0, <1>4 DEF CfContinued, CfSetStatus, CfStackRecord, CfStatuses, CfWhole
  <2> QED BY <1>4, <2>1 DEF CfContinued, CfShapes
<1>5. ASSUME NEW ok \in BOOLEAN, CfRevert(ok) PROVE CfShapes'
  <2>1. Head(cfOp.reverts) \in CfIds /\ Tail(cfOp.reverts) \in Seq(CfIds) BY <1>5 DEF CfRevert
  <2>2. cfOp' \in CfOpRecord BY <1>0, <1>5, <2>1 DEF CfRevert, CfOpRecord, CfPcs
  <2>3. /\ cfStack' \in CfStackRecord
        /\ cfWorld' \in [CfPids -> [there : BOOLEAN, ver : Nat, needs : SUBSET CfPids]]
    BY <1>0, <1>5, <2>1, CfRevertShapes DEF CfRevert
  <2> QED BY <1>5, <2>2, <2>3 DEF CfRevert, CfShapes
<1>6. ASSUME NEW ok \in BOOLEAN, CfUndo(ok) PROVE CfShapes'
  <2> DEFINE i == Last(cfOp.dels)
             p == cfStack.res[i].pid
             e == IF ok \/ i \in cfOp.tmpl.retain \/ cfOp.cleanup THEN cfStack.pending[i]
                  ELSE [kind |-> "delete", to |-> cfStack.res[i]]
  <2>1. i \in CfIds /\ Front(cfOp.dels) \in Seq(CfIds) BY <1>6, CfFrontIs DEF CfUndo
  <2>2. p \in {0} \cup CfPids BY <2>1
  <2>3. cfStack' = [cfStack EXCEPT !.res[i] = CfNoRec, !.pending[i] = e] BY <1>6 DEF CfUndo
  <2>4. cfOp' = [cfOp EXCEPT !.dels = Front(cfOp.dels)] BY <1>6 DEF CfUndo
  <2>5. e \in [kind : {"no", "revert", "delete"}, to : CfRec] BY <2>1
  <2>6. UNCHANGED <<cfDel, cfMade, cfOps, cfUndone>> BY <1>6 DEF CfUndo
  <2>7. cfWorld' = cfWorld \/ cfWorld' = [cfWorld EXCEPT ![p] = CfGone] BY <1>6, <2>2 DEF CfUndo, CfDestroy
  <2>8. cfTold' \in SUBSET CfPids
    <3>1. cfTold' = cfTold \/ cfTold' = cfTold \cup ({p} \ {0}) BY <1>6, <2>2 DEF CfUndo, CfTell
    <3> QED BY <2>2, <3>1 DEF CfShapes
  <2> HIDE DEF i, p, e
  <2>9. cfStack' \in CfStackRecord BY <1>0, <2>1, <2>3, <2>5 DEF CfStackRecord
  <2>10. cfOp' \in CfOpRecord BY <1>0, <2>1, <2>4 DEF CfOpRecord
  <2>11. cfWorld' \in [CfPids -> [there : BOOLEAN, ver : Nat, needs : SUBSET CfPids]] BY <2>7 DEF CfShapes
  <2> QED BY <2>6, <2>8, <2>9, <2>10, <2>11 DEF CfShapes
<1>7. ASSUME NEW i \in CfIds, NEW ok \in BOOLEAN, CfContinue(i, ok) PROVE CfShapes'
  <2>1. cfOp' \in CfOpRecord BY <1>0, <1>7 DEF CfContinue, CfOpRecord, CfPcs
  <2>2. /\ cfStack' \in CfStackRecord
        /\ cfWorld' \in [CfPids -> [there : BOOLEAN, ver : Nat, needs : SUBSET CfPids]]
    <3>1. CASE cfStack.pending[i].kind = "revert" BY <1>0, <1>7, <3>1, CfRevertShapes DEF CfContinue
    <3>2. CASE cfStack.pending[i].kind # "revert"
      <4>1. cfWorld' \in [CfPids -> [there : BOOLEAN, ver : Nat, needs : SUBSET CfPids]]
        BY <1>0, <1>7, <3>2 DEF CfContinue, CfDestroy, CfShapes
      <4>2. (IF ok THEN CfNothing ELSE cfStack.pending[i]) \in [kind : {"no", "revert", "delete"}, to : CfRec] OBVIOUS
      <4>3. cfStack' = [cfStack EXCEPT !.pending[i] = IF ok THEN CfNothing ELSE cfStack.pending[i]]
        BY <1>7, <3>2 DEF CfContinue
      <4>4. cfStack' \in CfStackRecord BY <1>0, <4>2, <4>3 DEF CfStackRecord
      <4> QED BY <4>1, <4>4
    <3> QED BY <3>1, <3>2
  <2> QED BY <1>7, <2>1, <2>2 DEF CfContinue, CfShapes
<1> QED BY <1>1, <1>2, <1>3, <1>4, <1>5, <1>6, <1>7 DEF CfUndoing

LEMMA CfDeletingShapes == ASSUME CfAlways, CfDeleting PROVE CfShapes'
<1> USE CfFields, CfBlank, CfPidsIs DEF CfAlways
<1>0. CfShapes /\ cfStack \in CfStackRecord /\ cfOp \in CfOpRecord /\ cfDel \in CfDelRecord BY DEF CfShapes
<1>1. CASE CfDeleteBegin
  <2>1. CfHeld(cfStack.res) \cup CfTmplIds(cfStack.tmpl) \in SUBSET CfIds BY DEF CfHeld, CfTmplIds
  <2>2. cfDel' \in CfDelRecord BY <1>0, <1>1, <2>1 DEF CfDeleteBegin, CfDelRecord
  <2>3. cfStack' \in CfStackRecord BY <1>0, <1>1 DEF CfDeleteBegin, CfSetStatus, CfStackRecord, CfStatuses
  <2> QED BY <1>1, <2>2, <2>3 DEF CfDeleteBegin, CfShapes
<1>2. CASE CfDeleteEnd
  <2>1. cfStack' \in CfStackRecord BY <1>0, <1>2 DEF CfDeleteEnd, CfSetStatus, CfStackRecord, CfStatuses, CfEmptied
  <2>2. cfOp' \in CfOpRecord BY <1>0, <1>2 DEF CfDeleteEnd
  <2> QED BY <1>2, <2>1, <2>2 DEF CfDeleteEnd, CfShapes
<1>3. ASSUME NEW i \in CfIds, NEW pop \in BOOLEAN, CfDeleteSettles(i, pop)
      PROVE  cfStack' \in CfStackRecord /\ cfDel' \in CfDelRecord
  <2>1. cfStack' \in CfStackRecord BY <1>0, <1>3 DEF CfDeleteSettles, CfStackRecord
  <2>2. cfDel' \in CfDelRecord BY <1>0, <1>3 DEF CfDeleteSettles, CfDelRecord
  <2> QED BY <2>1, <2>2
<1>4. ASSUME NEW i \in CfIds PROVE CfDelRes[i].pid \in {0} \cup CfPids BY DEF CfDelRes
<1>5. ASSUME NEW i \in CfIds, CfDeletes(i) PROVE CfShapes'
  <2>0. cfTold \in SUBSET CfPids BY DEF CfShapes
  <2>a. cfTold' = cfTold \/ cfTold' = cfTold \cup ({CfDelRes[i].pid} \ {0}) BY <1>5, Zenon DEF CfDeletes, CfTell
  <2>b. CfDelRes[i].pid \in {0} \cup CfPids BY <1>4
  <2>1. cfTold' \in SUBSET CfPids
    <3> HIDE CfFields, CfBlank DEF CfAlways
    <3> QED BY <2>0, <2>a, <2>b
  <2>2. cfWorld' \in [CfPids -> [there : BOOLEAN, ver : Nat, needs : SUBSET CfPids]]
    BY <1>5 DEF CfDeletes, CfDestroy, CfShapes
  <2> QED BY <1>3, <1>5, <2>1, <2>2 DEF CfDeletes, CfShapes
<1>6. ASSUME NEW i \in CfIds, CfDeleteFails(i) PROVE CfShapes'
  <2>0. cfTold \in SUBSET CfPids BY DEF CfShapes
  <2>a. cfTold' = cfTold \cup ({CfDelRes[i].pid} \ {0}) BY <1>6, Zenon DEF CfDeleteFails, CfTell
  <2>1. cfTold' \in SUBSET CfPids BY <1>4, <2>0, <2>a
  <2> QED BY <1>3, <1>6, <2>1 DEF CfDeleteFails, CfShapes
<1> QED BY <1>1, <1>2, <1>5, <1>6 DEF CfDeleting

LEMMA CfShapesStep == ASSUME CfAlways, CfNext PROVE CfShapes'
BY CfCallsShapes, CfDeployShapes, CfUndoingShapes, CfDeletingShapes DEF CfNext
-----------------------------------------------------------------------------
(* A step that makes no resource, and writes only ids of resources that     *)
(* were the logical id's already; and one that makes one.                   *)
LEMMA CfKeepsApart ==
  ASSUME CfAlways, CfShapes', cfMade' = cfMade,
         \A i \in CfIds : /\ cfStack'.res[i].pid \in CfOf(i) \cup {0} /\ cfOp'.prevRes[i].pid \in CfOf(i) \cup {0}
                          /\ cfDel'.res[i].pid \in CfOf(i) \cup {0} /\ cfStack'.pending[i].to.pid \in CfOf(i) \cup {0},
         \A p \in cfTold' : p \in cfTold \/ \E i \in CfIds : p \in CfOf(i) \cup {0},
         \A p \in CfPids : cfWorld'[p].there => cfWorld[p].there \/ \E i \in CfIds : p \in CfOf(i) \cup {0}
  PROVE  CfApart' /\ CfKnown'
<1>1. \A i \in CfIds : CfOf(i)' \subseteq CfOf(i) BY DEF CfOf
<1>2. CfApart' BY <1>1 DEF CfAlways, CfApart
<1>3. cfTold' \subseteq 1..cfMade
  <2>1. cfTold' \subseteq CfPids BY DEF CfShapes
  <2>2. \A p \in cfTold' : p # 0 BY <2>1, CfPidsIs
  <2> QED BY <2>2 DEF CfAlways, CfApart, CfKnown
<1>4. \A p \in CfPids : cfWorld'[p].there => p <= cfMade
  BY CfPidsIs DEF CfAlways, CfApart, CfKnown
<1> QED BY <1>2, <1>3, <1>4 DEF CfKnown

LEMMA CfMakesApart ==
  ASSUME CfAlways, NEW i \in CfIds, cfMade' = cfMade + 1, cfTold' = cfTold,
         cfStack'.res[i].pid = cfMade + 1,
         \A j \in CfIds : /\ j # i => cfStack'.res[j].pid = cfStack.res[j].pid
                          /\ cfOp'.prevRes[j].pid = cfOp.prevRes[j].pid /\ cfDel'.res[j].pid = cfDel.res[j].pid
                          /\ cfStack'.pending[j].to.pid = cfStack.pending[j].to.pid,
         \A p \in CfPids : cfWorld'[p].there => cfWorld[p].there \/ p = cfMade + 1
  PROVE  CfApart' /\ CfKnown'
<1>1. CfOf(i)' \subseteq CfOf(i) \cup {cfMade + 1} /\ \A j \in CfIds : j # i => CfOf(j)' = CfOf(j) BY DEF CfOf
<1>2. cfMade \in Nat BY DEF CfAlways, CfShapes
<1>3. \A j \in CfIds : CfOf(j) \subseteq 1..cfMade BY DEF CfAlways, CfApart
<1>4. \A j \in CfIds : CfOf(j)' \subseteq 1..(cfMade + 1) BY <1>1, <1>2, <1>3
<1>5. \A j, k \in CfIds : j # k => CfOf(j)' \cap CfOf(k)' = {}
  <2>1. \A j, k \in CfIds : j # k => CfOf(j) \cap CfOf(k) = {} BY DEF CfAlways, CfApart
  <2>2. \A j \in CfIds : cfMade + 1 \notin CfOf(j) BY <1>2, <1>3
  <2> QED BY <1>1, <2>1, <2>2
<1>6. CfApart' BY <1>4, <1>5 DEF CfApart
<1> QED BY <1>2, <1>6, CfPidsIs DEF CfKnown, CfAlways

LEMMA CfDestroys ==
  ASSUME CfShapes, NEW p, cfWorld' = cfWorld \/ CfDestroy(p)
  PROVE  \A q \in CfPids : cfWorld'[q].there => cfWorld[q].there /\ cfWorld'[q] = cfWorld[q]
<1>1. cfWorld \in [CfPids -> [there : BOOLEAN, ver : Nat, needs : SUBSET CfPids]] BY DEF CfShapes
<1>2. ~CfGone.there BY DEF CfGone
<1> QED BY <1>1, <1>2 DEF CfDestroy

(* No step gives two logical ids the same physical resource.                *)
LEMMA CfCallsApart == ASSUME CfAlways, CfShapes', CfCalls PROVE CfApart' /\ CfKnown'
<1> USE CfFields DEF CfAlways
<1>0. /\ cfStack \in CfStackRecord /\ cfOp \in CfOpRecord /\ CfShapes
      /\ \A i \in CfIds : CfNoRec.pid = 0 /\ CfNoRes[i].pid = 0 /\ CfNoPending[i].to.pid = 0 /\ CfNothing.to.pid = 0
  BY DEF CfShapes, CfNoRec, CfNoRes, CfNoPending, CfNothing
<1>a. \A i \in CfIds : /\ cfStack.res[i].pid \in CfOf(i) \cup {0} /\ cfOp.prevRes[i].pid \in CfOf(i) \cup {0}
                       /\ cfDel.res[i].pid \in CfOf(i) \cup {0} /\ cfStack.pending[i].to.pid \in CfOf(i) \cup {0}
  BY DEF CfOf
<1>1. ASSUME NEW t \in CfTemplates, NEW disable \in BOOLEAN, CfCreate(t, disable) PROVE CfApart' /\ CfKnown'
  <2>1. cfStack'.res = CfNoRes /\ cfStack'.pending = CfNoPending /\ cfOp'.prevRes = CfNoRes
    BY <1>1, CfBlank DEF CfCreate, CfOpRecord, CfIdle
  <2>2. cfMade' = cfMade /\ cfTold' = cfTold /\ cfWorld' = cfWorld /\ cfDel' = cfDel BY <1>1 DEF CfCreate
  <2> QED BY <1>0, <1>a, <2>1, <2>2, CfKeepsApart
<1>2. ASSUME NEW t \in CfTemplates, NEW disable \in BOOLEAN, CfUpdate(t, disable) PROVE CfApart' /\ CfKnown'
  <2>1. cfStack'.res = cfStack.res /\ cfStack'.pending = cfStack.pending /\ cfOp'.prevRes = cfStack.res
    BY <1>0, <1>2, CfBlank DEF CfUpdate, CfSetStatus, CfOpRecord, CfStackRecord, CfIdle
  <2>2. cfMade' = cfMade /\ cfTold' = cfTold /\ cfWorld' = cfWorld /\ cfDel' = cfDel BY <1>2 DEF CfUpdate
  <2> QED BY <1>0, <1>a, <2>1, <2>2, CfKeepsApart
<1>3. CASE CfCancelUpdate
  <2>1. cfStack'.res = cfStack.res /\ cfStack'.pending = cfStack.pending /\ cfOp' = cfOp
    BY <1>0, <1>3 DEF CfCancelUpdate, CfStackRecord
  <2>2. cfMade' = cfMade /\ cfTold' = cfTold /\ cfWorld' = cfWorld /\ cfDel' = cfDel BY <1>3 DEF CfCancelUpdate
  <2> QED BY <1>0, <1>a, <2>1, <2>2, CfKeepsApart
<1>4. CASE CfRollbackStack
  <2>1. cfStack'.res = cfStack.res /\ cfStack'.pending = cfStack.pending /\ cfOp'.prevRes = cfOp.prevRes
    BY <1>0, <1>4 DEF CfRollbackStack, CfSetStatus, CfStackRecord, CfOpRecord
  <2>2. cfMade' = cfMade /\ cfTold' = cfTold /\ cfWorld' = cfWorld /\ cfDel' = cfDel BY <1>4 DEF CfRollbackStack
  <2> QED BY <1>0, <1>a, <2>1, <2>2, CfKeepsApart
<1>5. CASE CfDelete
  <2>1. cfDel'.res = CfNoRes BY <1>5, CfBlank DEF CfDelete, CfDelRecord, CfNoDelete
  <2>2. cfMade' = cfMade /\ cfTold' = cfTold /\ cfWorld' = cfWorld /\ cfOp' = cfOp /\ cfStack' = cfStack
    BY <1>5 DEF CfDelete
  <2> QED BY <1>0, <1>a, <2>1, <2>2, CfKeepsApart
<1>6. ASSUME NEW skip \in SUBSET CfIds, CfContinueUpdateRollback(skip) PROVE CfApart' /\ CfKnown'
  <2>1. /\ cfStack'.res = cfStack.res /\ cfOp'.prevRes = cfOp.prevRes
        /\ cfStack'.pending = [i \in CfIds |-> IF i \in skip THEN CfNothing ELSE cfStack.pending[i]]
    BY <1>0, <1>6 DEF CfContinueUpdateRollback, CfStackRecord, CfOpRecord
  <2>2. cfMade' = cfMade /\ cfWorld' = cfWorld /\ cfDel' = cfDel BY <1>6 DEF CfContinueUpdateRollback
  <2>3. \A p \in cfTold' : p \in cfTold \/ \E i \in CfIds : p \in CfOf(i) \cup {0}
    BY <1>6, <1>a DEF CfContinueUpdateRollback, CfTell
  <2>4. \A i \in CfIds : cfStack'.pending[i].to.pid \in {0, cfStack.pending[i].to.pid} BY <1>0, <2>1
  <2> QED BY <1>0, <1>a, <2>1, <2>2, <2>3, <2>4, CfKeepsApart
<1> QED BY <1>1, <1>2, <1>3, <1>4, <1>5, <1>6 DEF CfCalls

LEMMA CfDeployApart == ASSUME CfAlways, CfShapes', CfDeploy PROVE CfApart' /\ CfKnown'
<1> USE CfFields DEF CfAlways
<1>0. /\ cfStack \in CfStackRecord /\ cfOp \in CfOpRecord /\ CfShapes
      /\ \A i \in CfIds : CfNoRec.pid = 0 /\ CfNoRes[i].pid = 0 /\ CfNoPending[i].to.pid = 0 /\ CfNothing.to.pid = 0
  BY DEF CfShapes, CfNoRec, CfNoRes, CfNoPending, CfNothing
<1>a. \A i \in CfIds : /\ cfStack.res[i].pid \in CfOf(i) \cup {0} /\ cfOp.prevRes[i].pid \in CfOf(i) \cup {0}
                       /\ cfDel.res[i].pid \in CfOf(i) \cup {0} /\ cfStack.pending[i].to.pid \in CfOf(i) \cup {0}
  BY DEF CfOf
<1>1. ASSUME cfStack'.res = cfStack.res, cfStack'.pending = cfStack.pending, cfOp'.prevRes \in {cfOp.prevRes, CfNoRes},
             UNCHANGED <<cfMade, cfTold, cfWorld, cfDel>>
      PROVE  CfApart' /\ CfKnown'
  BY <1>0, <1>a, <1>1, CfKeepsApart
<1>2. CASE CfBegin \/ CfCancelled \/ CfCleaned \/ CfFailed \/ \E i \in CfIds : CfResource(i)
  <2>1. cfOp'.prevRes = cfOp.prevRes
    BY <1>0, <1>2 DEF CfBegin, CfCancelled, CfCleaned, CfFailed, CfResource, CfOpRecord
  <2>2. cfStack'.res = cfStack.res /\ cfStack'.pending = cfStack.pending
    BY <1>0, <1>2 DEF CfBegin, CfCancelled, CfCleaned, CfFailed, CfResource, CfSetStatus, CfStackRecord
  <2>3. UNCHANGED <<cfMade, cfTold, cfWorld, cfDel>> BY <1>2 DEF CfBegin, CfCancelled, CfCleaned, CfFailed, CfResource
  <2> QED BY <1>1, <2>1, <2>2, <2>3
<1>3. CASE CfComplete
  <2>1. cfOp'.prevRes = CfNoRes BY <1>3 DEF CfComplete, CfIdle
  <2>2. cfStack'.res = cfStack.res /\ cfStack'.pending = cfStack.pending BY <1>0, <1>3 DEF CfComplete, CfStackRecord
  <2> QED BY <1>1, <1>3, <2>1, <2>2 DEF CfComplete
<1>4. CASE \E ok \in BOOLEAN : CfOutputs(ok)
  <2>1. cfOp'.prevRes = cfOp.prevRes BY <1>0, <1>4 DEF CfOutputs, CfOpRecord
  <2> QED BY <1>1, <1>4, <2>1 DEF CfOutputs
<1>5. ASSUME NEW i \in CfIds, CfProvisioned(i) \/ CfReplaced(i), cfOp.want.pid \notin CfPids \/ CfReplaced(i)
      PROVE  CfApart' /\ CfKnown'
  <2>1. ~(cfOp.want.pid > 0) \/ CfReplaced(i) BY <1>5, CfPidsIs
  <2>2. cfMade' = cfMade + 1 /\ CfRecorded(i, cfMade + 1) /\ cfOp'.prevRes = cfOp.prevRes /\ UNCHANGED <<cfDel, cfTold>>
    BY <1>0, <1>5, <2>1 DEF CfProvisioned, CfReplaced, CfOpRecord
  <2>3. /\ cfStack'.res = [cfStack.res EXCEPT ![i] = [cfOp.want EXCEPT !.pid = cfMade + 1]]
        /\ cfStack'.pending = cfStack.pending
    BY <1>0, <2>2 DEF CfRecorded, CfStackRecord
  <2>4. [cfOp.want EXCEPT !.pid = cfMade + 1].pid = cfMade + 1 BY DEF CfRec
  <2>5. cfStack'.res[i].pid = cfMade + 1 /\ \A j \in CfIds : j # i => cfStack'.res[j].pid = cfStack.res[j].pid
    BY <2>3, <2>4
  <2>6. \A p \in CfPids : cfWorld'[p].there => cfWorld[p].there \/ p = cfMade + 1
    BY <1>0, <2>2 DEF CfRecorded, CfShapes
  <2> QED BY <2>2, <2>3, <2>5, <2>6, CfMakesApart
<1>6. ASSUME NEW i \in CfIds, CfProvisioned(i), cfOp.want.pid \in CfPids PROVE CfApart' /\ CfKnown'
  <2>0. cfOp.want.pid > 0 /\ cfOp.want.pid = cfOp.prevRes[i].pid BY <1>6, CfPidsIs, CfNextPid DEF CfProvisioned
  <2>2. cfMade' = cfMade /\ CfRecorded(i, cfOp.want.pid) /\ cfOp'.prevRes = cfOp.prevRes /\ UNCHANGED <<cfDel, cfTold>>
    BY <1>0, <1>6, <2>0 DEF CfProvisioned, CfOpRecord
  <2>3. /\ cfStack'.res = [cfStack.res EXCEPT ![i] = [cfOp.want EXCEPT !.pid = cfOp.want.pid]]
        /\ cfStack'.pending = cfStack.pending
    BY <1>0, <2>2 DEF CfRecorded, CfStackRecord
  <2>4. [cfOp.want EXCEPT !.pid = cfOp.want.pid].pid = cfOp.want.pid BY DEF CfRec
  <2>5. \A j \in CfIds : cfStack'.res[j].pid \in CfOf(j) \cup {0} BY <1>a, <2>0, <2>3, <2>4
  <2>6. \A p \in CfPids : cfWorld'[p].there => cfWorld[p].there \/ p = cfOp.prevRes[i].pid
    BY <1>0, <2>0, <2>2 DEF CfRecorded, CfShapes
  <2>7. \A p \in CfPids : cfWorld'[p].there => cfWorld[p].there \/ \E j \in CfIds : p \in CfOf(j) \cup {0}
    BY <1>a, <2>6
  <2> QED BY <1>a, <2>2, <2>3, <2>5, <2>7, CfKeepsApart
<1>7. ASSUME NEW i \in CfIds, NEW partly \in BOOLEAN, CfFails(i, partly) PROVE CfApart' /\ CfKnown'
  <2>0. cfOp.want.pid = cfOp.prevRes[i].pid BY <1>7, CfNextPid DEF CfFails
  <2>1. cfOp'.prevRes = cfOp.prevRes /\ UNCHANGED <<cfStack, cfDel, cfMade, cfTold>>
    BY <1>0, <1>7 DEF CfFails, CfOpRecord
  <2>2. \A p \in CfPids : cfWorld'[p].there => cfWorld[p].there \/ p = cfOp.prevRes[i].pid
    BY <1>0, <1>7, <2>0 DEF CfFails, CfShapes
  <2>3. \A p \in CfPids : cfWorld'[p].there => cfWorld[p].there \/ \E j \in CfIds : p \in CfOf(j) \cup {0}
    BY <1>a, <2>2
  <2> QED BY <1>a, <2>1, <2>3, CfKeepsApart
<1>8. ASSUME NEW ok \in BOOLEAN, CfCleanReplaced(ok) PROVE CfApart' /\ CfKnown'
  <2>1. cfOp'.prevRes = cfOp.prevRes /\ UNCHANGED <<cfStack, cfDel, cfMade>> BY <1>0, <1>8 DEF CfCleanReplaced, CfOpRecord
  <2>2. \A p \in CfPids : cfWorld'[p].there => cfWorld[p].there
    <3>1. cfWorld' = cfWorld \/ CfDestroy(Last(cfOp.replaced)[2]) BY <1>8 DEF CfCleanReplaced
    <3> QED BY <1>0, <3>1, CfDestroys
  <2>3. Last(cfOp.replaced) = cfOp.replaced[Len(cfOp.replaced)] /\ Len(cfOp.replaced) \in DOMAIN cfOp.replaced
        /\ Last(cfOp.replaced) \in CfIds \X CfPids
    <3>1. cfOp.replaced \in Seq(CfIds \X CfPids) /\ cfOp.replaced # <<>> BY <1>8 DEF CfCleanReplaced
    <3> DEFINE s == cfOp.replaced
    <3>2. /\ Len(s) \in Nat \ {0} /\ Last(s) = s[Len(s)] /\ Last(s) \in CfIds \X CfPids /\ DOMAIN s = 1..Len(s)
      <4> HIDE CfFields DEF s, CfAlways
      <4> QED BY <3>1, CfFrontIs DEF s
    <3> QED BY <3>2
  <2>4. Last(cfOp.replaced)[1] \in CfIds /\ Last(cfOp.replaced)[2] = cfOp.prevRes[Last(cfOp.replaced)[1]].pid
    BY <2>3 DEF CfAtWork
  <2>5. \A p \in cfTold' : p \in cfTold \/ p = Last(cfOp.replaced)[2] BY <1>8 DEF CfCleanReplaced, CfTell
  <2> QED BY <1>a, <2>1, <2>2, <2>4, <2>5, CfKeepsApart
<1>9. ASSUME NEW i \in CfIds, NEW ok \in BOOLEAN, CfRemove(i, ok) PROVE CfApart' /\ CfKnown'
  <2>1. cfOp'.prevRes = cfOp.prevRes /\ UNCHANGED <<cfDel, cfMade>> BY <1>0, <1>9 DEF CfRemove, CfOpRecord
  <2>2. \A p \in CfPids : cfWorld'[p].there => cfWorld[p].there
    <3>1. cfWorld' = cfWorld \/ CfDestroy(cfOp.prevRes[i].pid) BY <1>9 DEF CfRemove
    <3> QED BY <1>0, <3>1, CfDestroys
  <2>3. cfStack' = cfStack \/ cfStack' = [cfStack EXCEPT !.res[i] = CfNoRec] BY <1>9 DEF CfRemove
  <2>4. /\ cfStack'.res = cfStack.res \/ cfStack'.res = [cfStack.res EXCEPT ![i] = CfNoRec]
        /\ cfStack'.pending = cfStack.pending
    BY <1>0, <2>3 DEF CfStackRecord
  <2>5. \A p \in cfTold' : p \in cfTold \/ p = cfOp.prevRes[i].pid BY <1>9 DEF CfRemove, CfTell
  <2> QED BY <1>0, <1>a, <2>1, <2>2, <2>4, <2>5, CfKeepsApart
<1> QED BY <1>2, <1>3, <1>4, <1>5, <1>6, <1>7, <1>8, <1>9 DEF CfDeploy

LEMMA CfUndoingApart == ASSUME CfAlways, CfShapes', CfUndoing PROVE CfApart' /\ CfKnown'
<1> USE CfFields DEF CfAlways
<1>0. /\ cfStack \in CfStackRecord /\ cfOp \in CfOpRecord /\ cfDel \in CfDelRecord /\ CfShapes
      /\ \A i \in CfIds : CfNoRec.pid = 0 /\ CfNoRes[i].pid = 0 /\ CfNothing.to.pid = 0
  BY DEF CfShapes, CfNoRec, CfNoRes, CfNothing
<1>a. \A i \in CfIds : /\ cfStack.res[i].pid \in CfOf(i) \cup {0} /\ cfOp.prevRes[i].pid \in CfOf(i) \cup {0}
                       /\ cfDel.res[i].pid \in CfOf(i) \cup {0} /\ cfStack.pending[i].to.pid \in CfOf(i) \cup {0}
  BY DEF CfOf
<1>b. ASSUME NEW i \in CfIds, NEW r \in CfRec, NEW ok \in BOOLEAN, CfRevertTo(r, i, ok), r.pid \in CfOf(i) \cup {0}
      PROVE  /\ cfStack'.res = cfStack.res
             /\ \A j \in CfIds : cfStack'.pending[j].to.pid \in CfOf(j) \cup {0}
             /\ \A p \in CfPids : cfWorld'[p].there => cfWorld[p].there \/ \E j \in CfIds : p \in CfOf(j) \cup {0}
  <2> DEFINE e == IF ok THEN CfNothing ELSE [kind |-> "revert", to |-> r]
  <2>1. cfStack' = [cfStack EXCEPT !.pending[i] = e] BY <1>b DEF CfRevertTo
  <2>2. e.to.pid \in CfOf(i) \cup {0} BY <1>0, <1>b
  <2> HIDE DEF e
  <2>3. cfStack'.res = cfStack.res /\ cfStack'.pending = [cfStack.pending EXCEPT ![i] = e]
    BY <1>0, <2>1 DEF CfStackRecord
  <2>4. \A j \in CfIds : cfStack'.pending[j].to.pid \in CfOf(j) \cup {0} BY <1>a, <2>2, <2>3
  <2>5. \A p \in CfPids : cfWorld'[p].there => cfWorld[p].there \/ p = r.pid BY <1>0, <1>b DEF CfRevertTo, CfShapes
  <2> QED BY <1>b, <2>3, <2>4, <2>5
<1>1. ASSUME cfStack'.res = cfStack.res, cfStack'.pending = cfStack.pending, cfOp'.prevRes \in {cfOp.prevRes, CfNoRes},
             UNCHANGED <<cfMade, cfTold, cfWorld, cfDel>>
      PROVE  CfApart' /\ CfKnown'
  BY <1>0, <1>a, <1>1, CfKeepsApart
<1>2. CASE CfRollBack \/ CfReverted \/ CfContinued
  <2>1. cfOp'.prevRes \in {cfOp.prevRes, CfNoRes}
    <3>1. CASE CfRollBack BY <1>0, <3>1 DEF CfRollBack, CfOpRecord
    <3>2. CASE CfReverted BY <1>0, <3>2 DEF CfReverted, CfOpRecord
    <3>3. CASE CfContinued BY <3>3 DEF CfContinued, CfIdle
    <3> QED BY <1>2, <3>1, <3>2, <3>3
  <2>2. cfStack'.res = cfStack.res /\ cfStack'.pending = cfStack.pending
    BY <1>0, <1>2 DEF CfRollBack, CfReverted, CfContinued, CfSetStatus, CfStackRecord
  <2> QED BY <1>1, <1>2, <2>1, <2>2 DEF CfRollBack, CfReverted, CfContinued
<1>3. CASE CfRolledBack
  <2>1. cfOp'.prevRes = CfNoRes BY <1>3 DEF CfRolledBack, CfIdle
  <2>2. cfStack'.res \in {cfStack.res, cfOp.prevRes} /\ cfStack'.pending = cfStack.pending
    BY <1>0, <1>3 DEF CfRolledBack, CfStackRecord
  <2>3. cfDel'.res \in {cfStack.res, cfDel.res} BY <1>0, <1>3 DEF CfRolledBack, CfDelRecord
  <2>4. UNCHANGED <<cfMade, cfTold, cfWorld>> BY <1>3 DEF CfRolledBack
  <2> QED BY <1>0, <1>a, <2>1, <2>2, <2>3, <2>4, CfKeepsApart
<1>4. ASSUME NEW ok \in BOOLEAN, CfRevert(ok) PROVE CfApart' /\ CfKnown'
  <2>1. Head(cfOp.reverts) \in CfIds BY <1>4 DEF CfRevert
  <2>2. cfOp'.prevRes = cfOp.prevRes /\ UNCHANGED <<cfDel, cfMade, cfTold>> BY <1>0, <1>4 DEF CfRevert, CfOpRecord
  <2>3. CfRevertTo(cfOp.prevRes[Head(cfOp.reverts)], Head(cfOp.reverts), ok) BY <1>4 DEF CfRevert
  <2>4. cfOp.prevRes[Head(cfOp.reverts)].pid \in CfOf(Head(cfOp.reverts)) \cup {0} BY <1>a, <2>1
  <2>5. cfOp.prevRes[Head(cfOp.reverts)] \in CfRec BY <1>0, <2>1 DEF CfOpRecord
  <2>6. /\ cfStack'.res = cfStack.res
        /\ \A j \in CfIds : cfStack'.pending[j].to.pid \in CfOf(j) \cup {0}
        /\ \A p \in CfPids : cfWorld'[p].there => cfWorld[p].there \/ \E j \in CfIds : p \in CfOf(j) \cup {0}
    BY <1>b, <2>1, <2>3, <2>4, <2>5
  <2> QED BY <1>a, <2>2, <2>6, CfKeepsApart
<1>5. ASSUME NEW ok \in BOOLEAN, CfUndo(ok) PROVE CfApart' /\ CfKnown'
  <2> DEFINE i == Last(cfOp.dels)
             p == cfStack.res[i].pid
             e == IF ok \/ i \in cfOp.tmpl.retain \/ cfOp.cleanup THEN cfStack.pending[i]
                  ELSE [kind |-> "delete", to |-> cfStack.res[i]]
  <2>1. i \in CfIds BY <1>5, CfFrontIs DEF CfUndo
  <2>3. cfStack' = [cfStack EXCEPT !.res[i] = CfNoRec, !.pending[i] = e] BY <1>5 DEF CfUndo
  <2>4. cfOp'.prevRes = cfOp.prevRes BY <1>0, <1>5 DEF CfUndo, CfOpRecord
  <2>5. e.to.pid \in CfOf(i) \cup {0} BY <1>a, <2>1
  <2>6. UNCHANGED <<cfDel, cfMade>> BY <1>5 DEF CfUndo
  <2>7. \A q \in CfPids : cfWorld'[q].there => cfWorld[q].there
    <3>1. cfWorld' = cfWorld \/ CfDestroy(p) BY <1>5, <2>1, CfPidsIs DEF CfUndo
    <3> QED BY <1>0, <3>1, CfDestroys
  <2>8. \A q \in cfTold' : q \in cfTold \/ q = p BY <1>5, <2>1, CfPidsIs DEF CfUndo, CfTell
  <2>9. p \in CfOf(i) \cup {0} BY <1>a, <2>1
  <2> HIDE DEF i, p, e
  <2>10. cfStack'.res = [cfStack.res EXCEPT ![i] = CfNoRec] /\ cfStack'.pending = [cfStack.pending EXCEPT ![i] = e]
    BY <1>0, <2>1, <2>3 DEF CfStackRecord
  <2> QED BY <1>0, <1>a, <2>1, <2>4, <2>5, <2>6, <2>7, <2>8, <2>9, <2>10, CfKeepsApart
<1>6. ASSUME NEW i \in CfIds, NEW ok \in BOOLEAN, CfContinue(i, ok) PROVE CfApart' /\ CfKnown'
  <2>1. cfOp'.prevRes = cfOp.prevRes /\ UNCHANGED <<cfDel, cfMade, cfTold>> BY <1>0, <1>6 DEF CfContinue, CfOpRecord
  <2>2. CASE cfStack.pending[i].kind = "revert"
    <3>1. CfRevertTo(cfStack.pending[i].to, i, ok) BY <1>6, <2>2, Zenon DEF CfContinue
    <3>2. cfStack.pending[i].to.pid \in CfOf(i) \cup {0} BY <1>a
    <3>3. cfStack.pending[i].to \in CfRec BY <1>0 DEF CfStackRecord
    <3>4. /\ cfStack'.res = cfStack.res
          /\ \A j \in CfIds : cfStack'.pending[j].to.pid \in CfOf(j) \cup {0}
          /\ \A p \in CfPids : cfWorld'[p].there => cfWorld[p].there \/ \E j \in CfIds : p \in CfOf(j) \cup {0}
      BY <1>b, <3>1, <3>2, <3>3
    <3> QED BY <1>a, <2>1, <3>4, CfKeepsApart
  <2>3. CASE cfStack.pending[i].kind # "revert"
    <3>1. \A p \in CfPids : cfWorld'[p].there => cfWorld[p].there
      <4>1. cfWorld' = cfWorld \/ CfDestroy(cfStack.pending[i].to.pid) BY <1>6, <2>3 DEF CfContinue
      <4> QED BY <1>0, <4>1, CfDestroys
    <3>2. cfStack' = [cfStack EXCEPT !.pending[i] = IF ok THEN CfNothing ELSE cfStack.pending[i]]
      BY <1>6, <2>3 DEF CfContinue
    <3>3. /\ cfStack'.res = cfStack.res
          /\ cfStack'.pending = [cfStack.pending EXCEPT ![i] = IF ok THEN CfNothing ELSE cfStack.pending[i]]
      BY <1>0, <3>2 DEF CfStackRecord
    <3>4. \A j \in CfIds : cfStack'.pending[j].to.pid \in CfOf(j) \cup {0} BY <1>0, <1>a, <3>3
    <3> QED BY <1>a, <2>1, <3>1, <3>3, <3>4, CfKeepsApart
  <2> QED BY <2>2, <2>3
<1> QED BY <1>2, <1>3, <1>4, <1>5, <1>6 DEF CfUndoing

LEMMA CfDeletingApart == ASSUME CfAlways, CfShapes', CfDeleting PROVE CfApart' /\ CfKnown'
<1> USE CfFields DEF CfAlways
<1>0. /\ cfStack \in CfStackRecord /\ cfOp \in CfOpRecord /\ cfDel \in CfDelRecord /\ CfShapes
      /\ \A i \in CfIds : CfNoRec.pid = 0 /\ CfNoRes[i].pid = 0
  BY DEF CfShapes, CfNoRec, CfNoRes
<1>a. \A i \in CfIds : /\ cfStack.res[i].pid \in CfOf(i) \cup {0} /\ cfOp.prevRes[i].pid \in CfOf(i) \cup {0}
                       /\ cfDel.res[i].pid \in CfOf(i) \cup {0} /\ cfStack.pending[i].to.pid \in CfOf(i) \cup {0}
  BY DEF CfOf
<1>1. CASE CfDeleteBegin \/ CfDeleteEnd
  <2>1. cfOp'.prevRes \in {cfOp.prevRes, CfNoRes} BY <1>0, <1>1 DEF CfDeleteBegin, CfDeleteEnd, CfIdle
  <2>2. cfStack'.res = cfStack.res /\ cfStack'.pending = cfStack.pending
    BY <1>0, <1>1 DEF CfDeleteBegin, CfDeleteEnd, CfSetStatus, CfStackRecord
  <2>3. cfDel'.res \in {cfDel.res, CfNoRes}
    <3>1. CASE CfDeleteBegin BY <1>0, <3>1 DEF CfDeleteBegin, CfDelRecord
    <3>2. CASE CfDeleteEnd BY <3>2 DEF CfDeleteEnd, CfNoDelete
    <3> QED BY <1>1, <3>1, <3>2
  <2>4. UNCHANGED <<cfMade, cfTold, cfWorld>> BY <1>1 DEF CfDeleteBegin, CfDeleteEnd
  <2> QED BY <1>0, <1>a, <2>1, <2>2, <2>3, <2>4, CfKeepsApart
<1>2. ASSUME NEW i \in CfIds, NEW pop \in BOOLEAN, CfDeleteSettles(i, pop),
             UNCHANGED <<cfOp, cfMade>>, \A p \in cfTold' : p \in cfTold \/ p = CfDelRes[i].pid,
             \A p \in CfPids : cfWorld'[p].there => cfWorld[p].there
      PROVE  CfApart' /\ CfKnown'
  <2>1. /\ cfStack'.res \in {cfStack.res, [cfStack.res EXCEPT ![i] = CfNoRec]} /\ cfStack'.pending = cfStack.pending
    BY <1>0, <1>2 DEF CfDeleteSettles, CfStackRecord
  <2>2. cfDel'.res \in {cfDel.res, [cfDel.res EXCEPT ![i] = CfNoRec]} BY <1>0, <1>2 DEF CfDeleteSettles, CfDelRecord
  <2>3. CfDelRes[i].pid \in CfOf(i) \cup {0} BY <1>a DEF CfDelRes
  <2>4. \A j \in CfIds : /\ cfStack'.res[j].pid \in CfOf(j) \cup {0} /\ cfDel'.res[j].pid \in CfOf(j) \cup {0}
    BY <1>0, <1>a, <2>1, <2>2
  <2> QED BY <1>2, <1>a, <2>1, <2>3, <2>4, CfKeepsApart
<1>3. ASSUME NEW i \in CfIds, CfDeletes(i) PROVE CfApart' /\ CfKnown'
  <2>1. \A p \in cfTold' : p \in cfTold \/ p = CfDelRes[i].pid BY <1>3 DEF CfDeletes, CfTell
  <2>2. \A p \in CfPids : cfWorld'[p].there => cfWorld[p].there
    <3>1. cfWorld' = cfWorld \/ CfDestroy(CfDelRes[i].pid) BY <1>3 DEF CfDeletes
    <3> QED BY <1>0, <3>1, CfDestroys
  <2> QED BY <1>2, <1>3, <2>1, <2>2 DEF CfDeletes
<1>4. ASSUME NEW i \in CfIds, CfDeleteFails(i) PROVE CfApart' /\ CfKnown'
  <2>1. \A p \in cfTold' : p \in cfTold \/ p = CfDelRes[i].pid BY <1>4 DEF CfDeleteFails, CfTell
  <2> QED BY <1>2, <1>4, <2>1 DEF CfDeleteFails
<1> QED BY <1>1, <1>3, <1>4 DEF CfDeleting

LEMMA CfApartStep == ASSUME CfAlways, CfShapes', CfNext PROVE CfApart' /\ CfKnown'
BY CfCallsApart, CfDeployApart, CfUndoingApart, CfDeletingApart DEF CfNext

(* One operation more allows as many physical resources more as there are   *)
(* ids.                                                                     *)
LEMMA CfOneMore == ASSUME NEW m \in Nat, NEW n \in Nat PROVE m * (n + 1) = m * n + m
OBVIOUS

(* No operation makes more resources than it has ids.                       *)
LEMMA CfBudgetStep == ASSUME CfAlways, CfNext PROVE CfBudget'
<1> USE CfFields DEF CfAlways
<1>0. /\ cfOp \in CfOpRecord /\ CfShapes /\ CfIdle \in CfOpRecord /\ CfIdle.pc = "idle" BY CfBlank DEF CfShapes, CfIdle
<1>a. cfMade \in Nat /\ cfOps \in Nat /\ CfPer \in Nat /\ cfMade <= CfPer * cfOps
  BY CfNumbers, CfPidsIs DEF CfShapes, CfBudget
<1>1. ASSUME cfMade' = cfMade, cfOps' = cfOps, cfOp'.pc \notin {"start", "next", "busy"} PROVE CfBudget'
  BY <1>1, <1>a DEF CfBudget
<1>2. ASSUME cfMade' = cfMade, cfOps' = cfOps, cfOp' = cfOp PROVE CfBudget'
  BY <1>2 DEF CfBudget
<1>3. CASE CfCalls
  <2>1. ASSUME NEW t \in CfTemplates, NEW disable \in BOOLEAN, CfCreate(t, disable) \/ CfUpdate(t, disable) PROVE CfBudget'
    <3>1. cfOp'.pc = "start" BY <2>1, <1>0 DEF CfCreate, CfUpdate, CfOpRecord
    <3>2. cfMade' = cfMade /\ cfOps' = cfOps + 1 BY <2>1 DEF CfCreate, CfUpdate
    <3>3. CfPer * (cfOps + 1) = CfPer * cfOps + CfPer BY <1>a, CfOneMore
    <3> HIDE CfFields DEF CfAlways
    <3> QED BY <1>a, <3>1, <3>2, <3>3 DEF CfBudget
  <2>2. CASE CfRollbackStack \/ \E skip \in SUBSET CfIds : CfContinueUpdateRollback(skip)
    <3>1. cfOp'.pc \notin {"start", "next", "busy"}
      BY <1>0, <2>2 DEF CfRollbackStack, CfContinueUpdateRollback, CfOpRecord
    <3> QED BY <1>1, <2>2, <3>1 DEF CfRollbackStack, CfContinueUpdateRollback
  <2>3. CASE CfCancelUpdate \/ CfDelete BY <1>2, <2>3 DEF CfCancelUpdate, CfDelete
  <2> QED BY <1>3, <2>1, <2>2, <2>3 DEF CfCalls
<1>4. CASE CfDeploy
  <2>1. CASE CfBegin
    <3>1. cfOp'.pc = "next" /\ cfOp'.todo = CfTmplIds(cfOp.tmpl) /\ cfOp'.cur = cfOp.cur
      BY <1>0, <2>1 DEF CfBegin, CfOpRecord
    <3>2. cfOp'.todo \cup cfOp'.cur \in SUBSET CfIds BY <3>1 DEF CfTmplIds
    <3>3. Cardinality(cfOp'.todo \cup cfOp'.cur) \in 0..CfPer BY <3>2, CfNumbers
    <3>4. cfMade' = cfMade /\ cfOps' = cfOps /\ cfMade + CfPer <= CfPer * cfOps BY <2>1 DEF CfBegin, CfBudget
    <3> QED BY <1>a, <3>1, <3>3, <3>4 DEF CfBudget
  <2>2. ASSUME NEW i \in CfIds, CfResource(i) PROVE CfBudget'
    <3>1. cfOp'.pc = "busy" /\ cfOp'.todo = cfOp.todo \ {i} /\ cfOp'.cur = {i} /\ i \in cfOp.todo
      BY <1>0, <2>2 DEF CfResource, CfOpRecord, CfFirst
    <3>2. cfOp'.todo \cup cfOp'.cur = cfOp.todo \cup cfOp.cur BY <2>2, <3>1 DEF CfAtWork, CfResource
    <3>3. cfMade' = cfMade /\ cfOps' = cfOps BY <2>2 DEF CfResource
    <3> QED BY <2>2, <3>1, <3>2, <3>3 DEF CfBudget, CfResource
  <2>3. ASSUME NEW i \in CfIds, CfProvisioned(i) \/ CfReplaced(i) PROVE CfBudget'
    <3>1. cfOp'.pc = "next" /\ cfOp'.todo = cfOp.todo /\ cfOp'.cur = {}
      BY <1>0, <2>3 DEF CfProvisioned, CfReplaced, CfOpRecord
    <3>2. cfOps' = cfOps /\ cfMade' \in {cfMade, cfMade + 1} BY <2>3 DEF CfProvisioned, CfReplaced
    <3>3. cfMade + 1 + Cardinality(cfOp.todo) <= CfPer * cfOps BY <2>3, CfNextPid DEF CfProvisioned, CfReplaced
    <3>4. cfOp'.todo \cup cfOp'.cur = cfOp.todo BY <3>1
    <3>5. Cardinality(cfOp.todo) \in Nat BY CfNumbers
    <3> HIDE CfFields DEF CfAlways
    <3> QED BY <1>a, <3>1, <3>2, <3>3, <3>4, <3>5 DEF CfBudget
  <2>4. CASE CfCancelled \/ CfCleaned \/ CfComplete \/ CfFailed
    <3>1. cfOp'.pc \notin {"start", "next", "busy"}
      BY <1>0, <2>4 DEF CfCancelled, CfCleaned, CfComplete, CfFailed, CfOpRecord
    <3> QED BY <1>1, <2>4, <3>1 DEF CfCancelled, CfCleaned, CfComplete, CfFailed
  <2>5. ASSUME NEW i \in CfIds, NEW ok \in BOOLEAN, CfFails(i, ok) \/ CfRemove(i, ok) PROVE CfBudget'
    <3>1. cfOp'.pc \notin {"start", "next", "busy"} BY <1>0, <2>5 DEF CfFails, CfRemove, CfOpRecord
    <3> QED BY <1>1, <2>5, <3>1 DEF CfFails, CfRemove
  <2>6. ASSUME NEW ok \in BOOLEAN, CfOutputs(ok) \/ CfCleanReplaced(ok) PROVE CfBudget'
    <3>1. cfOp'.pc \notin {"start", "next", "busy"} BY <1>0, <2>6 DEF CfOutputs, CfCleanReplaced, CfOpRecord
    <3> QED BY <1>1, <2>6, <3>1 DEF CfOutputs, CfCleanReplaced
  <2> QED BY <1>4, <2>1, <2>2, <2>3, <2>4, <2>5, <2>6 DEF CfDeploy
<1>5. CASE CfUndoing
  <2>1. CASE CfRollBack \/ CfReverted \/ CfRolledBack \/ CfContinued
    <3>1. cfOp'.pc \notin {"start", "next", "busy"}
      BY <1>0, <2>1 DEF CfRollBack, CfReverted, CfRolledBack, CfContinued, CfOpRecord
    <3> QED BY <1>1, <2>1, <3>1 DEF CfRollBack, CfReverted, CfRolledBack, CfContinued
  <2>2. ASSUME NEW ok \in BOOLEAN, CfRevert(ok) \/ CfUndo(ok) PROVE CfBudget'
    <3>1. cfOp'.pc \notin {"start", "next", "busy"} BY <1>0, <2>2 DEF CfRevert, CfUndo, CfOpRecord
    <3> QED BY <1>1, <2>2, <3>1 DEF CfRevert, CfUndo
  <2>3. ASSUME NEW i \in CfIds, NEW ok \in BOOLEAN, CfContinue(i, ok) PROVE CfBudget'
    <3>1. cfOp'.pc \notin {"start", "next", "busy"} BY <1>0, <2>3 DEF CfContinue, CfOpRecord
    <3> QED BY <1>1, <2>3, <3>1 DEF CfContinue
  <2> QED BY <1>5, <2>1, <2>2, <2>3 DEF CfUndoing
<1>6. CASE CfDeleting
  <2>1. cfMade' = cfMade /\ cfOps' = cfOps
    BY <1>6 DEF CfDeleting, CfDeleteBegin, CfDeleteEnd, CfDeletes, CfDeleteFails
  <2>2. cfOp' = cfOp \/ cfOp' = CfIdle
    BY <1>6 DEF CfDeleting, CfDeleteBegin, CfDeleteEnd, CfDeletes, CfDeleteFails
  <2>3. CfIdle.pc = "idle" BY DEF CfIdle
  <2> QED BY <1>1, <1>2, <2>1, <2>2, <2>3
<1> QED BY <1>3, <1>4, <1>5, <1>6 DEF CfNext

(* What is at work is no longer to be done, and keeps its predecessor.      *)
LEMMA CfAtWorkStep == ASSUME CfAlways, CfNext PROVE CfAtWork'
<1> USE CfFields DEF CfAlways
<1>0. /\ cfOp \in CfOpRecord /\ cfStack \in CfStackRecord /\ CfShapes
      /\ CfIdle \in CfOpRecord /\ CfIdle.pc = "idle" /\ CfIdle.cur = {} /\ CfIdle.prevRes = CfNoRes /\ CfIdle.replaced = <<>>
      /\ ~CfIdle.update /\ CfNothing.to.pid = 0 /\ \A i \in CfIds : CfNoPending[i].to.pid = 0
  BY CfBlank DEF CfShapes, CfIdle, CfNothing, CfNoPending, CfNoRec
<1> DEFINE Pend == \A i \in CfIds : cfStack.pending[i].kind = "no" => cfStack.pending[i].to.pid = 0
           Repl == \A k \in DOMAIN cfOp.replaced : cfOp.replaced[k][2] = cfOp.prevRes[cfOp.replaced[k][1]].pid
<1>1. Pend'
  <2>0. Pend BY DEF CfAtWork
  <2>1. ASSUME cfStack'.pending = cfStack.pending PROVE Pend' BY <2>0, <2>1
  <2>2. ASSUME NEW i \in CfIds, cfStack'.pending = [cfStack.pending EXCEPT ![i] = CfNothing] PROVE Pend'
    BY <1>0, <2>0, <2>2
  <2>3. ASSUME NEW i \in CfIds, NEW e, e.kind # "no", cfStack'.pending = [cfStack.pending EXCEPT ![i] = e] PROVE Pend'
    BY <2>0, <2>3
  <2>4. ASSUME NEW i \in CfIds, NEW r, NEW ok \in BOOLEAN, CfRevertTo(r, i, ok) PROVE Pend'
    <3>1. cfStack'.pending = [cfStack.pending EXCEPT ![i] = IF ok THEN CfNothing ELSE [kind |-> "revert", to |-> r]]
      BY <1>0, <2>4 DEF CfRevertTo, CfStackRecord
    <3>2. CASE ok BY <2>2, <3>1, <3>2
    <3>3. CASE ~ok
      <4> DEFINE e == [kind |-> "revert", to |-> r]
      <4>1. e.kind # "no" /\ cfStack'.pending = [cfStack.pending EXCEPT ![i] = e] BY <3>1, <3>3
      <4> HIDE DEF e
      <4> QED BY <2>3, <4>1
    <3> QED BY <3>2, <3>3
  <2>5. CASE CfCalls
    <3>1. ASSUME NEW t \in CfTemplates, NEW disable \in BOOLEAN, CfCreate(t, disable) PROVE Pend'
      <4>1. cfStack'.pending = CfNoPending BY <3>1 DEF CfCreate
      <4> QED BY <1>0, <4>1
    <3>2. CASE CfCancelUpdate \/ CfDelete \/ CfRollbackStack
      BY <1>0, <2>1, <3>2 DEF CfCancelUpdate, CfDelete, CfRollbackStack, CfSetStatus, CfStackRecord
    <3>3. ASSUME NEW t \in CfTemplates, NEW disable \in BOOLEAN, CfUpdate(t, disable) PROVE Pend'
      BY <1>0, <2>1, <3>3 DEF CfUpdate, CfSetStatus, CfStackRecord
    <3>4. ASSUME NEW skip \in SUBSET CfIds, CfContinueUpdateRollback(skip) PROVE Pend'
      <4>1. cfStack'.pending = [i \in CfIds |-> IF i \in skip THEN CfNothing ELSE cfStack.pending[i]]
        BY <1>0, <3>4 DEF CfContinueUpdateRollback, CfStackRecord
      <4> QED BY <1>0, <2>0, <4>1
    <3> QED BY <2>5, <3>1, <3>2, <3>3, <3>4 DEF CfCalls
  <2>6. CASE CfDeploy
    <3>1. cfStack'.pending = cfStack.pending
      <4>1. CASE CfBegin \/ CfCancelled \/ CfCleaned \/ CfComplete \/ CfFailed
        BY <1>0, <4>1 DEF CfBegin, CfCancelled, CfCleaned, CfComplete, CfFailed, CfSetStatus, CfStackRecord
      <4>2. ASSUME NEW i \in CfIds, NEW p, CfRecorded(i, p) PROVE cfStack'.pending = cfStack.pending
        BY <1>0, <4>2 DEF CfRecorded, CfStackRecord
      <4>3. CASE \E i \in CfIds : CfResource(i) \/ CfProvisioned(i) \/ CfReplaced(i)
        BY <4>2, <4>3 DEF CfResource, CfProvisioned, CfReplaced
      <4>4. CASE \E i \in CfIds, ok \in BOOLEAN : CfFails(i, ok) \/ CfRemove(i, ok)
        BY <1>0, <4>4 DEF CfFails, CfRemove, CfStackRecord
      <4>5. CASE \E ok \in BOOLEAN : CfOutputs(ok) \/ CfCleanReplaced(ok) BY <4>5 DEF CfOutputs, CfCleanReplaced
      <4> QED BY <2>6, <4>1, <4>3, <4>4, <4>5 DEF CfDeploy
    <3> QED BY <2>1, <3>1
  <2>7. CASE CfUndoing
    <3>1. CASE CfRollBack \/ CfReverted \/ CfRolledBack \/ CfContinued
      BY <1>0, <2>1, <3>1 DEF CfRollBack, CfReverted, CfRolledBack, CfContinued, CfSetStatus, CfStackRecord
    <3>2. ASSUME NEW ok \in BOOLEAN, CfRevert(ok) PROVE Pend'
      <4>1. Head(cfOp.reverts) \in CfIds BY <3>2 DEF CfRevert
      <4> QED BY <2>4, <3>2, <4>1 DEF CfRevert
    <3>3. ASSUME NEW ok \in BOOLEAN, CfUndo(ok) PROVE Pend'
      <4> DEFINE i == Last(cfOp.dels)
                 e == IF ok \/ i \in cfOp.tmpl.retain \/ cfOp.cleanup THEN cfStack.pending[i]
                      ELSE [kind |-> "delete", to |-> cfStack.res[i]]
      <4>1. i \in CfIds BY <3>3, CfFrontIs DEF CfUndo
      <4>2. cfStack' = [cfStack EXCEPT !.res[i] = CfNoRec, !.pending[i] = e] BY <3>3 DEF CfUndo
      <4>3. e = cfStack.pending[i] \/ e.kind # "no" OBVIOUS
      <4> HIDE DEF i, e
      <4>4. cfStack'.pending = [cfStack.pending EXCEPT ![i] = e] BY <1>0, <4>1, <4>2 DEF CfStackRecord
      <4>5. CASE e = cfStack.pending[i] BY <2>0, <4>1, <4>4, <4>5
      <4> QED BY <2>3, <4>1, <4>3, <4>4, <4>5
    <3>4. ASSUME NEW i \in CfIds, NEW ok \in BOOLEAN, CfContinue(i, ok) PROVE Pend'
      <4>1. CASE cfStack.pending[i].kind = "revert" BY <2>4, <3>4, <4>1 DEF CfContinue
      <4>2. CASE cfStack.pending[i].kind # "revert"
        <5>1. cfStack'.pending = [cfStack.pending EXCEPT ![i] = IF ok THEN CfNothing ELSE cfStack.pending[i]]
          BY <1>0, <3>4, <4>2 DEF CfContinue, CfStackRecord
        <5>2. CASE ok BY <2>2, <5>1, <5>2
        <5>3. CASE ~ok BY <2>0, <5>1, <5>3
        <5> QED BY <5>2, <5>3
      <4> QED BY <4>1, <4>2
    <3> QED BY <2>7, <3>1, <3>2, <3>3, <3>4 DEF CfUndoing
  <2>8. CASE CfDeleting
    <3>1. CASE CfDeleteBegin \/ CfDeleteEnd
      BY <1>0, <2>1, <3>1 DEF CfDeleteBegin, CfDeleteEnd, CfSetStatus, CfStackRecord
    <3>2. CASE \E i \in CfIds : CfDeletes(i) \/ CfDeleteFails(i)
      BY <1>0, <2>1, <3>2 DEF CfDeletes, CfDeleteFails, CfDeleteSettles, CfStackRecord
    <3> QED BY <2>8, <3>1, <3>2 DEF CfDeleting
  <2> QED BY <2>5, <2>6, <2>7, <2>8 DEF CfNext
<1>2. ASSUME Pend', cfOp' = cfOp PROVE CfAtWork' BY <1>2 DEF CfAtWork
<1>3. ASSUME Pend', cfOp' = CfIdle PROVE CfAtWork' BY <1>0, <1>3 DEF CfAtWork
<1>4. ASSUME Pend', cfOp'.pc \notin {"busy"}, cfOp'.cur \in {cfOp.cur, {}}, cfOp'.update = cfOp.update,
             cfOp'.pc \in {"start", "next"} => cfOp.pc = "start" \/ cfOp'.cur = {},
             cfOp'.prevRes = cfOp.prevRes, cfOp'.replaced = cfOp.replaced
      PROVE  CfAtWork'
  BY <1>4 DEF CfAtWork
<1> HIDE DEF Pend
<1>5. CASE CfCalls
  <2>1. ASSUME NEW t \in CfTemplates, NEW disable \in BOOLEAN, CfCreate(t, disable) PROVE CfAtWork'
    <3>1. cfOp'.pc = "start" /\ cfOp'.cur = {} /\ ~cfOp'.update /\ cfOp'.prevRes = CfNoRes /\ cfOp'.replaced = <<>>
      BY <1>0, <2>1 DEF CfCreate, CfOpRecord
    <3> QED BY <1>1, <3>1 DEF CfAtWork, Pend
  <2>2. ASSUME NEW t \in CfTemplates, NEW disable \in BOOLEAN, CfUpdate(t, disable) PROVE CfAtWork'
    <3>1. cfOp'.pc = "start" /\ cfOp'.cur = {} /\ cfOp'.update /\ cfOp'.replaced = <<>>
      BY <1>0, <2>2 DEF CfUpdate, CfOpRecord
    <3> QED BY <1>1, <3>1 DEF CfAtWork, Pend
  <2>3. CASE CfRollbackStack \/ \E skip \in SUBSET CfIds : CfContinueUpdateRollback(skip)
    <3>1. /\ cfOp'.pc \notin {"start", "next", "busy"} /\ cfOp'.cur = cfOp.cur /\ cfOp'.update = cfOp.update
          /\ cfOp'.prevRes = cfOp.prevRes /\ cfOp'.replaced = cfOp.replaced
      <4>1. CASE CfRollbackStack BY <1>0, <4>1, Zenon DEF CfRollbackStack, CfOpRecord
      <4>2. CASE \E skip \in SUBSET CfIds : CfContinueUpdateRollback(skip)
        BY <1>0, <4>2, Zenon DEF CfContinueUpdateRollback, CfOpRecord
      <4> QED BY <2>3, <4>1, <4>2, Zenon
    <3> QED BY <1>1, <1>4, <3>1, Zenon
  <2>4. CASE CfCancelUpdate \/ CfDelete BY <1>1, <1>2, <2>4 DEF CfCancelUpdate, CfDelete
  <2> QED BY <1>5, <2>1, <2>2, <2>3, <2>4 DEF CfCalls
<1>6. CASE CfDeploy
  <2>1. CASE CfBegin \/ CfCancelled \/ CfCleaned \/ CfFailed \/ \E ok \in BOOLEAN : CfOutputs(ok)
    <3>1. /\ cfOp'.pc \notin {"start", "busy"} /\ cfOp'.cur = cfOp.cur /\ cfOp'.update = cfOp.update
          /\ cfOp'.pc = "next" => cfOp.pc = "start"
          /\ cfOp'.prevRes = cfOp.prevRes /\ cfOp'.replaced = cfOp.replaced
      <4>1. CASE CfBegin BY <1>0, <4>1 DEF CfBegin, CfOpRecord
      <4>2. CASE CfCancelled \/ CfCleaned BY <1>0, <4>2 DEF CfCancelled, CfCleaned, CfOpRecord
      <4>3. CASE CfFailed BY <1>0, <4>3 DEF CfFailed, CfOpRecord
      <4>4. CASE \E ok \in BOOLEAN : CfOutputs(ok) BY <1>0, <4>4 DEF CfOutputs, CfOpRecord
      <4> QED BY <2>1, <4>1, <4>2, <4>3, <4>4, Zenon
    <3> QED BY <1>1, <1>4, <3>1
  <2>2. CASE CfComplete BY <1>1, <1>3, <2>2 DEF CfComplete
  <2>3. ASSUME NEW i \in CfIds, CfResource(i) PROVE CfAtWork'
    <3>1. /\ cfOp'.pc = "busy" /\ cfOp'.cur = {i} /\ cfOp'.todo = cfOp.todo \ {i} /\ cfOp'.update = cfOp.update
          /\ cfOp'.prevRes = cfOp.prevRes /\ cfOp'.replaced = cfOp.replaced
          /\ cfOp'.want.pid = IF cfOp.update THEN cfOp.prevRes[i].pid ELSE 0
      BY <1>0, <2>3 DEF CfResource, CfOpRecord
    <3>2. CfNoRes[i].pid = 0 BY DEF CfNoRes, CfNoRec
    <3> QED BY <1>1, <3>1, <3>2 DEF CfAtWork, Pend
  <2>4. ASSUME NEW i \in CfIds, CfProvisioned(i) PROVE CfAtWork'
    <3>1. /\ cfOp'.pc = "next" /\ cfOp'.cur = {} /\ cfOp'.update = cfOp.update
          /\ cfOp'.prevRes = cfOp.prevRes /\ cfOp'.replaced = cfOp.replaced
      BY <1>0, <2>4 DEF CfProvisioned, CfOpRecord
    <3> QED BY <1>1, <1>4, <3>1
  <2>5. ASSUME NEW i \in CfIds, CfReplaced(i) PROVE CfAtWork'
    <3>1. /\ cfOp'.pc = "next" /\ cfOp'.cur = {} /\ cfOp'.update = cfOp.update
          /\ cfOp'.prevRes = cfOp.prevRes /\ cfOp'.replaced = Append(cfOp.replaced, <<i, cfOp.want.pid>>)
      BY <1>0, <2>5 DEF CfReplaced, CfOpRecord
    <3>2. cfOp.want.pid = cfOp.prevRes[i].pid BY <2>5, CfNextPid DEF CfReplaced
    <3>3. Repl' BY <3>1, <3>2 DEF CfAtWork
    <3> QED BY <1>1, <3>1, <3>3 DEF CfAtWork, Pend
  <2>6. ASSUME NEW i \in CfIds, NEW ok \in BOOLEAN, CfFails(i, ok) \/ CfRemove(i, ok) PROVE CfAtWork'
    <3>1. /\ cfOp'.pc \notin {"start", "next", "busy"} /\ cfOp'.cur \in {cfOp.cur, {}} /\ cfOp'.update = cfOp.update
          /\ cfOp'.prevRes = cfOp.prevRes /\ cfOp'.replaced = cfOp.replaced
      BY <1>0, <2>6 DEF CfFails, CfRemove, CfOpRecord
    <3> QED BY <1>1, <1>4, <3>1
  <2>7. ASSUME NEW ok \in BOOLEAN, CfCleanReplaced(ok) PROVE CfAtWork'
    <3>1. /\ cfOp'.pc = "clean" /\ cfOp'.update = cfOp.update
          /\ cfOp'.prevRes = cfOp.prevRes /\ cfOp'.replaced = Front(cfOp.replaced)
      BY <1>0, <2>7 DEF CfCleanReplaced, CfOpRecord
    <3>2. /\ DOMAIN Front(cfOp.replaced) \subseteq DOMAIN cfOp.replaced
          /\ \A k \in DOMAIN Front(cfOp.replaced) : Front(cfOp.replaced)[k] = cfOp.replaced[k]
      <4>1. cfOp.replaced \in Seq(CfIds \X CfPids) /\ cfOp.replaced # <<>> BY <2>7 DEF CfCleanReplaced
      <4> DEFINE s == cfOp.replaced
      <4>2. /\ Len(s) \in Nat \ {0} /\ DOMAIN s = 1..Len(s) /\ DOMAIN Front(s) = 1..(Len(s) - 1)
            /\ \A k \in 1..(Len(s) - 1) : Front(s)[k] = s[k]
        <5> HIDE CfFields DEF s, CfAlways
        <5> QED BY <4>1, CfFrontIs DEF s
      <4> HIDE CfFields DEF CfAlways
      <4>3. 1..(Len(s) - 1) \subseteq 1..Len(s) BY <4>2
      <4> QED BY <4>2, <4>3
    <3>3. Repl' BY <3>1, <3>2 DEF CfAtWork
    <3> QED BY <1>1, <3>1, <3>3 DEF CfAtWork, Pend
  <2> QED BY <1>6, <2>1, <2>2, <2>3, <2>4, <2>5, <2>6, <2>7 DEF CfDeploy
<1>7. CASE CfUndoing
  <2>1. CASE CfRolledBack \/ CfContinued BY <1>1, <1>3, <2>1 DEF CfRolledBack, CfContinued
  <2>2. CASE CfRollBack \/ CfReverted \/ \E ok \in BOOLEAN : CfRevert(ok) \/ CfUndo(ok)
    <3>1. /\ cfOp'.pc \notin {"start", "next", "busy"} /\ cfOp'.cur = cfOp.cur /\ cfOp'.update = cfOp.update
          /\ cfOp'.prevRes = cfOp.prevRes /\ cfOp'.replaced = cfOp.replaced
      <4>1. CASE CfRollBack BY <1>0, <4>1, Zenon DEF CfRollBack, CfOpRecord
      <4>2. CASE CfReverted BY <1>0, <4>2, Zenon DEF CfReverted, CfOpRecord
      <4>3. ASSUME NEW ok \in BOOLEAN, CfRevert(ok) \/ CfUndo(ok)
            PROVE  /\ cfOp'.pc \notin {"start", "next", "busy"} /\ cfOp'.cur = cfOp.cur /\ cfOp'.update = cfOp.update
                   /\ cfOp'.prevRes = cfOp.prevRes /\ cfOp'.replaced = cfOp.replaced
        BY <1>0, <4>3, Zenon DEF CfRevert, CfUndo, CfOpRecord
      <4> QED BY <2>2, <4>1, <4>2, <4>3, Zenon
    <3> QED BY <1>1, <1>4, <3>1
  <2>3. ASSUME NEW i \in CfIds, NEW ok \in BOOLEAN, CfContinue(i, ok) PROVE CfAtWork'
    <3>1. /\ cfOp'.pc \notin {"start", "next", "busy"} /\ cfOp'.cur = cfOp.cur /\ cfOp'.update = cfOp.update
          /\ cfOp'.prevRes = cfOp.prevRes /\ cfOp'.replaced = cfOp.replaced
      BY <1>0, <2>3 DEF CfContinue, CfOpRecord
    <3> QED BY <1>1, <1>4, <3>1
  <2> QED BY <1>7, <2>1, <2>2, <2>3 DEF CfUndoing
<1>8. CASE CfDeleting
  BY <1>1, <1>2, <1>3, <1>8 DEF CfDeleting, CfDeleteBegin, CfDeleteEnd, CfDeletes, CfDeleteFails
<1> QED BY <1>5, <1>6, <1>7, <1>8 DEF CfNext

LEMMA CfAlwaysStep == ASSUME CfAlways, [CfNext]_cfVars PROVE CfAlways'
<1>1. CASE CfNext
  <2>1. CfShapes' BY <1>1, CfShapesStep
  <2> QED BY <1>1, <2>1, CfApartStep, CfBudgetStep, CfAtWorkStep DEF CfAlways
<1>2. CASE UNCHANGED cfVars
  <2>1. UNCHANGED <<cfStack, cfOp, cfDel, cfWorld, cfMade, cfOps, cfTold, cfUndone>> BY <1>2 DEF cfVars
  <2>2. CfShapes' /\ CfBudget' BY <2>1 DEF CfAlways, CfShapes, CfBudget
  <2>3. CfApart' /\ CfKnown' BY <2>1 DEF CfAlways, CfApart, CfKnown, CfOf
  <2>4. CfAtWork' BY <2>1 DEF CfAlways, CfAtWork
  <2> QED BY <2>2, <2>3, <2>4 DEF CfAlways
<1> QED BY <1>1, <1>2
-----------------------------------------------------------------------------
(* Without a DeleteStack across an operation: what each stage has done.     *)

CfSettled == CfWhole \cup {"UPDATE_ROLLBACK_FAILED"}
CfIn(i, s) == \E k \in DOMAIN s : s[k] = i
CfThere(p) == cfWorld[p].there
CfTrue(r) == cfWorld[r.pid] = CfProps(r)
CfLinked(res, t, i) == \A q \in res[i].needs : \E d \in CfIds : <<i, d>> \in t.deps /\ res[d].pid = q

CfStages ==
  /\ (cfDel.pc = "deleting") <=> (cfStack.status = "DELETE_IN_PROGRESS")
  /\ ~cfDel.own
  /\ cfOp.pc = "idle" => cfStack.status \in CfSettled \cup CfEmptied \cup {"DELETE_FAILED", "DELETE_IN_PROGRESS"}
  /\ cfOp.pc = "parked" => \/ cfOp.update /\ cfStack.status = "UPDATE_FAILED" /\ cfDel.pc = "idle"
                           \/ ~cfOp.update /\ cfStack.status \in {"CREATE_FAILED", "DELETE_IN_PROGRESS"}
  /\ cfOp.pc \notin {"idle", "parked"} => cfStack.status \in CfWorking /\ cfDel.pc = "idle"

(* What exists was told, is recorded, or is of the time before the update.  *)
CfAccounted == \A p \in CfPids : CfThere(p) =>
  \/ p \in cfTold
  \/ \E i \in CfIds : p = cfStack.res[i].pid
  \/ cfOp.pc \in CfDeployPcs \cup {"revert", "undo"} /\ \E i \in CfIds : p = cfOp.prevRes[i].pid
  \/ cfOp.pc = "clean" /\ \E k \in DOMAIN cfOp.replaced : p = cfOp.replaced[k][2]

(* What was there before the update is there until it succeeds.             *)
CfPrevious == \A i \in CfIds : cfOp.prevRes[i].pid > 0 =>
  /\ CfThere(cfOp.prevRes[i].pid)
  /\ cfOp.prevRes[i].pid \in cfTold \/ CfLinked(cfOp.prevRes, cfOp.prevTmpl, i)

(* A deploy changes only what it lists as created, in the order of its      *)
(* references, keeping each predecessor.                                    *)
CfChanged == \A i \in CfIds :
  /\ cfOp.prevRes[i].pid > 0 =>
       \/ cfOp.prevRes[i].pid \in cfTold \/ CfTrue(cfOp.prevRes[i]) \/ CfIn(i, cfOp.tried)
       \/ CfIn(i, cfOp.created) /\ CfToRevert(i)
  /\ CfIn(i, cfOp.created) \/ cfStack.res[i] = cfOp.prevRes[i]
  /\ CfIn(i, cfOp.tried) =>
       cfOp.prevRes[i].pid > 0 /\ cfStack.res[i] = cfOp.prevRes[i] /\ ~CfIn(i, cfOp.created)
CfCreated == \A k \in DOMAIN cfOp.created : LET i == cfOp.created[k] IN
  /\ i \in CfTmplIds(cfOp.tmpl) /\ cfStack.res[i].pid > 0 /\ CfTrue(cfStack.res[i])
  /\ \A q \in cfStack.res[i].needs :
       \E l \in 1..(k - 1) : <<i, cfOp.created[l]>> \in cfOp.tmpl.deps /\ cfStack.res[cfOp.created[l]].pid = q
  /\ cfOp.prevRes[i].pid \in {0, cfStack.res[i].pid} \/ CfIn(<<i, cfOp.prevRes[i].pid>>, cfOp.replaced)
  /\ \A l \in DOMAIN cfOp.created : cfOp.created[l] = i => l = k
CfSupplanted == \A k \in DOMAIN cfOp.replaced : LET i == cfOp.replaced[k][1] IN
  CfIn(i, cfOp.created) /\ cfStack.res[i].pid # cfOp.prevRes[i].pid
CfBuilt ==
  /\ \A i \in CfIds : cfStack.pending[i].kind = "no"
  /\ ~cfOp.update => cfStack.tmpl = cfOp.tmpl
  /\ CfPrevious /\ CfChanged /\ CfCreated /\ CfSupplanted
CfToDo ==
  /\ cfOp.pc = "start" => cfOp.created = <<>>
  /\ cfOp.pc \in {"start", "next", "busy"} => cfOp.tried = <<>>
  /\ cfOp.pc \in {"next", "busy"} =>
       \A i \in CfIds : /\ i \in CfTmplIds(cfOp.tmpl) => CfIn(i, cfOp.created) \/ i \in cfOp.todo \cup cfOp.cur
                        /\ i \in cfOp.todo \cup cfOp.cur => i \in CfTmplIds(cfOp.tmpl) /\ ~CfIn(i, cfOp.created)
  /\ cfOp.pc = "busy" => \A i \in cfOp.cur : \A q \in cfOp.want.needs :
       \E l \in DOMAIN cfOp.created : <<i, cfOp.created[l]>> \in cfOp.tmpl.deps /\ cfStack.res[cfOp.created[l]].pid = q

(* The cleanup of a deploy that succeeded: what the template names is there *)
(* and refers to what is there, what it no longer names is as it was.       *)
CfKept == \A i \in CfTmplIds(cfOp.tmpl) :
  /\ cfStack.res[i].pid > 0 /\ CfThere(cfStack.res[i].pid)
  /\ cfStack.res[i].pid \in cfTold \/ (CfTrue(cfStack.res[i]) /\ CfLinked(cfStack.res, cfOp.tmpl, i))
CfLeaving == \A i \in CfIds \ CfTmplIds(cfOp.tmpl) :
  /\ cfStack.res[i].pid > 0 =>
       /\ cfStack.res[i] = cfOp.prevRes[i] /\ CfThere(cfStack.res[i].pid)
       /\ cfStack.res[i].pid \in cfTold \/ (/\ CfTrue(cfOp.prevRes[i]) /\ CfLinked(cfOp.prevRes, cfOp.prevTmpl, i)
                                            /\ cfOp.pc = "remove" => i \in cfOp.todo)
  /\ cfOp.pc = "clean" => cfStack.res[i] = cfOp.prevRes[i]
CfSwapped == \A k \in DOMAIN cfOp.replaced : LET i == cfOp.replaced[k][1] IN
  i \in CfTmplIds(cfOp.tmpl) /\ cfStack.res[i].pid # cfOp.prevRes[i].pid
CfGoing == cfOp.pc = "remove" => \A i \in cfOp.todo :
  i \notin CfTmplIds(cfOp.tmpl) /\ cfStack.res[i] = cfOp.prevRes[i] /\ cfOp.prevRes[i].pid > 0
CfCleaning == (\A i \in CfIds : cfStack.pending[i].kind = "no") /\ CfKept /\ CfLeaving /\ CfSwapped /\ CfGoing

(* The rollback: changes go back first, then what is new goes, in an order  *)
(* in which nothing refers to what has gone.                                *)
CfSendsBack == \A i \in CfIds :
  /\ cfOp.prevRes[i].pid > 0 =>
       \/ cfOp.prevRes[i].pid \in cfTold \/ CfTrue(cfOp.prevRes[i]) \/ cfStack.pending[i].kind = "revert"
       \/ cfOp.pc = "revert" /\ CfIn(i, cfOp.reverts)
  /\ cfStack.pending[i].kind = "revert" => cfStack.pending[i].to = cfOp.prevRes[i] /\ CfInPlace(i)
  /\ cfStack.pending[i].kind = "delete" =>
       cfOp.pc = "undo" /\ cfStack.pending[i].to.pid # cfOp.prevRes[i].pid /\ ~CfIn(i, cfOp.dels)
  /\ CfIn(i, cfOp.reverts) => CfInPlace(i)
  /\ CfInPlace(i) \/ cfStack.res[i].pid = 0 \/ CfIn(i, cfOp.dels)
CfUndoes == \A m \in DOMAIN cfOp.dels : LET i == cfOp.dels[m] IN
  /\ cfStack.res[i].pid > 0 /\ ~CfInPlace(i)
  /\ \A l \in DOMAIN cfOp.dels : cfOp.dels[l] = i => l = m
  /\ \A q \in cfWorld[cfStack.res[i].pid].needs :
       \/ \E l \in 1..(m - 1) : cfStack.res[cfOp.dels[l]].pid = q
       \/ \E d \in CfIds : cfOp.prevRes[d].pid = q
CfRollingBack == CfPrevious /\ CfSendsBack /\ CfUndoes

(* Between operations, and while a rollback is continued.                   *)
CfRested ==
  /\ \A i \in CfIds : cfStack.res[i].pid > 0 =>
       /\ CfThere(cfStack.res[i].pid)
       /\ \/ cfStack.res[i].pid \in cfTold
          \/ /\ CfLinked(cfStack.res, cfStack.tmpl, i)
             /\ CfTrue(cfStack.res[i]) \/ cfStack.pending[i].kind = "revert"
  /\ \A i \in CfIds :
       /\ cfStack.pending[i].kind = "revert" => cfStack.pending[i].to = cfStack.res[i] /\ cfStack.res[i].pid > 0
       /\ cfStack.pending[i].kind = "delete" =>
            cfStack.pending[i].to.pid = 0 \/ cfStack.pending[i].to.pid # cfStack.res[i].pid
  /\ cfStack.status \in CfWhole => \A i \in CfIds : cfStack.pending[i].kind = "no"
  /\ cfOp.pc = "continue" => \A i \in cfOp.todo : cfStack.pending[i].kind # "no"

(* A delete has left what it was told of, and what refers to nothing gone.  *)
CfDeletion ==
  /\ \A i \in CfIds : cfStack.res[i].pid > 0 =>
       \/ cfStack.res[i].pid \in cfTold
       \/ /\ i \in cfDel.todo
          /\ \/ cfStack.pending[i].to.pid = cfStack.res[i].pid
             \/ \A q \in cfWorld[cfStack.res[i].pid].needs :
                  \E d \in cfDel.todo : <<i, d>> \in cfStack.tmpl.deps /\ cfStack.res[d].pid = q
  /\ ~cfDel.failed => \A i \in CfIds : i \notin cfDel.todo => cfStack.res[i].pid = 0

CfCalm ==
  /\ CfStages /\ CfAccounted /\ CfDependentsFirst
  /\ cfOp.pc \in CfDeployPcs /\ cfDel.pc # "deleting" => CfBuilt /\ CfToDo
  /\ cfOp.pc \in {"clean", "remove"} => CfCleaning
  /\ cfOp.pc \in {"revert", "undo"} => CfRollingBack
  /\ cfOp.pc = "continue" \/ cfStack.status \in CfSettled => CfRested
  /\ cfStack.status \in CfEmptied => \A i \in CfIds : cfStack.res[i].pid = 0
  /\ cfStack.status = "DELETE_FAILED" => \A i \in CfIds : cfStack.res[i].pid > 0 => cfStack.res[i].pid \in cfTold
  /\ cfDel.pc = "deleting" => CfDeletion

CfInv == CfAlways /\ (cfUndone = "no" => CfCalm)
-----------------------------------------------------------------------------
(* What CfApart says of two records.                                        *)
LEMMA CfDistinct ==
  ASSUME CfAlways
  PROVE  /\ \A i, j \in CfIds :
              /\ cfStack.res[i].pid > 0 /\ cfStack.res[i].pid = cfStack.res[j].pid => i = j
              /\ cfStack.res[i].pid > 0 /\ cfStack.res[i].pid = cfOp.prevRes[j].pid => i = j
              /\ cfOp.prevRes[i].pid > 0 /\ cfOp.prevRes[i].pid = cfOp.prevRes[j].pid => i = j
              /\ cfStack.pending[i].to.pid > 0 /\ cfStack.pending[i].to.pid = cfStack.res[j].pid => i = j
              /\ cfStack.pending[i].to.pid > 0 /\ cfStack.pending[i].to.pid = cfOp.prevRes[j].pid => i = j
         /\ \A i \in CfIds : /\ (cfStack.res[i].pid > 0) <=> (cfStack.res[i].pid \in CfPids)
                             /\ (cfOp.prevRes[i].pid > 0) <=> (cfOp.prevRes[i].pid \in CfPids)
                             /\ (cfStack.pending[i].to.pid > 0) <=> (cfStack.pending[i].to.pid \in CfPids)
         /\ \A i \in CfIds : cfStack.res[i].pid # cfMade + 1 /\ cfOp.prevRes[i].pid # cfMade + 1
                             /\ cfStack.pending[i].to.pid # cfMade + 1
         /\ 0 \notin CfPids
<1>1. \A i \in CfIds : /\ cfStack.res[i].pid \in {0} \cup CfPids /\ cfOp.prevRes[i].pid \in {0} \cup CfPids
                       /\ cfStack.pending[i].to.pid \in {0} \cup CfPids
  BY CfFields DEF CfAlways
<1>2. \A i \in CfIds : /\ (cfStack.res[i].pid > 0) <=> (cfStack.res[i].pid \in CfPids)
                       /\ (cfOp.prevRes[i].pid > 0) <=> (cfOp.prevRes[i].pid \in CfPids)
                       /\ (cfStack.pending[i].to.pid > 0) <=> (cfStack.pending[i].to.pid \in CfPids)
  <2>1. \A x \in {0} \cup CfPids : (x > 0) <=> (x \in CfPids) BY CfPidsIs
  <2> QED BY <1>1, <2>1
<1>3. \A i, j \in CfIds : i # j => CfOf(i) \cap CfOf(j) = {} BY DEF CfAlways, CfApart
<1>4. \A i, j \in CfIds :
        /\ cfStack.res[i].pid > 0 /\ cfStack.res[i].pid = cfStack.res[j].pid => i = j
        /\ cfStack.res[i].pid > 0 /\ cfStack.res[i].pid = cfOp.prevRes[j].pid => i = j
        /\ cfOp.prevRes[i].pid > 0 /\ cfOp.prevRes[i].pid = cfOp.prevRes[j].pid => i = j
        /\ cfStack.pending[i].to.pid > 0 /\ cfStack.pending[i].to.pid = cfStack.res[j].pid => i = j
        /\ cfStack.pending[i].to.pid > 0 /\ cfStack.pending[i].to.pid = cfOp.prevRes[j].pid => i = j
  <2>1. \A i, j \in CfIds : \A p : p \in CfOf(i) /\ p \in CfOf(j) => i = j BY <1>3
  <2> TAKE i, j \in CfIds
  <2>2. /\ cfStack.res[i].pid > 0 => cfStack.res[i].pid # 0
        /\ cfOp.prevRes[i].pid > 0 => cfOp.prevRes[i].pid # 0
        /\ cfStack.pending[i].to.pid > 0 => cfStack.pending[i].to.pid # 0
    OBVIOUS
  <2>3. \A k \in CfIds : /\ cfStack.res[k].pid # 0 => cfStack.res[k].pid \in CfOf(k)
                         /\ cfOp.prevRes[k].pid # 0 => cfOp.prevRes[k].pid \in CfOf(k)
                         /\ cfStack.pending[k].to.pid # 0 => cfStack.pending[k].to.pid \in CfOf(k)
    BY DEF CfOf
  <2>4. cfStack.res[i].pid > 0 /\ cfStack.res[i].pid = cfStack.res[j].pid => i = j BY <2>1, <2>2, <2>3
  <2>5. cfStack.res[i].pid > 0 /\ cfStack.res[i].pid = cfOp.prevRes[j].pid => i = j BY <2>1, <2>2, <2>3
  <2>6. cfOp.prevRes[i].pid > 0 /\ cfOp.prevRes[i].pid = cfOp.prevRes[j].pid => i = j BY <2>1, <2>2, <2>3
  <2>7. cfStack.pending[i].to.pid > 0 /\ cfStack.pending[i].to.pid = cfStack.res[j].pid => i = j BY <2>1, <2>2, <2>3
  <2>8. cfStack.pending[i].to.pid > 0 /\ cfStack.pending[i].to.pid = cfOp.prevRes[j].pid => i = j BY <2>1, <2>2, <2>3
  <2> QED BY <2>4, <2>5, <2>6, <2>7, <2>8
<1>5. \A i \in CfIds : cfStack.res[i].pid # cfMade + 1 /\ cfOp.prevRes[i].pid # cfMade + 1
                       /\ cfStack.pending[i].to.pid # cfMade + 1
  <2>1. cfMade \in Nat /\ \A i \in CfIds : CfOf(i) \subseteq 1..cfMade BY DEF CfAlways, CfApart, CfShapes
  <2>2. \A i \in CfIds : cfMade + 1 \notin CfOf(i) /\ cfMade + 1 # 0 BY <2>1
  <2> QED BY <2>2 DEF CfOf
<1> QED BY <1>2, <1>4, <1>5, CfPidsIs

(* A step that writes neither the world nor what was deployed keeps both.   *)
LEMMA CfBuiltStays ==
  ASSUME CfBuilt, UNCHANGED <<cfWorld, cfTold, cfStack.res, cfStack.pending, cfStack.tmpl>>,
         UNCHANGED <<cfOp.update, cfOp.tmpl, cfOp.prevRes, cfOp.prevTmpl, cfOp.created, cfOp.replaced, cfOp.tried>>
  PROVE  CfBuilt'
<1>1. CfPrevious' BY DEF CfBuilt, CfPrevious, CfThere, CfLinked
<1>2. CfChanged' BY SMTT(30) DEF CfBuilt, CfChanged, CfTrue, CfProps, CfIn, CfToRevert, CfInPlace
<1>3. CfCreated' BY SMTT(30) DEF CfBuilt, CfCreated, CfTrue, CfProps, CfIn, CfTmplIds
<1>4. CfSupplanted' BY DEF CfBuilt, CfSupplanted, CfIn
<1> QED BY <1>1, <1>2, <1>3, <1>4 DEF CfBuilt

(* A step that writes only the operation keeps what is accounted for.       *)
LEMMA CfSafeStays ==
  ASSUME CfAccounted, CfDependentsFirst, cfUndone = "no",
         UNCHANGED <<cfWorld, cfTold, cfStack.res, cfStack.pending, cfOp.tmpl, cfOp.prevRes, cfOp.replaced>>,
         cfOp.pc \in CfDeployPcs \cup {"revert", "undo"} => cfOp'.pc \in CfDeployPcs \cup {"revert", "undo"},
         cfOp.pc \in {"clean", "remove"} => cfOp'.pc = cfOp.pc
  PROVE  CfAccounted' /\ CfDependentsFirst'
<1>1. CfAccounted' BY DEF CfAccounted, CfThere, CfDeployPcs
<1>2. \A p, q \in CfPids : CfSuperseded(p, q) => CfSuperseded(p, q)' BY DEF CfSuperseded, CfTmplIds
<1>3. CfDependentsFirst'
  BY <1>2 DEF CfDependentsFirst, CfSuperseded, CfTmplIds
<1> QED BY <1>1, <1>3

(* A step that leaves the stack in one stage keeps what that stage keeps.   *)
LEMMA CfCalmIn ==
  ASSUME CfStages', CfAccounted', CfDependentsFirst',
         \/ cfOp'.pc \in CfDeployPcs \ {"parked"} /\ CfBuilt' /\ CfToDo'
         \/ cfOp'.pc = "parked" /\ cfDel'.pc # "deleting" /\ CfBuilt' /\ CfToDo'
         \/ cfOp'.pc \in {"clean", "remove"} /\ CfCleaning'
         \/ cfOp'.pc \in {"revert", "undo"} /\ CfRollingBack'
         \/ cfOp'.pc = "continue" /\ CfRested'
         \/ cfOp'.pc = "idle" /\ cfStack'.status \in CfSettled /\ CfRested'
         \/ cfOp'.pc = "idle" /\ cfStack'.status \in CfEmptied /\ \A i \in CfIds : cfStack'.res[i].pid = 0
  PROVE  CfCalm'
<1> USE DEF CfStages, CfDeployPcs, CfWorking, CfSettled, CfWhole, CfEmptied
<1>1. CASE cfOp'.pc \in CfDeployPcs \ {"parked"} /\ CfBuilt' /\ CfToDo' BY <1>1 DEF CfCalm
<1>2. CASE cfOp'.pc = "parked" /\ cfDel'.pc # "deleting" /\ CfBuilt' /\ CfToDo' BY <1>2 DEF CfCalm
<1>3. CASE cfOp'.pc \in {"clean", "remove"} /\ CfCleaning' BY <1>3 DEF CfCalm
<1>4. CASE cfOp'.pc \in {"revert", "undo"} /\ CfRollingBack' BY <1>4 DEF CfCalm
<1>5. CASE cfOp'.pc = "continue" /\ CfRested' BY <1>5 DEF CfCalm
<1>6. CASE cfOp'.pc = "idle" /\ cfStack'.status \in CfSettled /\ CfRested' BY <1>6 DEF CfCalm
<1>7. CASE cfOp'.pc = "idle" /\ cfStack'.status \in CfEmptied /\ \A i \in CfIds : cfStack'.res[i].pid = 0
  BY <1>7 DEF CfCalm
<1> QED BY <1>1, <1>2, <1>3, <1>4, <1>5, <1>6, <1>7

(* The API calls.                                                           *)
LEMMA CfCreateCalm ==
  ASSUME CfAlways, CfCalm, cfUndone = "no", NEW t \in CfTemplates, NEW disable \in BOOLEAN, CfCreate(t, disable)
  PROVE  CfCalm'
<1>1. /\ cfStack'.res = CfNoRes /\ cfStack'.pending = CfNoPending /\ cfStack'.tmpl = t
      /\ cfStack'.status = "CREATE_IN_PROGRESS"
  BY DEF CfCreate
<1>2. /\ cfOp'.pc = "start" /\ cfOp'.update = FALSE /\ cfOp'.tmpl = t /\ cfOp'.prevRes = CfNoRes
      /\ cfOp'.created = <<>> /\ cfOp'.replaced = <<>> /\ cfOp'.tried = <<>>
  BY DEF CfCreate, CfIdle
<1>3. UNCHANGED <<cfDel, cfWorld, cfTold>> /\ cfDel.pc = "idle" BY DEF CfCreate
<1>4. \A i \in CfIds : CfNoRes[i].pid = 0 /\ CfNoPending[i].kind = "no" /\ CfNoPending[i].to.pid = 0
  BY DEF CfNoRes, CfNoRec, CfNoPending, CfNothing
<1>5. CfStages' BY <1>1, <1>2, <1>3 DEF CfStages, CfCalm, CfWorking
<1>6. cfOp.pc = "idle" /\ cfStack.status \in CfEmptied
  BY DEF CfCreate, CfBusy, CfCalm, CfStages, CfEmptied
<1>7. \A p \in CfPids : CfThere(p) => p \in cfTold
  <2>1. \A i \in CfIds : cfStack.res[i].pid = 0 BY <1>6 DEF CfCalm
  <2> QED BY <1>6, <2>1, CfPidsIs DEF CfCalm, CfAccounted, CfDeployPcs
<1>8. CfAccounted' /\ CfDependentsFirst' BY <1>3, <1>7 DEF CfAccounted, CfDependentsFirst, CfThere
<1>9. CfBuilt'
  BY <1>1, <1>2, <1>4
  DEF CfBuilt, CfPrevious, CfChanged, CfCreated, CfSupplanted, CfIn
<1>10. CfToDo' BY <1>2 DEF CfToDo
<1> QED BY <1>2, <1>5, <1>8, <1>9, <1>10, CfCalmIn DEF CfDeployPcs

LEMMA CfUpdateCalm ==
  ASSUME CfAlways, CfCalm, cfUndone = "no", cfUndone' = "no",
         NEW t \in CfTemplates, NEW disable \in BOOLEAN, CfUpdate(t, disable)
  PROVE  CfCalm'
<1>0. cfStack \in CfStackRecord BY DEF CfAlways, CfShapes
<1>1. /\ cfStack'.res = cfStack.res /\ cfStack'.pending = cfStack.pending /\ cfStack'.tmpl = cfStack.tmpl
      /\ cfStack'.status = "UPDATE_IN_PROGRESS"
  BY <1>0 DEF CfUpdate, CfSetStatus, CfStackRecord
<1>2. /\ cfOp'.pc = "start" /\ cfOp'.update = TRUE /\ cfOp'.tmpl = t /\ cfOp'.prevRes = cfStack.res
      /\ cfOp'.created = <<>> /\ cfOp'.replaced = <<>> /\ cfOp'.tried = <<>> /\ cfOp'.prevTmpl = cfStack.tmpl
  BY DEF CfUpdate, CfIdle
<1>3. UNCHANGED <<cfDel, cfWorld, cfTold>> /\ cfDel.pc = "idle" BY DEF CfUpdate
<1>4. cfStack.status \in CfWhole /\ cfOp.pc = "idle" BY DEF CfUpdate, CfBusy, CfCalm, CfStages, CfWhole
<1>5. CfRested BY <1>4 DEF CfCalm, CfSettled
<1>6. CfStages' BY <1>1, <1>2, <1>3 DEF CfStages, CfCalm, CfWorking
<1>7. CfAccounted' /\ CfDependentsFirst'
  <2>1. CfAccounted' BY <1>1, <1>2, <1>3, <1>4 DEF CfCalm, CfAccounted, CfThere, CfDeployPcs
  <2>2. \A p, q \in CfPids : ~CfSuperseded(p, q) BY <1>4 DEF CfSuperseded
  <2>3. CfDependentsFirst'
    BY <1>1, <1>3, <1>4 DEF CfCalm, CfDependentsFirst, CfSuperseded
  <2> QED BY <2>1, <2>3
<1>8. \A i \in CfIds : cfStack.pending[i].kind = "no" BY <1>4, <1>5 DEF CfRested
<1>9. CfBuilt'
  <2>1. CfPrevious' BY <1>2, <1>3, <1>5 DEF CfPrevious, CfRested, CfThere, CfLinked
  <2>2. CfChanged' BY <1>1, <1>2, <1>3, <1>5, <1>8 DEF CfChanged, CfRested, CfTrue, CfProps, CfIn
  <2>3. CfCreated' /\ CfSupplanted' BY <1>2 DEF CfCreated, CfSupplanted
  <2> QED BY <1>1, <1>2, <1>8, <2>1, <2>2, <2>3 DEF CfBuilt
<1>10. CfToDo' BY <1>2 DEF CfToDo
<1> QED BY <1>2, <1>6, <1>7, <1>9, <1>10, CfCalmIn DEF CfDeployPcs

LEMMA CfOtherCallsCalm ==
  ASSUME CfAlways, CfCalm, cfUndone = "no", cfUndone' = "no", CfCancelUpdate \/ CfRollbackStack \/ CfDelete
  PROVE  CfCalm'
<1>0. cfStack \in CfStackRecord /\ cfOp \in CfOpRecord /\ cfDel \in CfDelRecord BY DEF CfAlways, CfShapes
<1>1. CASE CfRollbackStack
  <2>1. /\ UNCHANGED <<cfStack.res, cfStack.pending, cfStack.tmpl>>
        /\ cfStack'.status \in {"UPDATE_ROLLBACK_IN_PROGRESS", "ROLLBACK_IN_PROGRESS"}
    BY <1>0, <1>1 DEF CfRollbackStack, CfSetStatus, CfStackRecord
  <2>2. /\ cfOp'.pc = "rollback" /\ cfOp.pc = "parked"
        /\ UNCHANGED <<cfOp.update, cfOp.tmpl, cfOp.prevRes, cfOp.prevTmpl, cfOp.created, cfOp.replaced, cfOp.tried>>
    BY <1>0, <1>1 DEF CfRollbackStack, CfOpRecord
  <2>3. UNCHANGED <<cfDel, cfWorld, cfTold>> /\ cfDel.pc = "idle" BY <1>1 DEF CfRollbackStack
  <2>4. CfStages' BY <2>1, <2>2, <2>3 DEF CfCalm, CfStages, CfWorking
  <2>5. CfAccounted' /\ CfDependentsFirst' BY <2>1, <2>2, <2>3, CfSafeStays DEF CfCalm, CfDeployPcs
  <2>6. CfBuilt BY <2>2, <2>3 DEF CfCalm, CfDeployPcs
  <2>7. CfBuilt' BY <2>1, <2>2, <2>3, <2>6, CfBuiltStays
  <2>8. CfToDo' BY <2>2 DEF CfToDo
  <2> QED BY <2>2, <2>4, <2>5, <2>7, <2>8, CfCalmIn DEF CfDeployPcs
<1>2. CASE CfCancelUpdate
  <2>1. UNCHANGED <<cfStack.res, cfStack.pending, cfStack.tmpl, cfStack.status>>
    BY <1>0, <1>2 DEF CfCancelUpdate, CfStackRecord
  <2>2. UNCHANGED <<cfOp, cfDel, cfWorld, cfTold>> BY <1>2 DEF CfCancelUpdate
  <2>3. CfStages' BY <2>1, <2>2 DEF CfCalm, CfStages
  <2>4. CfAccounted' /\ CfDependentsFirst' BY <2>1, <2>2, CfSafeStays DEF CfCalm
  <2>5. CfBuilt => CfBuilt' BY <2>1, <2>2, CfBuiltStays
  <2>6. CfToDo => CfToDo' BY <2>1, <2>2 DEF CfToDo, CfIn, CfTmplIds
  <2>7. CfCleaning => CfCleaning'
    BY <2>1, <2>2
    DEF CfCleaning, CfKept, CfLeaving, CfSwapped, CfGoing, CfThere, CfTrue, CfProps, CfLinked, CfTmplIds
  <2>8. CfRollingBack => CfRollingBack'
    BY <2>1, <2>2, SMTT(30)
    DEF CfRollingBack, CfPrevious, CfSendsBack, CfUndoes, CfThere, CfTrue, CfProps, CfLinked, CfIn, CfInPlace
  <2>9. cfStack.status = "UPDATE_IN_PROGRESS" /\ cfOp.pc \notin {"idle", "parked"} /\ cfDel.pc = "idle"
    BY <1>2 DEF CfCancelUpdate, CfCalm, CfStages, CfSettled, CfWhole, CfEmptied
  <2>10. cfOp.pc = "continue" => CfRested'
    BY <2>1, <2>2 DEF CfCalm, CfRested, CfThere, CfTrue, CfProps, CfLinked
  <2>11. cfOp.pc \in CfPcs BY CfFields DEF CfAlways
  <2>12. \/ cfOp'.pc \in CfDeployPcs \ {"parked"} /\ CfBuilt' /\ CfToDo'
         \/ cfOp'.pc \in {"clean", "remove"} /\ CfCleaning'
         \/ cfOp'.pc \in {"revert", "undo"} /\ CfRollingBack'
         \/ cfOp'.pc = "continue" /\ CfRested'
    BY <2>2, <2>5, <2>6, <2>7, <2>8, <2>9, <2>10, <2>11 DEF CfCalm, CfPcs
  <2> QED BY <2>3, <2>4, <2>12, CfCalmIn
<1>3. CASE CfDelete
  <2>1. UNCHANGED <<cfStack, cfOp, cfWorld, cfTold>> BY <1>3 DEF CfDelete
  <2>2. cfDel'.pc = "start" /\ cfDel'.own = FALSE /\ cfDel.pc = "idle" /\ ~CfBusy
    <3>1. cfDel'.pc = "start" /\ cfDel'.own = FALSE /\ cfDel.pc = "idle" BY <1>3 DEF CfDelete, CfNoDelete
    <3>2. ~CfBusy BY <1>3 DEF CfDelete
    <3> QED BY <3>1, <3>2
  <2>3. cfStack.status # "UPDATE_FAILED" BY <1>3, <2>2 DEF CfDelete
  <2>4. CfStages' BY <2>1, <2>2, <2>3 DEF CfCalm, CfStages, CfBusy
  <2>5. CfAccounted' /\ CfDependentsFirst' BY <2>1, CfSafeStays DEF CfCalm
  <2>6. CfBuilt => CfBuilt' BY <2>1, CfBuiltStays
  <2>7. CfToDo => CfToDo' BY <2>1 DEF CfToDo, CfIn, CfTmplIds
  <2>8. CfRested => CfRested' BY <2>1 DEF CfRested, CfThere, CfTrue, CfProps, CfLinked
  <2>9. cfOp.pc = "parked" \/ cfOp.pc = "idle" BY <2>2 DEF CfBusy
  <2> QED BY <2>1, <2>2, <2>4, <2>5, <2>6, <2>7, <2>8, <2>9 DEF CfCalm, CfDeployPcs
<1> QED BY <1>1, <1>2, <1>3

(* A call that continues a rollback skips or tries what is pending.         *)
LEMMA CfContinueCallCalm ==
  ASSUME CfAlways, CfCalm, cfUndone = "no", cfUndone' = "no",
         NEW skip \in SUBSET CfIds, CfContinueUpdateRollback(skip)
  PROVE  CfCalm'
<1>0. cfStack \in CfStackRecord /\ cfOp \in CfOpRecord BY DEF CfAlways, CfShapes
<1>1. /\ UNCHANGED <<cfStack.res, cfStack.tmpl>> /\ cfStack'.status = "UPDATE_ROLLBACK_IN_PROGRESS"
      /\ cfStack'.pending = [i \in CfIds |-> IF i \in skip THEN CfNothing ELSE cfStack.pending[i]]
  BY <1>0 DEF CfContinueUpdateRollback, CfStackRecord
<1>2. cfOp'.pc = "continue" /\ cfOp'.todo = CfPending \ skip BY <1>0 DEF CfContinueUpdateRollback, CfOpRecord
<1>3. /\ UNCHANGED <<cfDel, cfWorld>> /\ cfDel.pc = "idle" /\ cfStack.status = "UPDATE_ROLLBACK_FAILED"
      /\ cfTold \subseteq cfTold'
  BY DEF CfContinueUpdateRollback, CfTell
<1>4. \A i \in skip : cfStack.pending[i].to.pid \in cfTold' \cup {0} BY DEF CfContinueUpdateRollback, CfTell
<1>5. cfOp.pc = "idle" BY <1>3 DEF CfContinueUpdateRollback, CfBusy, CfCalm, CfStages
<1>6. CfRested BY <1>3 DEF CfCalm, CfSettled
<1>7. CfStages' BY <1>1, <1>2, <1>3 DEF CfCalm, CfStages, CfWorking
<1>8. CfAccounted' BY <1>1, <1>3, <1>5 DEF CfCalm, CfAccounted, CfThere, CfDeployPcs
<1>9. CfDependentsFirst'
  <2> SUFFICES ASSUME NEW p \in CfPids, cfWorld[p].there
               PROVE  \/ \A q \in cfWorld[p].needs : cfWorld[q].there
                      \/ p \in cfTold'
                      \/ \E i \in CfIds : p = cfStack'.pending[i].to.pid
    BY <1>3 DEF CfDependentsFirst
  <2>1. \/ \A q \in cfWorld[p].needs : cfWorld[q].there
        \/ p \in cfTold
        \/ \E i \in CfIds : p = cfStack.pending[i].to.pid
    BY <1>5 DEF CfCalm, CfDependentsFirst, CfSuperseded
  <2>2. ASSUME NEW i \in CfIds, p = cfStack.pending[i].to.pid
        PROVE  p \in cfTold' \/ p = cfStack'.pending[i].to.pid
    BY <1>1, <1>4, <2>2, CfPidsIs
  <2> QED BY <1>3, <2>1, <2>2
<1>10. CfRested'
  <2>1. \A i \in CfIds : /\ cfStack'.pending[i].kind # "no" => cfStack'.pending[i] = cfStack.pending[i]
                         /\ cfStack.pending[i].kind # "no" /\ cfStack'.pending[i].kind = "no" =>
                              cfStack.pending[i].to.pid \in cfTold' \cup {0}
                         /\ i \in cfOp'.todo => cfStack'.pending[i].kind # "no"
    BY <1>1, <1>2, <1>4 DEF CfNothing, CfPending
  <2>2. \A i \in CfIds : cfStack.res[i].pid > 0 => cfStack.res[i].pid # 0 OBVIOUS
  <2>3. ASSUME NEW i \in CfIds, cfStack.res[i].pid > 0, cfStack.res[i].pid \notin cfTold'
        PROVE  /\ CfLinked(cfStack.res, cfStack.tmpl, i)
               /\ CfTrue(cfStack.res[i]) \/ cfStack'.pending[i].kind = "revert"
    BY <1>3, <1>6, <2>1, <2>2, <2>3 DEF CfRested
  <2>4. CfStages' /\ cfStack'.status \notin CfWhole BY <1>1, <1>7 DEF CfWhole
  <2>7. cfOp'.todo \subseteq CfIds BY <1>2 DEF CfPending
  <2>5. \A i \in CfIds : cfStack'.res[i].pid > 0 =>
          /\ CfThere(cfStack.res[i].pid)'
          /\ \/ cfStack'.res[i].pid \in cfTold'
             \/ /\ CfLinked(cfStack.res, cfStack.tmpl, i)'
                /\ CfTrue(cfStack.res[i])' \/ cfStack'.pending[i].kind = "revert"
    BY <1>1, <1>3, <1>6, <2>3 DEF CfRested, CfThere, CfTrue, CfProps, CfLinked
  <2>6. \A i \in CfIds :
          /\ cfStack'.pending[i].kind = "revert" => cfStack'.pending[i].to = cfStack'.res[i] /\ cfStack'.res[i].pid > 0
          /\ cfStack'.pending[i].kind = "delete" =>
               cfStack'.pending[i].to.pid = 0 \/ cfStack'.pending[i].to.pid # cfStack'.res[i].pid
    BY <1>1, <1>6, <2>1 DEF CfRested
  <2> QED BY <2>1, <2>4, <2>5, <2>6, <2>7 DEF CfRested
<1> QED BY <1>2, <1>7, <1>8, <1>9, <1>10, CfCalmIn

(* What the deploy task decides without touching a service.                 *)
LEMMA CfDecidesCalm ==
  ASSUME CfAlways, CfCalm, cfUndone = "no", cfOp'.pc \in CfDeployPcs, cfOp.pc \in CfDeployPcs \ {"parked"},
         UNCHANGED <<cfStack.res, cfStack.pending, cfStack.tmpl, cfWorld, cfTold, cfDel>>,
         UNCHANGED <<cfOp.update, cfOp.tmpl, cfOp.prevRes, cfOp.prevTmpl, cfOp.created, cfOp.replaced, cfOp.tried>>,
         IF cfOp'.pc = "parked" THEN cfStack'.status = IF cfOp.update THEN "UPDATE_FAILED" ELSE "CREATE_FAILED"
                                ELSE cfStack'.status = cfStack.status,
         CfToDo'
  PROVE  CfCalm'
<1>1. cfDel.pc = "idle" /\ cfStack.status \in CfWorking BY DEF CfCalm, CfStages, CfDeployPcs
<1>2. CfStages' BY <1>1, CfFields DEF CfAlways, CfCalm, CfStages, CfDeployPcs, CfWorking
<1>3. CfAccounted' /\ CfDependentsFirst' BY CfSafeStays DEF CfCalm, CfDeployPcs
<1>4. CfBuilt BY <1>1 DEF CfCalm
<1>5. CfBuilt' BY <1>4, CfBuiltStays
<1> QED BY <1>1, <1>2, <1>3, <1>5, CfCalmIn

LEMMA CfDecisionsCalm ==
  ASSUME CfAlways, CfCalm, cfUndone = "no", CfBegin \/ CfCancelled \/ CfFailed \/ CfOutputs(FALSE)
  PROVE  CfCalm'
<1>0. cfStack \in CfStackRecord /\ cfOp \in CfOpRecord /\ cfDel.pc \in {"idle", "start", "deleting"} /\ cfOp.update \in BOOLEAN
  BY CfFields DEF CfAlways, CfShapes
<1>1. cfOp.pc \in CfDeployPcs \ {"parked"} BY DEF CfBegin, CfCancelled, CfFailed, CfOutputs, CfDeployPcs
<1>2. CfToDo BY <1>1 DEF CfCalm, CfStages, CfDeployPcs
<1>3. UNCHANGED <<cfStack.res, cfStack.pending, cfStack.tmpl>>
  BY <1>0 DEF CfBegin, CfCancelled, CfFailed, CfOutputs, CfSetStatus, CfStackRecord
<1>4. UNCHANGED <<cfWorld, cfTold, cfDel>> BY DEF CfBegin, CfCancelled, CfFailed, CfOutputs
<1>5. CASE CfBegin
  <2>1. /\ cfOp'.pc = "next" /\ cfOp'.todo = CfTmplIds(cfOp.tmpl) /\ cfOp'.cur = cfOp.cur
        /\ UNCHANGED <<cfOp.update, cfOp.tmpl, cfOp.prevRes, cfOp.prevTmpl, cfOp.created, cfOp.replaced, cfOp.tried>>
    BY <1>0, <1>5 DEF CfBegin, CfOpRecord
  <2>2. cfStack'.status = cfStack.status BY <1>0, <1>5 DEF CfBegin, CfStackRecord
  <2>3. cfOp.pc = "start" /\ cfOp.cur = {} /\ cfOp.created = <<>> /\ cfOp.tried = <<>>
    BY <1>2, <1>5 DEF CfBegin, CfAlways, CfAtWork, CfToDo
  <2>4. CfToDo' BY <2>1, <2>3 DEF CfToDo, CfIn, CfTmplIds
  <2> QED BY <1>1, <1>3, <1>4, <2>1, <2>2, <2>4, CfDecidesCalm DEF CfDeployPcs
<1>6. CASE CfCancelled \/ CfOutputs(FALSE)
  <2>1. /\ cfOp'.pc = "failed"
        /\ UNCHANGED <<cfOp.update, cfOp.tmpl, cfOp.prevRes, cfOp.prevTmpl, cfOp.created, cfOp.replaced, cfOp.tried>>
    BY <1>0, <1>6 DEF CfCancelled, CfOutputs, CfOpRecord
  <2>2. cfStack'.status = cfStack.status BY <1>0, <1>6 DEF CfCancelled, CfOutputs, CfStackRecord
  <2>3. CfToDo' BY <2>1 DEF CfToDo
  <2> QED BY <1>1, <1>3, <1>4, <2>1, <2>2, <2>3, CfDecidesCalm DEF CfDeployPcs
<1>7. CASE CfFailed
  <2>1. /\ cfOp'.pc = IF cfOp.disable THEN "parked" ELSE "rollback"
        /\ UNCHANGED <<cfOp.update, cfOp.tmpl, cfOp.prevRes, cfOp.prevTmpl, cfOp.created, cfOp.replaced, cfOp.tried>>
    BY <1>0, <1>7 DEF CfFailed, CfOpRecord
  <2>2. cfStack'.status = IF ~cfOp.disable THEN cfStack.status
                          ELSE IF cfOp.update THEN "UPDATE_FAILED" ELSE "CREATE_FAILED"
    BY <1>0, <1>7 DEF CfFailed, CfSetStatus, CfStackRecord
  <2>3. CfToDo' BY <2>1 DEF CfToDo
  <2>4. CASE cfOp.disable BY <1>1, <1>3, <1>4, <2>1, <2>2, <2>3, <2>4, CfDecidesCalm DEF CfDeployPcs
  <2>5. CASE ~cfOp.disable BY <1>1, <1>3, <1>4, <2>1, <2>2, <2>3, <2>5, CfDecidesCalm DEF CfDeployPcs
  <2> QED BY <2>4, <2>5
<1> QED BY <1>5, <1>6, <1>7

(* The next resource is looked up: what it refers to has been deployed.     *)
LEMMA CfResourceCalm ==
  ASSUME CfAlways, CfCalm, cfUndone = "no", NEW i \in CfIds, CfResource(i)
  PROVE  CfCalm'
<1>0. cfStack \in CfStackRecord /\ cfOp \in CfOpRecord /\ cfOp.tmpl \in CfTmpl BY CfFields DEF CfAlways, CfShapes
<1>1. cfOp.pc = "next" /\ cfOp.cur = {} /\ i \in cfOp.todo BY DEF CfResource, CfFirst, CfAlways, CfAtWork
<1>2. CfToDo /\ CfBuilt BY <1>1 DEF CfCalm, CfStages, CfDeployPcs
<1>3. UNCHANGED <<cfStack, cfWorld, cfTold, cfDel>> BY DEF CfResource
<1> DEFINE N == {d \in CfIds : <<i, d>> \in cfOp.tmpl.deps}
<1>4. /\ cfOp'.pc = "busy" /\ cfOp'.cur = {i} /\ cfOp'.todo = cfOp.todo \ {i}
      /\ cfOp'.want.needs = {cfStack.res[d].pid : d \in N} \ {0}
      /\ UNCHANGED <<cfOp.update, cfOp.tmpl, cfOp.prevRes, cfOp.prevTmpl, cfOp.created, cfOp.replaced, cfOp.tried>>
  BY <1>0 DEF CfResource, CfOpRecord
<1>5. ASSUME NEW q \in cfOp'.want.needs
      PROVE  \E l \in DOMAIN cfOp.created : /\ <<i, cfOp.created[l]>> \in cfOp.tmpl.deps
                                            /\ cfStack.res[cfOp.created[l]].pid = q
  <2>1. PICK d \in CfIds : <<i, d>> \in cfOp.tmpl.deps /\ q = cfStack.res[d].pid BY <1>4, <1>5
  <2>2. d \in CfTmplIds(cfOp.tmpl) BY <1>0, <2>1, CfTmplIs
  <2>3. d \notin cfOp.todo BY <2>1 DEF CfResource, CfFirst
  <2>4. CfIn(d, cfOp.created) BY <1>1, <1>2, <2>2, <2>3 DEF CfToDo
  <2> QED BY <2>1, <2>4 DEF CfIn
<1>6. CfToDo'
  <2>1. cfOp'.todo \cup cfOp'.cur = cfOp.todo \cup cfOp.cur BY <1>1, <1>4
  <2>2. cfOp.tried = <<>> /\ \A j \in CfIds :
          /\ j \in CfTmplIds(cfOp.tmpl) => CfIn(j, cfOp.created) \/ j \in cfOp.todo \cup cfOp.cur
          /\ j \in cfOp.todo \cup cfOp.cur => j \in CfTmplIds(cfOp.tmpl) /\ ~CfIn(j, cfOp.created)
    BY <1>1, <1>2 DEF CfToDo
  <2>3. \A j \in cfOp'.cur : j = i BY <1>4
  <2> HIDE DEF N
  <2>4. cfOp'.tried = <<>> /\ cfOp'.pc = "busy" BY <1>4, <2>2
  <2>5. \A j \in CfIds :
          /\ j \in CfTmplIds(cfOp'.tmpl) => CfIn(j, cfOp'.created) \/ j \in cfOp'.todo \cup cfOp'.cur
          /\ j \in cfOp'.todo \cup cfOp'.cur => j \in CfTmplIds(cfOp'.tmpl) /\ ~CfIn(j, cfOp'.created)
    BY <1>4, <2>1, <2>2
  <2>6. \A j \in cfOp'.cur : \A q \in cfOp'.want.needs :
          \E l \in DOMAIN cfOp'.created : /\ <<j, cfOp'.created[l]>> \in cfOp'.tmpl.deps
                                         /\ cfStack'.res[cfOp'.created[l]].pid = q
    BY <1>3, <1>4, <1>5, <2>3
  <2> QED BY <2>4, <2>5, <2>6 DEF CfToDo, CfIn, CfTmplIds
<1> QED BY <1>1, <1>3, <1>4, <1>6, CfDecidesCalm DEF CfDeployPcs

(* Who is in a list after Append, in two lists joined, and after the first. *)
LEMMA CfInAppend ==
  ASSUME NEW S, NEW s \in Seq(S), NEW x \in S, NEW y
  PROVE  CfIn(y, Append(s, x)) <=> (CfIn(y, s) \/ y = x)
<1>1. /\ Len(s) \in Nat /\ DOMAIN s = 1..Len(s) /\ DOMAIN Append(s, x) = 1..(Len(s) + 1)
      /\ Append(s, x)[Len(s) + 1] = x /\ \A k \in 1..Len(s) : Append(s, x)[k] = s[k]
  OBVIOUS
<1>2. CfIn(y, Append(s, x)) => CfIn(y, s) \/ y = x
  <2> SUFFICES ASSUME NEW k \in 1..(Len(s) + 1), Append(s, x)[k] = y PROVE CfIn(y, s) \/ y = x BY <1>1 DEF CfIn
  <2>1. k \in 1..Len(s) \/ k = Len(s) + 1 BY <1>1
  <2> QED BY <1>1, <2>1 DEF CfIn
<1>3. CfIn(y, s) => CfIn(y, Append(s, x))
  <2> SUFFICES ASSUME NEW k \in 1..Len(s), s[k] = y PROVE CfIn(y, Append(s, x)) BY <1>1 DEF CfIn
  <2>1. k \in 1..(Len(s) + 1) BY <1>1
  <2> QED BY <1>1, <2>1 DEF CfIn
<1>4. y = x => CfIn(y, Append(s, x))
  <2>1. Len(s) + 1 \in 1..(Len(s) + 1) BY <1>1
  <2> QED BY <1>1, <2>1 DEF CfIn
<1> QED BY <1>2, <1>3, <1>4

LEMMA CfInBoth ==
  ASSUME NEW S, NEW s \in Seq(S), NEW t \in Seq(S), NEW y
  PROVE  CfIn(y, s \o t) <=> (CfIn(y, s) \/ CfIn(y, t))
<1>1. /\ Len(s) \in Nat /\ DOMAIN s = 1..Len(s) /\ Len(t) \in Nat /\ DOMAIN t = 1..Len(t)
      /\ DOMAIN (s \o t) = 1..(Len(s) + Len(t))
      /\ \A k \in 1..(Len(s) + Len(t)) : (s \o t)[k] = IF k <= Len(s) THEN s[k] ELSE t[k - Len(s)]
  OBVIOUS
<1>2. CfIn(y, s \o t) => CfIn(y, s) \/ CfIn(y, t)
  <2> SUFFICES ASSUME NEW k \in 1..(Len(s) + Len(t)), (s \o t)[k] = y PROVE CfIn(y, s) \/ CfIn(y, t) BY <1>1 DEF CfIn
  <2>1. CASE k <= Len(s)
    <3>1. k \in 1..Len(s) /\ s[k] = y BY <1>1, <2>1
    <3> QED BY <1>1, <3>1 DEF CfIn
  <2>2. CASE ~(k <= Len(s))
    <3>1. k - Len(s) \in 1..Len(t) /\ t[k - Len(s)] = y BY <1>1, <2>2
    <3> QED BY <1>1, <3>1 DEF CfIn
  <2> QED BY <2>1, <2>2
<1>3. CfIn(y, s) => CfIn(y, s \o t)
  <2> SUFFICES ASSUME NEW k \in 1..Len(s), s[k] = y PROVE CfIn(y, s \o t) BY <1>1 DEF CfIn
  <2>1. k \in 1..(Len(s) + Len(t)) /\ k <= Len(s) BY <1>1
  <2>2. (s \o t)[k] = y BY <1>1, <2>1
  <2> QED BY <1>1, <2>1, <2>2 DEF CfIn
<1>4. CfIn(y, t) => CfIn(y, s \o t)
  <2> SUFFICES ASSUME NEW k \in 1..Len(t), t[k] = y PROVE CfIn(y, s \o t) BY <1>1 DEF CfIn
  <2>1. k + Len(s) \in 1..(Len(s) + Len(t)) /\ ~(k + Len(s) <= Len(s)) /\ k + Len(s) - Len(s) = k BY <1>1
  <2>2. (s \o t)[k + Len(s)] = y BY <1>1, <2>1
  <2> QED BY <1>1, <2>1, <2>2 DEF CfIn
<1> QED BY <1>2, <1>3, <1>4

LEMMA CfInTail ==
  ASSUME NEW S, NEW s \in Seq(S), s # <<>>
  PROVE  /\ Head(s) \in S /\ CfIn(Head(s), s)
         /\ \A y \in S : CfIn(y, s) <=> (y = Head(s) \/ CfIn(y, Tail(s)))
<1>1. /\ Len(s) \in Nat \ {0} /\ DOMAIN s = 1..Len(s) /\ Head(s) = s[1] /\ Head(s) \in S
      /\ DOMAIN Tail(s) = 1..(Len(s) - 1) /\ \A k \in 1..(Len(s) - 1) : Tail(s)[k] = s[k + 1]
  OBVIOUS
<1>2. CfIn(Head(s), s)
  <2>1. 1 \in DOMAIN s BY <1>1
  <2> QED BY <1>1, <2>1 DEF CfIn
<1>3. ASSUME NEW y \in S, CfIn(y, s), y # Head(s) PROVE CfIn(y, Tail(s))
  <2>1. PICK k \in DOMAIN s : s[k] = y BY <1>3 DEF CfIn
  <2>2. k - 1 \in 1..(Len(s) - 1) /\ k - 1 + 1 = k BY <1>1, <1>3, <2>1
  <2>3. Tail(s)[k - 1] = y BY <1>1, <2>1, <2>2
  <2> QED BY <1>1, <2>2, <2>3 DEF CfIn
<1>4. ASSUME NEW y \in S, CfIn(y, Tail(s)) PROVE CfIn(y, s)
  <2>1. PICK k \in DOMAIN Tail(s) : Tail(s)[k] = y BY <1>4 DEF CfIn
  <2>2. k + 1 \in DOMAIN s /\ s[k + 1] = y BY <1>1, <2>1
  <2> QED BY <2>2 DEF CfIn
<1> QED BY <1>1, <1>2, <1>3, <1>4

(* A service made or changed the resource of i.                             *)
LEMMA CfMakingCalm ==
  ASSUME CfAlways, CfAlways', CfCalm, cfUndone = "no", NEW i \in CfIds, CfProvisioned(i) \/ CfReplaced(i)
  PROVE  CfCalm'
<1>0. /\ cfStack \in CfStackRecord /\ cfOp \in CfOpRecord /\ cfOp.tmpl \in CfTmpl /\ cfOp.want \in CfRec
      /\ cfOp.created \in Seq(CfIds) /\ cfOp.replaced \in Seq(CfIds \X CfPids)
      /\ cfWorld \in [CfPids -> [there : BOOLEAN, ver : Nat, needs : SUBSET CfPids]]
  BY CfFields DEF CfAlways, CfShapes
<1>1. cfOp.pc = "busy" /\ cfOp.cur = {i} BY DEF CfProvisioned, CfReplaced
<1>2. CfToDo /\ CfBuilt /\ cfDel.pc = "idle" /\ cfStack.status \in CfWorking BY <1>1 DEF CfCalm, CfStages, CfDeployPcs
<1>3. i \notin cfOp.todo /\ cfOp.want.pid = cfOp.prevRes[i].pid BY <1>1, CfNextPid
<1>4. /\ i \in CfTmplIds(cfOp.tmpl) /\ ~CfIn(i, cfOp.created) /\ cfOp.tried = <<>>
      /\ \A q \in cfOp.want.needs : \E l \in DOMAIN cfOp.created :
           <<i, cfOp.created[l]>> \in cfOp.tmpl.deps /\ cfStack.res[cfOp.created[l]].pid = q
  BY <1>1, <1>2 DEF CfToDo
<1>5. \A j \in CfIds : cfStack.pending[j].kind = "no" /\ cfStack.pending[j].to.pid = 0
  BY <1>2 DEF CfBuilt, CfAlways, CfAtWork
<1>6. cfStack.res[i] = cfOp.prevRes[i] BY <1>2, <1>4 DEF CfBuilt, CfChanged
<1>7. \E p \in CfPids :
        /\ \/ p = cfMade + 1 /\ p # cfOp.prevRes[i].pid
           \/ p = cfOp.prevRes[i].pid
        /\ CfRecorded(i, p)
        /\ \/ cfOp.prevRes[i].pid \in {0, p} /\ UNCHANGED cfOp.replaced
           \/ /\ cfOp.prevRes[i].pid # p /\ cfOp.prevRes[i].pid \in CfPids
              /\ cfOp'.replaced = Append(cfOp.replaced, <<i, cfOp.prevRes[i].pid>>)
  <2>1. cfMade + 1 \in CfPids BY <1>1, CfNextPid
  <2>2. cfOp.prevRes[i].pid # cfMade + 1 /\ ((cfOp.prevRes[i].pid > 0) <=> (cfOp.prevRes[i].pid \in CfPids)) BY CfDistinct
  <2>3. cfOp.prevRes[i].pid \in {0} \cup CfPids BY CfFields DEF CfAlways
  <2>4. CASE CfProvisioned(i)
    <3>1. UNCHANGED cfOp.replaced BY <1>0, <2>4 DEF CfProvisioned, CfOpRecord
    <3>2. CASE cfOp.prevRes[i].pid > 0
      <4>1. CfRecorded(i, cfOp.prevRes[i].pid) BY <1>3, <2>4, <3>2 DEF CfProvisioned
      <4> QED BY <2>2, <3>1, <3>2, <4>1
    <3>3. CASE ~(cfOp.prevRes[i].pid > 0)
      <4>1. CfRecorded(i, cfMade + 1) BY <1>3, <2>4, <3>3 DEF CfProvisioned
      <4>2. cfOp.prevRes[i].pid = 0 BY <2>2, <2>3, <3>3
      <4> QED BY <2>1, <2>2, <3>1, <4>1, <4>2
    <3> QED BY <3>2, <3>3
  <2>5. CASE CfReplaced(i)
    <3>1. cfOp'.replaced = Append(cfOp.replaced, <<i, cfOp.prevRes[i].pid>>) BY <1>0, <1>3, <2>5 DEF CfReplaced, CfOpRecord
    <3>2. CfRecorded(i, cfMade + 1) BY <2>5 DEF CfReplaced
    <3>3. cfOp.prevRes[i].pid \in CfPids BY <1>3, <2>2, <2>5 DEF CfReplaced
    <3> QED BY <2>1, <2>2, <3>1, <3>2, <3>3
  <2> QED BY <2>4, <2>5
<1>8. PICK p \in CfPids :
        /\ \/ p = cfMade + 1 /\ p # cfOp.prevRes[i].pid
           \/ p = cfOp.prevRes[i].pid
        /\ CfRecorded(i, p)
        /\ \/ cfOp.prevRes[i].pid \in {0, p} /\ UNCHANGED cfOp.replaced
           \/ /\ cfOp.prevRes[i].pid # p /\ cfOp.prevRes[i].pid \in CfPids
              /\ cfOp'.replaced = Append(cfOp.replaced, <<i, cfOp.prevRes[i].pid>>)
  BY <1>7
<1>9. /\ cfOp'.pc = "next" /\ cfOp'.cur = {} /\ cfOp'.created = Append(cfOp.created, i)
      /\ UNCHANGED <<cfOp.update, cfOp.tmpl, cfOp.prevRes, cfOp.prevTmpl, cfOp.todo, cfOp.tried>>
  BY <1>0 DEF CfProvisioned, CfReplaced, CfOpRecord
<1>10. UNCHANGED <<cfStack.status, cfStack.pending, cfStack.tmpl, cfTold, cfDel>>
       /\ cfStack'.res = [cfStack.res EXCEPT ![i] = [cfOp.want EXCEPT !.pid = p]]
  <2>1. cfStack' = [cfStack EXCEPT !.res[i] = [cfOp.want EXCEPT !.pid = p]] BY <1>8 DEF CfRecorded
  <2>2. UNCHANGED <<cfTold, cfDel>> BY DEF CfProvisioned, CfReplaced
  <2> QED BY <1>0, <2>1, <2>2 DEF CfStackRecord
<1>11. cfWorld' = [cfWorld EXCEPT ![p] = CfProps(cfOp.want)] BY <1>8 DEF CfRecorded
<1>12. /\ \A q \in CfPids : q # p => cfWorld'[q] = cfWorld[q]
       /\ cfWorld'[p] = CfProps(cfOp.want)
       /\ \A q \in CfPids : cfWorld[q].there => cfWorld'[q].there
       /\ cfWorld'[p].there /\ cfWorld'[p].needs = cfOp.want.needs
  BY <1>0, <1>8, <1>11 DEF CfProps
<1>13. /\ cfStack.res \in [CfIds -> CfRec] /\ cfStack'.res[i].pid = p /\ cfStack'.res[i].needs = cfOp.want.needs
       /\ CfProps(cfStack'.res[i]) = CfProps(cfOp.want)
       /\ \A j \in CfIds : j # i => cfStack'.res[j] = cfStack.res[j]
  <2>1. cfStack.res \in [CfIds -> CfRec] BY <1>0 DEF CfStackRecord
  <2>2. cfStack'.res[i] = [cfOp.want EXCEPT !.pid = p] BY <1>10, <2>1
  <2>3. cfStack'.res[i].pid = p /\ cfStack'.res[i].needs = cfOp.want.needs /\ cfStack'.res[i].ver = cfOp.want.ver
    BY <1>0, <2>2 DEF CfRec
  <2> QED BY <1>10, <2>1, <2>3 DEF CfProps
<1>14. \A j \in CfIds : j # i => cfStack.res[j].pid # p /\ cfOp.prevRes[j].pid # p
  BY <1>8, CfDistinct
<1>15. p > 0 /\ p # 0 BY <1>8, CfPidsIs
<1>16. \A j \in CfIds : CfIn(j, cfOp'.created) <=> (CfIn(j, cfOp.created) \/ j = i)
  BY <1>0, <1>9, CfInAppend
<1>17. \A j \in CfIds : /\ (cfStack.res[j].pid > 0) <=> (cfStack.res[j].pid \in CfPids)
                        /\ (cfOp.prevRes[j].pid > 0) <=> (cfOp.prevRes[j].pid \in CfPids)
  BY CfDistinct
<1>18. CfStages' BY <1>2, <1>9, <1>10 DEF CfCalm, CfStages
<1>19. CfAccounted'
  <2> SUFFICES ASSUME NEW q \in CfPids, cfWorld'[q].there
               PROVE  \/ q \in cfTold
                      \/ \E j \in CfIds : q = cfStack'.res[j].pid
                      \/ \E j \in CfIds : q = cfOp.prevRes[j].pid
    BY <1>9, <1>10 DEF CfAccounted, CfThere, CfDeployPcs
  <2>1. CASE q = p BY <1>13, <2>1
  <2>2. CASE q # p
    <3>1. \/ q \in cfTold
          \/ \E j \in CfIds : q = cfStack.res[j].pid
          \/ \E j \in CfIds : q = cfOp.prevRes[j].pid
      BY <1>1, <1>12, <2>2 DEF CfCalm, CfAccounted, CfThere
    <3> QED BY <1>6, <1>13, <3>1
  <2> QED BY <2>1, <2>2
<1>20. \A q \in cfOp.want.needs : cfWorld[q].there
  <2> TAKE q \in cfOp.want.needs
  <2>1. PICK l \in DOMAIN cfOp.created : cfStack.res[cfOp.created[l]].pid = q BY <1>4
  <2>2. CfTrue(cfStack.res[cfOp.created[l]]) BY <1>2 DEF CfBuilt, CfCreated
  <2> QED BY <2>1, <2>2 DEF CfTrue, CfProps
<1>21. CfDependentsFirst'
  <2> SUFFICES ASSUME NEW q \in CfPids, cfWorld'[q].there
               PROVE  \/ \A n \in cfWorld'[q].needs : cfWorld'[n].there
                      \/ q \in cfTold
                      \/ \E j \in CfIds : q = cfStack.pending[j].to.pid
    BY <1>10 DEF CfDependentsFirst
  <2>1. cfOp.want.needs \in SUBSET CfPids BY <1>0 DEF CfRec
  <2>2. CASE q = p BY <1>12, <1>20, <2>1, <2>2
  <2>3. CASE q # p
    <3>1. cfWorld'[q] = cfWorld[q] /\ cfWorld[q].needs \in SUBSET CfPids /\ cfWorld[q].there BY <1>0, <1>12, <2>3
    <3>2. \A n \in CfPids : ~CfSuperseded(q, n) BY <1>1 DEF CfSuperseded
    <3>3. \/ \A n \in cfWorld[q].needs : cfWorld[n].there
          \/ q \in cfTold
          \/ \E j \in CfIds : q = cfStack.pending[j].to.pid
      BY <3>1, <3>2 DEF CfCalm, CfDependentsFirst
    <3> QED BY <1>12, <3>1, <3>3
  <2> QED BY <2>2, <2>3
<1>22. CfPrevious'
  <2> SUFFICES ASSUME NEW j \in CfIds, cfOp.prevRes[j].pid > 0
               PROVE  /\ cfWorld'[cfOp.prevRes[j].pid].there
                      /\ cfOp.prevRes[j].pid \in cfTold \/ CfLinked(cfOp.prevRes, cfOp.prevTmpl, j)
    BY <1>9, <1>10 DEF CfPrevious, CfThere, CfLinked
  <2> QED BY <1>2, <1>12, <1>17 DEF CfBuilt, CfPrevious, CfThere
<1>23. CfChanged'
  <2>1. ASSUME NEW j \in CfIds, cfOp.prevRes[j].pid > 0
        PROVE  \/ cfOp.prevRes[j].pid \in cfTold \/ cfWorld'[cfOp.prevRes[j].pid] = CfProps(cfOp.prevRes[j])
               \/ /\ CfIn(j, cfOp'.created)
                  /\ cfOp.prevRes[j].pid = cfStack'.res[j].pid /\ cfStack'.res[j] # cfOp.prevRes[j]
    <3>1. \/ cfOp.prevRes[j].pid \in cfTold \/ cfWorld[cfOp.prevRes[j].pid] = CfProps(cfOp.prevRes[j])
          \/ /\ CfIn(j, cfOp.created)
             /\ cfOp.prevRes[j].pid = cfStack.res[j].pid /\ cfStack.res[j] # cfOp.prevRes[j]
      BY <1>2, <1>4, <2>1 DEF CfBuilt, CfChanged, CfTrue, CfIn, CfToRevert, CfInPlace
    <3>2. CASE j # i BY <1>12, <1>13, <1>14, <1>16, <1>17, <2>1, <3>1, <3>2
    <3>3. CASE j = i /\ p # cfOp.prevRes[i].pid BY <1>4, <1>12, <1>17, <2>1, <3>1, <3>3
    <3>4. CASE j = i /\ p = cfOp.prevRes[i].pid BY <1>12, <1>13, <1>16, <3>4
    <3> QED BY <3>2, <3>3, <3>4
  <2>2. ASSUME NEW j \in CfIds PROVE CfIn(j, cfOp'.created) \/ cfStack'.res[j] = cfOp.prevRes[j]
    BY <1>2, <1>13, <1>16 DEF CfBuilt, CfChanged
  <2>3. \A j \in CfIds : ~CfIn(j, cfOp'.tried) BY <1>4, <1>9 DEF CfIn
  <2>4. ASSUME NEW j \in CfIds, CfIn(j, cfOp.tried) PROVE FALSE BY <1>4, <2>4 DEF CfIn
  <2> QED BY <1>9, <1>10, <2>1, <2>2, <2>3, <2>4 DEF CfChanged, CfTrue, CfProps, CfIn, CfToRevert, CfInPlace
<1>24. CfCreated'
  <2> DEFINE C == cfOp.created
  <2>0. Len(C) \in Nat /\ DOMAIN C = 1..Len(C) /\ cfOp'.created \in Seq(CfIds) /\ DOMAIN cfOp'.created = 1..(Len(C) + 1)
        /\ cfOp'.created[Len(C) + 1] = i /\ \A k \in 1..Len(C) : cfOp'.created[k] = C[k] /\ C[k] \in CfIds
    BY <1>0, <1>9
  <2>1. \A k \in 1..Len(C) : C[k] # i BY <1>4, <2>0 DEF CfIn
  <2>2. ASSUME NEW x, CfIn(x, cfOp.replaced) PROVE CfIn(x, cfOp'.replaced)
    <3>1. CASE UNCHANGED cfOp.replaced BY <2>2, <3>1
    <3>2. CASE /\ cfOp.prevRes[i].pid # p /\ cfOp.prevRes[i].pid \in CfPids
               /\ cfOp'.replaced = Append(cfOp.replaced, <<i, cfOp.prevRes[i].pid>>)
      <4>1. <<i, cfOp.prevRes[i].pid>> \in CfIds \X CfPids BY <3>2
      <4>3. cfOp.replaced \in Seq(CfIds \X CfPids) BY <1>0
      <4>2. CfIn(x, Append(cfOp.replaced, <<i, cfOp.prevRes[i].pid>>)) BY <2>2, <4>1, <4>3, CfInAppend
      <4> QED BY <3>2, <4>2
    <3> QED BY <1>8, <3>1, <3>2
  <2>3. ASSUME NEW k \in 1..Len(C)
        PROVE  /\ C[k] \in CfTmplIds(cfOp.tmpl) /\ cfStack.res[C[k]].pid > 0 /\ CfTrue(cfStack.res[C[k]])
               /\ \A q \in cfStack.res[C[k]].needs :
                    \E l \in 1..(k - 1) : <<C[k], C[l]>> \in cfOp.tmpl.deps /\ cfStack.res[C[l]].pid = q
               /\ cfOp.prevRes[C[k]].pid \in {0, cfStack.res[C[k]].pid}
                    \/ CfIn(<<C[k], cfOp.prevRes[C[k]].pid>>, cfOp.replaced)
               /\ \A l \in 1..Len(C) : C[l] = C[k] => l = k
    BY <1>2, <2>0 DEF CfBuilt, CfCreated
  <2> HIDE DEF C
  <2> SUFFICES ASSUME NEW k \in DOMAIN cfOp'.created
               PROVE  LET x == cfOp'.created[k] IN
                      /\ x \in CfTmplIds(cfOp'.tmpl) /\ cfStack'.res[x].pid > 0
                      /\ cfWorld'[cfStack'.res[x].pid] = CfProps(cfStack'.res[x])
                      /\ \A q \in cfStack'.res[x].needs : \E l \in 1..(k - 1) :
                           <<x, cfOp'.created[l]>> \in cfOp'.tmpl.deps /\ cfStack'.res[cfOp'.created[l]].pid = q
                      /\ \/ cfOp'.prevRes[x].pid \in {0, cfStack'.res[x].pid}
                         \/ CfIn(<<x, cfOp'.prevRes[x].pid>>, cfOp'.replaced)
                      /\ \A l \in DOMAIN cfOp'.created : cfOp'.created[l] = x => l = k
    BY DEF CfCreated, CfTrue, CfProps, CfIn, CfTmplIds
  <2> DEFINE x == cfOp'.created[k]
  <2>8. x = cfOp'.created[k] OBVIOUS
  <2> SUFFICES /\ x \in CfTmplIds(cfOp.tmpl) /\ cfStack'.res[x].pid > 0
               /\ cfWorld'[cfStack'.res[x].pid] = CfProps(cfStack'.res[x])
               /\ \A q \in cfStack'.res[x].needs : \E l \in 1..(k - 1) :
                    <<x, cfOp'.created[l]>> \in cfOp.tmpl.deps /\ cfStack'.res[cfOp'.created[l]].pid = q
               /\ \/ cfOp.prevRes[x].pid \in {0, cfStack'.res[x].pid}
                  \/ CfIn(<<x, cfOp.prevRes[x].pid>>, cfOp'.replaced)
               /\ \A l \in 1..(Len(C) + 1) : cfOp'.created[l] = x => l = k
    BY <1>9, <2>0
  <2> HIDE DEF x
  <2>4. CASE k \in 1..Len(C)
    <3>1. x = C[k] /\ x \in CfIds /\ x # i /\ cfStack'.res[x] = cfStack.res[x] BY <1>13, <2>0, <2>1, <2>4, <2>8
    <3>7. CfTrue(cfStack.res[x]) /\ cfStack.res[x].pid > 0 BY <2>3, <2>4, <3>1
    <3>2. cfWorld'[cfStack'.res[x].pid] = CfProps(cfStack'.res[x])
      BY <1>12, <1>14, <1>17, <3>1, <3>7 DEF CfTrue
    <3>3. \A q \in cfStack'.res[x].needs : \E l \in 1..(k - 1) :
            <<x, cfOp'.created[l]>> \in cfOp.tmpl.deps /\ cfStack'.res[cfOp'.created[l]].pid = q
      <4> TAKE q \in cfStack'.res[x].needs
      <4>4. q \in cfStack.res[C[k]].needs BY <3>1
      <4>5. \E l \in 1..(k - 1) : <<C[k], C[l]>> \in cfOp.tmpl.deps /\ cfStack.res[C[l]].pid = q BY <2>3, <2>4, <4>4
      <4>1. PICK l \in 1..(k - 1) : <<x, C[l]>> \in cfOp.tmpl.deps /\ cfStack.res[C[l]].pid = q BY <3>1, <4>5
      <4>2. l \in 1..Len(C) BY <2>0, <2>4
      <4>3. cfOp'.created[l] = C[l] /\ C[l] # i /\ C[l] \in CfIds BY <2>0, <2>1, <4>2
      <4> QED BY <1>13, <4>1, <4>3
    <3>4. \A l \in 1..(Len(C) + 1) : cfOp'.created[l] = x => l = k
      <4> TAKE l \in 1..(Len(C) + 1)
      <4>1. l \in 1..Len(C) \/ l = Len(C) + 1 BY <2>0
      <4>2. \A n \in 1..Len(C) : C[n] = x => n = k BY <2>3, <2>4, <3>1
      <4> QED BY <2>0, <3>1, <4>1, <4>2
    <3>5. cfOp.prevRes[x].pid \in {0, cfStack'.res[x].pid} \/ CfIn(<<x, cfOp.prevRes[x].pid>>, cfOp'.replaced)
      BY <2>2, <2>3, <2>4, <3>1
    <3>6. x \in CfTmplIds(cfOp.tmpl) /\ cfStack'.res[x].pid > 0 BY <2>3, <2>4, <3>1
    <3> QED BY <3>2, <3>3, <3>4, <3>5, <3>6
  <2>5. CASE k = Len(C) + 1
    <3>1. x = i BY <2>0, <2>5, <2>8
    <3>2. \A q \in cfStack'.res[x].needs : \E l \in 1..(k - 1) :
            <<x, cfOp'.created[l]>> \in cfOp.tmpl.deps /\ cfStack'.res[cfOp'.created[l]].pid = q
      <4> TAKE q \in cfStack'.res[x].needs
      <4>1. PICK l \in 1..Len(C) : <<i, C[l]>> \in cfOp.tmpl.deps /\ cfStack.res[C[l]].pid = q
        BY <1>4, <1>13, <2>0, <3>1 DEF C
      <4>2. cfOp'.created[l] = C[l] /\ C[l] # i /\ C[l] \in CfIds /\ l \in 1..(k - 1) BY <2>0, <2>1, <2>5
      <4> QED BY <1>13, <3>1, <4>1, <4>2
    <3>3. \A l \in 1..(Len(C) + 1) : cfOp'.created[l] = x => l = k
      <4> TAKE l \in 1..(Len(C) + 1)
      <4>1. l \in 1..Len(C) \/ l = k BY <2>0, <2>5
      <4> QED BY <2>0, <2>1, <3>1, <4>1
    <3>4. cfOp.prevRes[x].pid \in {0, p} \/ CfIn(<<x, cfOp.prevRes[x].pid>>, cfOp'.replaced)
      <4>1. CASE cfOp'.replaced = Append(cfOp.replaced, <<i, cfOp.prevRes[i].pid>>)
        <5>1. Len(cfOp.replaced) + 1 \in DOMAIN cfOp'.replaced
              /\ cfOp'.replaced[Len(cfOp.replaced) + 1] = <<i, cfOp.prevRes[i].pid>>
          BY <1>0, <4>1
        <5> QED BY <3>1, <5>1 DEF CfIn
      <4> QED BY <1>8, <3>1, <4>1
    <3> QED BY <1>4, <1>12, <1>13, <1>15, <3>1, <3>2, <3>3, <3>4
  <2>6. k \in 1..Len(C) \/ k = Len(C) + 1 BY <2>0, <2>8
  <2> QED BY <2>4, <2>5, <2>6
<1>25. CfSupplanted'
  <2>1. ASSUME NEW k \in DOMAIN cfOp.replaced
        PROVE  /\ CfIn(cfOp.replaced[k][1], cfOp'.created)
               /\ cfStack'.res[cfOp.replaced[k][1]].pid # cfOp.prevRes[cfOp.replaced[k][1]].pid
    <3>1. /\ CfIn(cfOp.replaced[k][1], cfOp.created) /\ cfOp.replaced[k][1] \in CfIds
          /\ cfStack.res[cfOp.replaced[k][1]].pid # cfOp.prevRes[cfOp.replaced[k][1]].pid
      BY <1>0, <1>2, <2>1 DEF CfBuilt, CfSupplanted
    <3>2. cfOp.replaced[k][1] # i BY <1>4, <3>1
    <3> QED BY <1>13, <1>16, <3>1, <3>2
  <2>2. CASE UNCHANGED cfOp.replaced BY <1>9, <2>1, <2>2 DEF CfSupplanted, CfIn
  <2>3. CASE /\ cfOp.prevRes[i].pid # p /\ cfOp.prevRes[i].pid \in CfPids
             /\ cfOp'.replaced = Append(cfOp.replaced, <<i, cfOp.prevRes[i].pid>>)
    <3>1. ASSUME NEW k \in DOMAIN cfOp'.replaced
          PROVE  /\ CfIn(cfOp'.replaced[k][1], cfOp'.created)
                 /\ cfStack'.res[cfOp'.replaced[k][1]].pid # cfOp.prevRes[cfOp'.replaced[k][1]].pid
      <4>1. (k \in DOMAIN cfOp.replaced /\ cfOp'.replaced[k] = cfOp.replaced[k])
            \/ cfOp'.replaced[k] = <<i, cfOp.prevRes[i].pid>>
        BY <1>0, <2>3
      <4> QED BY <1>13, <1>16, <2>1, <2>3, <4>1
    <3> QED BY <1>9, <3>1 DEF CfSupplanted, CfIn
  <2> QED BY <1>8, <2>2, <2>3
<1>26. CfBuilt'
  <2>1. \A j \in CfIds : cfStack'.pending[j].kind = "no" BY <1>5, <1>10
  <2>2. ~cfOp'.update => cfStack'.tmpl = cfOp'.tmpl BY <1>2, <1>9, <1>10 DEF CfBuilt
  <2> QED BY <1>22, <1>23, <1>24, <1>25, <2>1, <2>2 DEF CfBuilt
<1>27. CfToDo'
  <2>1. ASSUME NEW j \in CfIds
        PROVE  /\ j \in CfTmplIds(cfOp.tmpl) => CfIn(j, cfOp'.created) \/ j \in cfOp'.todo \cup cfOp'.cur
               /\ j \in cfOp'.todo \cup cfOp'.cur => j \in CfTmplIds(cfOp.tmpl) /\ ~CfIn(j, cfOp'.created)
    <3>1. /\ j \in CfTmplIds(cfOp.tmpl) => CfIn(j, cfOp.created) \/ j \in cfOp.todo \cup cfOp.cur
          /\ j \in cfOp.todo \cup cfOp.cur => j \in CfTmplIds(cfOp.tmpl) /\ ~CfIn(j, cfOp.created)
      BY <1>1, <1>2 DEF CfToDo
    <3> QED BY <1>1, <1>3, <1>9, <1>16, <3>1
  <2> QED BY <1>4, <1>9, <2>1 DEF CfToDo, CfIn, CfTmplIds
<1> QED BY <1>9, <1>18, <1>19, <1>21, <1>26, <1>27, CfCalmIn DEF CfDeployPcs

(* A service refused, and a provider may have changed the resource of i.    *)
LEMMA CfFailsCalm ==
  ASSUME CfAlways, CfAlways', CfCalm, cfUndone = "no", NEW i \in CfIds, NEW partly \in BOOLEAN, CfFails(i, partly)
  PROVE  CfCalm'
<1>0. /\ cfStack \in CfStackRecord /\ cfOp \in CfOpRecord /\ cfOp.tmpl \in CfTmpl /\ cfOp.want \in CfRec
      /\ cfOp.created \in Seq(CfIds) /\ cfOp.replaced \in Seq(CfIds \X CfPids)
      /\ cfWorld \in [CfPids -> [there : BOOLEAN, ver : Nat, needs : SUBSET CfPids]]
  BY CfFields DEF CfAlways, CfShapes
<1>1. cfOp.pc = "busy" /\ cfOp.cur = {i} BY DEF CfFails
<1>2. CfToDo /\ CfBuilt /\ cfDel.pc = "idle" /\ cfStack.status \in CfWorking BY <1>1 DEF CfCalm, CfStages, CfDeployPcs
<1>3. cfOp.want.pid = cfOp.prevRes[i].pid BY <1>1, CfNextPid
<1>4. /\ ~CfIn(i, cfOp.created) /\ cfOp.tried = <<>>
      /\ \A q \in cfOp.want.needs : \E l \in DOMAIN cfOp.created : cfStack.res[cfOp.created[l]].pid = q
  BY <1>1, <1>2 DEF CfToDo
<1>6. cfStack.res[i] = cfOp.prevRes[i] BY <1>2, <1>4 DEF CfBuilt, CfChanged
<1>9. /\ cfOp'.pc = "failed" /\ cfOp'.tried = IF partly THEN <<i>> ELSE <<>>
      /\ UNCHANGED <<cfOp.update, cfOp.tmpl, cfOp.prevRes, cfOp.prevTmpl, cfOp.created, cfOp.replaced>>
  BY <1>0 DEF CfFails, CfOpRecord
<1>10. UNCHANGED <<cfStack, cfTold, cfDel>> BY DEF CfFails
<1> DEFINE p == cfOp.prevRes[i].pid
<1>11. IF partly THEN p \in CfPids /\ p > 0 /\ cfWorld[p].there /\ cfWorld' = [cfWorld EXCEPT ![p] = CfProps(cfOp.want)]
                 ELSE UNCHANGED cfWorld
  <2>1. (p > 0) <=> (p \in CfPids) BY CfDistinct
  <2> QED BY <1>3, <2>1 DEF CfFails
<1> HIDE DEF p
<1>12. /\ \A q \in CfPids : q # p \/ ~partly => cfWorld'[q] = cfWorld[q]
       /\ \A q \in CfPids : cfWorld[q].there <=> cfWorld'[q].there
       /\ partly => cfWorld'[p].needs = cfOp.want.needs
  <2>1. CASE partly
    <3>1. \A q \in CfPids : cfWorld'[q] = IF q = p THEN CfProps(cfOp.want) ELSE cfWorld[q] BY <1>0, <1>11, <2>1
    <3>2. CfProps(cfOp.want).there /\ CfProps(cfOp.want).needs = cfOp.want.needs BY DEF CfProps
    <3> QED BY <1>11, <2>1, <3>1, <3>2
  <2>2. CASE ~partly BY <1>11, <2>2
  <2> QED BY <2>1, <2>2
<1>14. \A j \in CfIds : j # i /\ partly => cfStack.res[j].pid # p /\ cfOp.prevRes[j].pid # p
  BY <1>11, CfDistinct DEF p
<1>17. \A j \in CfIds : /\ (cfStack.res[j].pid > 0) <=> (cfStack.res[j].pid \in CfPids)
                        /\ (cfOp.prevRes[j].pid > 0) <=> (cfOp.prevRes[j].pid \in CfPids)
  BY CfDistinct
<1>18. CfStages' BY <1>2, <1>9, <1>10 DEF CfCalm, CfStages
<1>19. CfAccounted' BY <1>1, <1>9, <1>10, <1>12 DEF CfCalm, CfAccounted, CfThere, CfDeployPcs
<1>20. \A q \in cfOp.want.needs : cfWorld[q].there
  <2> TAKE q \in cfOp.want.needs
  <2>1. PICK l \in DOMAIN cfOp.created : cfStack.res[cfOp.created[l]].pid = q BY <1>4
  <2>2. CfTrue(cfStack.res[cfOp.created[l]]) BY <1>2 DEF CfBuilt, CfCreated
  <2> QED BY <2>1, <2>2 DEF CfTrue, CfProps
<1>21. CfDependentsFirst'
  <2> SUFFICES ASSUME NEW q \in CfPids, cfWorld'[q].there
               PROVE  \/ \A n \in cfWorld'[q].needs : cfWorld'[n].there
                      \/ q \in cfTold
                      \/ \E j \in CfIds : q = cfStack.pending[j].to.pid
    BY <1>10 DEF CfDependentsFirst
  <2>1. cfOp.want.needs \in SUBSET CfPids BY <1>0 DEF CfRec
  <2>2. CASE partly /\ q = p BY <1>12, <1>20, <2>1, <2>2
  <2>3. CASE q # p \/ ~partly
    <3>1. cfWorld'[q] = cfWorld[q] /\ cfWorld[q].needs \in SUBSET CfPids /\ cfWorld[q].there BY <1>0, <1>12, <2>3
    <3>2. \A n \in CfPids : ~CfSuperseded(q, n) BY <1>1 DEF CfSuperseded
    <3>3. \/ \A n \in cfWorld[q].needs : cfWorld[n].there
          \/ q \in cfTold
          \/ \E j \in CfIds : q = cfStack.pending[j].to.pid
      BY <3>1, <3>2 DEF CfCalm, CfDependentsFirst
    <3> QED BY <1>12, <3>1, <3>3
  <2> QED BY <2>2, <2>3
<1>22. CfPrevious'
  <2> SUFFICES ASSUME NEW j \in CfIds, cfOp.prevRes[j].pid > 0
               PROVE  /\ cfWorld'[cfOp.prevRes[j].pid].there
                      /\ cfOp.prevRes[j].pid \in cfTold \/ CfLinked(cfOp.prevRes, cfOp.prevTmpl, j)
    BY <1>9, <1>10 DEF CfPrevious, CfThere, CfLinked
  <2> QED BY <1>2, <1>12, <1>17 DEF CfBuilt, CfPrevious, CfThere
<1>15. \A j \in CfIds : CfIn(j, cfOp'.tried) <=> (partly /\ j = i)
  <2>1. CASE partly BY <1>9, <2>1 DEF CfIn
  <2>2. CASE ~partly BY <1>9, <2>2 DEF CfIn
  <2> QED BY <2>1, <2>2
<1>23. CfChanged'
  <2>1. ASSUME NEW j \in CfIds, cfOp.prevRes[j].pid > 0
        PROVE  \/ cfOp.prevRes[j].pid \in cfTold \/ cfWorld'[cfOp.prevRes[j].pid] = CfProps(cfOp.prevRes[j])
               \/ CfIn(j, cfOp'.tried)
               \/ /\ CfIn(j, cfOp.created)
                  /\ cfOp.prevRes[j].pid = cfStack.res[j].pid /\ cfStack.res[j] # cfOp.prevRes[j]
    <3>1. \/ cfOp.prevRes[j].pid \in cfTold \/ cfWorld[cfOp.prevRes[j].pid] = CfProps(cfOp.prevRes[j])
          \/ /\ CfIn(j, cfOp.created)
             /\ cfOp.prevRes[j].pid = cfStack.res[j].pid /\ cfStack.res[j] # cfOp.prevRes[j]
      BY <1>2, <1>4, <2>1 DEF CfBuilt, CfChanged, CfTrue, CfIn, CfToRevert, CfInPlace
    <3>2. CASE j # i \/ ~partly BY <1>12, <1>14, <1>17, <2>1, <3>1, <3>2
    <3>3. CASE j = i /\ partly BY <1>15, <3>3
    <3> QED BY <3>2, <3>3
  <2>2. ASSUME NEW j \in CfIds PROVE CfIn(j, cfOp.created) \/ cfStack.res[j] = cfOp.prevRes[j]
    BY <1>2 DEF CfBuilt, CfChanged
  <2>3. ASSUME NEW j \in CfIds, CfIn(j, cfOp'.tried)
        PROVE  cfOp.prevRes[j].pid > 0 /\ cfStack.res[j] = cfOp.prevRes[j] /\ ~CfIn(j, cfOp.created)
    BY <1>4, <1>6, <1>11, <1>15, <2>3, Zenon DEF p
  <2> QED BY <1>9, <1>10, <2>1, <2>2, <2>3 DEF CfChanged, CfTrue, CfProps, CfIn, CfToRevert, CfInPlace
<1>24. CfCreated'
  <2>1. ASSUME NEW k \in DOMAIN cfOp.created
        PROVE  cfWorld'[cfStack.res[cfOp.created[k]].pid] = cfWorld[cfStack.res[cfOp.created[k]].pid]
    <3>1. cfOp.created[k] # i /\ cfOp.created[k] \in CfIds BY <1>0, <1>4 DEF CfIn
    <3>2. cfStack.res[cfOp.created[k]].pid > 0 BY <1>2 DEF CfBuilt, CfCreated
    <3> QED BY <1>12, <1>14, <1>17, <3>1, <3>2
  <2>2. CfCreated BY <1>2 DEF CfBuilt
  <2> SUFFICES ASSUME NEW k \in DOMAIN cfOp'.created
               PROVE  LET x == cfOp'.created[k] IN
                      /\ x \in CfTmplIds(cfOp'.tmpl) /\ cfStack'.res[x].pid > 0
                      /\ cfWorld'[cfStack'.res[x].pid] = CfProps(cfStack'.res[x])
                      /\ \A q \in cfStack'.res[x].needs : \E l \in 1..(k - 1) :
                           <<x, cfOp'.created[l]>> \in cfOp'.tmpl.deps /\ cfStack'.res[cfOp'.created[l]].pid = q
                      /\ \/ cfOp'.prevRes[x].pid \in {0, cfStack'.res[x].pid}
                         \/ CfIn(<<x, cfOp'.prevRes[x].pid>>, cfOp'.replaced)
                      /\ \A l \in DOMAIN cfOp'.created : cfOp'.created[l] = x => l = k
    BY DEF CfCreated, CfTrue, CfProps, CfIn, CfTmplIds
  <2>3. k \in DOMAIN cfOp.created BY <1>9
  <2>4. LET x == cfOp.created[k] IN
        /\ x \in CfTmplIds(cfOp.tmpl) /\ cfStack.res[x].pid > 0
        /\ cfWorld[cfStack.res[x].pid] = CfProps(cfStack.res[x])
        /\ \A q \in cfStack.res[x].needs : \E l \in 1..(k - 1) :
             <<x, cfOp.created[l]>> \in cfOp.tmpl.deps /\ cfStack.res[cfOp.created[l]].pid = q
        /\ \/ cfOp.prevRes[x].pid \in {0, cfStack.res[x].pid}
           \/ CfIn(<<x, cfOp.prevRes[x].pid>>, cfOp.replaced)
        /\ \A l \in DOMAIN cfOp.created : cfOp.created[l] = x => l = k
    BY <2>2, <2>3 DEF CfCreated, CfTrue
  <2>5. cfOp'.created = cfOp.created /\ cfStack'.res = cfStack.res /\ cfOp'.tmpl = cfOp.tmpl
        /\ cfOp'.prevRes = cfOp.prevRes /\ cfOp'.replaced = cfOp.replaced
    BY <1>9, <1>10
  <2>6. cfWorld'[cfStack.res[cfOp.created[k]].pid] = cfWorld[cfStack.res[cfOp.created[k]].pid] BY <2>1, <2>3
  <2> QED BY <2>4, <2>5, <2>6
<1>25. CfSupplanted' BY <1>2, <1>9, <1>10 DEF CfBuilt, CfSupplanted, CfIn
<1>26. CfBuilt' BY <1>2, <1>9, <1>10, <1>22, <1>23, <1>24, <1>25 DEF CfBuilt
<1>27. CfToDo' BY <1>9 DEF CfToDo
<1> QED BY <1>9, <1>18, <1>19, <1>21, <1>26, <1>27, CfCalmIn DEF CfDeployPcs

(* The outputs resolve, and the cleanup begins; or they do not.             *)
LEMMA CfOutputsCalm ==
  ASSUME CfAlways, CfCalm, cfUndone = "no", CfOutputs(TRUE)
  PROVE  CfCalm'
<1>0. cfOp \in CfOpRecord /\ cfOp.created \in Seq(CfIds) BY CfFields DEF CfAlways, CfShapes
<1>1. cfOp.pc = "next" /\ cfOp.todo = {} /\ cfOp.cur = {} BY DEF CfOutputs, CfAlways, CfAtWork
<1>2. CfToDo /\ CfBuilt /\ cfDel.pc = "idle" /\ cfStack.status \in CfWorking BY <1>1 DEF CfCalm, CfStages, CfDeployPcs
<1>3. UNCHANGED <<cfStack, cfWorld, cfTold, cfDel>> BY DEF CfOutputs
<1>4. cfOp'.pc = "clean" /\ UNCHANGED <<cfOp.update, cfOp.tmpl, cfOp.prevRes, cfOp.prevTmpl, cfOp.replaced, cfOp.todo>>
  BY <1>0 DEF CfOutputs, CfOpRecord
<1>5. \A i \in CfIds : (i \in CfTmplIds(cfOp.tmpl)) <=> CfIn(i, cfOp.created)
  <2>1. \A i \in CfIds : i \in CfTmplIds(cfOp.tmpl) => CfIn(i, cfOp.created) BY <1>1, <1>2 DEF CfToDo
  <2>2. \A i \in CfIds : CfIn(i, cfOp.created) => i \in CfTmplIds(cfOp.tmpl) BY <1>2 DEF CfIn, CfBuilt, CfCreated
  <2> QED BY <2>1, <2>2
<1>6. cfOp.tried = <<>> /\ \A i \in CfIds : ~CfIn(i, cfOp.tried)
  <2>1. cfOp.tried = <<>> BY <1>1, <1>2 DEF CfToDo
  <2> QED BY <2>1 DEF CfIn
<1>7. ASSUME NEW i \in CfTmplIds(cfOp.tmpl)
      PROVE  /\ cfStack.res[i].pid > 0 /\ CfThere(cfStack.res[i].pid)
             /\ CfTrue(cfStack.res[i]) /\ CfLinked(cfStack.res, cfOp.tmpl, i)
             /\ cfOp.prevRes[i].pid \in {0, cfStack.res[i].pid} \/ CfIn(<<i, cfOp.prevRes[i].pid>>, cfOp.replaced)
  <2>1. i \in CfIds BY DEF CfTmplIds
  <2>2. PICK k \in DOMAIN cfOp.created : cfOp.created[k] = i BY <1>5, <2>1 DEF CfIn
  <2>3. /\ cfStack.res[i].pid > 0 /\ CfTrue(cfStack.res[i])
        /\ \A q \in cfStack.res[i].needs :
             \E l \in 1..(k - 1) : <<i, cfOp.created[l]>> \in cfOp.tmpl.deps /\ cfStack.res[cfOp.created[l]].pid = q
        /\ cfOp.prevRes[i].pid \in {0, cfStack.res[i].pid} \/ CfIn(<<i, cfOp.prevRes[i].pid>>, cfOp.replaced)
    BY <1>2, <2>2 DEF CfBuilt, CfCreated
  <2>4. \A l \in 1..(k - 1) : cfOp.created[l] \in CfIds
    <3>1. k \in 1..Len(cfOp.created) /\ Len(cfOp.created) \in Nat BY <1>0, <2>2
    <3>2. \A l \in 1..(k - 1) : l \in 1..Len(cfOp.created) BY <3>1
    <3> QED BY <1>0, <3>2
  <2>5. CfLinked(cfStack.res, cfOp.tmpl, i) BY <2>3, <2>4 DEF CfLinked
  <2> QED BY <2>3, <2>5 DEF CfThere, CfTrue, CfProps
<1>8. ASSUME NEW i \in CfIds \ CfTmplIds(cfOp.tmpl)
      PROVE  /\ cfStack.res[i] = cfOp.prevRes[i]
             /\ cfStack.res[i].pid > 0 =>
                  /\ CfThere(cfStack.res[i].pid)
                  /\ cfStack.res[i].pid \in cfTold \/ (CfTrue(cfOp.prevRes[i]) /\ CfLinked(cfOp.prevRes, cfOp.prevTmpl, i))
  <2>1. cfStack.res[i] = cfOp.prevRes[i] BY <1>2, <1>5 DEF CfBuilt, CfChanged
  <2>2. cfOp.prevRes[i].pid > 0 => cfOp.prevRes[i].pid \in cfTold \/ CfTrue(cfOp.prevRes[i])
    BY <1>2, <1>5, <1>6 DEF CfBuilt, CfChanged
  <2>3. cfOp.prevRes[i].pid > 0 => /\ CfThere(cfOp.prevRes[i].pid)
                                   /\ cfOp.prevRes[i].pid \in cfTold \/ CfLinked(cfOp.prevRes, cfOp.prevTmpl, i)
    BY <1>2 DEF CfBuilt, CfPrevious
  <2> QED BY <2>1, <2>2, <2>3
<1>9. ASSUME NEW k \in DOMAIN cfOp.replaced
      PROVE  /\ cfOp.replaced[k][1] \in CfTmplIds(cfOp.tmpl)
             /\ cfStack.res[cfOp.replaced[k][1]].pid # cfOp.prevRes[cfOp.replaced[k][1]].pid
  <2>1. /\ CfIn(cfOp.replaced[k][1], cfOp.created)
        /\ cfStack.res[cfOp.replaced[k][1]].pid # cfOp.prevRes[cfOp.replaced[k][1]].pid
    BY <1>2 DEF CfBuilt, CfSupplanted
  <2>2. cfOp.replaced[k][1] \in CfIds BY <1>0, <2>1 DEF CfIn
  <2> QED BY <1>5, <2>1, <2>2
<1>10. CfCleaning
  <2>1. \A i \in CfIds : cfStack.pending[i].kind = "no" BY <1>2 DEF CfBuilt
  <2> QED BY <1>1, <1>7, <1>8, <1>9, <2>1 DEF CfCleaning, CfKept, CfLeaving, CfSwapped, CfGoing
<1>11. CfCleaning'
  <2>1. CfKept' BY <1>3, <1>4, <1>10 DEF CfCleaning, CfKept, CfThere, CfTrue, CfProps, CfLinked, CfTmplIds
  <2>2. CfLeaving' BY <1>3, <1>4, <1>8 DEF CfLeaving, CfThere, CfTrue, CfProps, CfLinked, CfTmplIds
  <2>3. CfSwapped' BY <1>3, <1>4, <1>9 DEF CfSwapped, CfTmplIds
  <2>4. CfGoing' BY <1>4 DEF CfGoing
  <2> QED BY <1>3, <1>10, <2>1, <2>2, <2>3, <2>4 DEF CfCleaning
<1>12. CfAccounted'
  <2> SUFFICES ASSUME NEW q \in CfPids, cfWorld[q].there
               PROVE  \/ q \in cfTold
                      \/ \E j \in CfIds : q = cfStack.res[j].pid
                      \/ \E k \in DOMAIN cfOp.replaced : q = cfOp.replaced[k][2]
    BY <1>3, <1>4 DEF CfAccounted, CfThere
  <2>1. \/ q \in cfTold
        \/ \E j \in CfIds : q = cfStack.res[j].pid
        \/ \E j \in CfIds : q = cfOp.prevRes[j].pid
    BY <1>1 DEF CfCalm, CfAccounted, CfThere
  <2>2. ASSUME NEW j \in CfIds, q = cfOp.prevRes[j].pid
        PROVE  q = cfStack.res[j].pid \/ \E k \in DOMAIN cfOp.replaced : q = cfOp.replaced[k][2]
    <3>1. CASE j \in CfTmplIds(cfOp.tmpl)
      <4>1. q = cfStack.res[j].pid \/ CfIn(<<j, q>>, cfOp.replaced) BY <1>7, <2>2, <3>1, CfPidsIs
      <4> QED BY <4>1 DEF CfIn
    <3> QED BY <1>8, <2>2, <3>1
  <2> QED BY <2>1, <2>2
<1>13. CfDependentsFirst'
  <2>1. \A p, q \in CfPids : ~CfSuperseded(p, q) BY <1>1 DEF CfSuperseded
  <2>2. cfWorld \in [CfPids -> [there : BOOLEAN, ver : Nat, needs : SUBSET CfPids]] BY DEF CfAlways, CfShapes
  <2>3. \A p \in CfPids : cfWorld[p].there =>
          \/ \A q \in cfWorld[p].needs : cfWorld[q].there
          \/ p \in cfTold
          \/ \E i \in CfIds : p = cfStack.pending[i].to.pid
    BY <2>1, <2>2 DEF CfCalm, CfDependentsFirst
  <2> QED BY <1>3, <2>3 DEF CfDependentsFirst
<1>14. CfStages' BY <1>2, <1>3, <1>4 DEF CfCalm, CfStages
<1> QED BY <1>4, <1>11, <1>12, <1>13, <1>14, CfCalmIn

(* The predecessor of i is gone, or an event told that it stays.            *)
LEMMA CfCleanReplacedCalm ==
  ASSUME CfAlways, CfCalm, cfUndone = "no", NEW ok \in BOOLEAN, CfCleanReplaced(ok)
  PROVE  CfCalm'
<1>0. /\ cfOp \in CfOpRecord /\ cfOp.replaced \in Seq(CfIds \X CfPids)
      /\ cfWorld \in [CfPids -> [there : BOOLEAN, ver : Nat, needs : SUBSET CfPids]] /\ cfTold \in SUBSET CfPids
  BY CfFields DEF CfAlways, CfShapes
<1>1. cfOp.pc = "clean" /\ cfOp.replaced # <<>> BY DEF CfCleanReplaced
<1>2. CfCleaning /\ cfDel.pc = "idle" /\ cfStack.status \in CfWorking BY <1>1 DEF CfCalm, CfStages
<1> DEFINE n == Len(cfOp.replaced)
           i == cfOp.replaced[n][1]
           old == cfOp.replaced[n][2]
<1>3. /\ n \in Nat \ {0} /\ DOMAIN cfOp.replaced = 1..n /\ DOMAIN Front(cfOp.replaced) = 1..(n - 1)
      /\ Last(cfOp.replaced) = cfOp.replaced[n] /\ \A k \in 1..(n - 1) : Front(cfOp.replaced)[k] = cfOp.replaced[k]
  BY <1>0, <1>1, CfFrontIs
<1>4. n \in DOMAIN cfOp.replaced BY <1>3
<1>5. i \in CfIds /\ old \in CfPids /\ old = cfOp.prevRes[i].pid BY <1>0, <1>4 DEF CfAlways, CfAtWork
<1>6. i \in CfTmplIds(cfOp.tmpl) /\ cfStack.res[i].pid # old BY <1>2, <1>4, <1>5 DEF CfCleaning, CfSwapped
<1>7. /\ cfOp'.pc = "clean" /\ cfOp'.replaced = Front(cfOp.replaced)
      /\ UNCHANGED <<cfOp.update, cfOp.tmpl, cfOp.prevRes, cfOp.prevTmpl, cfOp.todo>>
  BY <1>0, <1>1 DEF CfCleanReplaced, CfOpRecord
<1>8. \/ cfWorld' = [cfWorld EXCEPT ![old] = CfGone] /\ UNCHANGED cfTold
      \/ cfTold' = cfTold \cup {old} /\ UNCHANGED cfWorld
  BY <1>3, <1>5, CfPidsIs DEF CfCleanReplaced, CfDestroy, CfTell
<1>9. UNCHANGED <<cfStack, cfDel>> BY DEF CfCleanReplaced
<1> HIDE DEF n, i, old
<1>10. /\ \A q \in CfPids : q # old => cfWorld'[q] = cfWorld[q]
       /\ \A q \in CfPids : cfWorld'[q].there => cfWorld[q].there /\ cfWorld'[q] = cfWorld[q]
       /\ cfTold \subseteq cfTold' /\ (cfWorld'[old].there => old \in cfTold')
  BY <1>0, <1>5, <1>8 DEF CfGone
<1>11. \A j \in CfIds : /\ cfStack.res[j].pid # old
                        /\ j \notin CfTmplIds(cfOp.tmpl) => cfOp.prevRes[j].pid # old
                        /\ (cfStack.res[j].pid > 0) <=> (cfStack.res[j].pid \in CfPids)
  BY <1>5, <1>6, CfDistinct
<1>12. \A j \in CfIds : cfStack.res[j].pid > 0 => cfWorld'[cfStack.res[j].pid] = cfWorld[cfStack.res[j].pid]
  BY <1>10, <1>11
<1>13. CfCleaning'
  <2>1. \A j \in CfTmplIds(cfOp.tmpl) : j \in CfIds BY DEF CfTmplIds
  <2>2. \A j \in CfIds : cfStack.pending[j].kind = "no" BY <1>2 DEF CfCleaning
  <2>3. ASSUME NEW j \in CfTmplIds(cfOp.tmpl)
        PROVE  /\ cfStack.res[j].pid > 0 /\ cfWorld'[cfStack.res[j].pid].there
               /\ \/ cfStack.res[j].pid \in cfTold'
                  \/ /\ cfWorld'[cfStack.res[j].pid] = CfProps(cfStack.res[j])
                     /\ CfLinked(cfStack.res, cfOp.tmpl, j)
    BY <1>2, <1>10, <1>12, <2>1 DEF CfCleaning, CfKept, CfThere, CfTrue
  <2>4. ASSUME NEW j \in CfIds \ CfTmplIds(cfOp.tmpl)
        PROVE  /\ cfStack.res[j] = cfOp.prevRes[j]
               /\ cfStack.res[j].pid > 0 =>
                    /\ cfWorld'[cfStack.res[j].pid].there
                    /\ \/ cfStack.res[j].pid \in cfTold'
                       \/ /\ cfWorld'[cfOp.prevRes[j].pid] = CfProps(cfOp.prevRes[j])
                          /\ CfLinked(cfOp.prevRes, cfOp.prevTmpl, j)
    BY <1>1, <1>2, <1>10, <1>12 DEF CfCleaning, CfLeaving, CfThere, CfTrue
  <2>5. ASSUME NEW k \in DOMAIN cfOp'.replaced
        PROVE  /\ cfOp'.replaced[k][1] \in CfTmplIds(cfOp.tmpl)
               /\ cfStack.res[cfOp'.replaced[k][1]].pid # cfOp.prevRes[cfOp'.replaced[k][1]].pid
    <3>1. k \in 1..(n - 1) /\ cfOp'.replaced[k] = cfOp.replaced[k] BY <1>3, <1>7, <2>5, Zenon
    <3>2. k \in 1..n BY <1>3, <3>1
    <3>3. k \in DOMAIN cfOp.replaced BY <1>3, <3>2, Zenon
    <3> QED BY <1>2, <3>1, <3>3 DEF CfCleaning, CfSwapped
  <2>6. CfKept' BY <1>7, <1>9, <2>3 DEF CfKept, CfThere, CfTrue, CfProps, CfLinked, CfTmplIds
  <2>7. CfLeaving' BY <1>7, <1>9, <2>4 DEF CfLeaving, CfThere, CfTrue, CfProps, CfLinked, CfTmplIds
  <2>8. CfSwapped' BY <1>7, <1>9, <2>5 DEF CfSwapped, CfTmplIds
  <2>9. CfGoing' BY <1>7 DEF CfGoing
  <2> QED BY <1>9, <2>2, <2>6, <2>7, <2>8, <2>9 DEF CfCleaning
<1>14. \A q \in CfPids : cfWorld[q].there =>
         \/ q \in cfTold
         \/ \E j \in CfIds : q = cfStack.res[j].pid
         \/ \E k \in DOMAIN cfOp.replaced : q = cfOp.replaced[k][2]
  BY <1>1 DEF CfCalm, CfAccounted, CfThere, CfDeployPcs
<1>15. CfAccounted'
  <2> SUFFICES ASSUME NEW q \in CfPids, cfWorld'[q].there
               PROVE  \/ q \in cfTold'
                      \/ \E j \in CfIds : q = cfStack.res[j].pid
                      \/ \E k \in DOMAIN cfOp'.replaced : q = cfOp'.replaced[k][2]
    BY <1>7, <1>9 DEF CfAccounted, CfThere
  <2>1. ASSUME NEW k \in DOMAIN cfOp.replaced, q = cfOp.replaced[k][2]
        PROVE  q \in cfTold' \/ \E m \in DOMAIN cfOp'.replaced : q = cfOp'.replaced[m][2]
    <3>1. k = n \/ (k \in DOMAIN cfOp'.replaced /\ cfOp'.replaced[k] = cfOp.replaced[k]) BY <1>3, <1>7
    <3>2. k = n => q = old BY <2>1 DEF old
    <3> QED BY <1>10, <2>1, <3>1, <3>2
  <2> QED BY <1>10, <1>14, <2>1
<1>16. CfDependentsFirst'
  <2>1. \A p, q \in CfPids : CfSuperseded(p, q) => CfSuperseded(p, q)' BY <1>1, <1>7, <1>9 DEF CfSuperseded, CfTmplIds
  <2> SUFFICES ASSUME NEW p \in CfPids, cfWorld'[p].there, p \notin cfTold', NEW q \in cfWorld'[p].needs,
                      \A j \in CfIds : p # cfStack.pending[j].to.pid
               PROVE  cfWorld'[q].there \/ CfSuperseded(p, q)'
    BY <1>9 DEF CfDependentsFirst
  <2>2. cfWorld[p].there /\ cfWorld'[p] = cfWorld[p] /\ p \notin cfTold /\ q \in cfWorld[p].needs /\ q \in CfPids
    BY <1>0, <1>10
  <2>3. cfWorld[q].there \/ CfSuperseded(p, q) BY <2>2 DEF CfCalm, CfDependentsFirst
  <2>4. CASE q # old BY <1>10, <2>1, <2>2, <2>3, <2>4
  <2>5. CASE q = old
    <3>1. ASSUME NEW j \in CfIds, p = cfOp.prevRes[j].pid, p # cfStack.res[j].pid \/ j \notin CfTmplIds(cfOp.tmpl)
          PROVE  CfSuperseded(p, q)
      BY <1>1, <1>5, <1>6, <2>5, <3>1, Zenon DEF CfSuperseded
    <3>2. ASSUME NEW k \in DOMAIN cfOp.replaced, p = cfOp.replaced[k][2] PROVE CfSuperseded(p, q)
      <4>1. cfOp.replaced[k][1] \in CfIds /\ p = cfOp.prevRes[cfOp.replaced[k][1]].pid
        BY <1>0, <3>2 DEF CfAlways, CfAtWork
      <4>2. cfStack.res[cfOp.replaced[k][1]].pid # p BY <1>2, <4>1 DEF CfCleaning, CfSwapped
      <4> QED BY <3>1, <4>1, <4>2
    <3>3. ASSUME NEW j \in CfIds, p = cfStack.res[j].pid PROVE CfSuperseded(p, q)
      <4>1. CASE j \in CfTmplIds(cfOp.tmpl)
        <5>1. CfTrue(cfStack.res[j]) /\ CfLinked(cfStack.res, cfOp.tmpl, j)
          BY <1>2, <2>2, <3>3, <4>1 DEF CfCleaning, CfKept
        <5>2. q \in cfStack.res[j].needs BY <2>2, <3>3, <5>1 DEF CfTrue, CfProps
        <5> QED BY <1>11, <2>5, <5>1, <5>2 DEF CfLinked
      <4>2. CASE j \notin CfTmplIds(cfOp.tmpl)
        <5>1. cfStack.res[j] = cfOp.prevRes[j] BY <1>1, <1>2, <4>2 DEF CfCleaning, CfLeaving
        <5> QED BY <3>1, <3>3, <4>2, <5>1
      <4> QED BY <4>1, <4>2
    <3> QED BY <1>14, <2>1, <2>2, <3>2, <3>3
  <2> QED BY <2>4, <2>5
<1>17. CfStages' BY <1>1, <1>2, <1>7, <1>9 DEF CfCalm, CfStages
<1> QED BY <1>7, <1>13, <1>15, <1>16, <1>17, CfCalmIn

(* The predecessors are gone: what the template left out is next.           *)
LEMMA CfCleanedCalm ==
  ASSUME CfAlways, CfCalm, cfUndone = "no", CfCleaned
  PROVE  CfCalm'
<1>0. cfOp \in CfOpRecord BY CfFields DEF CfAlways, CfShapes
<1>1. cfOp.pc = "clean" /\ cfOp.replaced = <<>> BY DEF CfCleaned
<1>2. CfCleaning /\ cfDel.pc = "idle" /\ cfStack.status \in CfWorking BY <1>1 DEF CfCalm, CfStages
<1>3. UNCHANGED <<cfStack, cfWorld, cfTold, cfDel>> BY DEF CfCleaned
<1>4. /\ cfOp'.pc = "remove" /\ UNCHANGED <<cfOp.tmpl, cfOp.prevRes, cfOp.prevTmpl, cfOp.replaced>>
      /\ cfOp'.todo = IF cfOp.update THEN CfHeld(cfOp.prevRes) \ CfTmplIds(cfOp.tmpl) ELSE {}
  BY <1>0 DEF CfCleaned, CfOpRecord
<1>5. ~cfOp.update => \A i \in CfIds : cfOp.prevRes[i].pid = 0 BY DEF CfAlways, CfAtWork, CfNoRes, CfNoRec
<1>6. \A i \in CfIds \ CfTmplIds(cfOp.tmpl) : cfStack.res[i].pid > 0 => i \in cfOp'.todo
  <2> SUFFICES ASSUME NEW i \in CfIds \ CfTmplIds(cfOp.tmpl), cfStack.res[i].pid > 0 PROVE i \in cfOp'.todo OBVIOUS
  <2>1. cfStack.res[i] = cfOp.prevRes[i] BY <1>2 DEF CfCleaning, CfLeaving
  <2>2. cfOp.update BY <1>5, <2>1
  <2> QED BY <1>4, <2>1, <2>2 DEF CfHeld
<1>7. CfCleaning'
  <2>1. CfKept' BY <1>2, <1>3, <1>4 DEF CfCleaning, CfKept, CfThere, CfTrue, CfProps, CfLinked, CfTmplIds
  <2>2. CfLeaving'
    BY <1>2, <1>3, <1>4, <1>6 DEF CfCleaning, CfLeaving, CfThere, CfTrue, CfProps, CfLinked, CfTmplIds
  <2>3. CfSwapped' BY <1>2, <1>3, <1>4 DEF CfCleaning, CfSwapped, CfTmplIds
  <2>4. CfGoing'
    <3>1. \A i \in cfOp'.todo : i \in CfIds \ CfTmplIds(cfOp.tmpl) /\ cfOp.prevRes[i].pid > 0 BY <1>4 DEF CfHeld
    <3>2. \A i \in CfIds \ CfTmplIds(cfOp.tmpl) : cfStack.res[i] = cfOp.prevRes[i]
      BY <1>1, <1>2 DEF CfCleaning, CfLeaving
    <3> QED BY <1>3, <1>4, <3>1, <3>2 DEF CfGoing, CfTmplIds
  <2> QED BY <1>2, <1>3, <2>1, <2>2, <2>3, <2>4 DEF CfCleaning
<1>8. CfAccounted' BY <1>1, <1>3, <1>4 DEF CfCalm, CfAccounted, CfThere, CfDeployPcs
<1>9. CfDependentsFirst'
  <2>1. \A p, q \in CfPids : CfSuperseded(p, q) => CfSuperseded(p, q)' BY <1>1, <1>3, <1>4 DEF CfSuperseded, CfTmplIds
  <2>2. cfWorld \in [CfPids -> [there : BOOLEAN, ver : Nat, needs : SUBSET CfPids]] BY DEF CfAlways, CfShapes
  <2> SUFFICES ASSUME NEW p \in CfPids, cfWorld[p].there, p \notin cfTold, NEW q \in cfWorld[p].needs,
                      \A j \in CfIds : p # cfStack.pending[j].to.pid
               PROVE  cfWorld[q].there \/ CfSuperseded(p, q)'
    BY <1>3 DEF CfDependentsFirst
  <2>3. cfWorld[q].there \/ CfSuperseded(p, q) BY DEF CfCalm, CfDependentsFirst
  <2>4. q \in CfPids BY <2>2
  <2> QED BY <2>1, <2>3, <2>4
<1>10. CfStages' BY <1>2, <1>3, <1>4 DEF CfCalm, CfStages
<1> QED BY <1>4, <1>7, <1>8, <1>9, <1>10, CfCalmIn

(* The update or create is complete: what the stack records is what is.     *)
LEMMA CfCompleteCalm ==
  ASSUME CfAlways, CfCalm, cfUndone = "no", CfComplete
  PROVE  CfCalm'
<1>0. cfOp \in CfOpRecord /\ cfStack \in CfStackRecord /\ cfOp.tmpl \in CfTmpl /\ cfOp.update \in BOOLEAN
  BY CfFields DEF CfAlways, CfShapes
<1>1. cfOp.pc = "remove" /\ cfOp.todo = {} BY DEF CfComplete
<1>2. CfCleaning /\ cfDel.pc = "idle" /\ cfStack.status \in CfWorking BY <1>1 DEF CfCalm, CfStages
<1>3. UNCHANGED <<cfWorld, cfTold, cfDel>> /\ cfOp'.pc = "idle" BY DEF CfComplete, CfIdle
<1>4. /\ cfStack'.tmpl = cfOp.tmpl /\ cfStack'.status \in {"UPDATE_COMPLETE", "CREATE_COMPLETE"}
      /\ UNCHANGED <<cfStack.res, cfStack.pending>>
  BY <1>0 DEF CfComplete, CfStackRecord
<1>5. ASSUME NEW i \in CfIds, cfStack.res[i].pid > 0
      PROVE  /\ CfThere(cfStack.res[i].pid)
             /\ cfStack.res[i].pid \in cfTold \/ (CfTrue(cfStack.res[i]) /\ CfLinked(cfStack.res, cfOp.tmpl, i))
  <2>1. CASE i \in CfTmplIds(cfOp.tmpl) BY <1>2, <2>1 DEF CfCleaning, CfKept
  <2>2. CASE i \notin CfTmplIds(cfOp.tmpl) BY <1>1, <1>2, <1>5, <2>2 DEF CfCleaning, CfLeaving
  <2> QED BY <2>1, <2>2
<1>6. \A i \in CfIds : cfStack.pending[i].kind = "no" BY <1>2 DEF CfCleaning
<1>7. CfRested' BY <1>3, <1>4, <1>5, <1>6 DEF CfRested, CfThere, CfTrue, CfProps, CfLinked
<1>8. \A p \in CfPids : cfWorld[p].there => p \in cfTold \/ \E j \in CfIds : p = cfStack.res[j].pid
  BY <1>1 DEF CfCalm, CfAccounted, CfThere, CfDeployPcs
<1>9. CfAccounted' BY <1>3, <1>4, <1>8 DEF CfAccounted, CfThere
<1>10. CfDependentsFirst'
  <2> SUFFICES ASSUME NEW p \in CfPids, cfWorld[p].there, p \notin cfTold, NEW q \in cfWorld[p].needs
               PROVE  cfWorld[q].there
    BY <1>3 DEF CfDependentsFirst
  <2>1. PICK j \in CfIds : p = cfStack.res[j].pid BY <1>8
  <2>2. cfStack.res[j].pid > 0 BY <2>1, CfDistinct
  <2>3. CfTrue(cfStack.res[j]) /\ CfLinked(cfStack.res, cfOp.tmpl, j) BY <1>5, <2>1, <2>2
  <2>4. q \in cfStack.res[j].needs BY <2>1, <2>3 DEF CfTrue, CfProps
  <2>5. PICK d \in CfIds : <<j, d>> \in cfOp.tmpl.deps /\ cfStack.res[d].pid = q BY <2>3, <2>4 DEF CfLinked
  <2>6. d \in CfTmplIds(cfOp.tmpl) BY <1>0, <2>5, CfTmplIs
  <2>7. cfStack.res[d].pid > 0 BY <1>2, <2>6 DEF CfCleaning, CfKept
  <2> QED BY <1>5, <2>5, <2>7 DEF CfThere
<1>11. CfStages' BY <1>2, <1>3, <1>4 DEF CfCalm, CfStages, CfSettled, CfWhole, CfWorking
<1> QED BY <1>3, <1>4, <1>7, <1>9, <1>10, <1>11, CfCalmIn DEF CfSettled, CfWhole

(* What the update removes: deleted, retained, or left after a failure.     *)
LEMMA CfRemoveCalm ==
  ASSUME CfAlways, CfCalm, cfUndone = "no", NEW i \in CfIds, NEW ok \in BOOLEAN, CfRemove(i, ok)
  PROVE  CfCalm'
<1>0. /\ cfOp \in CfOpRecord /\ cfStack \in CfStackRecord /\ cfOp.tmpl \in CfTmpl /\ cfOp.prevTmpl \in CfTmpl
      /\ cfWorld \in [CfPids -> [there : BOOLEAN, ver : Nat, needs : SUBSET CfPids]] /\ cfTold \in SUBSET CfPids
      /\ cfStack.res \in [CfIds -> CfRec]
  BY CfFields DEF CfAlways, CfShapes
<1>1. cfOp.pc = "remove" /\ i \in cfOp.todo BY DEF CfRemove, CfLast
<1>2. CfCleaning /\ cfDel.pc = "idle" /\ cfStack.status \in CfWorking BY <1>1 DEF CfCalm, CfStages
<1>3. /\ cfOp'.pc = "remove" /\ cfOp'.todo = cfOp.todo \ {i}
      /\ UNCHANGED <<cfOp.tmpl, cfOp.prevRes, cfOp.prevTmpl, cfOp.replaced>>
  BY <1>0, <1>1 DEF CfRemove, CfOpRecord
<1> DEFINE p == cfOp.prevRes[i].pid
<1>4. i \notin CfTmplIds(cfOp.tmpl) /\ cfStack.res[i].pid = p /\ p > 0 /\ p \in CfPids
  <2>1. i \notin CfTmplIds(cfOp.tmpl) /\ cfStack.res[i] = cfOp.prevRes[i] /\ p > 0
    BY <1>1, <1>2 DEF CfCleaning, CfGoing
  <2>2. (cfOp.prevRes[i].pid > 0) <=> (cfOp.prevRes[i].pid \in CfPids) BY CfDistinct
  <2> QED BY <2>1, <2>2
<1>5. UNCHANGED <<cfStack.status, cfStack.tmpl, cfStack.pending, cfDel>>
  BY <1>0 DEF CfRemove, CfStackRecord
<1>6. \/ /\ cfTold' = cfTold \cup {p} /\ UNCHANGED <<cfWorld, cfStack>>
      \/ /\ cfTold' = cfTold \cup {p} /\ UNCHANGED cfWorld /\ cfStack' = [cfStack EXCEPT !.res[i] = CfNoRec]
      \/ /\ cfWorld' = [cfWorld EXCEPT ![p] = CfGone] /\ UNCHANGED cfTold /\ cfStack' = [cfStack EXCEPT !.res[i] = CfNoRec]
  BY <1>4, CfPidsIs DEF CfRemove, CfDestroy, CfTell
<1> HIDE DEF p
<1>7. /\ \A q \in CfPids : q # p => cfWorld'[q] = cfWorld[q]
      /\ \A q \in CfPids : cfWorld'[q].there => cfWorld[q].there /\ cfWorld'[q] = cfWorld[q]
      /\ cfTold \subseteq cfTold' /\ (cfWorld'[p].there => p \in cfTold')
  BY <1>0, <1>4, <1>6 DEF CfGone
<1>8. /\ \A j \in CfIds : j # i => cfStack'.res[j] = cfStack.res[j]
      /\ cfStack'.res[i].pid = 0 \/ (cfStack'.res[i] = cfStack.res[i] /\ p \in cfTold' /\ UNCHANGED cfWorld)
  <2>1. CASE cfStack' = [cfStack EXCEPT !.res[i] = CfNoRec]
    <3>1. cfStack'.res = [cfStack.res EXCEPT ![i] = CfNoRec] BY <1>0, <2>1 DEF CfStackRecord
    <3> QED BY <1>0, <3>1 DEF CfNoRec
  <2> QED BY <1>6, <2>1
<1>9. \A j \in CfIds : /\ j # i => cfStack.res[j].pid # p /\ cfOp.prevRes[j].pid # p
                       /\ (cfStack.res[j].pid > 0) <=> (cfStack.res[j].pid \in CfPids)
  <2>1. \A j \in CfIds : /\ cfStack.res[i].pid > 0 /\ cfStack.res[i].pid = cfStack.res[j].pid => i = j
                         /\ cfStack.res[i].pid > 0 /\ cfStack.res[i].pid = cfOp.prevRes[j].pid => i = j
                         /\ (cfStack.res[j].pid > 0) <=> (cfStack.res[j].pid \in CfPids)
    BY CfDistinct
  <2> QED BY <1>4, <2>1
<1>10. \A j \in CfIds : j # i /\ cfStack.res[j].pid > 0 => cfWorld'[cfStack.res[j].pid] = cfWorld[cfStack.res[j].pid]
  BY <1>7, <1>9
<1>11. CfKept'
  <2> SUFFICES ASSUME NEW j \in CfTmplIds(cfOp'.tmpl)
               PROVE  /\ cfStack'.res[j].pid > 0 /\ cfWorld'[cfStack'.res[j].pid].there
                      /\ \/ cfStack'.res[j].pid \in cfTold'
                         \/ /\ cfWorld'[cfStack'.res[j].pid] = CfProps(cfStack'.res[j])
                            /\ CfLinked(cfStack'.res, cfOp'.tmpl, j)
    BY DEF CfKept, CfThere, CfTrue, CfProps, CfLinked, CfTmplIds
  <2>1. j \in CfTmplIds(cfOp.tmpl) /\ j \in CfIds /\ j # i BY <1>3, <1>4 DEF CfTmplIds
  <2>2. /\ cfStack.res[j].pid > 0 /\ cfWorld[cfStack.res[j].pid].there
        /\ \/ cfStack.res[j].pid \in cfTold
           \/ cfWorld[cfStack.res[j].pid] = CfProps(cfStack.res[j]) /\ CfLinked(cfStack.res, cfOp.tmpl, j)
    BY <1>2, <2>1 DEF CfCleaning, CfKept, CfThere, CfTrue
  <2>3. ASSUME CfLinked(cfStack.res, cfOp.tmpl, j), NEW q \in cfStack.res[j].needs
        PROVE  \E d \in CfIds : <<j, d>> \in cfOp.tmpl.deps /\ cfStack'.res[d].pid = q
    <3>1. PICK d \in CfIds : <<j, d>> \in cfOp.tmpl.deps /\ cfStack.res[d].pid = q BY <2>3 DEF CfLinked
    <3>2. d # i BY <1>0, <1>4, <3>1, CfTmplIs
    <3> QED BY <1>8, <3>1, <3>2
  <2>4. CfLinked(cfStack.res, cfOp.tmpl, j) => CfLinked(cfStack'.res, cfOp'.tmpl, j)
    BY <1>3, <1>8, <2>1, <2>3 DEF CfLinked
  <2> QED BY <1>7, <1>8, <1>10, <2>1, <2>2, <2>4
<1>12. CfLeaving'
  <2> SUFFICES ASSUME NEW j \in CfIds \ CfTmplIds(cfOp.tmpl), cfStack'.res[j].pid > 0
               PROVE  /\ cfStack'.res[j] = cfOp.prevRes[j] /\ cfWorld'[cfStack'.res[j].pid].there
                      /\ \/ cfStack'.res[j].pid \in cfTold'
                         \/ /\ cfWorld'[cfOp.prevRes[j].pid] = CfProps(cfOp.prevRes[j])
                            /\ CfLinked(cfOp.prevRes, cfOp.prevTmpl, j)
                            /\ j \in cfOp'.todo
    BY <1>3 DEF CfLeaving, CfThere, CfTrue, CfProps, CfLinked, CfTmplIds
  <2>1. cfStack.res[j].pid > 0 /\ cfStack'.res[j] = cfStack.res[j] BY <1>4, <1>8
  <2>2. /\ cfStack.res[j] = cfOp.prevRes[j] /\ cfWorld[cfStack.res[j].pid].there
        /\ \/ cfStack.res[j].pid \in cfTold
           \/ /\ cfWorld[cfOp.prevRes[j].pid] = CfProps(cfOp.prevRes[j])
              /\ CfLinked(cfOp.prevRes, cfOp.prevTmpl, j)
              /\ j \in cfOp.todo
    BY <1>1, <1>2, <2>1 DEF CfCleaning, CfLeaving, CfThere, CfTrue
  <2>3. CASE j # i BY <1>3, <1>7, <1>10, <2>1, <2>2, <2>3
  <2>4. CASE j = i BY <1>4, <1>8, <2>1, <2>2, <2>4
  <2> QED BY <2>3, <2>4
<1>13. CfSwapped'
  <2>1. ASSUME NEW k \in DOMAIN cfOp.replaced
        PROVE  /\ cfOp.replaced[k][1] \in CfTmplIds(cfOp.tmpl)
               /\ cfStack'.res[cfOp.replaced[k][1]].pid # cfOp.prevRes[cfOp.replaced[k][1]].pid
    <3>1. /\ cfOp.replaced[k][1] \in CfTmplIds(cfOp.tmpl)
          /\ cfStack.res[cfOp.replaced[k][1]].pid # cfOp.prevRes[cfOp.replaced[k][1]].pid
      BY <1>2 DEF CfCleaning, CfSwapped
    <3>2. cfOp.replaced[k][1] # i /\ cfOp.replaced[k][1] \in CfIds BY <1>4, <3>1 DEF CfTmplIds
    <3> QED BY <1>8, <3>1, <3>2
  <2> QED BY <1>3, <2>1 DEF CfSwapped, CfTmplIds
<1>14. CfGoing'
  <2>1. ASSUME NEW j \in cfOp.todo \ {i}
        PROVE  j \notin CfTmplIds(cfOp.tmpl) /\ cfStack'.res[j] = cfOp.prevRes[j] /\ cfOp.prevRes[j].pid > 0
    <3>1. j \notin CfTmplIds(cfOp.tmpl) /\ cfStack.res[j] = cfOp.prevRes[j] /\ cfOp.prevRes[j].pid > 0
      BY <1>1, <1>2 DEF CfCleaning, CfGoing
    <3>2. j \in CfIds BY <1>0 DEF CfOpRecord
    <3> QED BY <1>8, <3>1, <3>2
  <2> QED BY <1>3, <2>1 DEF CfGoing, CfTmplIds
<1>15. CfCleaning' BY <1>2, <1>5, <1>11, <1>12, <1>13, <1>14 DEF CfCleaning
<1>16. \A q \in CfPids : cfWorld[q].there => q \in cfTold \/ \E j \in CfIds : q = cfStack.res[j].pid
  BY <1>1 DEF CfCalm, CfAccounted, CfThere, CfDeployPcs
<1>17. CfAccounted'
  <2> SUFFICES ASSUME NEW q \in CfPids, cfWorld'[q].there
               PROVE  q \in cfTold' \/ \E j \in CfIds : q = cfStack'.res[j].pid
    BY DEF CfAccounted, CfThere
  <2>1. q \in cfTold \/ \E j \in CfIds : q = cfStack.res[j].pid BY <1>7, <1>16
  <2>2. CASE q = p BY <1>7, <2>2
  <2>3. ASSUME NEW j \in CfIds, q = cfStack.res[j].pid, q # p PROVE q = cfStack'.res[j].pid
    BY <1>4, <1>8, <2>3
  <2> QED BY <1>7, <2>1, <2>2, <2>3
<1>18. CfDependentsFirst'
  <2>1. ASSUME NEW x \in CfPids, NEW q \in CfPids, CfSuperseded(x, q) PROVE CfSuperseded(x, q)'
    <3>1. PICK k \in CfIds : x = cfOp.prevRes[k].pid /\ (x # cfStack.res[k].pid \/ k \notin CfTmplIds(cfOp.tmpl))
      BY <2>1 DEF CfSuperseded
    <3>2. PICK j \in CfTmplIds(cfOp.tmpl) : q = cfOp.prevRes[j].pid /\ q # cfStack.res[j].pid BY <2>1 DEF CfSuperseded
    <3>3. j \in CfIds /\ j # i BY <1>4 DEF CfTmplIds
    <3>4. x # cfStack'.res[k].pid \/ k \notin CfTmplIds(cfOp.tmpl) BY <1>4, <1>8, <3>1
    <3> QED BY <1>3, <1>8, <3>1, <3>2, <3>3, <3>4 DEF CfSuperseded, CfTmplIds
  <2> SUFFICES ASSUME NEW x \in CfPids, cfWorld'[x].there, x \notin cfTold', NEW q \in cfWorld'[x].needs,
                      \A j \in CfIds : x # cfStack.pending[j].to.pid
               PROVE  cfWorld'[q].there \/ CfSuperseded(x, q)'
    BY <1>5 DEF CfDependentsFirst
  <2>2. cfWorld[x].there /\ cfWorld'[x] = cfWorld[x] /\ x \notin cfTold /\ q \in cfWorld[x].needs /\ q \in CfPids
    BY <1>0, <1>7
  <2>3. cfWorld[q].there \/ CfSuperseded(x, q) BY <2>2 DEF CfCalm, CfDependentsFirst
  <2>4. CASE q # p BY <1>7, <2>1, <2>2, <2>3, <2>4
  <2>5. CASE q = p
    <3>1. PICK j \in CfIds : x = cfStack.res[j].pid BY <1>16, <2>2
    <3>2. cfStack.res[j].pid > 0 BY <3>1, CfDistinct
    <3>3. CASE j \in CfTmplIds(cfOp.tmpl)
      <4>1. CfTrue(cfStack.res[j]) /\ CfLinked(cfStack.res, cfOp.tmpl, j)
        BY <1>2, <2>2, <3>1, <3>3 DEF CfCleaning, CfKept
      <4>2. q \in cfStack.res[j].needs BY <2>2, <3>1, <4>1 DEF CfTrue, CfProps
      <4>3. PICK d \in CfIds : <<j, d>> \in cfOp.tmpl.deps /\ cfStack.res[d].pid = q BY <4>1, <4>2 DEF CfLinked
      <4>4. d \in CfTmplIds(cfOp.tmpl) BY <1>0, <4>3, CfTmplIs
      <4>5. d = i BY <1>9, <2>5, <4>3
      <4> QED BY <1>4, <4>4, <4>5
    <3>4. CASE j \notin CfTmplIds(cfOp.tmpl)
      <4>1. /\ CfTrue(cfOp.prevRes[j]) /\ CfLinked(cfOp.prevRes, cfOp.prevTmpl, j) /\ j \in cfOp.todo
            /\ cfStack.res[j] = cfOp.prevRes[j]
        BY <1>1, <1>2, <2>2, <3>1, <3>2, <3>4 DEF CfCleaning, CfLeaving
      <4>2. q \in cfOp.prevRes[j].needs BY <2>2, <3>1, <4>1 DEF CfTrue, CfProps
      <4>3. PICK d \in CfIds : <<j, d>> \in cfOp.prevTmpl.deps /\ cfOp.prevRes[d].pid = q BY <4>1, <4>2 DEF CfLinked
      <4>4. d = i BY <1>9, <2>5, <4>3
      <4>5. i \in CfTmplIds(cfOp.prevTmpl) BY <1>0, <4>3, <4>4, CfTmplIs
      <4>6. \A e \in cfOp.todo : <<e, i>> \notin cfOp.prevTmpl.deps BY <4>5 DEF CfRemove, CfLast
      <4> QED BY <4>1, <4>3, <4>4, <4>6
    <3> QED BY <3>3, <3>4
  <2> QED BY <2>4, <2>5
<1>19. CfStages' BY <1>1, <1>2, <1>3, <1>5 DEF CfCalm, CfStages
<1> QED BY <1>3, <1>15, <1>17, <1>18, <1>19, CfCalmIn

(* The rollback begins with what the deploy listed.                         *)
LEMMA CfRollBackCalm ==
  ASSUME CfAlways, CfCalm, cfUndone = "no", CfRollBack
  PROVE  CfCalm'
<1>0. /\ cfOp \in CfOpRecord /\ cfStack \in CfStackRecord /\ cfOp.created \in Seq(CfIds) /\ cfOp.tried \in Seq(CfIds)
      /\ cfStack.res \in [CfIds -> CfRec]
  BY CfFields DEF CfAlways, CfShapes
<1>1. cfOp.pc = "rollback" BY DEF CfRollBack
<1>2. CfBuilt /\ cfDel.pc = "idle" BY <1>1 DEF CfCalm, CfStages, CfDeployPcs
<1> DEFINE C == cfOp.created
           K == {k \in DOMAIN C : ~CfInPlace(C[k])}
           L == {k \in DOMAIN C : CfToRevert(C[k])}
<1>3. /\ cfOp'.pc = "revert" /\ cfOp'.reverts = Picked(C, L) \o cfOp.tried /\ cfOp'.dels = Picked(C, K)
      /\ UNCHANGED <<cfOp.update, cfOp.tmpl, cfOp.prevRes, cfOp.prevTmpl, cfOp.replaced>>
  BY <1>0 DEF CfRollBack, CfOpRecord
<1>4. /\ UNCHANGED <<cfStack.res, cfStack.pending, cfStack.tmpl, cfWorld, cfTold, cfDel>>
      /\ cfStack'.status \in {"UPDATE_ROLLBACK_IN_PROGRESS", "ROLLBACK_IN_PROGRESS"}
  BY <1>0 DEF CfRollBack, CfSetStatus, CfStackRecord
<1>5. /\ Picked(C, K) \in Seq(CfIds) /\ Picked(C, L) \in Seq(CfIds)
      /\ (\E e : Leads(e, C, K)) /\ (\E e : Leads(e, C, L))
  BY <1>0, PickedIs
<1>6. PICK e : Leads(e, C, K) BY <1>5
<1>7. PICK g : Leads(g, C, L) BY <1>5
<1>8. \A i \in CfIds : /\ CfIn(i, C) /\ ~CfInPlace(i) => CfIn(i, cfOp'.dels)
                       /\ CfIn(i, C) /\ CfToRevert(i) => CfIn(i, Picked(C, L))
                       /\ CfIn(i, Picked(C, L)) => CfToRevert(i)
  <2> TAKE i \in CfIds
  <2>1. CfIn(i, C) /\ ~CfInPlace(i) => CfIn(i, cfOp'.dels)
    <3> SUFFICES ASSUME NEW k \in DOMAIN C, C[k] = i, ~CfInPlace(i) PROVE CfIn(i, cfOp'.dels) BY DEF CfIn
    <3>1. k \in K OBVIOUS
    <3>2. PICK m \in DOMAIN Picked(C, K) : e[m] = k BY <1>6, <3>1 DEF Leads
    <3>3. Picked(C, K)[m] = i BY <1>6, <3>2 DEF Leads
    <3> QED BY <1>3, <3>3 DEF CfIn
  <2>2. CfIn(i, C) /\ CfToRevert(i) => CfIn(i, Picked(C, L))
    <3> SUFFICES ASSUME NEW k \in DOMAIN C, C[k] = i, CfToRevert(i) PROVE CfIn(i, Picked(C, L)) BY DEF CfIn
    <3>1. k \in L OBVIOUS
    <3>2. PICK m \in DOMAIN Picked(C, L) : g[m] = k BY <1>7, <3>1 DEF Leads
    <3>3. Picked(C, L)[m] = i BY <1>7, <3>2 DEF Leads
    <3> QED BY <3>3 DEF CfIn
  <2>3. CfIn(i, Picked(C, L)) => CfToRevert(i)
    <3> SUFFICES ASSUME NEW m \in DOMAIN Picked(C, L), Picked(C, L)[m] = i PROVE CfToRevert(i) BY DEF CfIn
    <3>1. g[m] \in L /\ Picked(C, L)[m] = C[g[m]] BY <1>7 DEF Leads
    <3> QED BY <3>1
  <2> QED BY <2>1, <2>2, <2>3
<1>9. \A i \in CfIds : CfIn(i, cfOp'.reverts) <=> (CfIn(i, Picked(C, L)) \/ CfIn(i, cfOp.tried))
  BY <1>0, <1>3, <1>5, CfInBoth
<1> HIDE DEF C, K, L
<1>10. CfPrevious' BY <1>2, <1>3, <1>4 DEF CfBuilt, CfPrevious, CfThere, CfLinked
<1>11. \A i \in CfIds : (CfInPlace(i)' <=> CfInPlace(i)) BY <1>3, <1>4 DEF CfInPlace
<1>12. CfSendsBack'
  <2>1. ASSUME NEW i \in CfIds, cfOp.prevRes[i].pid > 0
        PROVE  cfOp.prevRes[i].pid \in cfTold \/ CfTrue(cfOp.prevRes[i]) \/ CfIn(i, cfOp'.reverts)
    BY <1>2, <1>8, <1>9, <2>1 DEF CfBuilt, CfChanged, C
  <2>2. ASSUME NEW i \in CfIds, CfIn(i, cfOp'.reverts) PROVE CfInPlace(i)
    <3>1. CASE CfIn(i, cfOp.tried) BY <1>2, <3>1 DEF CfBuilt, CfChanged, CfInPlace
    <3> QED BY <1>8, <1>9, <2>2, <3>1 DEF CfToRevert
  <2>3. ASSUME NEW i \in CfIds PROVE CfInPlace(i) \/ cfStack.res[i].pid = 0 \/ CfIn(i, cfOp'.dels)
    <3>1. CASE CfIn(i, cfOp.created) BY <1>8, <3>1 DEF C
    <3>2. CASE ~CfIn(i, cfOp.created)
      <4>1. cfStack.res[i] = cfOp.prevRes[i] BY <1>2, <3>2 DEF CfBuilt, CfChanged
      <4>2. (cfStack.res[i].pid > 0) <=> (cfStack.res[i].pid \in CfPids) BY CfDistinct
      <4>3. cfStack.res[i].pid \in {0} \cup CfPids BY CfFields DEF CfAlways
      <4> QED BY <4>1, <4>2, <4>3 DEF CfInPlace
    <3> QED BY <3>1, <3>2
  <2>4. \A i \in CfIds : cfStack.pending[i].kind = "no" BY <1>2 DEF CfBuilt
  <2> QED BY <1>3, <1>4, <2>1, <2>2, <2>3, <2>4 DEF CfSendsBack, CfTrue, CfProps, CfIn, CfInPlace
<1>13. ASSUME NEW m \in DOMAIN cfOp'.dels
       PROVE  LET i == cfOp'.dels[m] IN
              /\ cfStack.res[i].pid > 0 /\ ~CfInPlace(i)
              /\ \A l \in DOMAIN cfOp'.dels : cfOp'.dels[l] = i => l = m
              /\ \A q \in cfWorld[cfStack.res[i].pid].needs :
                   \/ \E l \in 1..(m - 1) : cfStack.res[cfOp'.dels[l]].pid = q
                   \/ \E d \in CfIds : cfOp.prevRes[d].pid = q
  <2> DEFINE D == cfOp'.dels
             i == D[m]
  <2>1. D \in Seq(CfIds) /\ D = Picked(C, K) BY <1>3, <1>5 DEF C, K
  <2>2. /\ e[m] \in K /\ i = C[e[m]]
        /\ \A l \in DOMAIN D : e[l] \in K /\ D[l] = C[e[l]]
        /\ \A l, n \in DOMAIN D : l < n => e[l] < e[n]
        /\ \A k \in K : \E l \in DOMAIN D : e[l] = k
    BY <1>6, <2>1 DEF Leads
  <2>3. DOMAIN D = 1..Len(D) /\ Len(D) \in Nat /\ DOMAIN C \subseteq Nat /\ K \subseteq DOMAIN C BY <1>0, <2>1 DEF C, K
  <2>4. e[m] \in DOMAIN C /\ ~CfInPlace(i) /\ i \in CfIds BY <1>0, <2>2 DEF C, K
  <2>5. /\ cfStack.res[i].pid > 0 /\ CfTrue(cfStack.res[i])
        /\ \A q \in cfStack.res[i].needs : \E l \in 1..(e[m] - 1) : cfStack.res[C[l]].pid = q
        /\ \A l \in DOMAIN C : C[l] = i => l = e[m]
    <3>1. CfCreated BY <1>2 DEF CfBuilt
    <3> DEFINE x == cfOp.created[e[m]]
    <3>2. e[m] \in DOMAIN cfOp.created BY <2>4 DEF C
    <3>3. /\ cfStack.res[x].pid > 0 /\ CfTrue(cfStack.res[x])
          /\ \A q \in cfStack.res[x].needs : \E l \in 1..(e[m] - 1) : cfStack.res[cfOp.created[l]].pid = q
          /\ \A l \in DOMAIN cfOp.created : cfOp.created[l] = x => l = e[m]
      BY <3>1, <3>2 DEF CfCreated
    <3>4. i = x /\ C = cfOp.created BY <2>2 DEF C
    <3> HIDE DEF i, x, C
    <3> QED BY <3>3, <3>4
  <2>6. \A l \in DOMAIN D : D[l] = i => l = m
    <3> SUFFICES ASSUME NEW l \in DOMAIN D, D[l] = i PROVE l = m OBVIOUS
    <3>1. e[l] = e[m] BY <2>2, <2>3, <2>5
    <3>2. ~(l < m) /\ ~(m < l) BY <2>2, <2>3, <3>1
    <3> QED BY <2>3, <3>2
  <2>7. ASSUME NEW q \in cfWorld[cfStack.res[i].pid].needs
        PROVE  \/ \E l \in 1..(m - 1) : cfStack.res[D[l]].pid = q
               \/ \E d \in CfIds : cfOp.prevRes[d].pid = q
    <3>1. q \in cfStack.res[i].needs BY <2>5 DEF CfTrue, CfProps
    <3>2. PICK k \in 1..(e[m] - 1) : cfStack.res[C[k]].pid = q BY <2>5, <3>1
    <3>3. k \in DOMAIN C /\ k < e[m] /\ C[k] \in CfIds BY <1>0, <2>4, <3>2 DEF C
    <3>4. CASE CfInPlace(C[k]) BY <3>2, <3>3, <3>4 DEF CfInPlace
    <3>5. CASE ~CfInPlace(C[k])
      <4>1. k \in K BY <3>3, <3>5 DEF K
      <4>2. PICK l \in DOMAIN D : e[l] = k BY <2>2, <4>1
      <4>3. ~(m < l) /\ l # m BY <2>2, <2>3, <3>3, <4>2
      <4>4. l \in 1..(m - 1) BY <2>3, <4>3
      <4> QED BY <2>2, <3>2, <4>2, <4>4
    <3> QED BY <3>4, <3>5
  <2> HIDE DEF D
  <2> QED BY <2>4, <2>5, <2>6, <2>7 DEF D
<1>14. CfUndoes'
  <2> SUFFICES ASSUME NEW m \in DOMAIN cfOp'.dels
               PROVE  LET i == cfOp'.dels[m] IN
                      /\ cfStack'.res[i].pid > 0
                      /\ ~(cfOp'.prevRes[i].pid > 0 /\ cfOp'.prevRes[i].pid = cfStack'.res[i].pid)
                      /\ \A l \in DOMAIN cfOp'.dels : cfOp'.dels[l] = i => l = m
                      /\ \A q \in cfWorld'[cfStack'.res[i].pid].needs :
                           \/ \E l \in 1..(m - 1) : cfStack'.res[cfOp'.dels[l]].pid = q
                           \/ \E d \in CfIds : cfOp'.prevRes[d].pid = q
    BY DEF CfUndoes, CfInPlace
  <2>1. UNCHANGED <<cfStack.res, cfWorld, cfOp.prevRes>> BY <1>3, <1>4
  <2>2. LET i == cfOp'.dels[m] IN
        /\ cfStack.res[i].pid > 0 /\ ~(cfOp.prevRes[i].pid > 0 /\ cfOp.prevRes[i].pid = cfStack.res[i].pid)
        /\ \A l \in DOMAIN cfOp'.dels : cfOp'.dels[l] = i => l = m
        /\ \A q \in cfWorld[cfStack.res[i].pid].needs :
             \/ \E l \in 1..(m - 1) : cfStack.res[cfOp'.dels[l]].pid = q
             \/ \E d \in CfIds : cfOp.prevRes[d].pid = q
    BY <1>13 DEF CfInPlace
  <2> QED BY <2>1, <2>2
<1>15. CfAccounted' /\ CfDependentsFirst' BY <1>1, <1>3, <1>4, CfSafeStays DEF CfCalm, CfDeployPcs
<1>16. CfStages' BY <1>2, <1>3, <1>4 DEF CfCalm, CfStages, CfWorking
<1> QED BY <1>3, <1>10, <1>12, <1>14, <1>15, <1>16, CfCalmIn DEF CfRollingBack

(* Every change has gone back, or is pending: what is new goes next.        *)
LEMMA CfRevertedCalm ==
  ASSUME CfAlways, CfCalm, cfUndone = "no", CfReverted
  PROVE  CfCalm'
<1>0. cfOp \in CfOpRecord BY DEF CfAlways, CfShapes
<1>1. cfOp.pc = "revert" /\ cfOp.reverts = <<>> BY DEF CfReverted
<1>2. CfRollingBack /\ cfDel.pc = "idle" /\ cfStack.status \in CfWorking BY <1>1 DEF CfCalm, CfStages
<1>3. /\ cfOp'.pc = "undo"
      /\ UNCHANGED <<cfOp.update, cfOp.tmpl, cfOp.prevRes, cfOp.prevTmpl, cfOp.replaced, cfOp.reverts, cfOp.dels>>
  BY <1>0 DEF CfReverted, CfOpRecord
<1>4. UNCHANGED <<cfStack, cfWorld, cfTold, cfDel>> BY DEF CfReverted
<1>5. CfPrevious' BY <1>2, <1>3, <1>4 DEF CfRollingBack, CfPrevious, CfThere, CfLinked
<1>6. \A i \in CfIds : ~CfIn(i, cfOp.reverts) /\ cfStack.pending[i].kind # "delete"
  <2>1. CfSendsBack BY <1>2 DEF CfRollingBack
  <2> QED BY <1>1, <2>1 DEF CfSendsBack, CfIn
<1>7. CfSendsBack'
  <2>1. CfSendsBack BY <1>2 DEF CfRollingBack
  <2> QED BY <1>3, <1>4, <1>6, <2>1 DEF CfSendsBack, CfTrue, CfProps, CfIn, CfInPlace
<1>8. CfUndoes' BY <1>2, <1>3, <1>4 DEF CfRollingBack, CfUndoes, CfInPlace
<1>9. CfAccounted' /\ CfDependentsFirst' BY <1>1, <1>3, <1>4, CfSafeStays DEF CfCalm, CfDeployPcs
<1>10. CfStages' BY <1>2, <1>3, <1>4 DEF CfCalm, CfStages
<1> QED BY <1>3, <1>5, <1>7, <1>8, <1>9, <1>10, CfCalmIn DEF CfRollingBack

(* One change goes back, or is pending.                                     *)
LEMMA CfRevertCalm ==
  ASSUME CfAlways, CfCalm, cfUndone = "no", NEW ok \in BOOLEAN, CfRevert(ok)
  PROVE  CfCalm'
<1>0. /\ cfOp \in CfOpRecord /\ cfStack \in CfStackRecord /\ cfOp.reverts \in Seq(CfIds)
      /\ cfWorld \in [CfPids -> [there : BOOLEAN, ver : Nat, needs : SUBSET CfPids]]
      /\ cfStack.pending \in [CfIds -> [kind : {"no", "revert", "delete"}, to : CfRec]]
  BY CfFields DEF CfAlways, CfShapes
<1>1. cfOp.pc = "revert" /\ cfOp.reverts # <<>> BY DEF CfRevert
<1>2. CfRollingBack /\ cfDel.pc = "idle" /\ cfStack.status \in CfWorking BY <1>1 DEF CfCalm, CfStages
<1> DEFINE h == Head(cfOp.reverts)
           r == cfOp.prevRes[h]
           e == IF ok THEN CfNothing ELSE [kind |-> "revert", to |-> r]
<1>3. h \in CfIds /\ CfIn(h, cfOp.reverts)
      /\ \A i \in CfIds : CfIn(i, cfOp.reverts) <=> (i = h \/ CfIn(i, Tail(cfOp.reverts)))
  BY <1>0, <1>1, CfInTail
<1>4. /\ cfOp'.pc = "revert" /\ cfOp'.reverts = Tail(cfOp.reverts)
      /\ UNCHANGED <<cfOp.update, cfOp.tmpl, cfOp.prevRes, cfOp.prevTmpl, cfOp.replaced, cfOp.dels>>
  BY <1>0, <1>1 DEF CfRevert, CfOpRecord
<1>5. CfInPlace(h) /\ r.pid > 0 /\ r.pid = cfStack.res[h].pid /\ r.pid \in CfPids
  <2>1. CfInPlace(h) BY <1>2, <1>3 DEF CfRollingBack, CfSendsBack
  <2>2. (cfOp.prevRes[h].pid > 0) <=> (cfOp.prevRes[h].pid \in CfPids) BY <1>3, CfDistinct
  <2> QED BY <2>1, <2>2 DEF CfInPlace
<1>6. /\ UNCHANGED <<cfStack.status, cfStack.res, cfStack.tmpl, cfTold, cfDel>>
      /\ cfStack'.pending = [cfStack.pending EXCEPT ![h] = e]
      /\ ok => cfWorld[r.pid].there
      /\ cfWorld' = IF ok THEN [cfWorld EXCEPT ![r.pid] = CfProps(r)] ELSE cfWorld
  <2>1. cfStack' = [cfStack EXCEPT !.pending[h] = e] BY DEF CfRevert, CfRevertTo
  <2>2. UNCHANGED <<cfTold, cfDel>> /\ (ok => cfWorld[r.pid].there)
        /\ cfWorld' = IF ok THEN [cfWorld EXCEPT ![r.pid] = CfProps(r)] ELSE cfWorld
    BY DEF CfRevert, CfRevertTo
  <2> HIDE DEF e
  <2> QED BY <1>0, <2>1, <2>2 DEF CfStackRecord
<1>7. /\ \A i \in CfIds : i # h => cfStack'.pending[i] = cfStack.pending[i]
      /\ ok => cfStack'.pending[h].kind = "no" /\ cfStack'.pending[h].to.pid = 0
      /\ ~ok => cfStack'.pending[h].kind = "revert" /\ cfStack'.pending[h].to = r
  <2>1. cfStack'.pending[h] = e BY <1>0, <1>3, <1>6
  <2> QED BY <1>0, <1>6, <2>1 DEF CfNothing, CfNoRec
<1> HIDE DEF h, r, e
<1>8. /\ \A q \in CfPids : cfWorld'[q].there <=> cfWorld[q].there
      /\ \A q \in CfPids : q # r.pid => cfWorld'[q] = cfWorld[q]
      /\ ok => cfWorld'[r.pid] = CfProps(r)
      /\ ~ok => cfWorld' = cfWorld
  <2>1. CASE ok
    <3>1. \A q \in CfPids : cfWorld'[q] = IF q = r.pid THEN CfProps(r) ELSE cfWorld[q] BY <1>0, <1>6, <2>1
    <3>2. CfProps(r).there BY DEF CfProps
    <3> QED BY <1>5, <1>6, <2>1, <3>1, <3>2
  <2>2. CASE ~ok BY <1>6, <2>2
  <2> QED BY <2>1, <2>2
<1>9. \A i \in CfIds : /\ (cfOp.prevRes[i].pid > 0) <=> (cfOp.prevRes[i].pid \in CfPids)
                       /\ (cfStack.res[i].pid > 0) <=> (cfStack.res[i].pid \in CfPids)
                       /\ i # h => cfOp.prevRes[i].pid # r.pid /\ cfStack.res[i].pid # r.pid
  <2>1. \A i \in CfIds : /\ (cfOp.prevRes[i].pid > 0) <=> (cfOp.prevRes[i].pid \in CfPids)
                         /\ (cfStack.res[i].pid > 0) <=> (cfStack.res[i].pid \in CfPids)
                         /\ cfOp.prevRes[h].pid > 0 /\ cfOp.prevRes[h].pid = cfOp.prevRes[i].pid => h = i
                         /\ cfStack.res[h].pid > 0 /\ cfStack.res[h].pid = cfStack.res[i].pid => h = i
    BY <1>3, CfDistinct
  <2> QED BY <1>5, <2>1 DEF r
<1>10. CfPrevious /\ CfSendsBack /\ CfUndoes BY <1>2 DEF CfRollingBack
<1>11. CfPrevious' BY <1>4, <1>6, <1>8, <1>9, <1>10 DEF CfPrevious, CfThere, CfLinked
<1>12. CfSendsBack'
  <2>1. ASSUME NEW i \in CfIds, cfOp.prevRes[i].pid > 0
        PROVE  \/ cfOp.prevRes[i].pid \in cfTold
               \/ cfWorld'[cfOp.prevRes[i].pid] = CfProps(cfOp.prevRes[i])
               \/ cfStack'.pending[i].kind = "revert"
               \/ CfIn(i, cfOp'.reverts)
    <3>1. CASE i = h BY <1>7, <1>8, <3>1 DEF r
    <3>2. CASE i # h BY <1>3, <1>4, <1>7, <1>8, <1>9, <1>10, <2>1, <3>2 DEF CfSendsBack, CfTrue
    <3> QED BY <3>1, <3>2
  <2>2. ASSUME NEW i \in CfIds
        PROVE  /\ cfStack'.pending[i].kind = "revert" => cfStack'.pending[i].to = cfOp.prevRes[i] /\ CfInPlace(i)
               /\ cfStack'.pending[i].kind # "delete"
    <3>1. /\ cfStack.pending[i].kind = "revert" => cfStack.pending[i].to = cfOp.prevRes[i] /\ CfInPlace(i)
          /\ cfStack.pending[i].kind # "delete"
      BY <1>1, <1>10 DEF CfSendsBack
    <3>2. CASE i = h BY <1>5, <1>7, <3>2 DEF r
    <3>3. CASE i # h BY <1>7, <3>1, <3>3
    <3> QED BY <3>2, <3>3
  <2>3. ASSUME NEW i \in CfIds PROVE CfIn(i, cfOp'.reverts) => CfInPlace(i)
    BY <1>3, <1>4, <1>10 DEF CfSendsBack
  <2>4. ASSUME NEW i \in CfIds PROVE CfInPlace(i) \/ cfStack.res[i].pid = 0 \/ CfIn(i, cfOp.dels)
    BY <1>10, Zenon DEF CfSendsBack
  <2> QED BY <1>4, <1>6, <2>1, <2>2, <2>3, <2>4 DEF CfSendsBack, CfTrue, CfProps, CfIn, CfInPlace
<1>13. CfUndoes'
  <2>1. ASSUME NEW m \in DOMAIN cfOp.dels
        PROVE  cfWorld'[cfStack.res[cfOp.dels[m]].pid] = cfWorld[cfStack.res[cfOp.dels[m]].pid]
    <3>1. cfStack.res[cfOp.dels[m]].pid > 0 /\ ~CfInPlace(cfOp.dels[m]) BY <1>10 DEF CfUndoes
    <3>2. cfOp.dels[m] \in CfIds
      <4>1. cfOp.dels \in Seq(CfIds) BY CfFields DEF CfAlways
      <4> QED BY <4>1
    <3>3. cfOp.dels[m] # h BY <1>5, <3>1
    <3> QED BY <1>8, <1>9, <3>1, <3>2, <3>3
  <2> SUFFICES ASSUME NEW m \in DOMAIN cfOp'.dels
               PROVE  LET i == cfOp'.dels[m] IN
                      /\ cfStack'.res[i].pid > 0
                      /\ ~(cfOp'.prevRes[i].pid > 0 /\ cfOp'.prevRes[i].pid = cfStack'.res[i].pid)
                      /\ \A l \in DOMAIN cfOp'.dels : cfOp'.dels[l] = i => l = m
                      /\ \A q \in cfWorld'[cfStack'.res[i].pid].needs :
                           \/ \E l \in 1..(m - 1) : cfStack'.res[cfOp'.dels[l]].pid = q
                           \/ \E d \in CfIds : cfOp'.prevRes[d].pid = q
    BY DEF CfUndoes, CfInPlace
  <2>2. UNCHANGED <<cfStack.res, cfOp.prevRes, cfOp.dels>> BY <1>4, <1>6
  <2>3. LET i == cfOp.dels[m] IN
        /\ cfStack.res[i].pid > 0 /\ ~(cfOp.prevRes[i].pid > 0 /\ cfOp.prevRes[i].pid = cfStack.res[i].pid)
        /\ \A l \in DOMAIN cfOp.dels : cfOp.dels[l] = i => l = m
        /\ \A q \in cfWorld[cfStack.res[i].pid].needs :
             \/ \E l \in 1..(m - 1) : cfStack.res[cfOp.dels[l]].pid = q
             \/ \E d \in CfIds : cfOp.prevRes[d].pid = q
    BY <1>10, <2>2 DEF CfUndoes, CfInPlace
  <2>4. cfWorld'[cfStack.res[cfOp.dels[m]].pid] = cfWorld[cfStack.res[cfOp.dels[m]].pid] BY <2>1, <2>2
  <2> QED BY <2>2, <2>3, <2>4
<1>14. CfAccounted' BY <1>1, <1>4, <1>6, <1>8 DEF CfCalm, CfAccounted, CfThere
<1>15. CfDependentsFirst'
  <2> SUFFICES ASSUME NEW x \in CfPids, cfWorld'[x].there, x \notin cfTold, NEW q \in cfWorld'[x].needs,
                      \A j \in CfIds : x # cfStack'.pending[j].to.pid
               PROVE  cfWorld'[q].there
    BY <1>6 DEF CfDependentsFirst
  <2>1. CASE ok /\ x = r.pid
    <3>1. q \in cfOp.prevRes[h].needs BY <1>8, <2>1 DEF CfProps, r
    <3>2. CfLinked(cfOp.prevRes, cfOp.prevTmpl, h) BY <1>3, <1>5, <1>10, <2>1 DEF CfPrevious, r
    <3>3. PICK d \in CfIds : cfOp.prevRes[d].pid = q BY <3>1, <3>2 DEF CfLinked
    <3>4. cfOp.prevRes[h] \in CfRec BY <1>3, CfFields DEF CfAlways
    <3>5. q \in CfPids BY <3>1, <3>4 DEF CfRec
    <3> QED BY <1>8, <1>9, <1>10, <3>3, <3>5 DEF CfPrevious, CfThere
  <2>2. CASE ~(ok /\ x = r.pid)
    <3>1. cfWorld'[x] = cfWorld[x] /\ cfWorld[x].there /\ q \in cfWorld[x].needs /\ q \in CfPids BY <1>0, <1>8, <2>2
    <3>2. ASSUME NEW j \in CfIds, x = cfStack.pending[j].to.pid PROVE FALSE
      <4>1. CASE j # h BY <1>7, <3>2, <4>1
      <4>2. CASE j = h
        <5>1. cfStack.pending[j].kind # "no" BY <3>2, CfPidsIs DEF CfAlways, CfAtWork
        <5>2. cfStack.pending[j].kind = "revert" BY <1>0, <1>1, <1>10, <5>1 DEF CfSendsBack
        <5>3. x = r.pid BY <1>10, <3>2, <4>2, <5>2 DEF CfSendsBack, r
        <5> QED BY <1>7, <2>2, <4>2, <5>3, <1>3
      <4> QED BY <4>1, <4>2
    <3>3. ~CfSuperseded(x, q) BY <1>1 DEF CfSuperseded
    <3>4. cfWorld[q].there BY <3>1, <3>2, <3>3 DEF CfCalm, CfDependentsFirst
    <3> QED BY <1>8, <3>1, <3>4
  <2> QED BY <2>1, <2>2
<1>16. CfStages' BY <1>1, <1>2, <1>4, <1>6 DEF CfCalm, CfStages
<1> QED BY <1>4, <1>11, <1>12, <1>13, <1>14, <1>15, <1>16, CfCalmIn DEF CfRollingBack

(* The last one to go: deleted, left, or pending; its record goes.          *)
LEMMA CfUndoCalm ==
  ASSUME CfAlways, CfCalm, cfUndone = "no", NEW ok \in BOOLEAN, CfUndo(ok)
  PROVE  CfCalm'
<1>0. /\ cfOp \in CfOpRecord /\ cfStack \in CfStackRecord /\ cfOp.dels \in Seq(CfIds) /\ cfTold \in SUBSET CfPids
      /\ cfWorld \in [CfPids -> [there : BOOLEAN, ver : Nat, needs : SUBSET CfPids]]
      /\ cfStack.pending \in [CfIds -> [kind : {"no", "revert", "delete"}, to : CfRec]]
      /\ cfStack.res \in [CfIds -> CfRec]
  BY CfFields DEF CfAlways, CfShapes
<1>1. cfOp.pc = "undo" /\ cfOp.dels # <<>> BY DEF CfUndo
<1>2. CfRollingBack /\ cfDel.pc = "idle" /\ cfStack.status \in CfWorking BY <1>1 DEF CfCalm, CfStages
<1>3. CfPrevious /\ CfSendsBack /\ CfUndoes BY <1>2 DEF CfRollingBack
<1> DEFINE n == Len(cfOp.dels)
           i == cfOp.dels[n]
           p == cfStack.res[i].pid
           e == IF ok \/ i \in cfOp.tmpl.retain \/ cfOp.cleanup THEN cfStack.pending[i]
                ELSE [kind |-> "delete", to |-> cfStack.res[i]]
<1>4. /\ n \in Nat \ {0} /\ DOMAIN cfOp.dels = 1..n /\ DOMAIN Front(cfOp.dels) = 1..(n - 1)
      /\ Last(cfOp.dels) = i /\ \A k \in 1..(n - 1) : Front(cfOp.dels)[k] = cfOp.dels[k]
      /\ n \in DOMAIN cfOp.dels /\ i \in CfIds
  <2>1. cfOp.dels \in Seq(CfIds) /\ cfOp.dels # <<>> BY <1>0, <1>1
  <2>2. /\ Len(cfOp.dels) \in Nat \ {0} /\ DOMAIN cfOp.dels = 1..Len(cfOp.dels)
        /\ Last(cfOp.dels) = cfOp.dels[Len(cfOp.dels)] /\ Last(cfOp.dels) \in CfIds
        /\ DOMAIN Front(cfOp.dels) = 1..(Len(cfOp.dels) - 1)
        /\ \A k \in 1..(Len(cfOp.dels) - 1) : Front(cfOp.dels)[k] = cfOp.dels[k]
    BY <2>1, CfFrontIs
  <2>3. n \in DOMAIN cfOp.dels BY <2>2
  <2> QED BY <2>2, <2>3
<1>5. /\ p > 0 /\ ~CfInPlace(i) /\ \A l \in DOMAIN cfOp.dels : cfOp.dels[l] = i => l = n
  BY <1>3, <1>4 DEF CfUndoes
<1>6. /\ cfOp'.pc = "undo" /\ cfOp'.dels = Front(cfOp.dels)
      /\ UNCHANGED <<cfOp.update, cfOp.tmpl, cfOp.prevRes, cfOp.prevTmpl, cfOp.replaced, cfOp.reverts>>
  BY <1>0, <1>1 DEF CfUndo, CfOpRecord
<1>7. cfStack.pending[i].kind = "no" /\ cfStack.pending[i].to.pid = 0
  <2>1. cfStack.pending[i].kind # "revert" BY <1>3, <1>4, <1>5 DEF CfSendsBack
  <2>2. cfStack.pending[i].kind # "delete" BY <1>3, <1>4 DEF CfSendsBack, CfIn
  <2>3. cfStack.pending[i].kind = "no" BY <1>0, <1>4, <2>1, <2>2
  <2> QED BY <1>4, <2>3 DEF CfAlways, CfAtWork
<1>8. /\ \/ cfWorld' = [cfWorld EXCEPT ![p] = CfGone] /\ UNCHANGED cfTold
         \/ cfTold' = cfTold \cup {p} /\ UNCHANGED cfWorld
      /\ cfStack' = [cfStack EXCEPT !.res[i] = CfNoRec, !.pending[i] = e] /\ UNCHANGED cfDel
  BY <1>4, <1>5 DEF CfUndo, CfDestroy, CfTell
<1>9. e.kind \in {"no", "delete"} /\ (e.kind = "delete" => e.to.pid = p) /\ e.to.pid \in {0, p}
  BY <1>7
<1> HIDE DEF n, i, p, e
<1>10. /\ UNCHANGED <<cfStack.status, cfStack.tmpl>>
       /\ cfStack'.res = [cfStack.res EXCEPT ![i] = CfNoRec] /\ cfStack'.pending = [cfStack.pending EXCEPT ![i] = e]
  BY <1>0, <1>8 DEF CfStackRecord
<1>11. /\ \A j \in CfIds : j # i => cfStack'.res[j] = cfStack.res[j] /\ cfStack'.pending[j] = cfStack.pending[j]
       /\ cfStack'.res[i].pid = 0 /\ cfStack'.pending[i] = e
  BY <1>0, <1>4, <1>10 DEF CfNoRec
<1>12. /\ \A j \in CfIds : /\ (cfOp.prevRes[j].pid > 0) <=> (cfOp.prevRes[j].pid \in CfPids)
                           /\ (cfStack.res[j].pid > 0) <=> (cfStack.res[j].pid \in CfPids)
                           /\ cfOp.prevRes[j].pid # p
                           /\ j # i => cfStack.res[j].pid # p
       /\ p \in CfPids /\ p = cfStack.res[i].pid
  <2>1. \A j \in CfIds : /\ (cfOp.prevRes[j].pid > 0) <=> (cfOp.prevRes[j].pid \in CfPids)
                         /\ (cfStack.res[j].pid > 0) <=> (cfStack.res[j].pid \in CfPids)
                         /\ cfStack.res[i].pid > 0 /\ cfStack.res[i].pid = cfOp.prevRes[j].pid => i = j
                         /\ cfStack.res[i].pid > 0 /\ cfStack.res[i].pid = cfStack.res[j].pid => i = j
    BY <1>4, CfDistinct
  <2>2. p = cfStack.res[i].pid BY DEF p
  <2>3. cfOp.prevRes[i].pid # p BY <1>5, <2>2 DEF CfInPlace
  <2> QED BY <1>4, <1>5, <2>1, <2>2, <2>3
<1>13. /\ \A q \in CfPids : q # p => cfWorld'[q] = cfWorld[q]
       /\ \A q \in CfPids : cfWorld'[q].there => cfWorld[q].there /\ cfWorld'[q] = cfWorld[q]
       /\ cfTold \subseteq cfTold' /\ (cfWorld'[p].there => p \in cfTold')
  BY <1>0, <1>8, <1>12 DEF CfGone
<1>14. CfPrevious' BY <1>3, <1>6, <1>12, <1>13 DEF CfPrevious, CfThere, CfLinked
<1>15. \A j \in CfIds : /\ CfIn(j, cfOp.dels) /\ j # i => CfIn(j, cfOp'.dels)
                        /\ CfIn(j, cfOp'.dels) => CfIn(j, cfOp.dels) /\ j # i
  <2>1. ASSUME NEW j \in CfIds, j # i, NEW k \in DOMAIN cfOp.dels, cfOp.dels[k] = j PROVE CfIn(j, cfOp'.dels)
    <3>1. k # n BY <2>1 DEF i
    <3>2. k \in 1..(n - 1) BY <1>4, <3>1
    <3> QED BY <1>4, <1>6, <2>1, <3>2 DEF CfIn
  <2>2. ASSUME NEW j \in CfIds, NEW k \in DOMAIN cfOp'.dels, cfOp'.dels[k] = j PROVE CfIn(j, cfOp.dels) /\ j # i
    <3>1. k \in 1..(n - 1) /\ k \in DOMAIN cfOp.dels /\ k # n /\ cfOp.dels[k] = j BY <1>4, <1>6, <2>2
    <3> QED BY <1>5, <3>1 DEF CfIn
  <2> QED BY <2>1, <2>2 DEF CfIn
<1>16. CfSendsBack'
  <2>0. \A j \in CfIds : j # i => (CfInPlace(j)' <=> CfInPlace(j)) BY <1>6, <1>11 DEF CfInPlace
  <2>1. ASSUME NEW j \in CfIds, cfOp.prevRes[j].pid > 0
        PROVE  \/ cfOp.prevRes[j].pid \in cfTold'
               \/ cfWorld'[cfOp.prevRes[j].pid] = CfProps(cfOp.prevRes[j])
               \/ cfStack'.pending[j].kind = "revert"
    <3>1. \/ cfOp.prevRes[j].pid \in cfTold
          \/ cfWorld[cfOp.prevRes[j].pid] = CfProps(cfOp.prevRes[j])
          \/ cfStack.pending[j].kind = "revert"
      BY <1>1, <1>3, <2>1 DEF CfSendsBack, CfTrue
    <3>2. cfWorld'[cfOp.prevRes[j].pid] = cfWorld[cfOp.prevRes[j].pid] BY <1>12, <1>13, <2>1
    <3>3. cfStack.pending[j].kind = "revert" => j # i BY <1>7
    <3> QED BY <1>11, <1>13, <3>1, <3>2, <3>3
  <2>2. ASSUME NEW j \in CfIds
        PROVE  /\ cfStack'.pending[j].kind = "revert" => cfStack'.pending[j].to = cfOp.prevRes[j] /\ CfInPlace(j)'
               /\ cfStack'.pending[j].kind = "delete" =>
                    cfStack'.pending[j].to.pid # cfOp.prevRes[j].pid /\ ~CfIn(j, cfOp'.dels)
    <3>1. CASE j = i BY <1>9, <1>11, <1>12, <1>15, <3>1
    <3>2. CASE j # i BY <1>3, <1>11, <1>15, <2>0, <3>2 DEF CfSendsBack
    <3> QED BY <3>1, <3>2
  <2>3. ASSUME NEW j \in CfIds PROVE CfIn(j, cfOp'.reverts) => CfInPlace(j)'
    BY <1>3, <1>5, <1>6, <2>0 DEF CfSendsBack
  <2>4. ASSUME NEW j \in CfIds PROVE CfInPlace(j)' \/ cfStack'.res[j].pid = 0 \/ CfIn(j, cfOp'.dels)
    BY <1>3, <1>11, <1>15, <2>0 DEF CfSendsBack
  <2> QED BY <1>6, <2>1, <2>2, <2>3, <2>4 DEF CfSendsBack, CfTrue, CfProps, CfIn, CfInPlace
<1>17. CfUndoes'
  <2> SUFFICES ASSUME NEW m \in DOMAIN cfOp'.dels
               PROVE  LET x == cfOp'.dels[m] IN
                      /\ cfStack'.res[x].pid > 0
                      /\ ~(cfOp'.prevRes[x].pid > 0 /\ cfOp'.prevRes[x].pid = cfStack'.res[x].pid)
                      /\ \A l \in DOMAIN cfOp'.dels : cfOp'.dels[l] = x => l = m
                      /\ \A q \in cfWorld'[cfStack'.res[x].pid].needs :
                           \/ \E l \in 1..(m - 1) : cfStack'.res[cfOp'.dels[l]].pid = q
                           \/ \E d \in CfIds : cfOp'.prevRes[d].pid = q
    BY DEF CfUndoes, CfInPlace
  <2> DEFINE x == cfOp.dels[m]
  <2>1. /\ m \in 1..(n - 1) /\ m \in DOMAIN cfOp.dels /\ cfOp'.dels[m] = x /\ x \in CfIds /\ x # i
        /\ \A l \in 1..(n - 1) : l \in DOMAIN cfOp.dels /\ cfOp'.dels[l] = cfOp.dels[l] /\ cfOp.dels[l] \in CfIds
                                 /\ cfOp.dels[l] # i
        /\ DOMAIN cfOp'.dels = 1..(n - 1)
    <3>1. DOMAIN cfOp'.dels = 1..(n - 1) /\ m \in 1..(n - 1) BY <1>4, <1>6
    <3>2. ASSUME NEW l \in 1..(n - 1)
          PROVE  l \in DOMAIN cfOp.dels /\ cfOp'.dels[l] = cfOp.dels[l] /\ cfOp.dels[l] \in CfIds /\ cfOp.dels[l] # i
      <4>1. l \in DOMAIN cfOp.dels /\ l # n BY <1>4
      <4> QED BY <1>0, <1>4, <1>5, <1>6, <4>1
    <3> QED BY <3>1, <3>2
  <2>2. /\ cfStack.res[x].pid > 0 /\ ~(cfOp.prevRes[x].pid > 0 /\ cfOp.prevRes[x].pid = cfStack.res[x].pid)
        /\ \A l \in DOMAIN cfOp.dels : cfOp.dels[l] = x => l = m
        /\ \A q \in cfWorld[cfStack.res[x].pid].needs :
             \/ \E l \in 1..(m - 1) : cfStack.res[cfOp.dels[l]].pid = q
             \/ \E d \in CfIds : cfOp.prevRes[d].pid = q
    BY <1>3, <2>1 DEF CfUndoes, CfInPlace
  <2>3. cfStack'.res[x] = cfStack.res[x] /\ cfWorld'[cfStack.res[x].pid] = cfWorld[cfStack.res[x].pid]
    BY <1>11, <1>12, <1>13, <2>1, <2>2
  <2>4. \A l \in 1..(m - 1) : cfStack'.res[cfOp'.dels[l]] = cfStack.res[cfOp.dels[l]]
    <3> TAKE l \in 1..(m - 1)
    <3>1. l \in 1..(n - 1) BY <1>4, <2>1
    <3> QED BY <1>11, <2>1, <3>1
  <2>5. \A l \in DOMAIN cfOp'.dels : cfOp'.dels[l] = x => l = m BY <2>1, <2>2
  <2> HIDE DEF x
  <2> QED BY <1>6, <2>1, <2>2, <2>3, <2>4, <2>5
<1>18. \A q \in CfPids : cfWorld[q].there =>
         q \in cfTold \/ (\E j \in CfIds : q = cfStack.res[j].pid) \/ (\E j \in CfIds : q = cfOp.prevRes[j].pid)
  BY <1>1 DEF CfCalm, CfAccounted, CfThere, CfDeployPcs
<1>19. CfAccounted'
  <2> SUFFICES ASSUME NEW q \in CfPids, cfWorld'[q].there
               PROVE  \/ q \in cfTold'
                      \/ \E j \in CfIds : q = cfStack'.res[j].pid
                      \/ \E j \in CfIds : q = cfOp.prevRes[j].pid
    BY <1>6 DEF CfAccounted, CfThere
  <2>1. CASE q = p BY <1>13, <2>1
  <2>2. CASE q # p
    <3>1. ASSUME NEW j \in CfIds, q = cfStack.res[j].pid PROVE q = cfStack'.res[j].pid
      BY <1>11, <1>12, <2>2, <3>1
    <3> QED BY <1>13, <1>18, <3>1
  <2> QED BY <2>1, <2>2
<1>20. CfDependentsFirst'
  <2> SUFFICES ASSUME NEW x \in CfPids, cfWorld'[x].there, x \notin cfTold', NEW q \in cfWorld'[x].needs,
                      \A j \in CfIds : x # cfStack'.pending[j].to.pid
               PROVE  cfWorld'[q].there
    BY DEF CfDependentsFirst
  <2>1. cfWorld[x].there /\ cfWorld'[x] = cfWorld[x] /\ x \notin cfTold /\ q \in cfWorld[x].needs /\ q \in CfPids
    BY <1>0, <1>13
  <2>2. \A j \in CfIds : x # cfStack.pending[j].to.pid
    <3> TAKE j \in CfIds
    <3>1. CASE j = i BY <1>7, <3>1, CfPidsIs
    <3> QED BY <1>11, <3>1
  <2>3. ~CfSuperseded(x, q) BY <1>1 DEF CfSuperseded
  <2>4. cfWorld[q].there BY <2>1, <2>2, <2>3 DEF CfCalm, CfDependentsFirst
  <2>5. CASE q # p BY <1>13, <2>1, <2>4, <2>5
  <2>6. CASE q = p
    <3>1. ASSUME NEW j \in CfIds, x = cfOp.prevRes[j].pid PROVE FALSE
      <4>1. cfOp.prevRes[j].pid > 0 BY <1>12, <3>1
      <4>2. CfTrue(cfOp.prevRes[j])
        <5>1. \/ cfOp.prevRes[j].pid \in cfTold \/ CfTrue(cfOp.prevRes[j])
              \/ (cfStack.pending[j].kind = "revert" /\ cfStack.pending[j].to = cfOp.prevRes[j])
          BY <1>1, <1>3, <4>1 DEF CfSendsBack
        <5> QED BY <2>1, <2>2, <3>1, <5>1
      <4>3. CfLinked(cfOp.prevRes, cfOp.prevTmpl, j) BY <1>3, <2>1, <3>1, <4>1 DEF CfPrevious
      <4>4. q \in cfOp.prevRes[j].needs BY <2>1, <3>1, <4>2 DEF CfTrue, CfProps
      <4> QED BY <1>12, <2>6, <4>3, <4>4 DEF CfLinked
    <3>2. ASSUME NEW j \in CfIds, x = cfStack.res[j].pid PROVE cfWorld'[q].there
      <4>1. CASE CfInPlace(j) BY <3>1, <3>2, <4>1 DEF CfInPlace
      <4>2. CASE ~CfInPlace(j)
        <5>1. CfIn(j, cfOp.dels) BY <1>3, <3>2, <4>2, CfPidsIs DEF CfSendsBack
        <5>2. PICK m \in DOMAIN cfOp.dels : cfOp.dels[m] = j BY <5>1 DEF CfIn
        <5>3. \/ \E l \in 1..(m - 1) : cfStack.res[cfOp.dels[l]].pid = q
              \/ \E d \in CfIds : cfOp.prevRes[d].pid = q
          BY <1>3, <2>1, <3>2, <5>2 DEF CfUndoes
        <5>4. PICK l \in 1..(m - 1) : cfStack.res[cfOp.dels[l]].pid = q BY <1>12, <2>6, <5>3
        <5>5. l \in DOMAIN cfOp.dels /\ l # n BY <1>4, <5>2, <5>4
        <5>6. cfOp.dels[l] \in CfIds /\ cfOp.dels[l] # i BY <1>0, <1>5, <5>5
        <5> QED BY <1>12, <2>6, <5>4, <5>6
      <4> QED BY <4>1, <4>2
    <3> QED BY <1>18, <2>1, <3>1, <3>2
  <2> QED BY <2>5, <2>6
<1>21. CfStages' BY <1>1, <1>2, <1>6, <1>8, <1>10 DEF CfCalm, CfStages
<1> QED BY <1>6, <1>14, <1>16, <1>17, <1>19, <1>20, <1>21, CfCalmIn DEF CfRollingBack

(* The rollback ends, with what failed of it pending.                       *)
LEMMA CfRolledBackCalm ==
  ASSUME CfAlways, CfCalm, cfUndone = "no", CfRolledBack
  PROVE  CfCalm'
<1>0. /\ cfOp \in CfOpRecord /\ cfStack \in CfStackRecord /\ cfOp.update \in BOOLEAN
      /\ cfStack.pending \in [CfIds -> [kind : {"no", "revert", "delete"}, to : CfRec]]
  BY CfFields DEF CfAlways, CfShapes
<1>1. cfOp.pc = "undo" /\ cfOp.dels = <<>> BY DEF CfRolledBack
<1>2. CfRollingBack /\ cfDel.pc = "idle" /\ cfStack.status \in CfWorking BY <1>1 DEF CfCalm, CfStages
<1>3. CfPrevious /\ CfSendsBack BY <1>2 DEF CfRollingBack
<1>4. UNCHANGED <<cfWorld, cfTold, cfDel>> /\ cfOp'.pc = "idle" BY <1>2 DEF CfRolledBack, CfIdle
<1>5. /\ cfStack'.status = CfRollbackStatus /\ UNCHANGED cfStack.pending
      /\ cfStack'.res = IF cfOp.update THEN cfOp.prevRes ELSE cfStack.res
      /\ cfStack'.tmpl = IF cfOp.update THEN cfOp.prevTmpl ELSE cfStack.tmpl
  BY <1>0 DEF CfRolledBack, CfStackRecord
<1>6. \A i \in CfIds : CfInPlace(i) \/ cfStack.res[i].pid = 0
  BY <1>1, <1>3 DEF CfSendsBack, CfIn
<1>7. \A q \in CfPids : cfWorld[q].there => q \in cfTold \/ \E j \in CfIds : q = cfOp.prevRes[j].pid
  <2> SUFFICES ASSUME NEW q \in CfPids, cfWorld[q].there, q \notin cfTold PROVE \E j \in CfIds : q = cfOp.prevRes[j].pid
    OBVIOUS
  <2>1. (\E j \in CfIds : q = cfStack.res[j].pid) \/ (\E j \in CfIds : q = cfOp.prevRes[j].pid)
    BY <1>1 DEF CfCalm, CfAccounted, CfThere, CfDeployPcs
  <2>2. ASSUME NEW j \in CfIds, q = cfStack.res[j].pid PROVE q = cfOp.prevRes[j].pid
    BY <1>6, <2>2, CfPidsIs DEF CfInPlace
  <2> QED BY <2>1, <2>2
<1>8. CfDependentsFirst'
  <2>1. \A x, q \in CfPids : ~CfSuperseded(x, q) BY <1>1 DEF CfSuperseded
  <2>2. cfWorld \in [CfPids -> [there : BOOLEAN, ver : Nat, needs : SUBSET CfPids]] BY DEF CfAlways, CfShapes
  <2>3. \A x \in CfPids : cfWorld[x].there =>
          \/ \A q \in cfWorld[x].needs : cfWorld[q].there
          \/ x \in cfTold
          \/ \E j \in CfIds : x = cfStack.pending[j].to.pid
    BY <2>1, <2>2 DEF CfCalm, CfDependentsFirst
  <2> QED BY <1>4, <1>5, <2>3 DEF CfDependentsFirst
<1>9. CASE cfOp.update
  <2>1. cfStack'.res = cfOp.prevRes /\ cfStack'.tmpl = cfOp.prevTmpl BY <1>5, <1>9
  <2>2. /\ cfStack'.status \in {"UPDATE_ROLLBACK_COMPLETE", "UPDATE_ROLLBACK_FAILED"}
        /\ cfStack'.status = "UPDATE_ROLLBACK_COMPLETE" => \A i \in CfIds : cfStack.pending[i].kind = "no"
    BY <1>5, <1>9 DEF CfRollbackStatus, CfPending
  <2>3. ASSUME NEW i \in CfIds, cfOp.prevRes[i].pid > 0
        PROVE  /\ CfThere(cfOp.prevRes[i].pid)
               /\ \/ cfOp.prevRes[i].pid \in cfTold
                  \/ /\ CfLinked(cfOp.prevRes, cfOp.prevTmpl, i)
                     /\ CfTrue(cfOp.prevRes[i]) \/ cfStack.pending[i].kind = "revert"
    BY <1>1, <1>3, <2>3 DEF CfPrevious, CfSendsBack
  <2>4. ASSUME NEW i \in CfIds
        PROVE  /\ cfStack.pending[i].kind = "revert" =>
                    cfStack.pending[i].to = cfOp.prevRes[i] /\ cfOp.prevRes[i].pid > 0
               /\ cfStack.pending[i].kind = "delete" => cfStack.pending[i].to.pid # cfOp.prevRes[i].pid
    BY <1>3 DEF CfSendsBack, CfInPlace
  <2>5. CfRested'
    <3>1. UNCHANGED <<cfWorld, cfTold, cfStack.pending>> /\ cfOp'.pc = "idle" BY <1>4, <1>5
    <3>2. ASSUME NEW i \in CfIds, cfOp.prevRes[i].pid > 0
          PROVE  /\ cfWorld[cfOp.prevRes[i].pid].there
                 /\ \/ cfOp.prevRes[i].pid \in cfTold
                    \/ /\ CfLinked(cfOp.prevRes, cfOp.prevTmpl, i)
                       /\ \/ cfWorld[cfOp.prevRes[i].pid] = CfProps(cfOp.prevRes[i])
                          \/ cfStack.pending[i].kind = "revert"
      BY <2>3, <3>2 DEF CfThere, CfTrue
    <3>3. ASSUME NEW i \in CfIds, cfStack'.res[i].pid > 0
          PROVE  /\ cfWorld'[cfStack'.res[i].pid].there
                 /\ \/ cfStack'.res[i].pid \in cfTold'
                    \/ /\ CfLinked(cfStack'.res, cfStack'.tmpl, i)
                       /\ \/ cfWorld'[cfStack'.res[i].pid] = CfProps(cfStack'.res[i])
                          \/ cfStack'.pending[i].kind = "revert"
      BY <2>1, <3>1, <3>2, <3>3
    <3>4. ASSUME NEW i \in CfIds
          PROVE  /\ cfStack'.pending[i].kind = "revert" =>
                      cfStack'.pending[i].to = cfStack'.res[i] /\ cfStack'.res[i].pid > 0
                 /\ cfStack'.pending[i].kind = "delete" =>
                      cfStack'.pending[i].to.pid = 0 \/ cfStack'.pending[i].to.pid # cfStack'.res[i].pid
      BY <2>1, <2>4, <3>1
    <3>5. cfStack'.status \in CfWhole => \A i \in CfIds : cfStack'.pending[i].kind = "no"
      BY <2>2, <3>1 DEF CfWhole
    <3> SUFFICES
          /\ \A i \in CfIds : cfStack'.res[i].pid > 0 =>
               /\ cfWorld'[cfStack'.res[i].pid].there
               /\ \/ cfStack'.res[i].pid \in cfTold'
                  \/ /\ CfLinked(cfStack'.res, cfStack'.tmpl, i)
                     /\ \/ cfWorld'[cfStack'.res[i].pid] = CfProps(cfStack'.res[i])
                        \/ cfStack'.pending[i].kind = "revert"
          /\ \A i \in CfIds :
               /\ cfStack'.pending[i].kind = "revert" =>
                    cfStack'.pending[i].to = cfStack'.res[i] /\ cfStack'.res[i].pid > 0
               /\ cfStack'.pending[i].kind = "delete" =>
                    cfStack'.pending[i].to.pid = 0 \/ cfStack'.pending[i].to.pid # cfStack'.res[i].pid
          /\ cfStack'.status \in CfWhole => \A i \in CfIds : cfStack'.pending[i].kind = "no"
      BY <3>1 DEF CfRested, CfThere, CfTrue, CfProps, CfLinked
    <3> QED BY <3>3, <3>4, <3>5
  <2>6. CfAccounted' BY <1>4, <1>7, <2>1 DEF CfAccounted, CfThere
  <2>7. CfStages' BY <1>2, <1>4, <2>2 DEF CfCalm, CfStages, CfSettled, CfWhole, CfWorking
  <2>8. cfStack'.status \in CfSettled BY <2>2 DEF CfSettled, CfWhole
  <2> QED BY <1>4, <1>8, <2>5, <2>6, <2>7, <2>8, CfCalmIn
<1>10. CASE ~cfOp.update
  <2>1. \A i \in CfIds : cfOp.prevRes[i].pid = 0 BY <1>10 DEF CfAlways, CfAtWork, CfNoRes, CfNoRec
  <2>2. cfStack'.res = cfStack.res /\ cfStack'.status \in {"ROLLBACK_COMPLETE", "ROLLBACK_FAILED"}
    BY <1>5, <1>10 DEF CfRollbackStatus
  <2>3. \A i \in CfIds : cfStack'.res[i].pid = 0 BY <1>6, <2>1, <2>2 DEF CfInPlace
  <2>4. CfAccounted' BY <1>4, <1>7, <2>1, CfPidsIs DEF CfAccounted, CfThere
  <2>5. CfStages' BY <1>2, <1>4, <2>2 DEF CfCalm, CfStages, CfEmptied, CfWorking
  <2>6. cfStack'.status \in CfEmptied BY <2>2 DEF CfEmptied
  <2> QED BY <1>4, <1>8, <2>3, <2>4, <2>5, <2>6, CfCalmIn
<1> QED BY <1>0, <1>9, <1>10

(* The continued rollback ends.                                             *)
LEMMA CfContinuedCalm ==
  ASSUME CfAlways, CfCalm, cfUndone = "no", CfContinued
  PROVE  CfCalm'
<1>0. cfStack \in CfStackRecord BY DEF CfAlways, CfShapes
<1>1. cfOp.pc = "continue" BY DEF CfContinued
<1>2. CfRested /\ cfDel.pc = "idle" /\ cfStack.status \in CfWorking BY <1>1 DEF CfCalm, CfStages
<1>3. UNCHANGED <<cfWorld, cfTold, cfDel>> /\ cfOp'.pc = "idle" BY DEF CfContinued, CfIdle
<1>4. /\ UNCHANGED <<cfStack.res, cfStack.pending, cfStack.tmpl>>
      /\ cfStack'.status \in {"UPDATE_ROLLBACK_COMPLETE", "UPDATE_ROLLBACK_FAILED"}
      /\ cfStack'.status = "UPDATE_ROLLBACK_COMPLETE" => \A i \in CfIds : cfStack.pending[i].kind = "no"
  BY <1>0 DEF CfContinued, CfSetStatus, CfStackRecord, CfPending
<1>5. CfRested' BY <1>2, <1>3, <1>4 DEF CfRested, CfThere, CfTrue, CfProps, CfLinked, CfWhole
<1>6. CfAccounted' BY <1>1, <1>3, <1>4 DEF CfCalm, CfAccounted, CfThere, CfDeployPcs
<1>7. CfDependentsFirst'
  <2>1. \A x, q \in CfPids : ~CfSuperseded(x, q) BY <1>1 DEF CfSuperseded
  <2>2. cfWorld \in [CfPids -> [there : BOOLEAN, ver : Nat, needs : SUBSET CfPids]] BY DEF CfAlways, CfShapes
  <2>3. \A x \in CfPids : cfWorld[x].there =>
          \/ \A q \in cfWorld[x].needs : cfWorld[q].there
          \/ x \in cfTold
          \/ \E j \in CfIds : x = cfStack.pending[j].to.pid
    BY <2>1, <2>2 DEF CfCalm, CfDependentsFirst
  <2> QED BY <1>3, <1>4, <2>3 DEF CfDependentsFirst
<1>8. CfStages' BY <1>2, <1>3, <1>4 DEF CfCalm, CfStages, CfSettled, CfWhole, CfWorking
<1> QED BY <1>3, <1>4, <1>5, <1>6, <1>7, <1>8, CfCalmIn DEF CfSettled, CfWhole

(* One of the steps that failed is tried again.                             *)
LEMMA CfContinueCalm ==
  ASSUME CfAlways, CfCalm, cfUndone = "no", NEW i \in CfIds, NEW ok \in BOOLEAN, CfContinue(i, ok)
  PROVE  CfCalm'
<1>0. /\ cfOp \in CfOpRecord /\ cfStack \in CfStackRecord /\ cfTold \in SUBSET CfPids
      /\ cfWorld \in [CfPids -> [there : BOOLEAN, ver : Nat, needs : SUBSET CfPids]]
      /\ cfStack.pending \in [CfIds -> [kind : {"no", "revert", "delete"}, to : CfRec]]
      /\ cfOp.todo \in SUBSET CfIds
  BY CfFields DEF CfAlways, CfShapes
<1>1. cfOp.pc = "continue" /\ i \in cfOp.todo BY DEF CfContinue
<1>2. CfRested /\ cfDel.pc = "idle" /\ cfStack.status \in CfWorking BY <1>1 DEF CfCalm, CfStages
<1>3. cfOp'.pc = "continue" /\ cfOp'.todo = cfOp.todo \ {i} BY <1>0, <1>1 DEF CfContinue, CfOpRecord
<1> DEFINE r == cfStack.pending[i].to
           rev == cfStack.pending[i].kind = "revert"
           e == IF ok THEN CfNothing ELSE cfStack.pending[i]
<1>4. /\ rev => r = cfStack.res[i] /\ r.pid > 0 /\ r.pid \in CfPids
      /\ ~rev => cfStack.pending[i].kind = "delete" /\ \A j \in CfIds : r.pid > 0 => r.pid # cfStack.res[j].pid
      /\ r.pid \in {0} \cup CfPids
  <2>1. \A j \in CfIds : /\ cfStack.pending[i].to.pid > 0 /\ cfStack.pending[i].to.pid = cfStack.res[j].pid => i = j
                         /\ (cfStack.res[j].pid > 0) <=> (cfStack.res[j].pid \in CfPids)
    BY CfDistinct
  <2>2. cfStack.pending[i].kind # "no" BY <1>1, <1>2 DEF CfRested
  <2>3. rev => r = cfStack.res[i] /\ r.pid > 0 BY <1>2 DEF CfRested
  <2>4. cfStack.pending[i].kind = "delete" => r.pid = 0 \/ r.pid # cfStack.res[i].pid BY <1>2 DEF CfRested
  <2>5. r.pid \in {0} \cup CfPids BY CfFields DEF CfAlways
  <2>6. cfStack.pending[i].kind \in {"no", "revert", "delete"} BY <1>0
  <2> QED BY <2>1, <2>2, <2>3, <2>4, <2>5, <2>6
<1>5. /\ UNCHANGED <<cfTold, cfDel>> /\ cfStack' = [cfStack EXCEPT !.pending[i] = e]
      /\ \/ UNCHANGED cfWorld /\ ~(rev /\ ok)
         \/ rev /\ ok /\ cfWorld[r.pid].there /\ cfWorld' = [cfWorld EXCEPT ![r.pid] = CfProps(r)]
         \/ ~rev /\ ok /\ r.pid > 0 /\ cfWorld' = [cfWorld EXCEPT ![r.pid] = CfGone]
      /\ ~rev /\ ok /\ r.pid > 0 => cfWorld' = [cfWorld EXCEPT ![r.pid] = CfGone]
  <2>1. CASE rev
    <3>1. cfStack.pending[i] = [kind |-> "revert", to |-> r]
      <4>1. cfStack.pending[i] \in [kind : {"no", "revert", "delete"}, to : CfRec] BY <1>0
      <4> QED BY <2>1, <4>1
    <3>2. CfRevertTo(r, i, ok) BY <2>1 DEF CfContinue
    <3>3. UNCHANGED <<cfTold, cfDel>> BY DEF CfContinue
    <3> QED BY <2>1, <3>1, <3>2, <3>3 DEF CfRevertTo
  <2>2. CASE ~rev BY <2>2 DEF CfContinue, CfDestroy
  <2> QED BY <2>1, <2>2
<1> HIDE DEF r, rev, e
<1>6. UNCHANGED <<cfStack.status, cfStack.res, cfStack.tmpl>> /\ cfStack'.pending = [cfStack.pending EXCEPT ![i] = e]
  BY <1>0, <1>5 DEF CfStackRecord
<1>7. /\ \A j \in CfIds : j # i => cfStack'.pending[j] = cfStack.pending[j]
      /\ cfStack'.pending[i] = e
      /\ ok => e.kind = "no" /\ e.to.pid = 0
      /\ ~ok => e = cfStack.pending[i]
  BY <1>0, <1>6 DEF e, CfNothing, CfNoRec
<1>8. /\ \A q \in CfPids : cfWorld'[q].there => cfWorld[q].there
      /\ \A q \in CfPids : q # r.pid => cfWorld'[q] = cfWorld[q]
      /\ rev => \A q \in CfPids : cfWorld[q].there => cfWorld'[q].there
      /\ rev /\ ok => cfWorld'[r.pid] = CfProps(r)
      /\ ~ok => cfWorld' = cfWorld
      /\ ~rev /\ ok /\ r.pid > 0 => ~cfWorld'[r.pid].there
  <2>1. CASE rev /\ ok /\ cfWorld[r.pid].there /\ cfWorld' = [cfWorld EXCEPT ![r.pid] = CfProps(r)]
    <3>1. \A q \in CfPids : cfWorld'[q] = IF q = r.pid THEN CfProps(r) ELSE cfWorld[q] BY <1>0, <2>1
    <3>2. CfProps(r).there BY DEF CfProps
    <3> QED BY <1>4, <2>1, <3>1, <3>2
  <2>2. CASE ~rev /\ ok /\ r.pid > 0 /\ cfWorld' = [cfWorld EXCEPT ![r.pid] = CfGone]
    <3>1. \A q \in CfPids : cfWorld'[q] = IF q = r.pid THEN CfGone ELSE cfWorld[q] BY <1>0, <2>2
    <3>2. r.pid \in CfPids BY <1>4, <2>2
    <3> QED BY <2>2, <3>1, <3>2 DEF CfGone
  <2>3. CASE UNCHANGED cfWorld /\ ~(rev /\ ok) BY <1>5, <2>3, <1>4, <1>0 DEF CfGone
  <2> QED BY <1>5, <2>1, <2>2, <2>3
<1>9. \A j \in CfIds : /\ (cfStack.res[j].pid > 0) <=> (cfStack.res[j].pid \in CfPids)
                       /\ j # i /\ cfStack.res[j].pid > 0 => cfStack.res[j].pid # r.pid
                       /\ ~rev /\ cfStack.res[j].pid > 0 => cfStack.res[j].pid # r.pid
  <2>1. \A j \in CfIds : /\ (cfStack.res[j].pid > 0) <=> (cfStack.res[j].pid \in CfPids)
                         /\ cfStack.res[j].pid > 0 /\ cfStack.res[j].pid = cfStack.res[i].pid => j = i
    BY CfDistinct
  <2> QED BY <1>4, <2>1
<1>10. ASSUME NEW j \in CfIds, cfStack.res[j].pid > 0
       PROVE  /\ cfWorld[cfStack.res[j].pid].there
              /\ \/ cfStack.res[j].pid \in cfTold
                 \/ /\ CfLinked(cfStack.res, cfStack.tmpl, j)
                    /\ \/ cfWorld[cfStack.res[j].pid] = CfProps(cfStack.res[j])
                       \/ cfStack.pending[j].kind = "revert"
  BY <1>2, <1>10 DEF CfRested, CfThere, CfTrue
<1>11. ASSUME NEW j \in CfIds, cfStack.res[j].pid > 0
       PROVE  /\ cfWorld'[cfStack.res[j].pid].there
              /\ \/ cfStack.res[j].pid \in cfTold
                 \/ /\ CfLinked(cfStack.res, cfStack.tmpl, j)
                    /\ \/ cfWorld'[cfStack.res[j].pid] = CfProps(cfStack.res[j])
                       \/ cfStack'.pending[j].kind = "revert"
  <2>1. CASE cfStack.res[j].pid # r.pid
    <3>1. cfWorld'[cfStack.res[j].pid] = cfWorld[cfStack.res[j].pid] BY <1>8, <1>9, <1>11, <2>1
    <3>2. CASE j # i BY <1>7, <1>10, <1>11, <3>1, <3>2
    <3>3. CASE j = i
      <4>1. cfStack.pending[j].kind # "revert" BY <1>4, <2>1, <3>3 DEF rev
      <4> QED BY <1>10, <1>11, <3>1, <4>1
    <3> QED BY <3>2, <3>3
  <2>2. CASE cfStack.res[j].pid = r.pid
    <3>1. j = i /\ rev /\ r = cfStack.res[j] BY <1>4, <1>9, <1>11, <2>2
    <3>2. cfWorld'[r.pid].there BY <1>4, <1>8, <1>10, <1>11, <2>2, <3>1
    <3>3. ok => cfWorld'[cfStack.res[j].pid] = CfProps(cfStack.res[j]) BY <1>8, <3>1
    <3>4. ~ok => cfStack'.pending[j].kind = "revert" BY <1>7, <3>1 DEF rev
    <3> QED BY <1>10, <1>11, <2>2, <3>2, <3>3, <3>4
  <2> QED BY <2>1, <2>2
<1>12. CfRested'
  <2>1. ASSUME NEW j \in CfIds
        PROVE  /\ cfStack'.pending[j].kind = "revert" => cfStack'.pending[j].to = cfStack.res[j] /\ cfStack.res[j].pid > 0
               /\ cfStack'.pending[j].kind = "delete" =>
                    cfStack'.pending[j].to.pid = 0 \/ cfStack'.pending[j].to.pid # cfStack.res[j].pid
               /\ j \in cfOp'.todo => cfStack'.pending[j].kind # "no"
    <3>1. /\ cfStack.pending[j].kind = "revert" => cfStack.pending[j].to = cfStack.res[j] /\ cfStack.res[j].pid > 0
          /\ cfStack.pending[j].kind = "delete" =>
               cfStack.pending[j].to.pid = 0 \/ cfStack.pending[j].to.pid # cfStack.res[j].pid
          /\ j \in cfOp.todo => cfStack.pending[j].kind # "no"
      BY <1>1, <1>2 DEF CfRested
    <3> QED BY <1>3, <1>7, <3>1
  <2>2. cfStack'.status \notin CfWhole BY <1>2, <1>6 DEF CfWorking, CfWhole
  <2>3. cfOp'.todo \subseteq CfIds BY <1>0, <1>3
  <2> QED BY <1>5, <1>6, <1>11, <2>1, <2>2, <2>3 DEF CfRested, CfThere, CfTrue, CfProps, CfLinked
<1>13. \A q \in CfPids : cfWorld[q].there => q \in cfTold \/ \E j \in CfIds : q = cfStack.res[j].pid
  BY <1>1 DEF CfCalm, CfAccounted, CfThere, CfDeployPcs
<1>14. CfAccounted' BY <1>5, <1>6, <1>8, <1>13 DEF CfAccounted, CfThere
<1>15. CfDependentsFirst'
  <2> SUFFICES ASSUME NEW x \in CfPids, cfWorld'[x].there, x \notin cfTold, NEW q \in cfWorld'[x].needs,
                      \A j \in CfIds : x # cfStack'.pending[j].to.pid
               PROVE  cfWorld'[q].there
    BY <1>5 DEF CfDependentsFirst
  <2>1. CASE rev /\ ok /\ x = r.pid
    <3>1. q \in cfStack.res[i].needs BY <1>4, <1>8, <2>1 DEF CfProps
    <3>2. CfLinked(cfStack.res, cfStack.tmpl, i) BY <1>4, <1>10, <2>1
    <3>3. PICK d \in CfIds : cfStack.res[d].pid = q BY <3>1, <3>2 DEF CfLinked
    <3>4. cfStack.res[i] \in CfRec BY CfFields DEF CfAlways
    <3>5. q \in CfPids BY <3>1, <3>4 DEF CfRec
    <3> QED BY <1>9, <1>11, <3>3, <3>5
  <2>2. CASE ~(rev /\ ok /\ x = r.pid)
    <3>1. cfWorld'[x] = cfWorld[x] /\ cfWorld[x].there /\ q \in cfWorld[x].needs /\ q \in CfPids
      <4>1. cfWorld'[x] = cfWorld[x]
        <5>1. x # r.pid \/ ~ok \/ (~rev /\ ok /\ x = r.pid) BY <2>2
        <5>2. ~(~rev /\ ok /\ x = r.pid) BY <1>8, CfPidsIs
        <5> QED BY <1>8, <5>1, <5>2
      <4> QED BY <1>0, <1>8, <4>1
    <3>2. ASSUME NEW j \in CfIds, x = cfStack.pending[j].to.pid PROVE FALSE
      <4>1. CASE j # i \/ ~ok BY <1>7, <3>2, <4>1
      <4>2. CASE j = i /\ ok
        <5>1. x = r.pid BY <3>2, <4>2 DEF r
        <5>2. ~rev /\ r.pid > 0 BY <2>2, <4>2, <5>1, CfPidsIs
        <5> QED BY <1>8, <4>2, <5>1, <5>2
      <4> QED BY <4>1, <4>2
    <3>3. ~CfSuperseded(x, q) BY <1>1 DEF CfSuperseded
    <3>4. cfWorld[q].there BY <3>1, <3>2, <3>3 DEF CfCalm, CfDependentsFirst
    <3>5. CASE rev \/ q # r.pid \/ ~ok BY <1>8, <3>1, <3>4, <3>5
    <3>6. CASE ~rev /\ q = r.pid
      <4>1. PICK j \in CfIds : x = cfStack.res[j].pid BY <1>13, <3>1
      <4>2. cfStack.res[j].pid > 0 BY <1>9, <4>1
      <4>3. cfStack.pending[j].kind # "revert"
        <5>1. cfStack.pending[j].kind = "revert" => cfStack.pending[j].to = cfStack.res[j] BY <1>2 DEF CfRested
        <5> QED BY <3>2, <4>1, <5>1
      <4>4. CfLinked(cfStack.res, cfStack.tmpl, j) /\ cfWorld[x] = CfProps(cfStack.res[j])
        BY <1>10, <4>1, <4>2, <4>3
      <4>5. q \in cfStack.res[j].needs BY <3>1, <4>4 DEF CfProps
      <4>6. PICK d \in CfIds : cfStack.res[d].pid = q BY <4>4, <4>5 DEF CfLinked
      <4>7. q > 0 BY <3>1, CfPidsIs
      <4> QED BY <1>9, <3>6, <4>6, <4>7
    <3> QED BY <3>5, <3>6
  <2> QED BY <2>1, <2>2
<1>16. CfStages' BY <1>1, <1>2, <1>3, <1>5, <1>6 DEF CfCalm, CfStages
<1> QED BY <1>3, <1>12, <1>14, <1>15, <1>16, CfCalmIn

(* The delete task: begins with all that is recorded or named.              *)
LEMMA CfDeleteBeginCalm ==
  ASSUME CfAlways, CfCalm, cfUndone = "no", CfDeleteBegin
  PROVE  CfCalm'
<1>0. cfStack \in CfStackRecord /\ cfDel \in CfDelRecord BY DEF CfAlways, CfShapes
<1>1. cfDel.pc = "start" BY DEF CfDeleteBegin
<1>2. /\ UNCHANGED <<cfOp, cfWorld, cfTold, cfStack.res, cfStack.pending, cfStack.tmpl>>
      /\ cfStack'.status = "DELETE_IN_PROGRESS"
      /\ cfDel'.pc = "deleting" /\ cfDel'.todo = CfHeld(cfStack.res) \cup CfTmplIds(cfStack.tmpl)
      /\ UNCHANGED <<cfDel.own, cfDel.failed>>
  BY <1>0 DEF CfDeleteBegin, CfSetStatus, CfStackRecord, CfDelRecord
<1>3. cfOp.pc = "idle" \/ (cfOp.pc = "parked" /\ ~cfOp.update)
  BY <1>1 DEF CfCalm, CfStages
<1>4. CfStages' BY <1>2, <1>3 DEF CfCalm, CfStages
<1>5. CfAccounted' /\ CfDependentsFirst' BY <1>2, CfSafeStays DEF CfCalm
<1>6. ASSUME NEW i \in CfIds, cfStack.res[i].pid > 0, cfStack.res[i].pid \notin cfTold
      PROVE  \/ cfStack.pending[i].to.pid = cfStack.res[i].pid
             \/ \A q \in cfWorld[cfStack.res[i].pid].needs :
                  \E d \in CfIds : <<i, d>> \in cfStack.tmpl.deps /\ cfStack.res[d].pid = q
  <2>1. CASE cfOp.pc = "parked"
    <3>1. CfBuilt /\ cfOp.prevRes = CfNoRes /\ cfStack.tmpl = cfOp.tmpl
      BY <1>1, <1>3, <2>1 DEF CfCalm, CfDeployPcs, CfBuilt, CfAlways, CfAtWork
    <3>2. cfOp.prevRes[i].pid = 0 BY <3>1 DEF CfNoRes, CfNoRec
    <3>3. CfIn(i, cfOp.created)
      <4>1. CfIn(i, cfOp.created) \/ cfStack.res[i] = cfOp.prevRes[i] BY <3>1 DEF CfBuilt, CfChanged
      <4> QED BY <1>6, <3>2, <4>1
    <3>4. PICK k \in DOMAIN cfOp.created : cfOp.created[k] = i BY <3>3 DEF CfIn
    <3>5. /\ cfWorld[cfStack.res[i].pid] = CfProps(cfStack.res[i])
          /\ \A q \in cfStack.res[i].needs :
               \E l \in 1..(k - 1) : <<i, cfOp.created[l]>> \in cfOp.tmpl.deps /\ cfStack.res[cfOp.created[l]].pid = q
      <4>1. CfCreated BY <3>1 DEF CfBuilt
      <4>2. /\ cfWorld[cfStack.res[cfOp.created[k]].pid] = CfProps(cfStack.res[cfOp.created[k]])
            /\ \A q \in cfStack.res[cfOp.created[k]].needs :
                 \E l \in 1..(k - 1) : /\ <<cfOp.created[k], cfOp.created[l]>> \in cfOp.tmpl.deps
                                       /\ cfStack.res[cfOp.created[l]].pid = q
        BY <4>1 DEF CfCreated, CfTrue
      <4> QED BY <3>4, <4>2
    <3>6. \A l \in 1..(k - 1) : cfOp.created[l] \in CfIds
      <4>1. cfOp.created \in Seq(CfIds) BY CfFields DEF CfAlways
      <4> QED BY <3>4, <4>1
    <3>7. cfWorld[cfStack.res[i].pid].needs = cfStack.res[i].needs BY <3>5 DEF CfProps
    <3>8. ASSUME NEW q \in cfStack.res[i].needs
          PROVE  \E d \in CfIds : <<i, d>> \in cfStack.tmpl.deps /\ cfStack.res[d].pid = q
      <4>1. PICK l \in 1..(k - 1) : <<i, cfOp.created[l]>> \in cfOp.tmpl.deps /\ cfStack.res[cfOp.created[l]].pid = q
        BY <3>5
      <4> QED BY <3>1, <3>6, <4>1
    <3> QED BY <3>7, <3>8
  <2>2. CASE cfOp.pc = "idle"
    <3>1. cfStack.status \in CfSettled \cup CfEmptied \cup {"DELETE_FAILED"}
      BY <1>1, <2>2 DEF CfCalm, CfStages
    <3>2. cfStack.status \notin CfEmptied \cup {"DELETE_FAILED"} BY <1>6 DEF CfCalm
    <3>3. CfRested BY <3>1, <3>2 DEF CfCalm
    <3>4. CASE cfStack.pending[i].kind = "revert" BY <3>3, <3>4 DEF CfRested
    <3>5. CASE cfStack.pending[i].kind # "revert"
      <4>1. CfLinked(cfStack.res, cfStack.tmpl, i) /\ cfWorld[cfStack.res[i].pid] = CfProps(cfStack.res[i])
        BY <1>6, <3>3, <3>5 DEF CfRested, CfTrue
      <4> QED BY <4>1 DEF CfLinked, CfProps
    <3> QED BY <3>4, <3>5
  <2> QED BY <1>3, <2>1, <2>2
<1>7. CfDeletion'
  <2>1. \A i, d \in CfIds : <<i, d>> \in cfStack.tmpl.deps => d \in CfTmplIds(cfStack.tmpl)
    BY CfTmplIs, CfFields DEF CfAlways
  <2>2. \A i \in CfIds : cfStack.res[i].pid > 0 => i \in cfDel'.todo BY <1>2 DEF CfHeld
  <2>3. \A i \in CfIds : cfStack.res[i].pid = 0 \/ cfStack.res[i].pid > 0
    <3>1. \A i \in CfIds : cfStack.res[i].pid \in {0} \cup CfPids BY CfFields DEF CfAlways
    <3>2. \A x \in {0} \cup CfPids : x = 0 \/ x > 0 BY CfPidsIs
    <3> QED BY <3>1, <3>2
  <2>4. ASSUME NEW i \in CfIds, cfStack.res[i].pid > 0
        PROVE  \/ cfStack.res[i].pid \in cfTold
               \/ /\ i \in cfDel'.todo
                  /\ \/ cfStack.pending[i].to.pid = cfStack.res[i].pid
                     \/ \A q \in cfWorld[cfStack.res[i].pid].needs :
                          \E d \in cfDel'.todo : <<i, d>> \in cfStack.tmpl.deps /\ cfStack.res[d].pid = q
    BY <1>2, <1>6, <2>1, <2>2, <2>4, SMTT(30)
  <2> QED BY <1>2, <2>2, <2>3, <2>4, SMTT(30) DEF CfDeletion
<1> QED BY <1>2, <1>3, <1>4, <1>5, <1>7 DEF CfCalm, CfDeployPcs, CfSettled, CfWhole, CfEmptied

(* The delete ends.                                                         *)
LEMMA CfDeleteEndCalm ==
  ASSUME CfAlways, CfCalm, cfUndone = "no", CfDeleteEnd
  PROVE  CfCalm'
<1>0. cfStack \in CfStackRecord BY DEF CfAlways, CfShapes
<1>1. cfDel.pc = "deleting" /\ cfDel.todo = {} /\ CfDeletion /\ cfStack.status = "DELETE_IN_PROGRESS"
  BY DEF CfDeleteEnd, CfCalm, CfStages
<1>2. /\ UNCHANGED <<cfWorld, cfTold, cfStack.res, cfStack.pending, cfStack.tmpl>>
      /\ cfStack'.status = IF cfDel.failed THEN "DELETE_FAILED" ELSE "DELETE_COMPLETE"
      /\ cfDel'.pc = "idle" /\ cfDel'.own = FALSE
  BY <1>0 DEF CfDeleteEnd, CfSetStatus, CfStackRecord, CfNoDelete
<1>3. cfOp.pc = "idle" \/ (cfOp.pc = "parked" /\ ~cfOp.update)
  BY <1>1 DEF CfCalm, CfStages, CfWorking
<1>4. cfOp'.pc = "idle" /\ (cfOp.pc = "idle" => UNCHANGED cfOp) BY <1>3 DEF CfDeleteEnd, CfIdle
<1>5. CfStages' BY <1>2, <1>4 DEF CfStages, CfEmptied
<1>6. CfAccounted'
  <2>1. \A p \in CfPids : cfWorld[p].there => p \in cfTold \/ \E i \in CfIds : p = cfStack.res[i].pid
    <3>1. CASE cfOp.pc = "idle" BY <3>1 DEF CfCalm, CfAccounted, CfThere, CfDeployPcs
    <3>2. CASE cfOp.pc = "parked" /\ ~cfOp.update
      <4>1. \A i \in CfIds : cfOp.prevRes[i].pid = 0 BY <3>2 DEF CfAlways, CfAtWork, CfNoRes, CfNoRec
      <4> QED BY <3>2, <4>1, CfPidsIs DEF CfCalm, CfAccounted, CfThere
    <3> QED BY <1>3, <3>1, <3>2
  <2> QED BY <1>2, <2>1 DEF CfAccounted, CfThere
<1>7. CfDependentsFirst'
  <2>1. \A x, q \in CfPids : ~CfSuperseded(x, q) BY <1>3 DEF CfSuperseded
  <2>2. cfWorld \in [CfPids -> [there : BOOLEAN, ver : Nat, needs : SUBSET CfPids]] BY DEF CfAlways, CfShapes
  <2>3. \A x \in CfPids : cfWorld[x].there =>
          \/ \A q \in cfWorld[x].needs : cfWorld[q].there
          \/ x \in cfTold
          \/ \E j \in CfIds : x = cfStack.pending[j].to.pid
    BY <2>1, <2>2 DEF CfCalm, CfDependentsFirst
  <2> QED BY <1>2, <2>3 DEF CfDependentsFirst
<1>8. /\ \A i \in CfIds : cfStack.res[i].pid > 0 => cfStack.res[i].pid \in cfTold
      /\ ~cfDel.failed => \A i \in CfIds : cfStack.res[i].pid = 0
  BY <1>1 DEF CfDeletion
<1> QED BY <1>2, <1>4, <1>5, <1>6, <1>7, <1>8 DEF CfCalm, CfDeployPcs, CfSettled, CfWhole, CfEmptied

(* What still refers to a resource is deleted before it.                    *)
LEMMA CfNextIsFree ==
  ASSUME CfAlways, NEW i \in CfIds, CfDeletesNext(i), NEW j \in cfDel.todo
  PROVE  <<j, i>> \notin cfStack.tmpl.deps
<1>1. cfStack.tmpl \in CfTmpl /\ cfDel.todo \in SUBSET CfIds BY CfFields DEF CfAlways
<1>2. <<j, i>> \in cfStack.tmpl.deps => i \in CfTmplIds(cfStack.tmpl) BY <1>1, CfTmplIs
<1> QED BY <1>2 DEF CfDeletesNext, CfLast

(* A resource is deleted, retained, or left behind and told of.             *)
LEMMA CfDeleteSettlesCalm ==
  ASSUME CfAlways, CfCalm, cfUndone = "no", NEW i \in CfIds, CfDeletes(i) \/ CfDeleteFails(i)
  PROVE  CfCalm'
<1>0. /\ cfStack \in CfStackRecord /\ cfDel \in CfDelRecord /\ cfTold \in SUBSET CfPids
      /\ cfWorld \in [CfPids -> [there : BOOLEAN, ver : Nat, needs : SUBSET CfPids]]
      /\ cfStack.res \in [CfIds -> CfRec]
  BY CfFields DEF CfAlways, CfShapes
<1>1. CfDeletesNext(i) /\ UNCHANGED cfOp BY DEF CfDeletes, CfDeleteFails
<1>2. cfDel.pc = "deleting" /\ ~cfDel.own /\ CfDeletion /\ cfStack.status = "DELETE_IN_PROGRESS"
  BY <1>1 DEF CfDeletesNext, CfCalm, CfStages
<1>3. cfOp.pc = "idle" \/ (cfOp.pc = "parked" /\ ~cfOp.update)
  BY <1>2 DEF CfCalm, CfStages, CfWorking
<1> DEFINE p == cfStack.res[i].pid
           pop == CfDeletes(i)
<1>4. /\ UNCHANGED <<cfStack.status, cfStack.pending, cfStack.tmpl>>
      /\ cfStack'.res = IF pop THEN [cfStack.res EXCEPT ![i] = CfNoRec] ELSE cfStack.res
  <2>1. CASE CfDeletes(i)
    <3>1. cfStack' = [cfStack EXCEPT !.res[i] = CfNoRec] BY <1>2, <2>1 DEF CfDeletes, CfDeleteSettles
    <3> QED BY <1>0, <2>1, <3>1 DEF CfStackRecord
  <2>2. CASE ~CfDeletes(i)
    <3>1. cfStack' = [cfStack EXCEPT !.res[i] = cfStack.res[i]] BY <1>2, <2>2 DEF CfDeleteFails, CfDeleteSettles
    <3> QED BY <1>0, <2>2, <3>1 DEF CfStackRecord
  <2> QED BY <2>1, <2>2
<1>5. /\ cfDel'.pc = "deleting" /\ cfDel'.own = FALSE /\ cfDel'.todo = cfDel.todo \ {i}
      /\ ~pop => cfDel'.failed
      /\ ~cfDel'.failed => ~cfDel.failed
  <2>1. CASE CfDeletes(i)
    <3>1. CfDeleteSettles(i, TRUE) BY <2>1 DEF CfDeletes
    <3> QED BY <1>0, <1>2, <2>1, <3>1 DEF CfDeleteSettles, CfDelRecord
  <2>2. CASE ~CfDeletes(i)
    <3>1. CfDeleteSettles(i, FALSE) BY <2>2 DEF CfDeleteFails
    <3> QED BY <1>0, <1>2, <2>2, <3>1 DEF CfDeleteSettles, CfDelRecord
  <2> QED BY <2>1, <2>2
<1>6. \A j \in CfIds : /\ (cfStack.res[j].pid > 0) <=> (cfStack.res[j].pid \in CfPids)
                       /\ j # i /\ cfStack.res[j].pid > 0 => cfStack.res[j].pid # p
  BY CfDistinct
<1>7. \/ UNCHANGED cfWorld /\ (p > 0 => cfTold' = cfTold \cup {p}) /\ (p = 0 => UNCHANGED cfTold) /\ (p > 0 \/ pop)
      \/ pop /\ p > 0 /\ UNCHANGED cfTold /\ cfWorld' = [cfWorld EXCEPT ![p] = CfGone]
  <2>1. CfDelRes[i].pid = p BY <1>2 DEF CfDelRes
  <2>2. p = 0 \/ p > 0
    <3>1. p \in {0} \cup CfPids BY CfFields DEF CfAlways
    <3>2. \A x \in {0} \cup CfPids : x = 0 \/ x > 0 BY CfPidsIs
    <3> QED BY <3>1, <3>2
  <2>5. p # 0 => {p} \ {0} = {p} OBVIOUS
  <2>3. CASE CfDeletes(i)
    <3>1. IF p > 0 /\ CfKeeps(i) THEN CfTell({p}) /\ UNCHANGED cfWorld
          ELSE UNCHANGED cfTold /\ IF p > 0 THEN CfDestroy(p) ELSE UNCHANGED cfWorld
      BY <2>1, <2>3, Zenon DEF CfDeletes
    <3>2. pop BY <2>3
    <3>3. p > 0 => p # 0 OBVIOUS
    <3> HIDE DEF p, pop
    <3> QED BY <2>2, <2>5, <3>1, <3>2, <3>3 DEF CfTell, CfDestroy
  <2>4. CASE CfDeleteFails(i) BY <2>1, <2>4 DEF CfDeleteFails, CfTell
  <2> QED BY <2>3, <2>4
<1> HIDE DEF p, pop
<1>8. /\ \A q \in CfPids : cfWorld'[q].there => cfWorld[q].there /\ cfWorld'[q] = cfWorld[q]
      /\ \A q \in CfPids : q # p => cfWorld'[q] = cfWorld[q]
      /\ cfTold \subseteq cfTold'
      /\ p > 0 => p \in cfTold' \/ (pop /\ ~cfWorld'[p].there)
      /\ p \in CfPids => p > 0
  <2>1. p \in CfPids <=> p > 0 BY <1>6 DEF p
  <2>2. CASE pop /\ p > 0 /\ UNCHANGED cfTold /\ cfWorld' = [cfWorld EXCEPT ![p] = CfGone]
    <3>1. \A q \in CfPids : cfWorld'[q] = IF q = p THEN CfGone ELSE cfWorld[q] BY <1>0, <2>2
    <3>2. ~CfGone.there BY DEF CfGone
    <3> QED BY <2>1, <2>2, <3>1, <3>2
  <2>3. CASE UNCHANGED cfWorld /\ (p > 0 => cfTold' = cfTold \cup {p}) /\ (p = 0 => UNCHANGED cfTold)
    <3>1. p > 0 \/ p = 0
      <4>1. p \in {0} \cup CfPids BY CfFields DEF CfAlways, p
      <4> QED BY <2>1, <4>1
    <3> QED BY <2>1, <2>3, <3>1
  <2> QED BY <1>7, <2>2, <2>3
<1>9. /\ \A j \in CfIds : j # i => cfStack'.res[j] = cfStack.res[j]
      /\ IF pop THEN cfStack'.res[i].pid = 0 ELSE cfStack'.res[i] = cfStack.res[i]
  BY <1>0, <1>4 DEF CfNoRec
<1>10. ASSUME NEW j \in CfIds, cfStack.res[j].pid > 0, cfStack.res[j].pid \notin cfTold
       PROVE  /\ j \in cfDel.todo
              /\ \/ cfStack.pending[j].to.pid = cfStack.res[j].pid
                 \/ \A q \in cfWorld[cfStack.res[j].pid].needs :
                      \E d \in cfDel.todo \ {i} : <<j, d>> \in cfStack.tmpl.deps /\ cfStack.res[d].pid = q
  <2>1. /\ j \in cfDel.todo
        /\ \/ cfStack.pending[j].to.pid = cfStack.res[j].pid
           \/ \A q \in cfWorld[cfStack.res[j].pid].needs :
                \E d \in cfDel.todo : <<j, d>> \in cfStack.tmpl.deps /\ cfStack.res[d].pid = q
    BY <1>2, <1>10 DEF CfDeletion
  <2>2. <<j, i>> \notin cfStack.tmpl.deps BY <1>1, <2>1, CfNextIsFree
  <2> QED BY <2>1, <2>2
<1>11. CfDeletion'
  <2>1. ASSUME NEW j \in CfIds, cfStack'.res[j].pid > 0, cfStack'.res[j].pid \notin cfTold'
        PROVE  /\ j \in cfDel'.todo
               /\ \/ cfStack'.pending[j].to.pid = cfStack'.res[j].pid
                  \/ \A q \in cfWorld'[cfStack'.res[j].pid].needs :
                       \E d \in cfDel'.todo : <<j, d>> \in cfStack'.tmpl.deps /\ cfStack'.res[d].pid = q
    <3>1. j # i
      <4>1. CASE pop BY <1>9, <2>1, <4>1
      <4>2. CASE ~pop BY <1>8, <1>9, <2>1, <4>2 DEF p
      <4> QED BY <4>1, <4>2
    <3>2. cfStack'.res[j] = cfStack.res[j] /\ cfStack.res[j].pid \notin cfTold BY <1>8, <1>9, <2>1, <3>1
    <3>3. cfWorld'[cfStack.res[j].pid] = cfWorld[cfStack.res[j].pid] BY <1>6, <1>8, <2>1, <3>1, <3>2
    <3>4. cfDel.todo \in SUBSET CfIds BY CfFields DEF CfAlways
    <3>5. \A d \in cfDel.todo \ {i} : cfStack'.res[d] = cfStack.res[d] BY <1>9, <3>4
    <3>6. /\ j \in cfDel.todo
          /\ \/ cfStack.pending[j].to.pid = cfStack.res[j].pid
             \/ \A q \in cfWorld[cfStack.res[j].pid].needs :
                  \E d \in cfDel.todo \ {i} : <<j, d>> \in cfStack.tmpl.deps /\ cfStack.res[d].pid = q
      BY <1>10, <2>1, <3>2
    <3>7. cfStack'.pending = cfStack.pending /\ cfStack'.tmpl = cfStack.tmpl /\ cfDel'.todo = cfDel.todo \ {i} BY <1>4, <1>5
    <3> QED BY <3>1, <3>2, <3>3, <3>5, <3>6, <3>7
  <2>2. ~cfDel'.failed => \A j \in CfIds : j \notin cfDel'.todo => cfStack'.res[j].pid = 0
    <3>1. ~cfDel.failed => \A j \in CfIds : j \notin cfDel.todo => cfStack.res[j].pid = 0 BY <1>2 DEF CfDeletion
    <3> QED BY <1>5, <1>9, <3>1
  <2> QED BY <2>1, <2>2 DEF CfDeletion
<1>12. \A x \in CfPids : cfWorld[x].there => x \in cfTold \/ \E j \in CfIds : x = cfStack.res[j].pid
  <2>1. CASE cfOp.pc = "idle" BY <2>1 DEF CfCalm, CfAccounted, CfThere, CfDeployPcs
  <2>2. CASE cfOp.pc = "parked" /\ ~cfOp.update
    <3>1. \A j \in CfIds : cfOp.prevRes[j].pid = 0 BY <2>2 DEF CfAlways, CfAtWork, CfNoRes, CfNoRec
    <3> QED BY <2>2, <3>1, CfPidsIs DEF CfCalm, CfAccounted, CfThere
  <2> QED BY <1>3, <2>1, <2>2
<1>13. CfAccounted'
  <2> SUFFICES ASSUME NEW x \in CfPids, cfWorld'[x].there, x \notin cfTold'
               PROVE  \E j \in CfIds : x = cfStack'.res[j].pid
    BY DEF CfAccounted, CfThere
  <2>1. PICK j \in CfIds : x = cfStack.res[j].pid BY <1>8, <1>12
  <2>2. CASE j # i BY <1>9, <2>1, <2>2
  <2>3. CASE j = i BY <1>8, <1>9, <2>1, <2>3 DEF p
  <2> QED BY <2>2, <2>3
<1>14. CfDependentsFirst'
  <2> SUFFICES ASSUME NEW x \in CfPids, cfWorld'[x].there, x \notin cfTold', NEW q \in cfWorld'[x].needs,
                      \A j \in CfIds : x # cfStack'.pending[j].to.pid
               PROVE  cfWorld'[q].there
    BY DEF CfDependentsFirst
  <2>1. cfWorld'[x] = cfWorld[x] /\ x \notin cfTold /\ q \in cfWorld[x].needs /\ cfWorld[x].there BY <1>8
  <2>2. q \in CfPids BY <1>0, <2>1
  <2>3. ~CfSuperseded(x, q) BY <1>3 DEF CfSuperseded
  <2>4. \A j \in CfIds : x # cfStack.pending[j].to.pid BY <1>4
  <2>5. cfWorld[q].there BY <2>1, <2>3, <2>4 DEF CfCalm, CfDependentsFirst
  <2>6. q # p
    <3>1. PICK j \in CfIds : x = cfStack.res[j].pid BY <1>12, <2>1
    <3>2. cfStack.res[j].pid > 0 BY <1>6, <3>1
    <3>3. PICK d \in cfDel.todo \ {i} : <<j, d>> \in cfStack.tmpl.deps /\ cfStack.res[d].pid = q
      BY <1>10, <2>1, <2>4, <3>1, <3>2
    <3>4. d \in CfIds /\ d # i
      <4>1. cfDel.todo \in SUBSET CfIds BY CfFields DEF CfAlways
      <4> QED BY <4>1
    <3> QED BY <1>6, <2>2, <3>3, <3>4
  <2> QED BY <1>8, <2>2, <2>5, <2>6
<1>15. CfStages' BY <1>1, <1>2, <1>3, <1>4, <1>5 DEF CfCalm, CfStages
<1> QED BY <1>1, <1>2, <1>3, <1>4, <1>5, <1>11, <1>13, <1>14, <1>15 DEF CfCalm, CfDeployPcs, CfSettled, CfWhole, CfEmptied

(* Every step keeps the invariant, and a stack begins with it.              *)
LEMMA CfInvStep == ASSUME CfInv, [CfNext]_cfVars PROVE CfInv'
<1>1. CfAlways /\ CfAlways' BY CfAlwaysStep, Zenon DEF CfInv
<1>2. ASSUME cfUndone' = "no", CfNext PROVE CfCalm'
  <2>1. cfUndone = "no" /\ CfCalm
    <3>1. cfUndone = "no"
      BY <1>2 DEF CfNext, CfCalls, CfDeploy, CfUndoing, CfDeleting, CfCreate, CfUpdate, CfCancelUpdate, CfRollbackStack,
                  CfDelete, CfContinueUpdateRollback, CfBegin, CfCancelled, CfCleaned, CfComplete, CfFailed, CfResource,
                  CfProvisioned, CfReplaced, CfFails, CfOutputs, CfCleanReplaced, CfRemove, CfRollBack, CfReverted,
                  CfRolledBack, CfContinued, CfRevert, CfUndo, CfContinue, CfDeleteBegin, CfDeleteEnd, CfDeletes,
                  CfDeleteFails
    <3> QED BY <3>1, Zenon DEF CfInv
  <2>2. ASSUME CfCalls PROVE CfCalm'
    BY <1>1, <1>2, <2>1, <2>2, CfCreateCalm, CfUpdateCalm, CfOtherCallsCalm, CfContinueCallCalm DEF CfCalls
  <2>3. ASSUME CfDeploy PROVE CfCalm'
    <3>1. CASE CfBegin \/ CfCancelled \/ CfFailed BY <1>1, <2>1, <3>1, CfDecisionsCalm
    <3>2. CASE CfCleaned BY <1>1, <2>1, <3>2, CfCleanedCalm
    <3>3. CASE CfComplete BY <1>1, <2>1, <3>3, CfCompleteCalm
    <3>4. CASE \E i \in CfIds : CfResource(i) BY <1>1, <2>1, <3>4, CfResourceCalm
    <3>5. CASE \E i \in CfIds : CfProvisioned(i) \/ CfReplaced(i) BY <1>1, <2>1, <3>5, CfMakingCalm
    <3>6. CASE \E i \in CfIds, partly \in BOOLEAN : CfFails(i, partly) BY <1>1, <2>1, <3>6, CfFailsCalm
    <3>7. CASE \E ok \in BOOLEAN : CfOutputs(ok) BY <1>1, <2>1, <3>7, CfOutputsCalm, CfDecisionsCalm
    <3>8. CASE \E ok \in BOOLEAN : CfCleanReplaced(ok) BY <1>1, <2>1, <3>8, CfCleanReplacedCalm
    <3>9. CASE \E i \in CfIds, ok \in BOOLEAN : CfRemove(i, ok) BY <1>1, <2>1, <3>9, CfRemoveCalm
    <3> QED BY <2>3, <3>1, <3>2, <3>3, <3>4, <3>5, <3>6, <3>7, <3>8, <3>9 DEF CfDeploy
  <2>4. ASSUME CfUndoing PROVE CfCalm'
    <3>1. CASE CfRollBack BY <1>1, <2>1, <3>1, CfRollBackCalm
    <3>2. CASE CfReverted BY <1>1, <2>1, <3>2, CfRevertedCalm
    <3>3. CASE CfRolledBack BY <1>1, <2>1, <3>3, CfRolledBackCalm
    <3>4. CASE CfContinued BY <1>1, <2>1, <3>4, CfContinuedCalm
    <3>5. CASE \E ok \in BOOLEAN : CfRevert(ok) BY <1>1, <2>1, <3>5, CfRevertCalm
    <3>6. CASE \E ok \in BOOLEAN : CfUndo(ok) BY <1>1, <2>1, <3>6, CfUndoCalm
    <3>7. CASE \E i \in CfIds, ok \in BOOLEAN : CfContinue(i, ok) BY <1>1, <2>1, <3>7, CfContinueCalm
    <3> QED BY <2>4, <3>1, <3>2, <3>3, <3>4, <3>5, <3>6, <3>7 DEF CfUndoing
  <2>5. ASSUME CfDeleting PROVE CfCalm'
    BY <1>1, <2>1, <2>5, CfDeleteBeginCalm, CfDeleteEndCalm, CfDeleteSettlesCalm DEF CfDeleting
  <2> QED BY <1>2, <2>2, <2>3, <2>4, <2>5, Zenon DEF CfNext
<1>3. ASSUME cfUndone' = "no", UNCHANGED cfVars PROVE CfCalm'
  <2>1. UNCHANGED <<cfStack, cfOp, cfDel, cfWorld, cfMade, cfOps, cfTold, cfUndone>> BY <1>3 DEF cfVars
  <2>2. CfCalm BY <1>3, <2>1 DEF CfInv
  <2>3. CfStages' /\ CfAccounted' BY <2>1, <2>2 DEF CfCalm, CfStages, CfAccounted, CfThere
  <2>4. CfDependentsFirst' BY <2>1, <2>2, <1>3 DEF CfCalm, CfDependentsFirst, CfSuperseded, CfTmplIds
  <2>5. CfBuilt => CfBuilt' BY <2>1, CfBuiltStays
  <2>6. CfToDo => CfToDo' BY <2>1 DEF CfToDo, CfIn, CfTmplIds
  <2>7. CfCleaning => CfCleaning'
    <3>1. CfKept => CfKept' BY <2>1 DEF CfKept, CfThere, CfTrue, CfProps, CfLinked, CfTmplIds
    <3>2. CfLeaving => CfLeaving' BY <2>1 DEF CfLeaving, CfThere, CfTrue, CfProps, CfLinked, CfTmplIds
    <3>3. (CfSwapped => CfSwapped') /\ (CfGoing => CfGoing') BY <2>1 DEF CfSwapped, CfGoing, CfTmplIds
    <3> QED BY <2>1, <3>1, <3>2, <3>3 DEF CfCleaning
  <2>8. CfRollingBack => CfRollingBack'
    BY <2>1, SMTT(30)
    DEF CfRollingBack, CfPrevious, CfSendsBack, CfUndoes, CfThere, CfTrue, CfProps, CfLinked, CfIn, CfInPlace
  <2>9. CfRested => CfRested' BY <2>1 DEF CfRested, CfThere, CfTrue, CfProps, CfLinked
  <2>10. CfDeletion => CfDeletion' BY <2>1 DEF CfDeletion
  <2> QED BY <2>1, <2>2, <2>3, <2>4, <2>5, <2>6, <2>7, <2>8, <2>9, <2>10 DEF CfCalm
<1> QED BY <1>1, <1>2, <1>3 DEF CfInv

LEMMA CfInitInv == CfInit => CfInv
<1> SUFFICES ASSUME CfInit PROVE CfInv OBVIOUS
<1>1. CfAlways BY CfInitAlways
<1>2. cfOp.pc = "idle" /\ cfDel.pc = "idle" /\ ~cfDel.own BY DEF CfInit, CfIdle, CfNoDelete
<1>3. cfStack.status = "none" /\ cfStack.res = CfNoRes BY DEF CfInit
<1>4. \A p \in CfPids : ~cfWorld[p].there BY DEF CfInit, CfGone
<1>5. \A i \in CfIds : cfStack.res[i].pid = 0 BY <1>3 DEF CfNoRes, CfNoRec
<1>6. CfAccounted /\ CfDependentsFirst BY <1>4 DEF CfAccounted, CfThere, CfDependentsFirst
<1>7. CfStages BY <1>2, <1>3 DEF CfStages, CfEmptied
<1> QED BY <1>1, <1>2, <1>3, <1>5, <1>6, <1>7 DEF CfInv, CfCalm, CfDeployPcs, CfSettled, CfWhole, CfEmptied

(* What the invariant gives a reader of the stack.                          *)
LEMMA CfTyped == ASSUME CfAlways PROVE CfTypeOK
<1>1. cfMade \in Nat /\ cfOps \in 0..CfMaxOps /\ cfTold \subseteq 1..cfMade
  BY DEF CfAlways, CfShapes, CfKnown
<1>2. cfMade \in 0..Cardinality(CfPids)
  <2>1. cfMade <= CfPer * cfOps BY DEF CfAlways, CfBudget
  <2>2. cfOps \in Nat /\ cfOps <= CfMaxOps BY <1>1
  <2> QED BY <1>1, <2>1, <2>2, CfNumbers
<1>3. \A i \in CfIds : cfStack.res[i].pid \in 0..cfMade
  <2>1. \A i \in CfIds : CfOf(i) \subseteq 1..cfMade BY DEF CfAlways, CfApart
  <2> QED BY <1>1, <2>1 DEF CfOf
<1>4. cfStack.res \in [CfIds -> [pid : 0..cfMade, ver : Nat, needs : SUBSET CfPids]]
  <2>1. cfStack.res \in [CfIds -> [pid : {0} \cup CfPids, ver : Nat, needs : SUBSET CfPids]]
    BY CfFields DEF CfAlways, CfRec
  <2> QED BY <1>3, <2>1
<1>5. \A i, j \in CfIds : i # j /\ cfStack.res[i].pid > 0 => cfStack.res[i].pid # cfStack.res[j].pid BY CfDistinct
<1> QED BY <1>1, <1>2, <1>4, <1>5, CfFields DEF CfTypeOK, CfAlways, CfKnown

LEMMA CfRemembers == ASSUME CfInv PROVE CfNothingForgotten /\ CfRecordsTrue /\ CfDependentsFirst
<1>1. CfNothingForgotten BY DEF CfInv, CfNothingForgotten, CfQuiet, CfCalm, CfAccounted, CfThere, CfDeployPcs
<1>2. CfRecordsTrue
  <2> SUFFICES ASSUME CfQuiet, cfUndone = "no",
                      cfStack.status \in {"CREATE_COMPLETE", "UPDATE_COMPLETE", "UPDATE_ROLLBACK_COMPLETE"},
                      NEW i \in CfHeld(cfStack.res)
               PROVE  \/ cfWorld[cfStack.res[i].pid] = CfProps(cfStack.res[i])
                      \/ cfStack.res[i].pid \in cfTold
    BY DEF CfRecordsTrue
  <2>1. CfRested /\ cfStack.status \in CfWhole BY DEF CfInv, CfCalm, CfSettled, CfWhole
  <2>2. i \in CfIds /\ cfStack.res[i].pid > 0 BY DEF CfHeld
  <2>3. cfStack.pending[i].kind = "no" BY <2>1, <2>2 DEF CfRested
  <2> QED BY <2>1, <2>2, <2>3 DEF CfRested, CfTrue
<1>3. CfDependentsFirst BY DEF CfInv, CfCalm, CfDependentsFirst
<1> QED BY <1>1, <1>2, <1>3
=============================================================================
