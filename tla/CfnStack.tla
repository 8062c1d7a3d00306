------------------------------ MODULE CfnStack ------------------------------
(***************************************************************************)
(* One CloudFormation stack: the deploy task of a create or an update, its *)
(* rollback, ContinueUpdateRollback and the delete task, each a coroutine  *)
(* that awaits between two resources; the API calls come in between.  A    *)
(* resource's properties are a version and the physical ids its Refs       *)
(* resolve to.  Left out: conditions, imports, outputs and exports beyond  *)
(* their failure, validation, Snapshot, FORCE_DELETE_STACK, change sets.   *)
(***************************************************************************)
EXTENDS Integers, Sequences, FiniteSets, SequencesExt, Lists

CONSTANTS
  CfIds,        \* logical ids
  CfTemplates,  \* templates: a version per id (0: not in it), dependencies, retained ids
  CfMaxOps,     \* bound: creates and updates
  CfOverlaps    \* bound: the first so many of them may see a DeleteStack while they run

(* A reference to what is not in the template fails its validation.         *)
ASSUME CfAssumption ==
  /\ IsFiniteSet(CfIds) /\ CfMaxOps \in Nat /\ CfOverlaps \in Nat
  /\ CfTemplates \subseteq [ver : [CfIds -> Nat], deps : SUBSET (CfIds \X CfIds), retain : SUBSET CfIds]
  /\ \A t \in CfTemplates : \A d \in t.deps : t.ver[d[1]] > 0 /\ t.ver[d[2]] > 0

VARIABLES
  cfStack,  \* the stack record: status, resources, template, failed rollback, cancel flag
  cfOp,     \* the deploy or rollback task, or what a failed one left in _failed_operation
  cfDel,    \* the delete task, and the resources it holds once a rollback put others in place
  cfWorld,  \* the physical resources in the services, by physical id
  cfMade,   \* physical ids given so far
  cfOps,    \* creates and updates so far
  cfTold,   \* physical ids the events let go: DELETE_SKIPPED, DELETE_FAILED, skipped by the user
  cfUndone  \* "overlap": a DeleteStack came across an operation; "kept": it came in UPDATE_FAILED

cfVars == <<cfStack, cfOp, cfDel, cfWorld, cfMade, cfOps, cfTold, cfUndone>>

CfPids == 1..(Cardinality(CfIds) * CfMaxOps)
CfNoRec == [pid |-> 0, ver |-> 0, needs |-> {}]
CfGone == [there |-> FALSE, ver |-> 0, needs |-> {}]
CfNoRes == [i \in CfIds |-> CfNoRec]
CfNothing == [kind |-> "no", to |-> CfNoRec]
CfNoPending == [i \in CfIds |-> CfNothing]
CfBare == [ver |-> [i \in CfIds |-> 0], deps |-> {}, retain |-> {}]
CfIdle == [pc |-> "idle", update |-> FALSE, tmpl |-> CfBare, prevRes |-> CfNoRes, prevTmpl |-> CfBare,
           todo |-> {}, cur |-> {}, want |-> CfNoRec, created |-> <<>>, replaced |-> <<>>,
           tried |-> <<>>, reverts |-> <<>>, dels |-> <<>>, cleanup |-> FALSE, disable |-> FALSE]

CfNoDelete == [pc |-> "idle", todo |-> {}, failed |-> FALSE, own |-> FALSE, res |-> CfNoRes]

CfInit ==
  /\ cfStack = [status |-> "none", res |-> CfNoRes, tmpl |-> CfBare, pending |-> CfNoPending, cancel |-> FALSE]
  /\ cfOp = CfIdle
  /\ cfDel = CfNoDelete
  /\ cfWorld = [p \in CfPids |-> CfGone]
  /\ cfMade = 0 /\ cfOps = 0 /\ cfTold = {} /\ cfUndone = "no"

CfTmplIds(t) == {i \in CfIds : t.ver[i] > 0}
CfHeld(res) == {i \in CfIds : res[i].pid > 0}
CfPending == {i \in CfIds : cfStack.pending[i].kind # "no"}
CfBusy == cfOp.pc \notin {"idle", "parked"}
(* _topological_sort: what may come next of S, and what may come next in    *)
(* its reverse, where ids the template does not name go first.              *)
CfFirst(i, S, t) == i \in S /\ \A d \in S : <<i, d>> \notin t.deps
CfLast(i, S, t) == i \in S /\ IF S \subseteq CfTmplIds(t) THEN \A d \in S : <<d, i>> \notin t.deps
                                                         ELSE i \notin CfTmplIds(t)
CfProps(r) == [there |-> TRUE, ver |-> r.ver, needs |-> r.needs]
CfSetStatus(s) == cfStack' = [cfStack EXCEPT !.status = s]
(* Faulty: notes a missing physical id too.                                *)
CfTellAny(S) == cfTold' = cfTold \cup S
CfTell(S) == cfTold' = cfTold \cup (S \ {0})

(* _delete_resource: an id that is gone is deleted without an error.        *)
CfDestroy(p) == cfWorld' = [cfWorld EXCEPT ![p] = CfGone]

-----------------------------------------------------------------------------
(* The API calls.  Left out: an operation after a DeleteStack overlapped an *)
(* earlier one, and two ContinueUpdateRollback calls before the first runs. *)

CfCreate(t, disable) ==
  /\ cfStack.status \in {"none", "DELETE_COMPLETE", "ROLLBACK_COMPLETE"}
  /\ cfUndone = "no" /\ cfOps < CfMaxOps /\ ~CfBusy /\ cfDel.pc = "idle"
  /\ cfOps' = cfOps + 1
  /\ cfStack' = [status |-> "CREATE_IN_PROGRESS", res |-> CfNoRes, tmpl |-> t, pending |-> CfNoPending,
                 cancel |-> FALSE]
  /\ cfOp' = [CfIdle EXCEPT !.pc = "start", !.tmpl = t, !.disable = disable]
  /\ UNCHANGED <<cfDel, cfWorld, cfMade, cfTold, cfUndone>>

CfUpdate(t, disable) ==
  /\ cfStack.status \in {"CREATE_COMPLETE", "UPDATE_COMPLETE", "UPDATE_ROLLBACK_COMPLETE"}
  /\ t # cfStack.tmpl
  /\ cfUndone = "no" /\ cfOps < CfMaxOps /\ ~CfBusy
  /\ cfOps' = cfOps + 1
  /\ CfSetStatus("UPDATE_IN_PROGRESS")
  /\ cfOp' = [CfIdle EXCEPT !.pc = "start", !.update = TRUE, !.tmpl = t, !.disable = disable,
                            !.prevRes = cfStack.res, !.prevTmpl = cfStack.tmpl]
  /\ cfUndone' = IF cfDel.pc # "idle" THEN "overlap" ELSE cfUndone
  /\ UNCHANGED <<cfDel, cfWorld, cfMade, cfTold>>

CfCancelUpdate ==
  /\ cfStack.status = "UPDATE_IN_PROGRESS"
  /\ cfStack' = [cfStack EXCEPT !.cancel = TRUE]
  /\ UNCHANGED <<cfOp, cfDel, cfWorld, cfMade, cfOps, cfTold, cfUndone>>

(* RollbackStack: the status changes with the call.                         *)
CfRollbackStack ==
  /\ cfStack.status \in {"CREATE_FAILED", "UPDATE_FAILED"} /\ cfOp.pc = "parked"
  /\ cfOp' = [cfOp EXCEPT !.pc = "rollback"]
  /\ CfSetStatus(IF cfOp.update THEN "UPDATE_ROLLBACK_IN_PROGRESS" ELSE "ROLLBACK_IN_PROGRESS")
  /\ cfUndone' = IF cfDel.pc # "idle" THEN "overlap" ELSE cfUndone
  /\ UNCHANGED <<cfDel, cfWorld, cfMade, cfOps, cfTold>>

CfContinueUpdateRollback(skip) ==
  /\ cfStack.status = "UPDATE_ROLLBACK_FAILED" /\ ~CfBusy
  /\ skip \subseteq CfPending
  /\ cfOp' = [cfOp EXCEPT !.pc = "continue", !.todo = CfPending \ skip]
  /\ cfStack' = [cfStack EXCEPT !.status = "UPDATE_ROLLBACK_IN_PROGRESS",
                   !.pending = [i \in CfIds |-> IF i \in skip THEN CfNothing ELSE @[i]]]
  /\ CfTell({cfStack.pending[i].to.pid : i \in skip})
  /\ cfUndone' = IF cfDel.pc # "idle" THEN "overlap" ELSE cfUndone
  /\ UNCHANGED <<cfDel, cfWorld, cfMade, cfOps>>

(* DeleteStack looks at no status but DELETE_COMPLETE.                      *)
CfDelete ==
  /\ cfStack.status \notin {"none", "DELETE_COMPLETE"} /\ cfDel.pc = "idle"
  /\ CfBusy => cfOps <= CfOverlaps
  /\ cfDel' = [CfNoDelete EXCEPT !.pc = "start"]
  /\ cfUndone' = IF CfBusy THEN "overlap" ELSE IF cfStack.status = "UPDATE_FAILED" THEN "kept" ELSE cfUndone
  /\ UNCHANGED <<cfStack, cfOp, cfWorld, cfMade, cfOps, cfTold>>

-----------------------------------------------------------------------------
(* The deploy task.                                                         *)

(* Faulty: finds no stack under the name it was given, and ends.            *)
CfBeginMisses ==
  /\ cfOp.pc = "start"
  /\ cfOp' = CfIdle
  /\ UNCHANGED <<cfStack, cfDel, cfWorld, cfMade, cfOps, cfTold, cfUndone>>
(* A cancel that came before the task runs is forgotten.                    *)
CfBegin ==
  /\ cfOp.pc = "start"
  /\ cfOp' = [cfOp EXCEPT !.pc = "next", !.todo = CfTmplIds(cfOp.tmpl)]
  /\ cfStack' = [cfStack EXCEPT !.cancel = FALSE]
  /\ UNCHANGED <<cfDel, cfWorld, cfMade, cfOps, cfTold, cfUndone>>

CfCancelled ==
  /\ cfOp.pc = "next" /\ cfOp.todo # {} /\ cfOp.update /\ cfStack.cancel
  /\ cfOp' = [cfOp EXCEPT !.pc = "failed"]
  /\ cfStack' = [cfStack EXCEPT !.cancel = FALSE]
  /\ UNCHANGED <<cfDel, cfWorld, cfMade, cfOps, cfTold, cfUndone>>

(* The next resource: its properties are resolved, then the service works.  *)
CfResource(i) ==
  /\ cfOp.pc = "next" /\ ~(cfOp.update /\ cfStack.cancel)
  /\ CfFirst(i, cfOp.todo, cfOp.tmpl)
  /\ cfOp' = [cfOp EXCEPT !.pc = "busy", !.cur = {i}, !.todo = @ \ {i},
       !.want = [pid |-> IF cfOp.update THEN cfOp.prevRes[i].pid ELSE 0, ver |-> cfOp.tmpl.ver[i],
                 needs |-> {cfStack.res[d].pid : d \in {d \in CfIds : <<i, d>> \in cfOp.tmpl.deps}} \ {0}]]
  /\ UNCHANGED <<cfStack, cfDel, cfWorld, cfMade, cfOps, cfTold, cfUndone>>

CfRecorded(i, p) ==
  /\ cfStack' = [cfStack EXCEPT !.res[i] = [cfOp.want EXCEPT !.pid = p]]
  /\ cfWorld' = [cfWorld EXCEPT ![p] = CfProps(cfOp.want)]

(* Created, or updated in place (perhaps with nothing to change).           *)
CfProvisioned(i) ==
  /\ cfOp.pc = "busy" /\ cfOp.cur = {i}
  /\ LET old == cfOp.want.pid IN
     /\ old > 0 => cfWorld[old].there
     /\ cfMade' = IF old > 0 THEN cfMade ELSE cfMade + 1
     /\ CfRecorded(i, IF old > 0 THEN old ELSE cfMade + 1)
  /\ cfOp' = [cfOp EXCEPT !.pc = "next", !.cur = {}, !.created = Append(@, i)]
  /\ UNCHANGED <<cfDel, cfOps, cfTold, cfUndone>>

(* A change that needs a new physical resource: the old one stays for now.  *)
CfReplaced(i) ==
  /\ cfOp.pc = "busy" /\ cfOp.cur = {i} /\ cfOp.want.pid > 0
  /\ cfWorld[cfOp.want.pid] # CfProps(cfOp.want)
  /\ cfMade' = cfMade + 1
  /\ CfRecorded(i, cfMade + 1)
  /\ cfOp' = [cfOp EXCEPT !.pc = "next", !.cur = {}, !.created = Append(@, i),
                          !.replaced = Append(@, <<i, cfOp.want.pid>>)]
  /\ UNCHANGED <<cfDel, cfOps, cfTold, cfUndone>>

(* The service refuses.  A provider (a custom resource, a nested stack) may *)
(* have changed its state before failing, and is sent back by the rollback. *)
CfFails(i, partly) ==
  /\ cfOp.pc = "busy" /\ cfOp.cur = {i}
  /\ partly => cfOp.want.pid > 0 /\ cfWorld[cfOp.want.pid].there
  /\ cfWorld' = IF partly THEN [cfWorld EXCEPT ![cfOp.want.pid] = CfProps(cfOp.want)] ELSE cfWorld
  /\ cfOp' = [cfOp EXCEPT !.pc = "failed", !.cur = {}, !.tried = IF partly THEN <<i>> ELSE <<>>]
  /\ UNCHANGED <<cfStack, cfDel, cfMade, cfOps, cfTold, cfUndone>>

(* Every resource is there: the outputs resolve, or fail the operation.     *)
CfOutputs(ok) ==
  /\ cfOp.pc = "next" /\ cfOp.todo = {}
  /\ cfOp' = [cfOp EXCEPT !.pc = IF ok THEN "clean" ELSE "failed"]
  /\ UNCHANGED <<cfStack, cfDel, cfWorld, cfMade, cfOps, cfTold, cfUndone>>

(* The predecessors go, in reverse; a failure is an event and no more.      *)
CfCleanReplaced(ok) ==
  /\ cfOp.pc = "clean" /\ cfOp.replaced # <<>>
  /\ LET i == Last(cfOp.replaced)[1]
         old == Last(cfOp.replaced)[2] IN
     IF ok /\ i \notin cfOp.tmpl.retain THEN CfDestroy(old) /\ UNCHANGED cfTold
                                       ELSE CfTell({old}) /\ UNCHANGED cfWorld
  /\ cfOp' = [cfOp EXCEPT !.replaced = Front(@)]
  /\ UNCHANGED <<cfStack, cfDel, cfMade, cfOps, cfUndone>>
CfCleaned ==
  /\ cfOp.pc = "clean" /\ cfOp.replaced = <<>>
  /\ cfOp' = [cfOp EXCEPT !.pc = "remove",
                !.todo = IF cfOp.update THEN CfHeld(cfOp.prevRes) \ CfTmplIds(cfOp.tmpl) ELSE {}]
  /\ UNCHANGED <<cfStack, cfDel, cfWorld, cfMade, cfOps, cfTold, cfUndone>>

(* What the update removes: one that does not delete stays in the stack.    *)
CfRemove(i, ok) ==
  /\ cfOp.pc = "remove" /\ CfLast(i, cfOp.todo, cfOp.prevTmpl)
  /\ cfOp' = [cfOp EXCEPT !.todo = @ \ {i}]
  /\ LET p == cfOp.prevRes[i].pid IN
     IF i \in CfTmplIds(cfOp.prevTmpl) \cap cfOp.prevTmpl.retain
     THEN CfTell({p}) /\ UNCHANGED cfWorld /\ cfStack' = [cfStack EXCEPT !.res[i] = CfNoRec]
     ELSE IF ok THEN CfDestroy(p) /\ UNCHANGED cfTold /\ cfStack' = [cfStack EXCEPT !.res[i] = CfNoRec]
     ELSE CfTell({p}) /\ UNCHANGED <<cfWorld, cfStack>>
  /\ UNCHANGED <<cfDel, cfMade, cfOps, cfUndone>>

CfComplete ==
  /\ cfOp.pc = "remove" /\ cfOp.todo = {}
  /\ cfStack' = [cfStack EXCEPT !.status = IF cfOp.update THEN "UPDATE_COMPLETE" ELSE "CREATE_COMPLETE",
                                !.tmpl = cfOp.tmpl]
  /\ cfOp' = CfIdle
  /\ UNCHANGED <<cfDel, cfWorld, cfMade, cfOps, cfTold, cfUndone>>

(* Failed: with DisableRollback the operation is kept for RollbackStack.    *)
CfFailed ==
  /\ cfOp.pc = "failed"
  /\ cfOp' = [cfOp EXCEPT !.pc = IF cfOp.disable THEN "parked" ELSE "rollback"]
  /\ CfSetStatus(IF ~cfOp.disable THEN cfStack.status
                 ELSE IF cfOp.update THEN "UPDATE_FAILED" ELSE "CREATE_FAILED")
  /\ UNCHANGED <<cfDel, cfWorld, cfMade, cfOps, cfTold, cfUndone>>

-----------------------------------------------------------------------------
(* _roll_back_operation.                                                    *)

CfInPlace(i) == cfOp.prevRes[i].pid > 0 /\ cfOp.prevRes[i].pid = cfStack.res[i].pid
CfToRevert(i) == CfInPlace(i) /\ cfStack.res[i] # cfOp.prevRes[i]

(* Faulty: sends the changes back last, after the deletes.                  *)
CfRollBackDeletesFirst ==
  /\ cfOp.pc = "rollback"
  /\ cfOp' = [cfOp EXCEPT !.pc = "undo", !.reverts = <<>>, !.cleanup = cfOp.update,
                !.dels = Picked(cfOp.created, {k \in DOMAIN cfOp.created : ~CfInPlace(cfOp.created[k])})]
  /\ CfSetStatus(IF cfOp.update THEN "UPDATE_ROLLBACK_IN_PROGRESS" ELSE "ROLLBACK_IN_PROGRESS")
  /\ UNCHANGED <<cfDel, cfWorld, cfMade, cfOps, cfTold, cfUndone>>
(* What was changed in place goes back in the order it was changed; what    *)
(* the operation created is deleted in reverse.                             *)
CfRollBack ==
  /\ cfOp.pc = "rollback"
  /\ cfOp' = [cfOp EXCEPT !.pc = "revert",
                !.reverts =
                  Picked(cfOp.created, {k \in DOMAIN cfOp.created : CfToRevert(cfOp.created[k])}) \o cfOp.tried,
                !.dels = Picked(cfOp.created, {k \in DOMAIN cfOp.created : ~CfInPlace(cfOp.created[k])})]
  /\ CfSetStatus(IF cfOp.update THEN "UPDATE_ROLLBACK_IN_PROGRESS" ELSE "ROLLBACK_IN_PROGRESS")
  /\ UNCHANGED <<cfDel, cfWorld, cfMade, cfOps, cfTold, cfUndone>>

CfRevertTo(r, i, ok) ==
  /\ ok => cfWorld[r.pid].there
  /\ IF ok THEN cfWorld' = [cfWorld EXCEPT ![r.pid] = CfProps(r)]
           ELSE UNCHANGED cfWorld
  /\ cfStack' = [cfStack EXCEPT !.pending[i] = IF ok THEN CfNothing ELSE [kind |-> "revert", to |-> r]]

CfRevert(ok) ==
  /\ cfOp.pc = "revert" /\ cfOp.reverts # <<>>
  /\ CfRevertTo(cfOp.prevRes[Head(cfOp.reverts)], Head(cfOp.reverts), ok)
  /\ cfOp' = [cfOp EXCEPT !.reverts = Tail(@)]
  /\ UNCHANGED <<cfDel, cfMade, cfOps, cfTold, cfUndone>>
CfReverted ==
  /\ cfOp.pc = "revert" /\ cfOp.reverts = <<>>
  /\ cfOp' = [cfOp EXCEPT !.pc = "undo", !.cleanup = cfOp.update /\ CfPending = {}]
  /\ UNCHANGED <<cfStack, cfDel, cfWorld, cfMade, cfOps, cfTold, cfUndone>>

(* A delete that fails is kept for ContinueUpdateRollback, except in the    *)
(* cleanup of an update; the record goes in any case.                       *)
CfUndo(ok) ==
  /\ cfOp.pc = "undo" /\ cfOp.dels # <<>>
  /\ LET i == Last(cfOp.dels)
         p == cfStack.res[i].pid
         keep == i \in cfOp.tmpl.retain IN
     /\ p > 0 => IF ok /\ ~keep THEN CfDestroy(p) /\ UNCHANGED cfTold ELSE CfTell({p}) /\ UNCHANGED cfWorld
     /\ p = 0 => UNCHANGED <<cfWorld, cfTold>>
     /\ cfStack' = [cfStack EXCEPT !.res[i] = CfNoRec,
          !.pending[i] = IF ok \/ keep \/ cfOp.cleanup THEN @ ELSE [kind |-> "delete", to |-> cfStack.res[i]]]
  /\ cfOp' = [cfOp EXCEPT !.dels = Front(@)]
  /\ UNCHANGED <<cfDel, cfMade, cfOps, cfUndone>>

CfRollbackStatus == CASE cfOp.update /\ CfPending = {} -> "UPDATE_ROLLBACK_COMPLETE"
                      [] cfOp.update /\ CfPending # {} -> "UPDATE_ROLLBACK_FAILED"
                      [] ~cfOp.update /\ CfPending = {} -> "ROLLBACK_COMPLETE"
                      [] OTHER -> "ROLLBACK_FAILED"
(* Faulty: keeps the resources as the failed update left them.              *)
CfRolledBackKeepsRecords ==
  /\ cfOp.pc = "undo" /\ cfOp.dels = <<>>
  /\ cfStack' = [cfStack EXCEPT !.status = CfRollbackStatus,
                   !.tmpl = IF cfOp.update THEN cfOp.prevTmpl ELSE @]
  /\ cfOp' = CfIdle
  /\ UNCHANGED <<cfDel, cfWorld, cfMade, cfOps, cfTold, cfUndone>>
CfRolledBack ==
  /\ cfOp.pc = "undo" /\ cfOp.dels = <<>>
  /\ cfStack' = [cfStack EXCEPT !.status = CfRollbackStatus,
                   !.res = IF cfOp.update THEN cfOp.prevRes ELSE @,
                   !.tmpl = IF cfOp.update THEN cfOp.prevTmpl ELSE @]
  /\ cfDel' = IF cfOp.update /\ cfDel.pc = "deleting" /\ ~cfDel.own
              THEN [cfDel EXCEPT !.own = TRUE, !.res = cfStack.res] ELSE cfDel
  /\ cfOp' = CfIdle
  /\ UNCHANGED <<cfWorld, cfMade, cfOps, cfTold, cfUndone>>

(* ContinueUpdateRollback retries what failed, in the order it failed.      *)
CfContinue(i, ok) ==
  /\ cfOp.pc = "continue" /\ i \in cfOp.todo
  /\ \A j \in cfOp.todo : cfStack.pending[j].kind = "revert" => cfStack.pending[i].kind = "revert"
  /\ IF cfStack.pending[i].kind = "revert"
     THEN CfRevertTo(cfStack.pending[i].to, i, ok)
     ELSE /\ IF ok /\ cfStack.pending[i].to.pid > 0 THEN CfDestroy(cfStack.pending[i].to.pid) ELSE UNCHANGED cfWorld
          /\ cfStack' = [cfStack EXCEPT !.pending[i] = IF ok THEN CfNothing ELSE @]
  /\ cfOp' = [cfOp EXCEPT !.todo = @ \ {i}]
  /\ UNCHANGED <<cfDel, cfMade, cfOps, cfTold, cfUndone>>
CfContinued ==
  /\ cfOp.pc = "continue" /\ cfOp.todo = {}
  /\ CfSetStatus(IF CfPending = {} THEN "UPDATE_ROLLBACK_COMPLETE" ELSE "UPDATE_ROLLBACK_FAILED")
  /\ cfOp' = CfIdle
  /\ UNCHANGED <<cfDel, cfWorld, cfMade, cfOps, cfTold, cfUndone>>

-----------------------------------------------------------------------------
(* _delete_stack_async.                                                     *)

CfDeleteBegin ==
  /\ cfDel.pc = "start"
  /\ CfSetStatus("DELETE_IN_PROGRESS")
  /\ cfDel' = [cfDel EXCEPT !.pc = "deleting", !.todo = CfHeld(cfStack.res) \cup CfTmplIds(cfStack.tmpl)]
  /\ UNCHANGED <<cfOp, cfWorld, cfMade, cfOps, cfTold, cfUndone>>

CfDelRes == IF cfDel.own THEN cfDel.res ELSE cfStack.res
(* The record is popped, or stays with its failure.                         *)
CfDeleteSettles(i, pop) ==
  /\ cfDel' = [cfDel EXCEPT !.todo = @ \ {i}, !.failed = @ \/ ~pop,
                            !.res[i] = IF pop /\ cfDel.own THEN CfNoRec ELSE @]
  /\ cfStack' = [cfStack EXCEPT !.res[i] = IF pop /\ ~cfDel.own THEN CfNoRec ELSE @]
CfDeletesNext(i) == cfDel.pc = "deleting" /\ CfLast(i, cfDel.todo, cfStack.tmpl)
CfKeeps(i) == i \in CfTmplIds(cfStack.tmpl) \cap cfStack.tmpl.retain

(* Faulty: forgets the resource although its delete failed.                 *)
CfDeleteFailsForgotten(i) ==
  /\ CfDeletesNext(i) /\ CfDelRes[i].pid > 0 /\ ~CfKeeps(i)
  /\ CfDeleteSettles(i, TRUE)
  /\ UNCHANGED <<cfOp, cfWorld, cfMade, cfOps, cfTold, cfUndone>>
CfDeleteFails(i) ==
  /\ CfDeletesNext(i) /\ CfDelRes[i].pid > 0 /\ ~CfKeeps(i)
  /\ CfDeleteSettles(i, FALSE) /\ CfTell({CfDelRes[i].pid})
  /\ UNCHANGED <<cfOp, cfWorld, cfMade, cfOps, cfUndone>>
(* Deleted, or nothing to delete, or retained.                              *)
CfDeletes(i) ==
  /\ CfDeletesNext(i)
  /\ CfDeleteSettles(i, TRUE)
  /\ LET p == CfDelRes[i].pid IN
     IF p > 0 /\ CfKeeps(i) THEN CfTell({p}) /\ UNCHANGED cfWorld
     ELSE UNCHANGED cfTold /\ IF p > 0 THEN CfDestroy(p) ELSE UNCHANGED cfWorld
  /\ UNCHANGED <<cfOp, cfMade, cfOps, cfUndone>>

CfDeleteEnd ==
  /\ cfDel.pc = "deleting" /\ cfDel.todo = {}
  /\ CfSetStatus(IF cfDel.failed THEN "DELETE_FAILED" ELSE "DELETE_COMPLETE")
  /\ cfDel' = CfNoDelete
  /\ cfOp' = IF cfOp.pc = "parked" THEN CfIdle ELSE cfOp
  /\ UNCHANGED <<cfWorld, cfMade, cfOps, cfTold, cfUndone>>

CfDeploy ==
  \/ CfBegin \/ CfCancelled \/ CfCleaned \/ CfComplete \/ CfFailed
  \/ \E i \in CfIds : CfResource(i) \/ CfProvisioned(i) \/ CfReplaced(i)
  \/ \E i \in CfIds, partly \in BOOLEAN : CfFails(i, partly)
  \/ \E ok \in BOOLEAN : CfOutputs(ok) \/ CfCleanReplaced(ok)
  \/ \E i \in CfIds, ok \in BOOLEAN : CfRemove(i, ok)
CfUndoing ==
  \/ CfRollBack \/ CfReverted \/ CfRolledBack \/ CfContinued
  \/ \E ok \in BOOLEAN : CfRevert(ok) \/ CfUndo(ok)
  \/ \E i \in CfIds, ok \in BOOLEAN : CfContinue(i, ok)
CfDeleting == CfDeleteBegin \/ CfDeleteEnd \/ \E i \in CfIds : CfDeletes(i) \/ CfDeleteFails(i)
CfCalls ==
  \/ \E t \in CfTemplates, disable \in BOOLEAN : CfCreate(t, disable) \/ CfUpdate(t, disable)
  \/ CfCancelUpdate \/ CfRollbackStack \/ CfDelete
  \/ \E skip \in SUBSET CfIds : CfContinueUpdateRollback(skip)

CfNext == CfCalls \/ CfDeploy \/ CfUndoing \/ CfDeleting
(* The tasks run on the event loop; a service call ends, a provider's at    *)
(* the latest with its timeout.                                             *)
CfFairness == WF_cfVars(CfDeploy \/ CfUndoing) /\ WF_cfVars(CfDeleting)
CfSpec == CfInit /\ [][CfNext]_cfVars /\ CfFairness

-----------------------------------------------------------------------------
CfQuiet == cfOp.pc = "idle" /\ cfDel.pc = "idle"
CfInProgress == cfStack.status \in {"CREATE_IN_PROGRESS", "UPDATE_IN_PROGRESS", "ROLLBACK_IN_PROGRESS",
  "UPDATE_ROLLBACK_IN_PROGRESS", "DELETE_IN_PROGRESS"}

(* The record has its shape, and two ids never share a physical resource.   *)
CfTypeOK ==
  /\ cfStack.res \in [CfIds -> [pid : 0..cfMade, ver : Nat, needs : SUBSET CfPids]]
  /\ cfStack.cancel \in BOOLEAN /\ cfMade \in 0..Cardinality(CfPids) /\ cfTold \subseteq 1..cfMade
  /\ \A p \in CfPids : cfWorld[p].there => p <= cfMade
  /\ \A i, j \in CfIds : i # j /\ cfStack.res[i].pid > 0 => cfStack.res[i].pid # cfStack.res[j].pid

(* A resource the stack created is recorded in the stack, or an event said  *)
(* that it stays: none is lost by replacements, cleanups, rollbacks and     *)
(* retries, whatever fails in them.                                         *)
CfNothingForgotten == CfQuiet /\ cfUndone = "no" => \A p \in CfPids : cfWorld[p].there =>
  p \in cfTold \/ \E i \in CfIds : p = cfStack.res[i].pid

(* A stack that ends complete reports what is: every recorded resource      *)
(* exists with the recorded properties, after a rollback those from before  *)
(* the update.                                                              *)
CfRecordsTrue ==
  CfQuiet /\ cfUndone = "no" /\ cfStack.status \in {"CREATE_COMPLETE", "UPDATE_COMPLETE", "UPDATE_ROLLBACK_COMPLETE"} =>
    \A i \in CfHeld(cfStack.res) :
      \/ cfWorld[cfStack.res[i].pid] = CfProps(cfStack.res[i])
      \/ cfStack.res[i].pid \in cfTold

(* p is about to go with this update, and q was replaced by it: all that an *)
(* update replaced goes first, in the reverse of the new template's order.  *)
CfSuperseded(p, q) ==
  /\ cfOp.pc \in {"clean", "remove"}
  /\ \E i \in CfIds : p = cfOp.prevRes[i].pid /\ (p # cfStack.res[i].pid \/ i \notin CfTmplIds(cfOp.tmpl))
  /\ \E j \in CfTmplIds(cfOp.tmpl) : q = cfOp.prevRes[j].pid /\ q # cfStack.res[j].pid

(* No resource is deleted while another one still refers to it, through     *)
(* replacement, removal, rollback and delete, unless an event named that    *)
(* other one as left behind, or it goes with the same update.               *)
CfDependentsFirst == cfUndone = "no" => \A p \in CfPids : cfWorld[p].there =>
  \/ \A q \in cfWorld[p].needs : cfWorld[q].there \/ CfSuperseded(p, q)
  \/ p \in cfTold
  \/ \E i \in CfIds : p = cfStack.pending[i].to.pid

(* Every operation ends, also one a DeleteStack or a cancel came across.    *)
CfOperationsEnd == CfInProgress ~> ~CfInProgress

(* What the docstring says: a deleted stack's resources are gone, except    *)
(* those an event named as left.                                            *)
CfDeletedIsGone == cfStack.status = "DELETE_COMPLETE" /\ cfUndone # "overlap" =>
  \A p \in CfPids : cfWorld[p].there => p \in cfTold
=============================================================================
