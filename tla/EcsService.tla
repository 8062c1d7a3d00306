----------------------------- MODULE EcsService -----------------------------
(***************************************************************************)
(* One ECS service: its deployments, its tasks, their containers.  A task  *)
(* is started by a thread of its own, watched by another, and certified by *)
(* a third a second after it runs; API handlers run on threads too.  Any   *)
(* of them may reconcile the service: look at its tasks, and then stop and *)
(* start some.  Left out: image digests (one task at a time establishes    *)
(* them), counts and events, target groups, tasks outside the service.     *)
(***************************************************************************)
EXTENDS Integers, FiniteSets, FiniteSetsExt, TLC

CONSTANTS
  EcMaxTasks,        \* bound: tasks, numbered in the order of their creation
  EcContainers,      \* containers of a task; the first one is essential
  EcMaxDeployments,  \* bound: creates and updates of the service
  EcDesired,         \* what desiredCount may be
  EcThreshold,       \* failures that trip the circuit breaker
  EcRollback,        \* whether the breaker rolls back
  EcMaxTroubles      \* bound: containers that exit or do not start, StopTask, scaling, resets

ASSUME EcAssumption ==
  /\ EcMaxTasks \in Nat /\ EcContainers \in Nat \ {0} /\ EcMaxDeployments \in Nat
  /\ EcDesired \subseteq Nat /\ EcThreshold \in Nat \ {0} /\ EcRollback \in BOOLEAN
  /\ EcMaxTroubles \in Nat

VARIABLES
  ecService,  \* status, desiredCount, and deployment -> its status, rollout, failedTasks
  ecTask,     \* task -> its record; there while it is in _tasks
  ecWorker,   \* task -> the step of the thread that starts it, and the container it is at
  ecBox,      \* task, index -> its container
  ecToken,    \* task -> containers whose metadata token is registered
  ecJob,      \* the threads that reconcile or complete
  ecClean,    \* stopped tasks that the thread that stopped them still has to clean up
  ecReset,    \* the step of a state reset
  ecLeft,     \* bounds left: deployments made, troubles
  ecLate,     \* a reconciler registered tasks for a service deleted or reset meanwhile
  ecTouched   \* a client stopped a task, scaled or superseded a rollout

ecVars == <<ecService, ecTask, ecWorker, ecBox, ecToken, ecJob, ecClean, ecReset, ecLeft, ecLate, ecTouched>>

EcTasks == 1..EcMaxTasks
EcIds == 1..EcContainers
EcDeployments == 1..EcMaxDeployments
(* A handler; per task: the thread that saw it end, its certification, the  *)
(* certification of the rollback it caused.                                 *)
EcJobs == {<<0, "call">>} \cup EcTasks \X {"end", "check", "back"}

EcNoDeployment == [status |-> "gone", rollout |-> "COMPLETED", failed |-> 0]
EcNoTask == [there |-> FALSE, resetting |-> FALSE, status |-> "none", dep |-> 0, ids |-> {}, tokens |-> {},
             stable |-> FALSE]
EcNoJob == [pc |-> "none", dep |-> 0, to |-> 0, stop |-> {}, run |-> 0, completes |-> FALSE, watched |-> FALSE,
            back |-> FALSE]

EcInit ==
  /\ ecService = [status |-> "none", desired |-> 0, deps |-> [d \in EcDeployments |-> EcNoDeployment]]
  /\ ecTask = [t \in EcTasks |-> EcNoTask]
  /\ ecWorker = [t \in EcTasks |-> [pc |-> "none", at |-> 1]]
  /\ ecBox = [b \in EcTasks \X EcIds |-> "none"]
  /\ ecToken = [t \in EcTasks |-> {}]
  /\ ecJob = [j \in EcJobs |-> EcNoJob]
  /\ ecClean = {} /\ ecReset = "no"
  /\ ecLeft = [deps |-> 0, troubles |-> EcMaxTroubles]
  /\ ecLate = FALSE /\ ecTouched = FALSE

(* _task_is_active; "starting" is PROVISIONING, PENDING and ACTIVATING.     *)
EcActive(t) == ecTask[t].there /\ ~ecTask[t].resetting /\ ecTask[t].status \in {"starting", "RUNNING"}
EcPreStop(t) == ecTask[t].there /\ ecTask[t].status \in {"starting", "RUNNING"}
EcRunning == {t \in EcTasks : ecTask[t].there /\ ecTask[t].status = "RUNNING"}
EcListed == {d \in EcDeployments : ecService.deps[d].status # "gone"}
EcPrimary == IF \E d \in EcListed : ecService.deps[d].status = "PRIMARY"
             THEN Max({d \in EcListed : ecService.deps[d].status = "PRIMARY"}) ELSE 0
EcRollout == IF EcPrimary = 0 THEN "none" ELSE ecService.deps[EcPrimary].rollout
EcIsActive == ecService.status = "ACTIVE"

(* _mark_task_stopped of those of S that are active; who calls it cleans up *)
(* afterwards.                                                              *)
EcStopped(S) == [t \in EcTasks |-> IF t \in S /\ EcActive(t) THEN [ecTask[t] EXCEPT !.status = "STOPPED", !.stable = FALSE]
                                                          ELSE ecTask[t]]
(* _refresh_service_state: once the rollout is complete, deployments without *)
(* running tasks are dropped from the list.                                 *)
EcPruned(svc, tasks) == [svc EXCEPT !.deps = [d \in EcDeployments |->
  IF /\ \E p \in EcDeployments : svc.deps[p].status = "PRIMARY" /\ svc.deps[p].rollout = "COMPLETED"
     /\ svc.deps[d].status = "ACTIVE" /\ svc.deps[d].rollout # "FAILED"
     /\ \A t \in EcTasks : tasks[t].there /\ tasks[t].dep = d => tasks[t].status # "RUNNING"
  THEN EcNoDeployment ELSE svc.deps[d]]]

-----------------------------------------------------------------------------
(* The thread that starts a task.                                           *)

EcGo(t, pc) == ecWorker' = [ecWorker EXCEPT ![t].pc = pc]
EcGivesUp(t) == EcGo(t, "done") /\ ecClean' = ecClean \cup {t}

(* PENDING and ACTIVATING, and for each container: its metadata token is    *)
(* registered and made the task's, and it is started.  Nobody knows its id  *)
(* yet.                                                                     *)
EcRun(t) ==
  /\ ecWorker[t].pc = "start"
  /\ IF EcActive(t)
     THEN /\ ecToken' = [ecToken EXCEPT ![t] = @ \cup {ecWorker[t].at}]
          /\ ecTask' = [ecTask EXCEPT ![t].tokens = @ \cup {ecWorker[t].at}]
          /\ ecBox' = [ecBox EXCEPT ![<<t, ecWorker[t].at>>] = "up"]
          /\ EcGo(t, "attach") /\ UNCHANGED ecClean
     ELSE EcGivesUp(t) /\ UNCHANGED <<ecTask, ecToken, ecBox>>
  /\ UNCHANGED <<ecService, ecJob, ecReset, ecLeft, ecLate, ecTouched>>

(* No container (a secret, the image, Docker): the task fails to start.     *)
EcRunFails(t) ==
  /\ ecWorker[t].pc = "start" /\ ecLeft.troubles > 0
  /\ ecLeft' = [ecLeft EXCEPT !.troubles = @ - 1]
  /\ ecTask' = [EcStopped({t}) EXCEPT ![t].tokens = @ \cup {ecWorker[t].at}]
  /\ ecToken' = [ecToken EXCEPT ![t] = @ \cup {ecWorker[t].at}]
  /\ EcActive(t) /\ EcGo(t, "done")
  /\ ecJob' = [ecJob EXCEPT ![<<t, "end">>].pc = "record"]
  /\ UNCHANGED <<ecService, ecBox, ecClean, ecReset, ecLate, ecTouched>>

(* _attach_started_container; after the last one the task is RUNNING and    *)
(* will be certified for its deployment.                                    *)
EcAttached(t) ==
  LET last == ecWorker[t].at = EcContainers IN
  /\ ecTask' = [ecTask EXCEPT ![t].ids = @ \cup {ecWorker[t].at},
                             ![t].status = IF last THEN "RUNNING" ELSE @]
  /\ ecWorker' = [ecWorker EXCEPT ![t] = IF last THEN [pc |-> "done", at |-> 1] ELSE [pc |-> "start", at |-> @.at + 1]]
  /\ ecService' = EcPruned(ecService, ecTask')
  /\ ecJob' = IF last /\ ecTask[t].dep \in EcListed
              THEN [ecJob EXCEPT ![<<t, "check">>] = [EcNoJob EXCEPT !.pc = "sleep", !.dep = ecTask[t].dep]]
              ELSE ecJob
(* Faulty: the container of a task stopped meanwhile stays.                 *)
EcAttachOrLeave(t) ==
  /\ ecWorker[t].pc = "attach"
  /\ \/ EcActive(t) /\ EcAttached(t) /\ UNCHANGED ecClean
     \/ ~EcActive(t) /\ EcGivesUp(t) /\ UNCHANGED <<ecService, ecTask, ecJob>>
  /\ UNCHANGED <<ecBox, ecToken, ecReset, ecLeft, ecLate, ecTouched>>
(* If the task has been stopped meanwhile, the container goes again.        *)
EcAttach(t) ==
  /\ ecWorker[t].pc = "attach"
  /\ \/ EcActive(t) /\ EcAttached(t) /\ UNCHANGED <<ecBox, ecClean>>
     \/ /\ ~EcActive(t) /\ EcGivesUp(t)
        /\ ecBox' = [ecBox EXCEPT ![<<t, ecWorker[t].at>>] = "none"]
        /\ UNCHANGED <<ecService, ecTask, ecJob>>
  /\ UNCHANGED <<ecToken, ecReset, ecLeft, ecLate, ecTouched>>

(* A container's process ends.                                              *)
EcExit(b) ==
  /\ ecBox[b] = "up" /\ ecLeft.troubles > 0
  /\ ecBox' = [ecBox EXCEPT ![b] = "exited"]
  /\ ecLeft' = [ecLeft EXCEPT !.troubles = @ - 1]
  /\ UNCHANGED <<ecService, ecTask, ecWorker, ecToken, ecJob, ecClean, ecReset, ecLate, ecTouched>>

(* _maybe_mark_stopped, by the watcher or a describing client: the essential *)
(* container has exited, or all have.                                       *)
EcNotice(t) ==
  /\ EcActive(t) /\ ecTask[t].status = "RUNNING"
  /\ ecTask[t].ids # {} /\ (ecBox[<<t, 1>>] = "exited" \/ \A i \in ecTask[t].ids : ecBox[<<t, i>>] = "exited")
  /\ ecTask' = EcStopped({t})
  /\ ecService' = EcPruned(ecService, ecTask')
  /\ ecJob' = [ecJob EXCEPT ![<<t, "end">>] = [EcNoJob EXCEPT !.pc = "record", !.watched = TRUE]]
  /\ UNCHANGED <<ecWorker, ecBox, ecToken, ecClean, ecReset, ecLeft, ecLate, ecTouched>>

(* _cleanup_task_resources takes ids and tokens under the lock, and removes. *)
EcRemove(t) ==
  /\ ecTask' = [ecTask EXCEPT ![t].ids = {}, ![t].tokens = {}]
  /\ ecToken' = [ecToken EXCEPT ![t] = @ \ ecTask[t].tokens]
EcCleanup(t) ==
  /\ t \in ecClean
  /\ ecClean' = ecClean \ {t}
  /\ EcRemove(t)
  /\ ecBox' = [b \in EcTasks \X EcIds |-> IF b[1] = t /\ b[2] \in ecTask[t].ids THEN "none" ELSE ecBox[b]]
  /\ UNCHANGED <<ecService, ecWorker, ecJob, ecReset, ecLeft, ecLate, ecTouched>>

-----------------------------------------------------------------------------
(* Deployments.                                                             *)

EcCandidates(d) == {c \in EcListed \ {d} : ecService.deps[c].rollout = "COMPLETED"}
(* The newest completed deployment is primary again, and in progress.       *)
EcRolledBack(d) ==
  IF ~EcRollback \/ EcCandidates(d) = {} THEN ecService.deps
  ELSE [ecService.deps EXCEPT ![d].status = "ACTIVE", ![Max(EcCandidates(d))].status = "PRIMARY",
                              ![Max(EcCandidates(d))].rollout = "IN_PROGRESS"]

(* _record_service_task_failure, under the service's lock.                  *)
EcRecordFailure(t) ==
  /\ ecJob[<<t, "end">>].pc = "record"
  /\ LET d == ecTask[t].dep
         counted == EcIsActive /\ d = EcPrimary /\ d > 0 /\ EcRollout = "IN_PROGRESS"
         trips == counted /\ ecService.deps[d].failed + 1 >= EcThreshold IN
     /\ ecService' =
          IF ~counted THEN ecService
          ELSE LET deps == IF trips THEN EcRolledBack(d) ELSE ecService.deps IN
               [ecService EXCEPT !.deps = [deps EXCEPT ![d].failed = ecService.deps[d].failed + 1,
                                             ![d].rollout = IF trips THEN "FAILED" ELSE @]]
     /\ ecJob' = [ecJob EXCEPT
          ![<<t, "end">>].pc = IF EcIsActive /\ d = EcPrimary /\ d > 0 THEN "look" ELSE "finish",
          ![<<t, "end">>].back = trips /\ EcRollback /\ EcCandidates(d) # {}]
  /\ UNCHANGED <<ecTask, ecWorker, ecBox, ecToken, ecClean, ecReset, ecLeft, ecLate, ecTouched>>

(* A second after it runs a task is stable, and its deployment's failures   *)
(* are forgotten.                                                           *)
EcWake(j) ==
  /\ ecJob[j].pc = "sleep"
  /\ LET healthy == j[2] = "check" /\ EcIsActive /\ EcActive(j[1]) /\ ecTask[j[1]].status = "RUNNING" IN
     /\ ecTask' = IF healthy THEN [ecTask EXCEPT ![j[1]].stable = TRUE] ELSE ecTask
     /\ ecService' = IF healthy /\ ecTask[j[1]].dep = EcPrimary /\ EcRollout = "IN_PROGRESS"
                     THEN [ecService EXCEPT !.deps[EcPrimary].failed = 0] ELSE ecService
  /\ ecJob' = [ecJob EXCEPT ![j] = IF EcIsActive THEN [@ EXCEPT !.pc = "look"] ELSE EcNoJob]
  /\ UNCHANGED <<ecWorker, ecBox, ecToken, ecClean, ecReset, ecLeft, ecLate, ecTouched>>

EcCurrent == {t \in EcTasks : EcPreStop(t) /\ EcPrimary > 0 /\ ecTask[t].dep = EcPrimary}
EcStale == {t \in EcTasks : EcPreStop(t)} \ EcCurrent
(* Faulty: drains the other deployments although the new one is not stable. *)
EcDrainsAlways == TRUE
EcDrains == EcRollout # "IN_PROGRESS"
EcDrained == IF EcDrains THEN EcStale ELSE {}
EcMissing == IF EcRollout = "FAILED" THEN 0 ELSE ecService.desired - Cardinality(EcCurrent)
(* maximumPercent is 200, minimumHealthyPercent 100: a stale task makes     *)
(* room only while enough others run.                                       *)
EcCapacity == 2 * ecService.desired - Cardinality(EcCurrent \cup EcStale)
EcRoom == Min({EcMissing - Max({0, EcCapacity}), Cardinality(EcStale),
               Max({0, Cardinality(EcRunning \ EcDrained) - ecService.desired})})
EcFirst(n, S) == {t \in S : Cardinality({s \in S : s < t}) < n}
EcNewest(n, S) == {t \in S : Cardinality({s \in S : s > t}) < n}

(* _reconcile_service_tasks looks, and decides.  A certification completes  *)
(* its deployment afterwards; without tasks to wait for, anyone completes.  *)
EcReconciliation ==
  IF ecService.desired = 0 THEN [stop |-> {t \in EcTasks : EcPreStop(t)}, run |-> 0]
  ELSE IF EcMissing > 0 /\ EcCapacity < EcMissing
  THEN [stop |-> EcDrained \cup EcFirst(EcRoom, EcStale), run |-> Max({0, EcCapacity}) + EcRoom]
  ELSE [stop |-> EcDrained \cup EcNewest(-EcMissing, EcCurrent), run |-> Max({0, EcMissing})]
EcOver(j) == IF j[2] = "end" THEN [ecJob[j] EXCEPT !.pc = "finish", !.stop = {}, !.run = 0, !.to = 0] ELSE EcNoJob
EcLook(j) ==
  /\ ecJob[j].pc = "look"
  /\ ecJob' = [ecJob EXCEPT ![j] =
       IF EcIsActive
       THEN [@ EXCEPT !.pc = "act", !.to = EcPrimary, !.stop = EcReconciliation.stop, !.run = EcReconciliation.run,
                      !.completes = j[2] \in {"check", "back"} \/ ecService.desired = 0,
                      !.dep = IF ecService.desired = 0 THEN 0 ELSE ecJob[j].dep]
       ELSE EcOver(j)]
  /\ UNCHANGED <<ecService, ecTask, ecWorker, ecBox, ecToken, ecClean, ecReset, ecLeft, ecLate, ecTouched>>

(* _run_task registers n tasks of deployment d.                             *)
EcFresh(n) == EcFirst(n, {t \in EcTasks : ecWorker[t].pc = "none"})
EcAct(j) ==
  /\ ecJob[j].pc \in {"act", "drain"}
  /\ LET job == ecJob[j]
         new == EcFresh(job.run)
         tasks == [t \in EcTasks |-> IF t \in new THEN [EcNoTask EXCEPT !.there = TRUE, !.status = "starting",
                                                                       !.dep = job.to]
                                                ELSE EcStopped(job.stop)[t]] IN
     /\ ecTask' = tasks
     /\ ecClean' = ecClean \cup {t \in job.stop : EcActive(t)}
     /\ ecWorker' = [t \in EcTasks |-> IF t \in new THEN [ecWorker[t] EXCEPT !.pc = "start"] ELSE ecWorker[t]]
     /\ ecService' = EcPruned(ecService, tasks)
     /\ ecLate' = (ecLate \/ (new # {} /\ (~EcIsActive \/ job.to \notin EcListed \/ ecReset # "no")))
     /\ ecTouched' = (ecTouched \/ Cardinality(new) < job.run)
     /\ ecJob' = [ecJob EXCEPT ![j] = IF job.pc = "act" /\ job.completes
                                     THEN [@ EXCEPT !.pc = "complete", !.stop = {}, !.run = 0, !.to = 0]
                                     ELSE EcOver(j)]
  /\ UNCHANGED <<ecBox, ecToken, ecReset, ecLeft>>

(* _complete_service_deployment.                                            *)
EcStable == {t \in EcRunning : ecTask[t].dep = EcPrimary /\ ecTask[t].stable}
EcComplete(j) ==
  /\ ecJob[j].pc = "complete"
  /\ IF /\ EcIsActive /\ EcRollout = "IN_PROGRESS" /\ ecJob[j].dep \in {0, EcPrimary}
        /\ Cardinality(EcStable) >= ecService.desired
     THEN /\ ecService' = [ecService EXCEPT !.deps[EcPrimary].rollout = "COMPLETED"]
          /\ ecJob' = [ecJob EXCEPT ![j].pc = "drain", ![j].stop = EcStale]
     ELSE ecJob' = [ecJob EXCEPT ![j] = EcOver(j)] /\ UNCHANGED ecService
  /\ UNCHANGED <<ecTask, ecWorker, ecBox, ecToken, ecClean, ecReset, ecLeft, ecLate, ecTouched>>

(* _cleanup_task_resources at the end of the thread that saw the task end.  *)
(* After an exit it is called without a Docker client: no container goes,   *)
(* the exited ones are left to the container reaper.                        *)
EcSettle(t) ==
  /\ IF ecJob[<<t, "end">>].watched THEN EcRemove(t) /\ UNCHANGED ecClean
                                    ELSE ecClean' = ecClean \cup {t} /\ UNCHANGED <<ecTask, ecToken>>
  /\ UNCHANGED <<ecService, ecWorker, ecBox, ecReset, ecLeft, ecLate, ecTouched>>
(* Faulty: nobody certifies the rollback.                                   *)
EcFinishUncertified(t) ==
  /\ ecJob[<<t, "end">>].pc = "finish"
  /\ ecJob' = [ecJob EXCEPT ![<<t, "end">>] = EcNoJob]
  /\ EcSettle(t)
(* Before that it schedules the certification of a rollback it caused.      *)
EcFinish(t) ==
  /\ ecJob[<<t, "end">>].pc = "finish"
  /\ ecJob' = [j \in EcJobs |->
       IF j = <<t, "end">> THEN EcNoJob
       ELSE IF j = <<t, "back">> /\ ecJob[<<t, "end">>].back /\ EcPrimary > 0
       THEN [EcNoJob EXCEPT !.pc = "sleep", !.dep = EcPrimary]
       ELSE ecJob[j]]
  /\ EcSettle(t)

-----------------------------------------------------------------------------
(* The API and the reset, which keeps API calls out.                        *)

EcIdle == ecReset = "no" /\ ecJob[<<0, "call">>].pc = "none"
EcCalls(pc, stop) == ecJob' = [ecJob EXCEPT ![<<0, "call">>] = [EcNoJob EXCEPT !.pc = pc, !.stop = stop]]
EcNewDeployment == ecLeft.deps + 1

EcCreate(n) ==
  /\ EcIdle /\ ~EcIsActive /\ n > 0 /\ EcNewDeployment \in EcDeployments
  /\ ecService' = [status |-> "ACTIVE", desired |-> n,
                   deps |-> [d \in EcDeployments |->
                     IF d = EcNewDeployment THEN [status |-> "PRIMARY", rollout |-> "COMPLETED", failed |-> 0]
                                            ELSE EcNoDeployment]]
  /\ ecLeft' = [ecLeft EXCEPT !.deps = @ + 1]
  /\ EcCalls("look", {})
  /\ UNCHANGED <<ecTask, ecWorker, ecBox, ecToken, ecClean, ecReset, ecLate, ecTouched>>

(* Faulty: the former primary stays one.                                    *)
EcUndemoted == ecService.deps
(* A new task definition, or forceNewDeployment.                            *)
EcDemoted == [d \in EcDeployments |-> IF ecService.deps[d].status = "PRIMARY"
                                      THEN [ecService.deps[d] EXCEPT !.status = "ACTIVE"] ELSE ecService.deps[d]]
EcDeploy ==
  /\ EcIdle /\ ecService.status # "none" /\ EcNewDeployment \in EcDeployments
  /\ ecService' = [ecService EXCEPT !.deps = [EcDemoted EXCEPT ![EcNewDeployment] =
                     [status |-> "PRIMARY", rollout |-> "IN_PROGRESS", failed |-> 0]]]
  /\ ecLeft' = [ecLeft EXCEPT !.deps = @ + 1]
  /\ ecTouched' = (ecTouched \/ EcRollout = "IN_PROGRESS")
  /\ EcCalls("look", {})
  /\ UNCHANGED <<ecTask, ecWorker, ecBox, ecToken, ecClean, ecReset, ecLate>>

EcScale(n) ==
  /\ EcIdle /\ EcIsActive /\ n # ecService.desired /\ ecLeft.troubles > 0
  /\ ecService' = [ecService EXCEPT !.desired = n]
  /\ ecLeft' = [ecLeft EXCEPT !.troubles = @ - 1] /\ ecTouched' = TRUE
  /\ EcCalls("look", {})
  /\ UNCHANGED <<ecTask, ecWorker, ecBox, ecToken, ecClean, ecReset, ecLate>>

(* Faulty: only what runs is stopped.                                       *)
EcDeleteRunning ==
  /\ EcIdle /\ EcIsActive
  /\ ecService' = [ecService EXCEPT !.status = "INACTIVE", !.desired = 0]
  /\ EcCalls("act", EcRunning)
  /\ UNCHANGED <<ecTask, ecWorker, ecBox, ecToken, ecClean, ecReset, ecLeft, ecLate, ecTouched>>
(* With force: every task of the service is stopped.                        *)
EcDelete ==
  /\ EcIdle /\ EcIsActive
  /\ ecService' = [ecService EXCEPT !.status = "INACTIVE", !.desired = 0]
  /\ EcCalls("act", {t \in EcTasks : EcPreStop(t)})
  /\ UNCHANGED <<ecTask, ecWorker, ecBox, ecToken, ecClean, ecReset, ecLeft, ecLate, ecTouched>>

EcStopTask(t) ==
  /\ ecReset = "no" /\ ecLeft.troubles > 0 /\ EcActive(t)
  /\ ecTask' = EcStopped({t}) /\ ecService' = EcPruned(ecService, ecTask')
  /\ ecClean' = ecClean \cup {t}
  /\ ecLeft' = [ecLeft EXCEPT !.troubles = @ - 1]
  /\ ecTouched' = TRUE
  /\ UNCHANGED <<ecWorker, ecBox, ecToken, ecJob, ecReset, ecLate>>

(* reset flags the tasks it finds, removes every container, and clears.     *)
EcResetFlags ==
  /\ ecReset = "no" /\ ecLeft.troubles > 0
  /\ ecReset' = "flagged" /\ ecLeft' = [ecLeft EXCEPT !.troubles = @ - 1]
  /\ ecTask' = [t \in EcTasks |-> IF ecTask[t].there THEN [ecTask[t] EXCEPT !.resetting = TRUE] ELSE ecTask[t]]
  /\ UNCHANGED <<ecService, ecWorker, ecBox, ecToken, ecJob, ecClean, ecLate, ecTouched>>
EcResetClears ==
  /\ ecReset = "flagged" /\ ecReset' = "no"
  /\ ecBox' = [b \in EcTasks \X EcIds |-> "none"]
  /\ ecService' = [status |-> "none", desired |-> 0, deps |-> [d \in EcDeployments |-> EcNoDeployment]]
  /\ ecTask' = [t \in EcTasks |-> [EcNoTask EXCEPT !.ids = ecTask[t].ids, !.tokens = ecTask[t].tokens]]
  /\ ecToken' = [t \in EcTasks |-> {}]
  /\ UNCHANGED <<ecWorker, ecJob, ecClean, ecLeft, ecLate, ecTouched>>

EcThread(t) == EcRun(t) \/ EcAttach(t)
EcWork(j) == EcWake(j) \/ EcLook(j) \/ EcAct(j) \/ EcComplete(j)
EcTaskStep(t) == EcRecordFailure(t) \/ EcFinish(t) \/ EcCleanup(t) \/ EcNotice(t)

(* What the threads do by themselves; the watcher inspects the containers   *)
(* for ever.                                                                *)
EcProgress ==
  \/ \E t \in EcTasks : EcThread(t) \/ EcTaskStep(t)
  \/ \E j \in EcJobs : EcWork(j)
  \/ EcResetClears
EcNext ==
  \/ EcProgress
  \/ \E t \in EcTasks : EcRunFails(t) \/ EcStopTask(t)
  \/ \E b \in EcTasks \X EcIds : EcExit(b)
  \/ \E n \in EcDesired : EcCreate(n) \/ EcScale(n)
  \/ EcDeploy \/ EcDelete \/ EcResetFlags

EcFairness == WF_ecVars(EcProgress)
EcSpec == EcInit /\ [][EcNext]_ecVars /\ EcFairness

-----------------------------------------------------------------------------
(* A service in use has exactly one primary deployment, whatever updates and *)
(* rollbacks came between; a deployment counts failures only up to the       *)
(* breaker's threshold.                                                     *)
EcTypeOK ==
  /\ ecService.status \in {"none", "ACTIVE", "INACTIVE"} /\ ecService.desired \in EcDesired \cup {0}
  /\ \A d \in EcDeployments :
       /\ ecService.deps[d].status \in {"gone", "PRIMARY", "ACTIVE"}
       /\ ecService.deps[d].rollout \in {"IN_PROGRESS", "COMPLETED", "FAILED"}
       /\ ecService.deps[d].failed \in 0..EcThreshold
  /\ EcIsActive => Cardinality({d \in EcDeployments : ecService.deps[d].status = "PRIMARY"}) = 1
  /\ \A t \in EcTasks : ecTask[t].ids \subseteq EcIds /\ ecTask[t].tokens \subseteq EcIds
  /\ ecClean \subseteq EcTasks /\ ecLeft.deps \in 0..EcMaxDeployments

(* A task that ends leaves nothing: a container that is up, and a metadata  *)
(* token that is registered, belong to an active task that knows them, or    *)
(* somebody is about to dispose of them.  The sidecars of a task whose       *)
(* essential container has exited are the exception: nobody stops them.     *)
EcHeld(t) == EcActive(t) \/ t \in ecClean \/ ecJob[<<t, "end">>].pc \in {"record", "look", "act", "complete", "drain", "finish"}
EcOwned(t, i) == \/ i \in ecTask[t].ids /\ EcHeld(t)
                 \/ ecWorker[t].pc = "attach" /\ ecWorker[t].at = i
                 \/ i # 1 /\ ecBox[<<t, 1>>] = "exited"
EcNothingLeft == ecReset = "no" => \A t \in EcTasks, i \in EcIds :
  /\ ecBox[<<t, i>>] = "up" => EcOwned(t, i)
  /\ i \in ecToken[t] => i \in ecTask[t].tokens /\ EcHeld(t)

(* A rollout that failed and left nothing to roll back to.                   *)
EcNoWayBack == EcRollout = "FAILED" /\ (EcRollback => EcCandidates(EcPrimary) = {})

(* "old tasks stay alive while the new deployment is IN_PROGRESS; only a    *)
(* stable new deployment drains them": a decision to stop a running task of *)
(* another deployment than the primary is taken by a completed rollout, or   *)
(* one that has failed for good, or while as many tasks as desired run      *)
(* besides those it stops.                                                  *)
EcOldTasksStay == [][\A j \in EcJobs :
  LET stopping == {t \in EcRunning : t \in ecJob'[j].stop \ ecJob[j].stop} IN
  (j[2] # "call" \/ ecService'.status = "ACTIVE") /\ ecService.desired > 0
      /\ (\E t \in stopping : ecTask[t].dep # EcPrimary)
    => EcRollout' = "COMPLETED" \/ EcNoWayBack' \/ Cardinality(EcRunning \ stopping) >= ecService.desired]_ecVars

(* Once DeleteService has answered, no task of the service is active.       *)
EcDeletedStops == ecService.status = "INACTIVE" /\ EcIdle /\ ~ecLate => \A t \in EcTasks : ~EcActive(t)

(* A rollout that nobody disturbs ends: its tasks become stable, or the      *)
(* circuit breaker trips, and the rollback it starts completes as well.      *)
EcRolloutsEnd == [](EcIsActive /\ EcRollout = "IN_PROGRESS"
                    => <>(ecTouched \/ ~EcIsActive \/ EcRollout # "IN_PROGRESS"))
=============================================================================
