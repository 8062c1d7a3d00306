--------------------------- MODULE StepFunctions ---------------------------
(***************************************************************************)
(* Executions whose one Task state waits for an answer from outside: a     *)
(* callback task (.waitForTaskToken) or an activity task.  An execution    *)
(* runs on a thread of its own; StartExecution, StopExecution, SendTask*   *)
(* and the activity operations run on the event loop, between any two of   *)
(* its steps.  A restart restores executions and activities, but neither   *)
(* the tokens nor the queues of tasks.                                     *)
(***************************************************************************)
EXTENDS Integers, Sequences, FiniteSets

CONSTANTS
  SfExecutions,   \* execution names, each used once
  SfWorkers,      \* clients of GetActivityTask
  SfMaxAttempts,  \* 1 + MaxAttempts of the state's retrier
  SfMaxQueues,    \* bound: how often the activity is created
  SfMaxRestarts   \* bound: restarts of the server

ASSUME SfAssumption == SfMaxAttempts \in Nat \ {0} /\ SfMaxQueues \in Nat /\ SfMaxRestarts \in Nat

VARIABLES
  sfExec,      \* execution -> its status, its kind of task, events after ExecutionAborted
  sfThread,    \* execution -> where its thread is and the number of its attempt
  sfTokens,    \* _task_tokens: token -> whether it is there, its result, its error
  sfActivity,  \* the activity: whether it exists, its list in _activity_tasks
  sfQueues,    \* the lists of tasks ever made, by identity; 0 is the one nobody fills
  sfWorker,    \* worker -> the list its poll captured, and the token it was given
  sfKnown,     \* tokens that some client has seen
  sfRestarts

sfVars == <<sfExec, sfThread, sfTokens, sfActivity, sfQueues, sfWorker, sfKnown, sfRestarts>>

(* A callback token is made once per task, an activity token per attempt.   *)
SfTokenIds == SfExecutions \X (0..SfMaxAttempts)
SfToken(x) == <<x, IF sfExec[x].kind = "callback" THEN 0 ELSE sfThread[x].attempt>>

SfPopped == [there |-> FALSE, result |-> FALSE, error |-> FALSE]
SfRegistered == [there |-> TRUE, result |-> FALSE, error |-> FALSE]
SfSet(t) == sfTokens[t].result \/ sfTokens[t].error
SfIdle == [pc |-> "idle", list |-> 0, holds |-> {}]

SfInit ==
  /\ sfExec = [x \in SfExecutions |-> [status |-> "absent", kind |-> "callback"]]
  /\ sfThread = [x \in SfExecutions |-> [pc |-> "none", attempt |-> 0]]
  /\ sfTokens = [t \in SfTokenIds |-> SfPopped]
  /\ sfActivity = [live |-> FALSE, list |-> 0, made |-> 0]
  /\ sfQueues = [q \in 0..SfMaxQueues |-> <<>>]
  /\ sfWorker = [w \in SfWorkers |-> SfIdle]
  /\ sfKnown = {}
  /\ sfRestarts = 0

SfGo(x, pc) == sfThread' = [sfThread EXCEPT ![x].pc = pc]

(* StartExecution: the record, then the thread.                             *)
SfStart(x, kind) ==
  /\ sfExec[x].status = "absent"
  /\ sfExec' = [sfExec EXCEPT ![x] = [status |-> "RUNNING", kind |-> kind]]
  /\ SfGo(x, "enter")
  /\ UNCHANGED <<sfTokens, sfActivity, sfQueues, sfWorker, sfKnown, sfRestarts>>

(* A client that retries StopExecution gets the first answer again.         *)
SfStop(x) ==
  /\ sfExec[x].status = "RUNNING"
  /\ sfExec' = [sfExec EXCEPT ![x].status = "ABORTED"]
  /\ UNCHANGED <<sfThread, sfTokens, sfActivity, sfQueues, sfWorker, sfKnown, sfRestarts>>

(* The thread reaches the state; a stopped execution ends instead.          *)
SfEnter(x) ==
  /\ sfThread[x].pc = "enter"
  /\ SfGo(x, IF sfExec[x].status = "RUNNING" THEN "schedule" ELSE "done")
  /\ UNCHANGED <<sfExec, sfTokens, sfActivity, sfQueues, sfWorker, sfKnown, sfRestarts>>

(* Faulty: the token is registered where it is made, not for each attempt.  *)
SfScheduleCallbackOnce(x) ==
  /\ sfThread[x].pc = "schedule" /\ sfExec[x].kind = "callback"
  /\ sfThread' = [sfThread EXCEPT ![x] = [pc |-> "call", attempt |-> @.attempt + 1]]
  /\ sfTokens' = [sfTokens EXCEPT ![<<x, 0>>] = IF sfThread[x].attempt = 0 THEN SfRegistered ELSE @]
  /\ UNCHANGED <<sfExec, sfActivity, sfQueues, sfWorker, sfKnown, sfRestarts>>
(* An attempt of a callback task: the token is registered before the call.  *)
SfScheduleCallback(x) ==
  /\ sfThread[x].pc = "schedule" /\ sfExec[x].kind = "callback"
  /\ sfThread' = [sfThread EXCEPT ![x] = [pc |-> "call", attempt |-> @.attempt + 1]]
  /\ sfTokens' = [sfTokens EXCEPT ![<<x, 0>>] = SfRegistered]
  /\ UNCHANGED <<sfExec, sfActivity, sfQueues, sfWorker, sfKnown, sfRestarts>>

(* The call delivers the token; the thread then waits.                      *)
SfDeliver(x) ==
  /\ sfThread[x].pc = "call"
  /\ SfGo(x, "wait")
  /\ sfKnown' = sfKnown \cup {SfToken(x)}
  /\ UNCHANGED <<sfExec, sfTokens, sfActivity, sfQueues, sfWorker, sfRestarts>>

SfCallFails(x) ==
  /\ sfThread[x].pc = "call"
  /\ sfTokens' = [sfTokens EXCEPT ![SfToken(x)] = SfPopped]
  /\ SfGo(x, "failed")
  /\ UNCHANGED <<sfExec, sfActivity, sfQueues, sfWorker, sfKnown, sfRestarts>>

(* An attempt of an activity task: a new token, at the end of the queue.    *)
SfScheduleActivity(x) ==
  /\ sfThread[x].pc = "schedule" /\ sfExec[x].kind = "activity"
  /\ sfActivity.live /\ sfActivity.list > 0
  /\ sfThread' = [sfThread EXCEPT ![x] = [pc |-> "wait", attempt |-> @.attempt + 1]]
  /\ LET t == <<x, sfThread[x].attempt + 1>> IN
     /\ sfTokens' = [sfTokens EXCEPT ![t] = SfRegistered]
     /\ sfQueues' = [sfQueues EXCEPT ![sfActivity.list] = Append(@, t)]
  /\ UNCHANGED <<sfExec, sfActivity, sfWorker, sfKnown, sfRestarts>>

(* No such activity: the attempt fails and may be retried.                  *)
SfNoActivity(x) ==
  /\ sfThread[x].pc = "schedule" /\ sfExec[x].kind = "activity" /\ ~sfActivity.live
  /\ sfThread' = [sfThread EXCEPT ![x] = [pc |-> "failed", attempt |-> @.attempt + 1]]
  /\ UNCHANGED <<sfExec, sfTokens, sfActivity, sfQueues, sfWorker, sfKnown, sfRestarts>>

(* The activity was restored and its queue was not: append raises KeyError, *)
(* which no retrier sees, after the token was registered.                   *)
SfNoQueue(x) ==
  /\ sfThread[x].pc = "schedule" /\ sfExec[x].kind = "activity"
  /\ sfActivity.live /\ sfActivity.list = 0
  /\ sfThread' = [sfThread EXCEPT ![x] = [pc |-> "raise", attempt |-> @.attempt + 1]]
  /\ sfTokens' = [sfTokens EXCEPT ![<<x, sfThread[x].attempt + 1>>] = SfRegistered]
  /\ UNCHANGED <<sfExec, sfActivity, sfQueues, sfWorker, sfKnown, sfRestarts>>

(* evt.wait returns: the token is popped, an error counts before a result.  *)
SfWake(x) ==
  /\ sfThread[x].pc = "wait" /\ SfSet(SfToken(x))
  /\ sfTokens' = [sfTokens EXCEPT ![SfToken(x)] = SfPopped]
  /\ SfGo(x, IF sfTokens[SfToken(x)].error THEN "failed" ELSE "exit")
  /\ UNCHANGED <<sfExec, sfActivity, sfQueues, sfWorker, sfKnown, sfRestarts>>

(* The wait times out; until the token is popped an answer is still taken.  *)
SfExpire(x) ==
  /\ sfThread[x].pc = "wait" /\ ~SfSet(SfToken(x))
  /\ SfGo(x, "expired")
  /\ UNCHANGED <<sfExec, sfTokens, sfActivity, sfQueues, sfWorker, sfKnown, sfRestarts>>
SfTimeout(x) ==
  /\ sfThread[x].pc = "expired"
  /\ sfTokens' = [sfTokens EXCEPT ![SfToken(x)] = SfPopped]
  /\ SfGo(x, "failed")
  /\ UNCHANGED <<sfExec, sfActivity, sfQueues, sfWorker, sfKnown, sfRestarts>>

(* Faulty: the retry is not counted.                                        *)
SfRetryUncounted(x) ==
  /\ sfThread[x].pc = "failed"
  /\ sfThread' = [sfThread EXCEPT ![x] = IF @.attempt < SfMaxAttempts
                    THEN [pc |-> "schedule", attempt |-> @.attempt - 1] ELSE [@ EXCEPT !.pc = "raise"]]
  /\ UNCHANGED <<sfExec, sfTokens, sfActivity, sfQueues, sfWorker, sfKnown, sfRestarts>>
(* Faulty: the last attempt is retried once more.                           *)
SfRetryOffByOne(x) ==
  /\ sfThread[x].pc = "failed"
  /\ SfGo(x, IF sfThread[x].attempt <= SfMaxAttempts THEN "schedule" ELSE "raise")
  /\ UNCHANGED <<sfExec, sfTokens, sfActivity, sfQueues, sfWorker, sfKnown, sfRestarts>>
(* After TaskFailed: another attempt, without a look at the status, or the  *)
(* error is raised.                                                         *)
SfRetry(x) ==
  /\ sfThread[x].pc = "failed"
  /\ SfGo(x, IF sfThread[x].attempt < SfMaxAttempts THEN "schedule" ELSE "raise")
  /\ UNCHANGED <<sfExec, sfTokens, sfActivity, sfQueues, sfWorker, sfKnown, sfRestarts>>

(* After TaskSucceeded: StateExited and the look at the status.             *)
SfExit(x) ==
  /\ sfThread[x].pc = "exit"
  /\ SfGo(x, IF sfExec[x].status = "RUNNING" THEN "commit" ELSE "done")
  /\ UNCHANGED <<sfExec, sfTokens, sfActivity, sfQueues, sfWorker, sfKnown, sfRestarts>>

(* The status set after that look, and the output: a stop may have come     *)
(* between.                                                                 *)
SfSucceed(x) ==
  /\ sfThread[x].pc = "commit"
  /\ sfExec' = [sfExec EXCEPT ![x].status = "SUCCEEDED"]
  /\ SfGo(x, "done")
  /\ UNCHANGED <<sfTokens, sfActivity, sfQueues, sfWorker, sfKnown, sfRestarts>>

(* _fail_execution: nothing to do for a stopped execution.                  *)
SfFail(x) ==
  /\ sfThread[x].pc = "raise"
  /\ sfExec' = [sfExec EXCEPT ![x].status = IF @ = "RUNNING" THEN "FAILED" ELSE @]
  /\ SfGo(x, "done")
  /\ UNCHANGED <<sfTokens, sfActivity, sfQueues, sfWorker, sfKnown, sfRestarts>>

(* SendTaskSuccess and SendTaskFailure; an unknown token is refused.        *)
SfSendTask(t, how) ==
  /\ t \in sfKnown /\ sfTokens[t].there
  /\ sfTokens' = [sfTokens EXCEPT ![t][how] = TRUE]
  /\ UNCHANGED <<sfExec, sfThread, sfActivity, sfQueues, sfWorker, sfKnown, sfRestarts>>

SfCreateActivity ==
  /\ ~sfActivity.live /\ sfActivity.made < SfMaxQueues
  /\ sfActivity' = [live |-> TRUE, list |-> sfActivity.made + 1, made |-> sfActivity.made + 1]
  /\ UNCHANGED <<sfExec, sfThread, sfTokens, sfQueues, sfWorker, sfKnown, sfRestarts>>

(* The list is dropped from the table; a poll that captured it still has it. *)
SfDeleteActivity ==
  /\ sfActivity.live
  /\ sfActivity' = [sfActivity EXCEPT !.live = FALSE, !.list = 0]
  /\ UNCHANGED <<sfExec, sfThread, sfTokens, sfQueues, sfWorker, sfKnown, sfRestarts>>

(* GetActivityTask: captures the list, then looks at it until its deadline. *)
SfPoll(w) ==
  /\ sfWorker[w].pc = "idle" /\ sfActivity.live
  /\ sfWorker' = [sfWorker EXCEPT ![w].pc = "polling", ![w].list = sfActivity.list]
  /\ UNCHANGED <<sfExec, sfThread, sfTokens, sfActivity, sfQueues, sfKnown, sfRestarts>>
(* Faulty: looks at the first task, and removes it on a later step.         *)
SfTakePeeking(w) ==
  /\ sfWorker[w].pc = "polling" /\ sfQueues[sfWorker[w].list] # <<>>
  /\ LET t == Head(sfQueues[sfWorker[w].list]) IN
     /\ sfWorker' = [sfWorker EXCEPT ![w] = [pc |-> "idle", list |-> 0, holds |-> @.holds \cup {t}]]
     /\ sfKnown' = sfKnown \cup {t}
  /\ UNCHANGED <<sfExec, sfThread, sfTokens, sfActivity, sfQueues, sfRestarts>>
SfTake(w) ==
  /\ sfWorker[w].pc = "polling" /\ sfQueues[sfWorker[w].list] # <<>>
  /\ LET t == Head(sfQueues[sfWorker[w].list]) IN
     /\ sfWorker' = [sfWorker EXCEPT ![w] = [pc |-> "idle", list |-> 0, holds |-> @.holds \cup {t}]]
     /\ sfKnown' = sfKnown \cup {t}
  /\ sfQueues' = [sfQueues EXCEPT ![sfWorker[w].list] = Tail(@)]
  /\ UNCHANGED <<sfExec, sfThread, sfTokens, sfActivity, sfRestarts>>
SfPollExpires(w) ==
  /\ sfWorker[w].pc = "polling"
  /\ sfWorker' = [sfWorker EXCEPT ![w].pc = "idle", ![w].list = 0]
  /\ UNCHANGED <<sfExec, sfThread, sfTokens, sfActivity, sfQueues, sfKnown, sfRestarts>>

(* The server stops and starts: running executions become FAILED; threads,  *)
(* tokens, queues and polls are gone.                                       *)
SfRestart ==
  /\ sfRestarts < SfMaxRestarts
  /\ sfRestarts' = sfRestarts + 1
  /\ sfExec' = [x \in SfExecutions |->
       [sfExec[x] EXCEPT !.status = IF @ = "RUNNING" THEN "FAILED" ELSE @]]
  /\ sfThread' = [x \in SfExecutions |->
       [sfThread[x] EXCEPT !.pc = IF @ = "none" THEN @ ELSE "done"]]
  /\ sfTokens' = [t \in SfTokenIds |-> SfPopped]
  /\ sfActivity' = [sfActivity EXCEPT !.list = 0]
  /\ sfQueues' = [q \in 0..SfMaxQueues |-> <<>>]
  /\ sfWorker' = [w \in SfWorkers |-> [sfWorker[w] EXCEPT !.pc = "idle", !.list = 0]]
  /\ UNCHANGED sfKnown

SfRun(x) ==
  \/ SfEnter(x) \/ SfScheduleCallback(x) \/ SfScheduleActivity(x) \/ SfNoActivity(x) \/ SfNoQueue(x)
  \/ SfDeliver(x) \/ SfCallFails(x) \/ SfWake(x) \/ SfExpire(x) \/ SfTimeout(x)
  \/ SfRetry(x) \/ SfExit(x) \/ SfSucceed(x) \/ SfFail(x)

SfNext ==
  \/ \E x \in SfExecutions, kind \in {"callback", "activity"} : SfStart(x, kind)
  \/ \E x \in SfExecutions : SfStop(x) \/ SfRun(x)
  \/ \E t \in SfTokenIds, how \in {"result", "error"} : SfSendTask(t, how)
  \/ SfCreateActivity \/ SfDeleteActivity
  \/ \E w \in SfWorkers : SfPoll(w) \/ SfTake(w) \/ SfPollExpires(w)
  \/ SfRestart

(* The thread runs, and its waits are bounded (99999 s when the state says  *)
(* nothing); clients owe nothing.                                           *)
SfFairness == \A x \in SfExecutions : WF_sfVars(SfRun(x))
SfSpec == SfInit /\ [][SfNext]_sfVars /\ SfFairness

-----------------------------------------------------------------------------
SfWaiting(x) == sfThread[x].pc \in {"call", "wait", "expired"}

(* The state has its shape, and a thread exists exactly for an execution    *)
(* that was started.                                                        *)
SfTypeOK ==
  /\ sfExec \in [SfExecutions ->
       [status : {"absent", "RUNNING", "SUCCEEDED", "FAILED", "ABORTED"},
        kind : {"callback", "activity"}]]
  /\ sfThread \in [SfExecutions ->
       [pc : {"none", "enter", "schedule", "call", "wait", "expired", "failed", "exit", "commit",
              "raise", "done"}, attempt : 0..SfMaxAttempts]]
  /\ \A x \in SfExecutions : sfThread[x].pc = "none" <=> sfExec[x].status = "absent"
  /\ sfTokens \in [SfTokenIds -> [there : BOOLEAN, result : BOOLEAN, error : BOOLEAN]]
  /\ sfActivity \in [live : BOOLEAN, list : 0..SfMaxQueues, made : 0..SfMaxQueues]
  /\ sfKnown \subseteq SfTokenIds
  /\ \A w \in SfWorkers : sfWorker[w].list \in 0..SfMaxQueues /\ sfWorker[w].holds \subseteq sfKnown
  /\ \A q \in 0..SfMaxQueues : sfQueues[q] \in Seq(SfTokenIds)

(* A client that holds the token of the attempt under way is never told     *)
(* TaskDoesNotExist, through retries of the task; and an answer is never    *)
(* taken for a token that no thread waits on any more.                      *)
SfAnswersMeetTheirTask == \A t \in sfKnown :
  sfTokens[t].there <=> SfWaiting(t[1]) /\ SfToken(t[1]) = t

(* GetActivityTask hands a task to one worker: a task somebody was given is *)
(* on no list, and no two workers were given the same one.                  *)
SfHandedOnce ==
  /\ \A w, v \in SfWorkers : w # v => sfWorker[w].holds \cap sfWorker[v].holds = {}
  /\ \A w \in SfWorkers, q \in 0..SfMaxQueues :
       \A i \in 1..Len(sfQueues[q]) : sfQueues[q][i] \notin sfWorker[w].holds

(* Every execution's thread ends, stopped or not, answered or not: each     *)
(* wait is bounded and so is the number of attempts.                        *)
SfThreadsEnd == \A x \in SfExecutions :
  sfThread[x].pc \notin {"none", "done"} ~> sfThread[x].pc = "done"

=============================================================================
