# MiniStack: a TLA+ verification project

MiniStack is one Python process that answers the AWS APIs: an ASGI application
(`app.py`) routes each request to a service module under `ministack/services`,
whose state is module-level dictionaries. Most handlers run to completion on
the event loop; long polls await, work that may call back into the server runs
on threads of its own (`core/concurrency.py`), pollers, reapers and tickers are
daemon threads, and functions, databases and tasks run in Docker containers or
subprocesses. What is hard to test is what happens between those: a handler
that awaits, a thread that acts on what it read before, a container that is
registered after its owner changed. That is what the modules here are about.

## 1. Inventory

Sizes are lines of Python. `PROJECT.json` lists every component with its
sources and why it is or is not modelled, and every hazard at its line with the
properties that would notice it.

| Component | State | Hard behaviour | What makes it correct | Module |
|---|---|---|---|---|
| SQS queues (`sqs.py`, 2026) | queues: messages, attributes, deduplication cache; name index | coroutines that keep a queue object across an `await`; redrive; time | visibility timeouts exclusive, nothing lost or copied, group order, deduplication window, poison ends in the DLQ | `SqsQueue`, `Mailbox` |
| Mappings on SQS (`lambda_svc.py` 7640-8010) | `_esms`, `_esm_inflight`, back-off | batches outlive visibility timeouts, share message dictionaries with the queue, fail in part | at least once, in group order, limits exact, nothing stranded | `EsmSqs` |
| Mappings and pipes on streams (8010-8460, `pipes.py`) | positions per consumer | positions against trimming, splits, closed streams, deleted consumers | no record skipped, poison passes at its age limit, shards independent | `DdbStream`, `KinesisStream` |
| Lambda executions, warm pool (3168-3291, 3540-3853, 5090-5430) | `_inflight`, `_inflight_total`, `_warm_pool`, function records | a thread per invocation, nested ones; Docker calls between two locks | one invocation per container, none forgotten, counters exact, no self-wait | `LambdaPool` |
| Lambda local workers (`lambda_runtime.py`, 2331) | `_workers` | leased before spawned; invalidated while leased | no process forgotten, no stale code, no self-wait | `LambdaWorkers` |
| Off-loop primitives (`concurrency.py`, 228) | thread counters, resource locks | cancellation of what cannot be cancelled | worker always awaited, counters exact | `Reentrant` |
| Node pool (`node_pool.py`, 235) | worker list | reset under a lease, folding | no process forgotten, few kept warm | `NodePool` |
| ElastiCache (4249), container reaper (327) | records with container ids | a start that lands after the delete; names re-used | no orphan container, own container adopted | `CacheCluster` |
| ECS (3681) | tasks, services, deployments | start threads against stops; rollouts, breaker | nothing left behind, old tasks stay until the new are stable, rollouts end | `EcsService` |
| Step Functions (6250) | executions, task tokens, activities | answers against timeouts, stops, retries, restarts | the answer reaches the attempt that waits, a task goes to one worker | `StepFunctions` |
| CloudFormation engine, stacks (7700 without provisioners) | stack records, failed operations | failures of any resource in any phase; rollback, cleanup; overlapping calls | every resource accounted for, dependents first, operations end | `CfnStack` |
| CloudFormation waiters | wait handles, pending answers | threads against HTTP calls and resets | released only by Count successes; no lost wake-up | `CfnWaiters` |
| EventBridge rules, Scheduler | rules, schedules, last-fired times | daemon sweeps over copies; records re-made under them | a one-time schedule fires once, intervals kept | `Tickers` |
| Gateway and reset (`app.py`, 4157), persistence (219) | `_reset_lock`, one JSON file per service | a reset on a thread against requests and shutdown; a crash between two files; services that do not import | no request meets a half-reset server, a reset sticks, what was saved stays | `Gateway`; the reset of each service in its module |
| S3 (10780) | a key's current record, history, locks; data file, sidecar, `.versions` files | six stores that a write, a marker, a version delete and a switch of versioning change together; restarts | reads agree, every listed version readable, restarts bring back what was seen, locks hold | `S3Objects` |
| Secrets Manager (1473) | a record per region and name, staging labels | a dozen operations on a primary, its replicas and its list of regions | one AWSCURRENT, a way back, no replica out of reach | `SecretVersions` |
| DynamoDB items, Kinesis/Firehose readers, SNS, IAM, KMS | tables, topics, policies, keys | a handler that checks everything and then writes, without a break | unit tests reach most of it | no (see 7) |
| DSQL proxy, IoT, Cognito, EC2, RDS, API Gateway, CloudFront, AppSync and some fifty more | records | none beyond the above | unit tests reach it | no |

How they interact: producers (SNS, EventBridge, S3, clients) append to a
queue's list and set one wake event; the mapping poller receives from queues
and streams and runs functions; functions call back over HTTP, which starts
further invocations; CloudFormation and Step Functions run long operations on
tasks and threads that wait for such calls; a reset or an update empties the
pools and tables meanwhile.

## 2. Plan

The order is by how much of the system rests on a component. Done:

1. `SqsQueue`, `Mailbox`, with `SqsProofs`.
2. `EsmSqs` (extends `SqsQueue`), with `SqsProofs`.
3. `LambdaPool`, with `ProcessProofs`.
4. `DdbStream`, `KinesisStream`: positions against trimming and splits, with
   `StreamsProofs`.
5. `CfnStack`, with `CfnStackProofs`; `CfnWaiters`, `StepFunctions`, with
   `EnginesProofs`.
6. `LambdaWorkers`, `NodePool`, `Reentrant`, `CacheCluster`, `EcsService`.
7. `Tickers`, with `StreamsProofs`.
8. `SecretVersions`, with `EnginesProofs`; `Gateway`; `S3Objects` (with
   `Lists`), with `S3ObjectsProofs` and `ListsProofs`.
9. `BackgroundProofs`: `Reentrant`, `CacheCluster` and `Gateway`;
   `ProcessProofs`: `LambdaWorkers`, `NodePool` and `EcsService`.

Left, and why it comes after the above:

* DynamoDB items with TTL, whose one race is the reaper's against the item
  handlers; transactions check before they write, within one handler.
* Event age and destinations of asynchronous invocations, durable executions,
  SNS topics: they need clocks or payloads that the present modules abstract.
* IAM evaluation, a pure function that its own table tests reach.

## 3. Modules and the code

**SqsQueue** is one source queue and its dead-letter queue. A queue *object*
`<<name, k>>` is the dictionary made by the k-th `CreateQueue` of a name;
`live` and `made` are the name index. A message has its place in the list
(`pos`), the time left until `visible_at` (`hidden`), its `age` since
`enqueued_at`, `receive_count` (`rcv`) and its current `receipt_handle`,
reduced to who got it: a handle is a fresh uuid, an older one matches nothing.
Every handler is one action, except ReceiveMessage: `ReceiveMessage` and `Wake`
are one pass of the loop up to the sweep, `Collect` is the rest, after which
the coroutine answers or sleeps with the object it looked up. `LoopFree` says
that no coroutine is between two awaits. Three variables are history: `lease`
(what the queue promised whom), `since` (time since a key was last appended)
and `fate`.

**Mailbox** is what a client may rely on, without lists, handles and clocks:
where a message is, who received it last, and whether the queue's promise to
that consumer is running. `SqsQueue` implements it under the mapping `Place`,
`Latest`, `Promised`: a sweep is one `Sweep`, the second half of a receive a
`Deliver`, the clock a `RunOut`, administration a stutter. A mailbox never
delivers or dead-letters what is promised, brings nothing back, and renews only
what somebody received. Its state does not say who acts.

**EsmSqs** adds a mapping. A batch slot is a consumer; `EsmPoll` is
`_poll_sqs` up to the receive, `EsmCollect` the receive, `EsmDrop` the filtered
batch, `EsmDispatch` the start of a thread, `EsmSucceed`/`EsmFail` what
`_run_sqs_batch` does after the handler. A batch holds message dictionaries,
not copies, so `Settled` takes the handle a message has *now*.

**DdbStream** is a table's stream, a list whose front expires with a count of
what was trimmed, and its consumers: a mapping, a pipe, or a client with shard
iterators. Positions are absolute. A poll is `Poll`, `Fetch`, `Finish`, and
handlers write, trim, close, re-enable the stream and delete the consumer in
between. `dsFresh` says whether a position still counts in the stream's
numbering: a restart starts the numbering over (see 5), and what is promised is
promised where it did not. **KinesisStream** is a mapping over shards that split,
merge and expire; positions are list indices, and `ksShifted` marks where expiry
moved the records under one.

**Tickers** is both daemon sweeps. `TiSweepStart` copies the records,
`TiVisit` handles one of them, and puts, switches, deletes, resets and restarts
come between visits. `tiLast` is the time of the last firing, kept by name.

**LambdaPool** has threads that run one invocation after the other (`inv`), the
slots (`inflight`, `total`), containers (`box`) with their pool membership, and
the sets of containers some thread is about to kill (`doomed`) or reap
(`reaping`). Each critical section of `_inflight_lock` or `_warm_pool_lock` is an
action; Docker calls lie between actions. A configuration is reduced to `code`
(in the pool key) and `env` (what a container is built from that the key omits).
A handler's nested calls (`caller`) keep it from returning.

**LambdaWorkers** and **NodePool** are the pools of subprocesses: lease, lazy
start, lock, answer, failure, invalidation, reaping and folding, each critical
section an action. `late` and `dropped` mark processes started after their
worker was thrown out, the races the code leaves open (see 5).

**Reentrant** is `run_reentrant`: awaiter, worker thread, the future between
them, and cancellations at any time, nested to any depth.

**CacheCluster** is one cluster identifier: creates, deferred starts, deletes and
resets on pool threads, each in the steps between which `resource_lock` is
free, and the reaper's look and removal. **EcsService** is a service: tasks with
the threads that start, watch and certify them, and reconciliations that look
first and stop and start afterwards; deployments, the circuit breaker, rollback.

**StepFunctions** is an execution's thread around a task that waits for a
callback or an activity worker. **CfnStack** is a stack record with its deploy
and delete tasks, one action per resource, and beside it the resources that
really exist (`cfWorld`); `cfTold` is what events declared as left behind. A
template is which resources it has, in which version, what refers to what, and
what it retains; `Picked` (of `Lists`) stands for the comprehensions that select
from the list of what was deployed. `cfUndone` (history) says that a DeleteStack
overlapped an operation, or came while a failed update was kept.
**CfnWaiters** is the two stores of signals and answers with the threads that
wait on them.

**SecretVersions** is one secret name in the regions of an account: a version is
its set of labels, a record its versions, the region of its primary and the
regions it lists. ARN suffixes are serial numbers, so that a name deleted and
created again is told from its predecessor.

**Gateway** is the process from start-up to its end, several times over. `gwRun` is
the run with the format its binary writes and the services that will not
import; `GwBoot`, `GwShutdown` and `GwCrash` begin and end it. A request waits at the
gate, passes it, loads its service lazily, writes; a reset holds the lock and
wipes one service per step on its thread; a shutdown writes one temporary file
and replaces one file per step. `gwSeen`, `gwResets` and `gwKept` are history.

**S3Objects** is one key with `S3_PERSIST=1`. A write's number stands for its bytes,
its ETag and its version id; `soDisk` has the data file, the sidecar and the
`.versions` files, of which `SoLoaded` is what `_load_persisted_bucket` makes.
`soRefused` marks that a refused PutObject has replaced the record (see 5).

**MCStreams**, **MCBackground** and **MCEngines** check several small components
in one run. Those share nothing: a variable chosen in the initial state says
whose behaviour it is, so the run explores each component on its own, and a
property of the run is a property of each. `MCSqsQueue`, `MCEsmSqs` and
`MCLambdaPool` hold constants, symmetry and narrowed specifications.

Definitions commented "Faulty" are bugs put into the definition after them.
One per property is in `PROJECT.json`; the others were tried with TLC in the
same way, one for each conjunct of a property that joins several.

## 4. Runs

| Run | Question | Result |
|---|---|---|
| `sqs_standard` | 2 messages, 2 consumers, long polls, late deletes and extensions, delays, retention, redrive switched on and off, DLQ re-created: `TypeOK`, `LeaseExclusive`, `Conservation`, `FreshDelivery`, `KeepsPromises` (every step is a step of `Mailbox`) | holds |
| `sqs_fifo` | 3 messages of a group, 2 keys, redrive: `GroupExclusive`, `GroupOrder`, `DedupWindowKept` | holds, if clients do not extend after their own timeout |
| `sqs_crash_loop` | consumers that never settle: `CrashLoopEnds` (`LongPollEnds`, `EventuallyDeadLettered`) | holds |
| `esm_standard` | 2 batches and a client on one queue: `EsmTypeOK`, `DeletedAreHandled` | holds |
| `esm_fifo` | a mapping alone on a FIFO queue: `ConcurrencyBound`, `HandledInOrder`, `EventuallySettled` | holds |
| `lambda_pool` | 2 invocations, 2 containers, every control-plane action: `TypeOK`, `BoxExclusive`, `NoOrphans`, `SlotsExact` | holds |
| `lambda_slots` | caps of 1, nested calls, a retry: `AccountBound`, `SlotsEnd` (invocations return, doomed containers go) | holds |
| `streams` | one consumer of a table's stream; one mapping over three shards; one rule or schedule: `StreamsTypeOK`, `NothingSkipped`, `FiresOnce`, `StreamsProgress` | holds |
| `background` | the two pools, reentrant requests, a cluster, an ECS service, runs of the gateway: `BackgroundTypeOK`, `NothingForgotten`, `EachItsOwn` (fresh code, no wait for oneself, own container), `GatewayKeepsWord` (no half-reset state, resets stick, saved state stays), `RrNoEarlyReturn`, `EcOldTasksStay`, `BackgroundEnds` | holds |
| `engines` | executions, a stack, wait conditions, custom resources, a secret: `EnginesTypeOK`, `TasksMeetAnswers`, `ResourcesAccounted` (of a stack; and replicas of a secret), `CfDependentsFirst`, `CwReleasedRightly`, `CwNoLateAnswer`, `EnginesEnd` (and the version that was current becomes the previous one) | holds |
| `s3_objects` | a key under writes, copies, deletes, switches of versioning, locks and restarts: `SoStoresAgree` (views agree, every version readable, restarts lose nothing), `SoKeeps` (no write loses what versioning keeps, locked versions stay) | holds, if no PutObject is refused for its tags |
| `cfn_deleted` | `CfDeletedIsGone`, as the delete's docstring says | violated |

**Bounds, and why they suffice.** *Queues:* two messages and two consumers show
every race about one message; order needs a group of three. Timeouts of one or
two ticks against other clocks give every order of expiry; ages and windows are
counted only up to where they are compared (`MaxAge`, `DedupWindow`).
`MaxReceives` exceeds `maxReceiveCount` so that redrive happens and the state
stays finite. `Incarnations` 2 lets a queue be re-created. *Lambda:* two
invocations and two containers show one contended, timed out and replaced; with
a nested call they are caller and callee; `MaxCode`/`MaxEnv` 1 separates before
and after an update; `lambda_slots` has one container and one slot, the tightest
case for waiting. *Streams:* two records and batches of one give a record before
and one behind every position; two labels let a stream be closed and re-enabled,
three shards a split or a merge, one restart is before and after.
Retention 0 stands for longer than the behaviour. Two puts
let a rule be replaced under a sweep, or removed and made again; a rate of two
units is the least that can fire early. *Background:* two calls compete for two or
three workers; three operations on a cluster are a create, a delete and a create, with
the deferred start of each; two tasks of two containers and
two deployments are a rollout or its rollback with a sidecar, with one trouble (an exit, a start that fails, StopTask, scaling or a reset). The
gateway has two services, so that a sweep and a shutdown have a middle, two runs
with two formats, one write, one reset, and one service that does not import.
*Objects:* three writes are a version displaced, one on top and a marker or a
restored copy; two changes of locks are a retention and its weakening; one
restart is before and after. *Engines:* one execution of two attempts and two workers;
four templates of two resources: one refers to the other, which is changed,
replaced or removed while the other is retained, or the one that refers is removed
while what it refers to is replaced; two operations, the
first of which a delete may overlap; two conditions that share a handle or not,
Count 2 with two ids, one reset; a secret in three regions,
so that a replica can be replaced by a secret of its name or by another's replica. Every bound is a constant named in a guard.
Symmetry is used only in runs without liveness. Deadlock is not checked where
the bounds let a behaviour stop.

**Fairness.** The event loop finishes a coroutine that runs (`Collect`, weak) and
serves every ready one (`Wake`, strong, since another coroutine disables it in
between); the clock does not stop. The receiver of `sqs_crash_loop` and the
poller of `esm_fifo` are `while True` loops; nothing is assumed of a handler's
result. In `lambda_slots` threads run, and a handler whose calls are answered
returns (strong: a nested call disables it in between). Pollers and sweeps are
loops on daemon threads: `DsPass`, `KsPassStart`, `KsScan`, `TiSweepStart` and
`TiVisit` are weakly fair; only the shards in `KsHealthy` are assumed to have
batches that succeed again and again (`KsHandled`, strong). `RrProgress`,
`EcProgress` and `CcProceed` say that some thread that can go on does: each of
their steps brings a request, a task or an operation nearer its end, and no
other step takes that back without a bound. `SfRun`, `CwLook` and the tasks of
`CfnStack` are threads and coroutines that run; their waits time out. Timeouts,
failures, cancellations, crashes, evictions and updates are never forced.

## 5. Findings

A run of its own:

* `cfn_deleted`: a stack in `UPDATE_FAILED` without rollback has replaced
  resources in no record that DeleteStack reads; it becomes `DELETE_COMPLETE`
  and they remain.

Met while modelling, and kept out of the properties by a named history
variable, a constant or an assumption:

* *SQS.* One receive puts several messages of a group in flight (`sqs.py:1338`
  against the comment at 1326; `GroupExclusive` shows that two consumers never
  share a group). A lowered DelaySeconds lets a FIFO message overtake (1342). A
  queue that is its own dead-letter queue never ends its sweep (1398). The
  thread-safe helpers lock against each other only, so a delete or a send on the
  loop during a rebuild can be undone (2026). EventBridge appends bypass the
  deduplication cache (`eventbridge.py:2841`).
* *Mappings.* A batch deletes with whatever handle a message has when the
  handler returns, possibly one a client has got since (`lambda_svc.py:7954`).
  The in-flight count leaks when a thread does not start (7697). A mapping
  deleted during an invocation has its position and back-off put back. A restart
  starts a table stream's numbering over while positions persist
  (`dynamodb.py:121`). Kinesis positions are indices into a list that expiry
  shortens (8042); LATEST is anchored at the first poll, not at creation; a shard
  met later is followed from its end; one shard's success clears the cooldown
  of another's failure. A pipe re-created under its ARN during a delivery has
  its position overwritten, and pipes do not compare the stream's label.
* *Lambda.* A container registered after an update's kill, or by a published
  version, is handed to newer invocations (3551). Invocations of a version
  escape the function's reserved concurrency (3183). A Docker API error counts
  as a stopped container (3559). A local worker invalidated between lease and
  lazy start is forgotten; a failed spawn kills all workers of the function,
  those in use included; a handler that invokes its own function through a
  WebSocket route can wait for itself (`lambda_runtime.py:1732`; `LwSockets` is
  empty in the run).
* *Node pool.* A release after a reset raises `ValueError`.
* *ElastiCache.* DeleteCacheCluster removes by name and can take a newer
  cluster's container; two creates pass the unlocked check; a reset clears
  records it had not collected.
* *ECS.* When the circuit breaker trips without rollback, the reconcile that
  follows drains the tasks of the last completed deployment although the new one
  never became stable (`ecs.py:1283`, against the comments at 1018 and 1281). With
  rollback it does so when the rollback fails too: the deployment that was handed the
  primary's place is in progress, no other on the list has completed, and one more
  failure makes it FAILED. `EcOldTasksStay` excepts exactly a rollout that failed
  with nothing to roll back to (`EcNoWayBack`); the run, with one failure, does
  not reach it, the theorem covers it. After
  the essential container exits, `_maybe_mark_stopped` cleans up without a Docker
  client (`ecs.py:2934`) and removes no container (2076): running sidecars stay,
  against `tests/test_busydone_gaps.py:536` ("An essential exit stops sidecars";
  executing the function shows the same);
  `EcNothingLeft` excepts exactly those (`EcOwned`). A rollout stays IN_PROGRESS after scaling, StopTask or a
  superseding update; a task a user stopped is not replaced before the next
  reconcile; DeleteService or a reset between a reconciler's look and its act
  leaves tasks behind (`ecLate`); two overlapping reconciles can stop one
  task too many.
* *Step Functions.* Activities cannot be used after a restart (a KeyError, and
  the token leaks). A retried callback attempt re-uses its token. An answer
  between the timeout and the removal of the token is lost. StopExecution between
  the success check and the write gives two ends, and events follow
  `ExecutionAborted`. A deleted activity leaves its attempts waiting.
* *CloudFormation.* CancelUpdateStack is forgotten when it comes before the task
  starts or after its last resource. DeleteStack during a create or update
  overlaps it. A restart leaves stacks `*_IN_PROGRESS`. DeleteStack after
  `ROLLBACK_FAILED` orphans what the rollback left. Two ContinueUpdateRollback
  calls in one tick both run. An update deletes what it replaced
  (`stacks.py:1044`) before what the template no longer names (1082), and orders the
  former by the new template alone: a resource about to be removed or superseded
  can for a moment refer to one that is gone, which `CfDependentsFirst` excepts
  (`CfSuperseded`), as long as both go with that update. `custom_resource.reset` clears the pending answers
  without waking their threads.
* *S3.* PutObject with more than ten tags answers 400 after it has put the new
  record in place (`s3.py:5118`, 5129), against its comment "Parse + validate up
  front so the count error returns before persist/event" (5123): the refused
  object is what reads return, and the next write overwrites the data file that
  still held the last accepted version, which stays listed, locked or not, and
  can be read no more; a restart drops it. Executing the handlers shows the same.
  Retentions and legal holds of objects are in no persisted file. Those of the
  null version are kept under `None` and dropped under `"null"`, so a later null
  version inherits them. Versioning may be suspended on a bucket with object lock,
  and a write then replaces a locked null version. CompleteMultipartUpload and
  CopyObject do not apply a bucket's default retention. The SFTP server of
  `transfer.py` (745) replaces records without their history. With S3_PERSIST but
  not PERSIST_STATE a restart forgets that a bucket is versioned.
* *Gateway.* A run that refuses a file of a newer format, or fails to load one,
  overwrites it at its own shutdown (`persistence.py:151`). Requests past the gate
  go on during a reset, and WebSockets do not pass it. A shutdown during a reset
  may leave a file of before the reset.
* *Secrets Manager.* PutSecretValue with a ClientRequestToken in use replaces that
  version, so AWSCURRENT or AWSPREVIOUS can be on no version. AWSPENDING and custom
  labels, put twice, are on two.
* *EventBridge, Scheduler.* Last-fired times are kept by name across delete,
  update and reset: an `at()` schedule made again under a name that fired never
  fires, and a re-created rule inherits its predecessor's last firing
  (`eventbridge.py:4549`); a restart forgets them, so an `at()` without
  ActionAfterCompletion fires again. A one-time schedule updated while its
  targets are invoked is deleted by name without having fired
  (`scheduler.py:693`). An EventBridge reset under a sweep ends that sweep with a
  KeyError. A rule made again under a sweep can be fired from the old copy.

## 6. Proofs

`tlapm` checks every proof; nothing is assumed but the named assumptions on the
constants.

*SqsProofs, first part.* `LeaseExclusive` is not inductive: nothing in it forbids a
delivery while somebody's promise runs. `IInv` adds: an id in a list is
`queued` (`Queued`) and in one list once (`UniqueCopy`); a running promise
belongs to the consumer whose handle the message carries and is no longer than
the message is hidden (`LeaseHeld`); an unsent id has no promise
(`UnsentFree`). A receive then takes only visible messages, to which no
promise runs, and `ChangeVisibility` moves both clocks of the one holder.

*Second part.* `NoneLost` is the converse of `Queued`: what is queued is in a
list; each step either keeps a copy, appends one, or records the fate. With
`UniqueCopy` this gives `Conserved`. `WindowKept` rests on `WindowCovered` (what
is left of a cache entry and the time since the append add up to a window) and
assumes that no other service bypasses the cache: with such appends
`DedupWindowKept` is false. `Implements` is the refinement: `View` says what the
abstract state of a message is in terms of its one copy, `StateFunctions` that
two abstract states are equal when they agree on every id, and each action has
a lemma that maps it to a mailbox step or a stutter.

*Third part.* Only a receive's collecting step delivers
(`OnlyCollectDelivers`): every other one leaves handles, receive counts and
groups as they are (`Endures`). `OneConsumerPerGroup`: a running timeout is on a
message in flight, whose group is then blocked for every receive; it assumes
that nobody extends a message after its own timeout ran out, which the code
would take, and the group may have gone on by then. `InSendOrder`: an earlier message of a
group that can be delivered is visible itself (`Undelayed`, or it would be in
flight and block the group) and a receive takes a prefix of what is visible; with
a delay on the queue or a message it does not hold, because a delayed message
blocks nothing. `Fresh` carries `PassSwept` from the sweep to the collecting step of
the same pass: between them the loop is not given up, and no time passes by the
assumption `~ClockInHandler`.

*Fourth part, `EsmSqs`.* A step of the mapping is, for the queue, a step of the queue, a
receive, a stutter, or the removal of some ids from one list (`QueueStep`,
`StepKinds`); `IInv` survives removals whoever holds a handle (`RemovesInv`), so
visibility timeouts stay exclusive (`EsmExclusive`). `Bounded` shows
`ConcurrencyBound` with `BoundInv`: between the poller's check of the counter and
its increment lies one batch at most, and there is room for it. It assumes that
threads start (`~SpawnFails`), which the code needs too. `AtLeastOnce` shows that
of the steps that touch a batch only `EsmSucceed` deletes a matching message.
`InGroupOrder` shows `HandledInOrder` for a mapping that is the only reader of a
FIFO queue and answers for a batch as a whole (`Slots = Consumers`,
`~PartialFailures`); clients may send, purge, delete and re-create the queue and change
the mapping meanwhile, and threads may fail to start. `HandledInOrder` speaks of the
end of a batch, long after the receive that formed it. `OrderInv` bridges the two:
a batch holds, with a message, everything before it in its group (`HoldsPrefix`);
there is one batch, so that no sweep takes a part of it to the dead-letter queue while it
runs (`Alone`: the limit of 1, and the poller being one thread); and a receive takes
a prefix since what comes first in a group is visible first, delays included, and
received first (`InLine`). Each hypothesis is needed: a second reader's sweep
moves parts of a batch into a queue where other messages precede them, and a partial
failure reports the rest. `UndisturbedInOrder` is the same for the specification
of `esm_fifo`.

*BackgroundProofs.* Each part has its own inductive invariant; `BackgroundSteps`
takes a step of the composition apart. For reentrant requests: `NoEarlyReturn`
along the chain `RrChain` (whoever has ended had its future set, a future is set
by a thread that is done, and a thread is done only when no request it issued is
still awaited). For clusters (`CcInv`): an operation has its own container or
none, what it knows of a container was made before it (`CcKnown`), and a
container is kept by its record or by an operation that has yet to publish or
remove it (`CcKept`); `CcChanges` and `CcEffects` say once what each step does
to an operation. For the gateway (`GwInv`): who is at the gate is in the lock's
queue (`GwQueue`); a request that came during a reset stays at the gate until
that reset's number is done (`GwBehind`); what the sweep has come past holds
nothing older than its mark, and neither does the temporary file of a shutdown
(`GwWiped`); and what was saved is in the file and, until the service is saved
again, in the memory that will replace it (`GwSafe`), which is where
`_ErrorModule` and failed saves matter.

*ProcessProofs, first part, `LambdaPool`.* `BoxExclusive` needs to know that a container in use, or
still occupied by a timed-out handler, is marked `inUse`, and that it is never
one that is yet to be created (`BusyMarked`); `NoOrphans` needs that what leaves
the pool is doomed in the same step. `Counted` shows `SlotsExact`: the counters
are the cardinalities of the sets of executing invocations, which only
`BeginExecution` and `EndExecution` change, each by one element.

*Second part, the pools of workers.* For the local executor (`LwInv`): a lease is exclusive unless a
WebSocket route gave it back, who runs has its worker's lock and nobody else does
(`LwLeases`); an entry of the pool runs code as new as the last update that
emptied the pool, and a call that took one keeps at least what was displaced when
it began (`LwCodes`); a subprocess is the pool's or its remover's (`LwProcs`).
For the Node workers (`NpInv`): a call has its worker to itself and a process
while it evaluates (`NpLeases`), which is why a reset that waits for the
evaluation leaves no process behind (`NpProcs`); and the workers that stay warm
besides the first, which is never folded, are at most `NpMaxIdle` (`NpFewWarm`).
`BackgroundProofs` states what follows for the composition (`EachHasItsOwn`,
`WorkersKnown`, `NodePoolBounded`).

*Third part, `EcsService`.* Deployments (`EcDeploymentsInv`): a service has one primary, since an
update demotes the others, pruning takes only ACTIVE ones, and a rollback hands
the place to one completed deployment (`EcCandidateIs`: a finite set of numbers
has a greatest, `GreatestExists`); a counter at the threshold is on a FAILED
deployment, where it is not counted again. Tasks: every step, whoever takes it,
is for each task one of a few *moves* (`EcMoves`: it is registered, started,
attached, given up, stopped, cleaned up ...), shown once per action, and a flag
or a clearing by a reset; what has to hold of one task (`EcLife`) is then shown
once per move. `EcLife` says that a stopped task's end is in somebody's hands
until its containers and tokens are gone (`EcKept`), and what the watcher saw
(`EcSeen`), which is where the sidecars come from. `EcDeleting` is
`EcDeletedStops` with the call still under way: it holds whoever is active.
`OldTasksServe` (`EcOldTasksStay`): tasks are picked for stopping by a look, a
completion or a deletion (`EcPicks`); a look at a rollout in progress picks, of
other deployments' tasks, the first few, and no more than run beyond what is
desired (`EcFirstBound`); and a FAILED primary has nothing completed beside it
(`EcFailedForGood`), since a breaker that trips hands over or found none.
`BackgroundProofs` joins these with the other parts (`NothingIsForgotten`,
`RecordsAndBounds`).

*ListsProofs, S3ObjectsProofs.* `Picked(s, K)`, the elements of a list at given
positions, stands for the list comprehensions of the code; `PickedIs` says that it
is a list of those elements, in order, each once. What `SoStoresAgree` needs beside itself
(`SoInv`): the history names an id once and none that is yet to be given
(`SoHistory`); the current record is the newest entry, or nothing when that is a
marker (`SoTop`); the data file and the sidecar are those of that record or that
marker (`SoSaved`); and an entry's bytes are in its own file or, for want of
one, those of the current record (`SoFiled`), which never holds of a version that has
been displaced. Writes and markers share one argument (`SoStackedIs`,
`SoDisplacedFiled`). In a version delete, the newest entry that is left is either
the one that was newest, or one whose file exists. After a refused write
(`soRefused`, see 5) only shapes and histories remain.

*StreamsProofs.* `FiresAsScheduled`: a record is known by the number of the request
that made it, and the copy a sweep took is the record of that number as it is now
(`TiSame`; no time passes during a sweep, and DisableRule changes both); what a
record on file has fired is remembered, and its entry is no older than the last
firing (`TiRemembers`). Entries are forgotten only with the record or a restart.
`NoRecordSkipped` and `PositionsFit` are about positions. A position is *given* when
it lies in the stream and every record before it that the stream still has was
handled or given up (`DsGiven`, `KsGiven`). What a step does to a stream carries
a given position along: an append adds behind every position, and trimming moves
the absolute offset by as many records as it drops (`DsGrows`, from `DsTrimIs` and
`DsAppendIs`); in a Kinesis shard, where a position is an index, expiry that drops
a record takes the shard out of the claim (`ksShifted`). Three positions of a
consumer have to be given (`DsPlaced`): the recorded one, the one its poll has
read, and, while the function runs, the one the poll will leave, with
the batch counted as handled: that is what makes the advance harmless although the
stream was trimmed, closed or re-enabled in between. A Kinesis pass needs two (`KsPlaced`). A poll whose
mapping is gone is an orphan and writes nothing (`DsOwned`). Every step leaves a
consumer alone, ends its poll, or is its own (`DsCarried`, `KsCarried`).

*CfnStackProofs.* The invariant of a stack has two parts. `CfAlways` holds
whatever overlaps: the shapes; a physical id belongs to one logical id, in every record that
names it (`CfApart`, over the four places `CfOf` in which an id can be); an
operation makes at most one resource for each id (`CfBudget`, which is what keeps
`cfMade` within its bound). `CfCalm` holds unless a DeleteStack came across an operation
(`cfUndone`), and says for each stage of an operation what is true of the world. While it
deploys (`CfBuilt`), what was there before is still there, only what is listed as
created differs from it, and a new resource refers to earlier ones of the list: that
order, not the template, is what the rollback reverses. When it cleans up (`CfCleaning`),
what the new template names is there and refers to what is there. When it rolls
back (`CfRollingBack`), changes go back first, and of what is to be deleted each
refers only to earlier ones or to what was there before. At rest (`CfRested`) what
is recorded is there and as recorded, or a step of the rollback is pending for it.
While a delete runs (`CfDeletion`), what is left to delete refers to what is left.
Neither `CfNothingForgotten` nor `CfDependentsFirst` is inductive without all of this: the
first needs to know at each hand-over between stages that the old record and the
new one name everything (`CfAccounted`), the second that the list is in the order of the
references. Each action has a lemma (`...Calm`); a resource that failed
after its provider changed it is the case that takes the rollback's list of
tried ones.

*EnginesProofs.* `WaitsExact`, `ReleasedRightly` and `NoLateAnswer`: threads
share no slot (`CwOwners`), and what a handle holds is what was sent to its token
since the last reset (`CwStored`). `AnswersMeetTheirTasks`: a token is *out* once
a client has seen it or a list offers it (`SfOut`); what is out is of an attempt
that has begun (`SfBegun`), and is in the table exactly as long as that attempt
waits (`SfOpen`). The table alone would not do: a restart loses lists and leaves
entries behind that nobody sees. A retried callback registers the token it had,
an activity one of the new attempt's number, which nobody can hold yet. A token is offered in one place (`SfOffered`), and a
worker that took it has removed it.

For secrets (`SvInv`): a primary lists exactly the regions that hold a replica of
it, which is the one with its serial number (`SvReplicaIs`), and never itself; two
primaries have different numbers, none of which is yet to be given; and a
version is current at most once. Every operation stores one record with its
replicas (`SvStoredInv`), removes one with its replicas (`SvForceDeleteInv`), or
replicates over others, whose own replicas then go (`SvReplicateInv`). The
composition's theorems are `DependentsGoFirst`, `NothingIsForgotten`,
`EnginesTyped` and `RotationsCanBeTakenBack`: the last is `SvDemotes` (a part of
`EnginesEnd`), from what each operation does to the labels before and after
(`SvDemoted`), and from `SvInv`, which makes a replica's labels its primary's.

The theorems hold for any number of messages, consumers, batches, invocations,
containers, requests, conditions, signals, templates, resources and regions, and any
settings and bounds.

Every invariant and every action property of the runs that pass is stated by a theorem.
Only model-checked: all liveness. Liveness under fairness, `ENABLED`
and induction over recursive definitions are outside what the installed provers
can do and stay with TLC.

## 7. Not modelled, and simplified

Services that only keep records (some fifty), formatting, authentication, message bodies,
data mapping from templates to services, Docker itself and the handlers' code
are left out; they are most of the repository's lines. Actions with a
nondeterministic outcome (`Crash`, `MayCall`, a failing start, a failing
resource) stand for the last two. One account and, but for `SecretVersions`, one region throughout.

`SqsQueue` has one pair of queues: redrive cycles are excluded by
`DlqAssumption`, and thread switches inside the rebuild of a list (2026) are not
represented. `EsmSqs` has one mapping per queue. `LambdaPool` keeps the last
published version only, treats an image or ZIP pool key alike, and gives
internal invokers the copies that `_invoke` makes although some hand over the
live record. `DdbStream` and `KinesisStream` have one consumer. `Tickers` takes a
cron expression that matches once a unit and leaves StartDate out.
`CfnStack` abstracts a resource's properties to a version and the ids it refers
to. `StepFunctions` has one task state. `EcsService` leaves out image digests,
target groups and tasks outside the service. `Gateway` takes a service's `reset()`
and `get_state()` in one step each and the encoding of files as given.
`S3Objects` leaves out tags, ACLs, replication and failing disks, does not
tell a legal hold of OFF from none, and has one key, so that copies are onto itself.
`SecretVersions` leaves out values, policies and the end of a recovery window.

Why the hazards without a property have none is said at each in `PROJECT.json`.
