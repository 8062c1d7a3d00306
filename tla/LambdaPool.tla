----------------------------- MODULE LambdaPool -----------------------------
(***************************************************************************)
(* Lambda executions with the docker executor (lambda_svc.py): the         *)
(* execution slots that bound concurrency, the warm pool of containers,    *)
(* and what goes on next to them in other threads: updates, deletes and    *)
(* resets that empty the pool, the reaper, handlers that invoke functions  *)
(* themselves, asynchronous retries.                                       *)
(*                                                                         *)
(* Every invocation runs on a thread of its own (run_reentrant,            *)
(* spawn_background).  _inflight_lock and _warm_pool_lock are held for one *)
(* action each and never together; what Docker does happens between them.  *)
(*                                                                         *)
(* A function's configuration is reduced to two generations: code, which   *)
(* is part of the pool key (CodeSha256), and env, which stands for         *)
(* everything a container is built from and the key does not name (layers, *)
(* environment, memory, handler).  The definitions commented "Faulty" are  *)
(* no part of the specification.                                           *)
(***************************************************************************)
EXTENDS Naturals, FiniteSets

CONSTANTS
  Functions,
  Invocations,   \* threads that run one invocation after the other
  Boxes,         \* containers, each created once
  NoLimit, NoVersion, NoBox,
  Limits,        \* values of PutFunctionConcurrency
  AccountCap,    \* _ACCOUNT_CONCURRENCY_CAP, 0 = unbounded
  Retries,       \* MaximumRetryAttempts of asynchronous invocations
  MaxCode,       \* changes of a function's code (bound)
  MaxEnv,        \* changes of its configuration (bound)
  KillOnRelease  \* _KEEPALIVE_KILL_ON_RELEASE

ASSUME PoolAssumption ==
  /\ Limits \subseteq Nat /\ NoLimit \notin Nat
  /\ AccountCap \in Nat /\ Retries \in Nat
  /\ MaxCode \in Nat /\ MaxEnv \in Nat
  /\ KillOnRelease \in BOOLEAN
  /\ NoBox \notin Boxes
  /\ Functions # {} /\ IsFiniteSet(Invocations) /\ IsFiniteSet(Functions)

VARIABLES
  live,       \* the names in _functions
  config,     \* per function, the configuration of $LATEST
  version,    \* per function, the configuration of a published version
  reserved,   \* per function, ReservedConcurrentExecutions
  killing,    \* functions changed or deleted whose pool is not emptied yet
  inv,        \* per thread, the invocation it runs
  inflight,   \* _inflight
  total,      \* _inflight_total
  box,        \* per container, what it was built from and where it is
  doomed,     \* containers out of the pool that some thread is about to kill
  reaping     \* containers a timeout reaper thread is about to remove

vars == <<live, config, version, reserved, killing, inv, inflight, total,
          box, doomed, reaping>>

-----------------------------------------------------------------------------
Config == [code : 0..MaxCode, env : 0..MaxEnv]
Limit == Limits \cup {NoLimit}

(* What a call of _execute_function works on: copies made by _invoke of the *)
(* configuration and of the record's "concurrency".  caller is the container *)
(* of the handler that waits for the answer.                                *)
Invocation == [pc : {"idle", "begin", "acquire", "spawn", "run", "end"},
               fn : Functions, conf : Config, cap : Limit,
               left : 0..Retries, failed : BOOLEAN,
               caller : Boxes \cup {NoBox}, box : Boxes \cup {NoBox}]

(* A container: not created, running, stopped by itself or removed.         *)
Box == [status : {"new", "running", "stopped", "gone"}, fn : Functions,
        conf : Config, pooled : BOOLEAN, inUse : BOOLEAN]

SomeFunction == CHOOSE f \in Functions : TRUE
FirstConfig == [code |-> 0, env |-> 0]
Idle == [pc |-> "idle", fn |-> SomeFunction, conf |-> FirstConfig,
         cap |-> NoLimit, left |-> 0, failed |-> FALSE, caller |-> NoBox, box |-> NoBox]
NewBox == [status |-> "new", fn |-> SomeFunction, conf |-> FirstConfig,
           pooled |-> FALSE, inUse |-> FALSE]

Executing(f) == {i \in Invocations : inv[i].pc \notin {"idle", "begin"} /\ inv[i].fn = f}
Calls(c) == {j \in Invocations : inv[j].pc # "idle" /\ inv[j].caller = c}
Handled(c) == {j \in Invocations : inv[j].pc = "run" /\ inv[j].box = c}

(* The pool entries of a key: the key names the function and its code, but  *)
(* not the version.                                                         *)
Pool(f, code) == {c \in Boxes : box[c].pooled /\ box[c].fn = f /\ box[c].conf.code = code}
PoolOf(f) == {c \in Boxes : box[c].pooled /\ box[c].fn = f}
InUse == {c \in Boxes : box[c].pooled /\ box[c].inUse}
Unpooled(S) == [c \in Boxes |-> IF c \in S THEN [box[c] EXCEPT !.pooled = FALSE] ELSE box[c]]

Init ==
  /\ live = Functions
  /\ config = [f \in Functions |-> FirstConfig]
  /\ version = [f \in Functions |-> NoVersion]
  /\ reserved = [f \in Functions |-> NoLimit]
  /\ killing = {}
  /\ inv = [i \in Invocations |-> Idle]
  /\ inflight = [f \in Functions |-> 0]
  /\ total = 0
  /\ box = [c \in Boxes |-> NewBox]
  /\ doomed = {} /\ reaping = {}

-----------------------------------------------------------------------------
(* _invoke, by a client or by the handler that runs in container p (also    *)
(* one that timed out): which record, which copies.  A version's record has *)
(* no "concurrency" of its own.  Asynchronously, nobody waits: up to        *)
(* MaximumRetryAttempts retries.                                            *)

MayCall(p) == box[p].status = "running" /\ (Handled(p) # {} \/ p \in reaping)

Start(i, f, p, r, conf, cap) ==
  /\ inv[i].pc = "idle" /\ f \in live
  /\ p # NoBox => MayCall(p) /\ r = 0
  /\ inv' = [inv EXCEPT ![i] = [Idle EXCEPT !.pc = "begin", !.fn = f, !.conf = conf,
                                  !.cap = cap, !.left = r, !.caller = p]]
  /\ UNCHANGED <<live, config, version, reserved, killing, inflight, total,
                 box, doomed, reaping>>

InvokeLatest(i, f, p, r) == Start(i, f, p, r, config[f], reserved[f])
InvokeVersion(i, f, p, r) ==
  version[f] # NoVersion /\ Start(i, f, p, r, version[f], NoLimit)

(* The next attempt of an asynchronous invocation, on the same record.      *)
Retry(v) ==
  [v EXCEPT !.pc = "begin", !.left = v.left - 1, !.failed = FALSE, !.box = NoBox]

(* Faulty: the account's cap is not checked.                                *)
AccountFullNever == FALSE

(* _acquire_execution_slot.                                                 *)
FunctionFull(i) == inv[i].cap # NoLimit /\ inflight[inv[i].fn] >= inv[i].cap
AccountFull == AccountCap > 0 /\ total >= AccountCap

(* Faulty: waits for a slot.                                                *)
ThrottleBlocks(i) == FALSE /\ UNCHANGED vars

Throttle(i) ==
  /\ inv[i].pc = "begin" /\ (FunctionFull(i) \/ AccountFull)
  /\ inv' = [inv EXCEPT ![i] = IF inv[i].left > 0 THEN Retry(inv[i]) ELSE Idle]
  /\ UNCHANGED <<live, config, version, reserved, killing, inflight, total,
                 box, doomed, reaping>>

BeginExecution(i) ==
  /\ inv[i].pc = "begin" /\ ~FunctionFull(i) /\ ~AccountFull
  /\ inflight' = [inflight EXCEPT ![inv[i].fn] = @ + 1]
  /\ total' = total + 1
  /\ inv' = [inv EXCEPT ![i].pc = "acquire"]
  /\ UNCHANGED <<live, config, version, reserved, killing, box, doomed, reaping>>

-----------------------------------------------------------------------------
(* _pool_acquire, under the pool lock: entries whose container is not       *)
(* running leave the pool first.                                            *)

Entries(i) == Pool(inv[i].fn, inv[i].conf.code)
Alive(i) == {c \in Entries(i) : box[c].status = "running"}
Free(i) == {c \in Alive(i) : ~box[c].inUse}
Prune(i) == Unpooled(Entries(i) \ Alive(i))
PoolFull(i) == inv[i].cap # NoLimit /\ Cardinality(Alive(i)) >= inv[i].cap
PoolAccountFull(i) ==
  AccountCap > 0 /\ Cardinality(InUse \ (Entries(i) \ Alive(i))) >= AccountCap

Reuse(i, c) ==
  /\ inv[i].pc = "acquire" /\ c \in Free(i)
  /\ box' = [Prune(i) EXCEPT ![c].inUse = TRUE]
  /\ inv' = [inv EXCEPT ![i].pc = "run", ![i].box = c]
  /\ UNCHANGED <<live, config, version, reserved, killing, inflight, total, doomed, reaping>>

MustSpawn(i) ==
  /\ inv[i].pc = "acquire" /\ Free(i) = {}
  /\ ~PoolFull(i) /\ ~PoolAccountFull(i)
  /\ box' = Prune(i)
  /\ inv' = [inv EXCEPT ![i].pc = "spawn"]
  /\ UNCHANGED <<live, config, version, reserved, killing, inflight, total, doomed, reaping>>

(* At the account's cap the thread polls for five seconds.                  *)
PoolPoll(i) ==
  /\ inv[i].pc = "acquire" /\ Free(i) = {} /\ PoolAccountFull(i) /\ ~PoolFull(i)
  /\ box' = Prune(i)
  /\ UNCHANGED <<live, config, version, reserved, killing, inv, inflight, total,
                 doomed, reaping>>

(* At the function's cap it gives up at once, at the account's after that.  *)
PoolThrottle(i) ==
  /\ inv[i].pc = "acquire" /\ Free(i) = {}
  /\ PoolFull(i) \/ PoolAccountFull(i)
  /\ box' = Prune(i)
  /\ inv' = [inv EXCEPT ![i].pc = "end", ![i].failed = TRUE]
  /\ UNCHANGED <<live, config, version, reserved, killing, inflight, total, doomed, reaping>>

(* The container is created from the invocation's copy of the configuration *)
(* and registered; or Docker fails, or there is no image (a mock answer).    *)
Register(i, c) ==
  /\ inv[i].pc = "spawn" /\ box[c].status = "new"
  /\ box' = [box EXCEPT ![c] = [status |-> "running", fn |-> inv[i].fn, conf |-> inv[i].conf,
                                pooled |-> TRUE, inUse |-> TRUE]]
  /\ inv' = [inv EXCEPT ![i].pc = "run", ![i].box = c]
  /\ UNCHANGED <<live, config, version, reserved, killing, inflight, total, doomed, reaping>>

(* Faulty: returns past the release of the slot.                            *)
SpawnFailsEarly(i) ==
  /\ inv[i].pc = "spawn"
  /\ inv' = [inv EXCEPT ![i] = Idle]
  /\ UNCHANGED <<live, config, version, reserved, killing, inflight, total,
                 box, doomed, reaping>>

SpawnFails(i) ==
  /\ inv[i].pc = "spawn"
  /\ \E err \in BOOLEAN : inv' = [inv EXCEPT ![i].pc = "end", ![i].failed = err]
  /\ UNCHANGED <<live, config, version, reserved, killing, inflight, total,
                 box, doomed, reaping>>

-----------------------------------------------------------------------------
(* The handler is done, with a result or an error, and so are the calls it  *)
(* made: the container goes back to the pool, or away with KEEPALIVE_MS=0.  *)
(* An entry that is no longer in the pool is marked all the same.           *)
Returns(i, err) ==
  LET c == inv[i].box IN
  /\ inv[i].pc = "run" /\ Calls(c) = {} /\ box[c].status = "running"
  /\ box' = [box EXCEPT ![c].inUse = KillOnRelease,
                        ![c].pooled = @ /\ ~KillOnRelease]
  /\ doomed' = IF KillOnRelease THEN doomed \cup {c} ELSE doomed
  /\ inv' = [inv EXCEPT ![i].pc = "end", ![i].failed = err,
                        ![i].box = IF KillOnRelease THEN c ELSE NoBox]
  /\ UNCHANGED <<live, config, version, reserved, killing, inflight, total, reaping>>

(* Faulty: the container of a handler that timed out goes back to the pool. *)
TimesOutReleased(i) ==
  /\ inv[i].pc = "run"
  /\ box' = [box EXCEPT ![inv[i].box].inUse = FALSE]
  /\ reaping' = reaping \cup {inv[i].box}
  /\ inv' = [inv EXCEPT ![i].pc = "end", ![i].failed = TRUE, ![i].box = NoBox]
  /\ UNCHANGED <<live, config, version, reserved, killing, inflight, total, doomed>>

(* Task timed out: the handler still runs in there; a thread of its own     *)
(* removes the container.                                                   *)
TimesOut(i) ==
  /\ inv[i].pc = "run"
  /\ reaping' = reaping \cup {inv[i].box}
  /\ inv' = [inv EXCEPT ![i].pc = "end", ![i].failed = TRUE, ![i].box = NoBox]
  /\ UNCHANGED <<live, config, version, reserved, killing, inflight, total, box, doomed>>

(* The container died or the call to it failed: _pool_remove.               *)
Breaks(i) ==
  /\ inv[i].pc = "run"
  /\ box' = Unpooled({inv[i].box})
  /\ doomed' = doomed \cup {inv[i].box}
  /\ inv' = [inv EXCEPT ![i].pc = "end", ![i].failed = TRUE]
  /\ UNCHANGED <<live, config, version, reserved, killing, inflight, total, reaping>>

(* The finally of _execute_function, after the thread's own kill of its     *)
(* container; an asynchronous invocation that failed runs again.  The       *)
(* counters are clamped at 0.                                               *)
OneLess(n) == IF n > 0 THEN n - 1 ELSE 0
MayEnd(i) == inv[i].pc = "end" /\ inv[i].box \notin doomed

ReleaseSlot(i) ==
  /\ inflight' = [inflight EXCEPT ![inv[i].fn] = OneLess(@)]
  /\ total' = OneLess(total)
  /\ UNCHANGED <<live, config, version, reserved, killing, box, doomed, reaping>>

(* Faulty: one attempt too many.                                            *)
EndAndRetry(i) ==
  /\ MayEnd(i) /\ ReleaseSlot(i)
  /\ inv' = [inv EXCEPT ![i] =
       IF inv[i].failed THEN Retry(inv[i]) ELSE Idle]

EndExecution(i) ==
  /\ MayEnd(i) /\ ReleaseSlot(i)
  /\ inv' = [inv EXCEPT ![i] =
       IF inv[i].failed /\ inv[i].left > 0 THEN Retry(inv[i]) ELSE Idle]

-----------------------------------------------------------------------------
(* Containers.                                                              *)

(* A container stops by itself (its process exits, the user kills it).      *)
Crash(c) ==
  /\ box[c].status = "running"
  /\ box' = [box EXCEPT ![c].status = "stopped"]
  /\ UNCHANGED <<live, config, version, reserved, killing, inv, inflight, total, doomed, reaping>>

(* _kill_pool_entry, outside the lock.                                      *)
Kill(c) ==
  /\ c \in doomed
  /\ box' = [box EXCEPT ![c] = [NewBox EXCEPT !.status = "gone"]]
  /\ doomed' = doomed \ {c}
  /\ UNCHANGED <<live, config, version, reserved, killing, inv, inflight, total, reaping>>

(* Faulty: takes the entry out of the pool and leaves the container.        *)
ReapForgets(c) ==
  /\ c \in reaping
  /\ box' = Unpooled({c})
  /\ reaping' = reaping \ {c}
  /\ UNCHANGED <<live, config, version, reserved, killing, inv, inflight, total, doomed>>

(* The timeout reaper's _pool_remove.                                       *)
Reap(c) ==
  /\ c \in reaping
  /\ box' = Unpooled({c})
  /\ reaping' = reaping \ {c}
  /\ doomed' = doomed \cup {c}
  /\ UNCHANGED <<live, config, version, reserved, killing, inv, inflight, total>>

(* Faulty: only takes the entries out.                                      *)
EvictForgets(S) ==
  /\ S # {} /\ S \subseteq {c \in Boxes : box[c].pooled /\ ~box[c].inUse}
  /\ box' = Unpooled(S)
  /\ UNCHANGED <<live, config, version, reserved, killing, inv, inflight, total, doomed, reaping>>

(* _pool_evict_idle: those idle for longer than the TTL.                    *)
Evict(S) ==
  /\ S # {} /\ S \subseteq {c \in Boxes : box[c].pooled /\ ~box[c].inUse}
  /\ box' = Unpooled(S)
  /\ doomed' = doomed \cup S
  /\ UNCHANGED <<live, config, version, reserved, killing, inv, inflight, total, reaping>>

-----------------------------------------------------------------------------
(* The control plane: the record changes first, the pool is emptied next.   *)

(* UpdateFunctionCode or UpdateFunctionConfiguration.                       *)
Updated(f) == {[config[f] EXCEPT !.code = @ + 1], [config[f] EXCEPT !.env = @ + 1]}

UpdateFunction(f, new) ==
  /\ f \in live \ killing /\ new \in Updated(f)
  /\ config' = [config EXCEPT ![f] = new]
  /\ killing' = killing \cup {f}
  /\ UNCHANGED <<live, version, reserved, inv, inflight, total, box, doomed, reaping>>

DeleteFunction(f) ==
  /\ f \in live \ killing
  /\ live' = live \ {f}
  /\ killing' = killing \cup {f}
  /\ UNCHANGED <<config, version, reserved, inv, inflight, total, box, doomed, reaping>>

(* _pool_kill_function: whatever the code, whatever the version, also in use. *)
KillFunction(f) ==
  /\ f \in killing
  /\ killing' = killing \ {f}
  /\ box' = Unpooled(PoolOf(f))
  /\ doomed' = doomed \cup PoolOf(f)
  /\ UNCHANGED <<live, config, version, reserved, inv, inflight, total, reaping>>

(* The same name again, created as it was or otherwise.                     *)
CreateFunction(f, new) ==
  /\ f \notin live \cup killing
  /\ new.code \in {config[f].code, config[f].code + 1}
  /\ new.env \in {config[f].env, config[f].env + 1}
  /\ live' = live \cup {f}
  /\ config' = [config EXCEPT ![f] = new]
  /\ version' = [version EXCEPT ![f] = NoVersion]
  /\ reserved' = [reserved EXCEPT ![f] = NoLimit]
  /\ UNCHANGED <<killing, inv, inflight, total, box, doomed, reaping>>

PublishVersion(f) ==
  /\ f \in live \ killing /\ version[f] # config[f]
  /\ version' = [version EXCEPT ![f] = config[f]]
  /\ UNCHANGED <<live, config, reserved, killing, inv, inflight, total, box, doomed, reaping>>

PutConcurrency(f, n) ==
  /\ f \in live /\ n # reserved[f]
  /\ reserved' = [reserved EXCEPT ![f] = n]
  /\ UNCHANGED <<live, config, version, killing, inv, inflight, total, box, doomed, reaping>>

(* reset: the records and the pool, not the executions.                     *)
Reset ==
  LET all == {c \in Boxes : box[c].pooled} IN
  /\ live # {}
  /\ live' = {}
  /\ box' = Unpooled(all)
  /\ doomed' = doomed \cup all
  /\ UNCHANGED <<config, version, reserved, killing, inv, inflight, total, reaping>>

-----------------------------------------------------------------------------
Invoke(i) ==
  \E f \in Functions, p \in Boxes \cup {NoBox}, r \in 0..Retries :
    InvokeLatest(i, f, p, r) \/ InvokeVersion(i, f, p, r)

Acquire(i) == MustSpawn(i) \/ PoolThrottle(i) \/ \E c \in Boxes : Reuse(i, c)
Return(i) == \E err \in BOOLEAN : Returns(i, err)
Spawn(i) == SpawnFails(i) \/ \E c \in Boxes : Register(i, c)
Finish(i) == TimesOut(i) \/ Breaks(i) \/ Return(i)
Admit(i) == Throttle(i) \/ BeginExecution(i)

ControlPlane(f) ==
  \/ PublishVersion(f)
  \/ DeleteFunction(f) \/ KillFunction(f)
  \/ \E new \in Config : UpdateFunction(f, new) \/ CreateFunction(f, new)
  \/ \E n \in Limit : PutConcurrency(f, n)

Next ==
  \/ \E i \in Invocations :
       Invoke(i) \/ Admit(i) \/ PoolPoll(i) \/ Acquire(i) \/ Spawn(i) \/ Finish(i) \/ EndExecution(i)
  \/ \E c \in Boxes : Crash(c) \/ Kill(c) \/ Reap(c)
  \/ \E S \in SUBSET Boxes : Evict(S)
  \/ \E f \in Functions : ControlPlane(f)
  \/ Reset

Spec == Init /\ [][Next]_vars

(* The threads run.  A handler whose calls are answered time and again      *)
(* comes back in the end; with a container that died, the call fails.       *)
(* Nothing forces a timeout, and nothing but that fails a running handler.  *)
BreaksIfStopped(i) == inv[i].pc = "run" /\ box[inv[i].box].status # "running" /\ Breaks(i)

Fairness ==
  /\ \A i \in Invocations :
       /\ WF_vars(Admit(i)) /\ WF_vars(Acquire(i)) /\ WF_vars(Spawn(i))
       /\ SF_vars(Return(i)) /\ WF_vars(BreaksIfStopped(i)) /\ WF_vars(EndExecution(i))
  /\ \A c \in Boxes : WF_vars(Kill(c)) /\ WF_vars(Reap(c))

FairSpec == Spec /\ Fairness

-----------------------------------------------------------------------------
(* Properties.                                                              *)

TypeOK ==
  /\ live \subseteq Functions /\ killing \subseteq Functions
  /\ config \in [Functions -> Config]
  /\ version \in [Functions -> Config \cup {NoVersion}]
  /\ reserved \in [Functions -> Limit]
  /\ inv \in [Invocations -> Invocation]
  /\ \A i \in Invocations : inv[i].pc = "run" => inv[i].box \in Boxes
  /\ inflight \in [Functions -> Nat] /\ total \in Nat
  /\ box \in [Boxes -> Box]
  /\ doomed \subseteq Boxes /\ reaping \subseteq Boxes

(* A container serves one invocation at a time, and none while a handler    *)
(* that timed out still runs in it ("would queue the next invocation behind *)
(* a zombie handler", _execute_function_docker).                            *)
BoxExclusive ==
  \A i, j \in Invocations :
    inv[i].pc = "run" =>
      /\ inv[i].box \notin reaping
      /\ inv[j].pc = "run" /\ inv[i].box = inv[j].box => i = j

(* No container runs unknown to everyone: it is in the pool, where the next *)
(* invocation or the reaper finds it, or a thread is about to kill it.      *)
NoOrphans ==
  \A c \in Boxes : box[c].status = "running" => box[c].pooled \/ c \in doomed

(* The counters are what is executing, on every path out of an execution.   *)
SlotsExact ==
  /\ \A f \in Functions : inflight[f] = Cardinality(Executing(f))
  /\ total = Cardinality(UNION {Executing(f) : f \in Functions})

(* The account's cap holds however the invocations nest, retry or fail.     *)
AccountBound == AccountCap > 0 => total <= AccountCap

(* No slot is waited for: with handlers that call functions themselves,     *)
(* every invocation comes back at any caps, without a timeout's help.       *)
InvocationReturns ==
  \A i \in Invocations : inv[i].pc # "idle" ~> inv[i].pc = "idle"

(* A container taken out is removed, also one still in use when it was.     *)
DoomedGo == \A c \in Boxes : c \in doomed \cup reaping ~> box[c].status = "gone"

=============================================================================
