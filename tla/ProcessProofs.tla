---------------------------- MODULE ProcessProofs ----------------------------
(***************************************************************************)
(* The invariants behind the processes and containers the program runs:    *)
(* Lambda's containers, for any number of invocations and containers; the   *)
(* two pools of workers, the local executor's and the Node workers', for    *)
(* any number of calls and workers; and an ECS service for any number of    *)
(* tasks, containers, deployments and failures.  BackgroundProofs brings    *)
(* the last three together with the rest of what runs off the event loop.   *)
(***************************************************************************)
EXTENDS LambdaPool, LambdaWorkers, NodePool, EcsService, FiniteSetTheorems, TLAPS

(* What keeps a container from being handed out twice: as long as a handler *)
(* runs in it, also one that timed out, its entry in the pool is in_use,    *)
(* and it is never one still to be created.                                 *)
Marked(c) == box[c].status # "new" /\ (box[c].pooled => box[c].inUse)

BusyMarked ==
  /\ \A i \in Invocations : inv[i].pc = "run" => Marked(inv[i].box)
  /\ \A c \in reaping : Marked(c)

IInv == TypeOK /\ BoxExclusive /\ BusyMarked /\ NoOrphans /\ AccountBound

-----------------------------------------------------------------------------
(* Taking entries out of the pool changes nothing else about a container.   *)
LEMMA UnpooledFacts ==
  ASSUME NEW S, box \in [Boxes -> Box]
  PROVE  /\ Unpooled(S) \in [Boxes -> Box]
         /\ \A c \in Boxes :
              /\ Unpooled(S)[c].status = box[c].status
              /\ Unpooled(S)[c].inUse = box[c].inUse
              /\ Unpooled(S)[c].pooled => box[c].pooled
              /\ c \notin S => Unpooled(S)[c].pooled = box[c].pooled
BY DEF Unpooled, Box, Config

LEMMA Constant ==
  /\ FirstConfig \in Config
  /\ Idle \in Invocation /\ Idle.pc = "idle"
  /\ NewBox \in Box /\ [NewBox EXCEPT !.status = "gone"] \in Box
  /\ NewBox.status = "new" /\ ~NewBox.pooled
<1>1. SomeFunction \in Functions
  BY PoolAssumption DEF SomeFunction
<1>2. FirstConfig \in Config
  BY PoolAssumption DEF FirstConfig, Config
<1>3. 0 \in 0..Retries
  BY PoolAssumption
<1>4. Idle \in Invocation /\ Idle.pc = "idle"
  BY <1>1, <1>2, <1>3 DEF Idle, Invocation, Limit
<1>5. NewBox \in Box /\ NewBox.status = "new" /\ ~NewBox.pooled
  BY <1>1, <1>2 DEF NewBox, Box
<1>6. [NewBox EXCEPT !.status = "gone"] \in Box
  BY <1>5 DEF Box
<1> QED
  BY <1>2, <1>4, <1>5, <1>6

LEMMA RetryType ==
  ASSUME NEW v \in Invocation, v.left > 0
  PROVE  Retry(v) \in Invocation /\ Retry(v).pc = "begin"
<1>1. v.left - 1 \in 0..Retries
  BY PoolAssumption DEF Invocation
<1> QED
  BY <1>1 DEF Retry, Invocation

(* One invocation changes to v.                                             *)
LEMMA OneInvocation ==
  ASSUME TypeOK, NEW i \in Invocations, NEW v \in Invocation,
         inv' = [inv EXCEPT ![i] = v], v.pc = "run" => v.box \in Boxes
  PROVE  /\ inv' \in [Invocations -> Invocation]
         /\ \A j \in Invocations : inv'[j].pc = "run" => inv'[j].box \in Boxes
BY DEF TypeOK

(* The first state.                                                         *)
LEMMA Initial == Init => IInv
<1> SUFFICES ASSUME Init PROVE IInv
  OBVIOUS
<1>1. TypeOK
  BY Constant, PoolAssumption DEF Init, TypeOK, Limit
<1>2. \A i \in Invocations : inv[i].pc = "idle"
  BY Constant DEF Init
<1>3. \A c \in Boxes : box[c].status = "new"
  BY Constant DEF Init
<1> QED
  BY <1>1, <1>2, <1>3, PoolAssumption
  DEF Init, IInv, BoxExclusive, BusyMarked, NoOrphans, AccountBound

-----------------------------------------------------------------------------
(* Type correctness, action by action.                                      *)

LEMMA TypeInvoke ==
  ASSUME TypeOK, NEW i \in Invocations, Invoke(i)
  PROVE  TypeOK'
<1> PICK f \in Functions, p \in Boxes \cup {NoBox}, r \in 0..Retries :
       InvokeLatest(i, f, p, r) \/ InvokeVersion(i, f, p, r)
  BY DEF Invoke
<1>1. PICK conf \in Config, cap \in Limit : Start(i, f, p, r, conf, cap)
  BY DEF InvokeLatest, InvokeVersion, TypeOK, Limit
<1>2. inv' \in [Invocations -> Invocation] /\ inv'[i].pc # "run"
  BY <1>1, Constant DEF Start, TypeOK, Invocation
<1> QED
  BY <1>1, <1>2 DEF Start, TypeOK

LEMMA TypeExecution ==
  ASSUME TypeOK, NEW i \in Invocations,
         Admit(i) \/ EndExecution(i) \/ Spawn(i)
  PROVE  TypeOK'
<1>1. CASE Throttle(i)
  <2> DEFINE v == IF inv[i].left > 0 THEN Retry(inv[i]) ELSE Idle
  <2>0. v \in Invocation /\ (v.pc = "run" => v.box \in Boxes)
    BY Constant, RetryType DEF TypeOK
  <2>1. /\ inv' \in [Invocations -> Invocation]
        /\ \A j \in Invocations : inv'[j].pc = "run" => inv'[j].box \in Boxes
    <3>1. inv' = [inv EXCEPT ![i] = v]
      BY <1>1 DEF Throttle
    <3> HIDE DEF v
    <3> QED
      BY <2>0, <3>1, OneInvocation
  <2> QED
    BY <1>1, <2>1 DEF Throttle, TypeOK
<1>2. CASE BeginExecution(i)
  <2>1. inv' \in [Invocations -> Invocation] /\ inv'[i].pc # "run"
    BY <1>2 DEF BeginExecution, TypeOK, Invocation
  <2>2. inv[i].fn \in Functions
    BY DEF TypeOK, Invocation
  <2> QED
    BY <1>2, <2>1, <2>2 DEF BeginExecution, TypeOK
<1>3. CASE EndExecution(i)
  <2> DEFINE v == IF inv[i].failed /\ inv[i].left > 0 THEN Retry(inv[i]) ELSE Idle
  <2>0. v \in Invocation /\ (v.pc = "run" => v.box \in Boxes)
    BY Constant, RetryType DEF TypeOK
  <2>1. /\ inv' \in [Invocations -> Invocation]
        /\ \A j \in Invocations : inv'[j].pc = "run" => inv'[j].box \in Boxes
    <3>1. inv' = [inv EXCEPT ![i] = v]
      BY <1>3 DEF EndExecution
    <3> HIDE DEF v
    <3> QED
      BY <2>0, <3>1, OneInvocation
  <2>2. inv[i].fn \in Functions
    BY DEF TypeOK, Invocation
  <2> QED
    BY <1>3, <2>1, <2>2 DEF EndExecution, ReleaseSlot, OneLess, TypeOK
<1>4. CASE SpawnFails(i)
  <2> PICK err \in BOOLEAN : inv' = [inv EXCEPT ![i].pc = "end", ![i].failed = err]
    BY <1>4 DEF SpawnFails
  <2> DEFINE v == [inv[i] EXCEPT !.pc = "end", !.failed = err]
  <2>0. v \in Invocation /\ (v.pc = "run" => v.box \in Boxes)
    <3>1. inv[i] \in Invocation
      BY DEF TypeOK
    <3> QED
      BY <3>1 DEF Invocation
  <2>1. /\ inv' \in [Invocations -> Invocation]
        /\ \A j \in Invocations : inv'[j].pc = "run" => inv'[j].box \in Boxes
    <3>1. inv' = [inv EXCEPT ![i] = v]
      BY DEF TypeOK, Invocation
    <3> HIDE DEF v
    <3> QED
      BY <2>0, <3>1, OneInvocation
  <2> QED
    BY <1>4, <2>1 DEF SpawnFails, TypeOK
<1>5. ASSUME NEW c \in Boxes, Register(i, c)
      PROVE  TypeOK'
  <2> DEFINE v == [inv[i] EXCEPT !.pc = "run", !.box = c]
  <2>0. v \in Invocation /\ (v.pc = "run" => v.box \in Boxes)
    <3>1. inv[i] \in Invocation
      BY DEF TypeOK
    <3> QED
      BY <3>1 DEF Invocation
  <2>1. /\ inv' \in [Invocations -> Invocation]
        /\ \A j \in Invocations : inv'[j].pc = "run" => inv'[j].box \in Boxes
    <3>1. inv' = [inv EXCEPT ![i] = v]
      BY <1>5 DEF Register, TypeOK, Invocation
    <3> HIDE DEF v
    <3> QED
      BY <2>0, <3>1, OneInvocation
  <2>2. box' \in [Boxes -> Box]
    BY <1>5 DEF Register, TypeOK, Invocation, Box
  <2> QED
    BY <1>5, <2>1, <2>2 DEF Register, TypeOK
<1> QED
  BY <1>1, <1>2, <1>3, <1>4, <1>5 DEF Admit, Spawn

LEMMA TypeAcquire ==
  ASSUME TypeOK, NEW i \in Invocations, PoolPoll(i) \/ Acquire(i)
  PROVE  TypeOK'
<1>0. Prune(i) \in [Boxes -> Box]
  BY UnpooledFacts DEF TypeOK, Prune
<1>1. CASE PoolPoll(i)
  BY <1>0, <1>1 DEF PoolPoll, TypeOK
<1>2. CASE MustSpawn(i)
  <2>1. inv' \in [Invocations -> Invocation] /\ inv'[i].pc # "run"
    BY <1>2 DEF MustSpawn, TypeOK, Invocation
  <2> QED
    BY <1>0, <1>2, <2>1 DEF MustSpawn, TypeOK
<1>3. CASE PoolThrottle(i)
  <2> DEFINE v == [inv[i] EXCEPT !.pc = "end", !.failed = TRUE]
  <2>0. v \in Invocation /\ (v.pc = "run" => v.box \in Boxes)
    <3>1. inv[i] \in Invocation
      BY DEF TypeOK
    <3> QED
      BY <1>3, <3>1 DEF Invocation
  <2>1. /\ inv' \in [Invocations -> Invocation]
        /\ \A j \in Invocations : inv'[j].pc = "run" => inv'[j].box \in Boxes
    <3>1. inv' = [inv EXCEPT ![i] = v]
      BY <1>3 DEF PoolThrottle, TypeOK, Invocation
    <3> HIDE DEF v
    <3> QED
      BY <2>0, <3>1, OneInvocation
  <2> QED
    BY <1>0, <1>3, <2>1 DEF PoolThrottle, TypeOK
<1>4. ASSUME NEW c \in Boxes, Reuse(i, c)
      PROVE  TypeOK'
  <2> DEFINE v == [inv[i] EXCEPT !.pc = "run", !.box = c]
  <2>0. v \in Invocation /\ (v.pc = "run" => v.box \in Boxes)
    <3>1. inv[i] \in Invocation
      BY DEF TypeOK
    <3> QED
      BY <1>4, <3>1 DEF Invocation
  <2>1. /\ inv' \in [Invocations -> Invocation]
        /\ \A j \in Invocations : inv'[j].pc = "run" => inv'[j].box \in Boxes
    <3>1. inv' = [inv EXCEPT ![i] = v]
      BY <1>4 DEF Reuse, TypeOK, Invocation
    <3> HIDE DEF v
    <3> QED
      BY <2>0, <3>1, OneInvocation
  <2>2. box' \in [Boxes -> Box]
    BY <1>0, <1>4 DEF Reuse, Box
  <2> QED
    BY <1>4, <2>1, <2>2 DEF Reuse, TypeOK
<1> QED
  BY <1>1, <1>2, <1>3, <1>4 DEF Acquire

LEMMA TypeFinish ==
  ASSUME TypeOK, NEW i \in Invocations, Finish(i)
  PROVE  TypeOK'
<1>0. inv[i].pc = "run" => inv[i].box \in Boxes
  BY DEF TypeOK
<1>1. CASE TimesOut(i)
  <2> DEFINE v == [inv[i] EXCEPT !.pc = "end", !.failed = TRUE, !.box = NoBox]
  <2>0. v \in Invocation /\ (v.pc = "run" => v.box \in Boxes)
    <3>1. inv[i] \in Invocation
      BY DEF TypeOK
    <3> QED
      BY <1>1, <3>1 DEF Invocation
  <2>1. /\ inv' \in [Invocations -> Invocation]
        /\ \A j \in Invocations : inv'[j].pc = "run" => inv'[j].box \in Boxes
    <3>1. inv' = [inv EXCEPT ![i] = v]
      BY <1>1 DEF TimesOut, TypeOK, Invocation
    <3> HIDE DEF v
    <3> QED
      BY <2>0, <3>1, OneInvocation
  <2> QED
    BY <1>0, <1>1, <2>1 DEF TimesOut, TypeOK
<1>2. CASE Breaks(i)
  <2> DEFINE v == [inv[i] EXCEPT !.pc = "end", !.failed = TRUE]
  <2>0. v \in Invocation /\ (v.pc = "run" => v.box \in Boxes)
    <3>1. inv[i] \in Invocation
      BY DEF TypeOK
    <3> QED
      BY <1>2, <3>1 DEF Invocation
  <2>1. /\ inv' \in [Invocations -> Invocation]
        /\ \A j \in Invocations : inv'[j].pc = "run" => inv'[j].box \in Boxes
    <3>1. inv' = [inv EXCEPT ![i] = v]
      BY <1>2 DEF Breaks, TypeOK, Invocation
    <3> HIDE DEF v
    <3> QED
      BY <2>0, <3>1, OneInvocation
  <2>2. box' \in [Boxes -> Box]
    BY <1>2, UnpooledFacts DEF Breaks, TypeOK
  <2> QED
    BY <1>0, <1>2, <2>1, <2>2 DEF Breaks, TypeOK
<1>3. ASSUME NEW err \in BOOLEAN, Returns(i, err)
      PROVE  TypeOK'
  <2> DEFINE v == [inv[i] EXCEPT !.pc = "end", !.failed = err,
                                !.box = IF KillOnRelease THEN inv[i].box ELSE NoBox]
  <2>0. v \in Invocation /\ (v.pc = "run" => v.box \in Boxes)
    <3>1. inv[i] \in Invocation
      BY DEF TypeOK
    <3> QED
      BY <3>1 DEF Invocation
  <2>1. /\ inv' \in [Invocations -> Invocation]
        /\ \A j \in Invocations : inv'[j].pc = "run" => inv'[j].box \in Boxes
    <3>1. inv' = [inv EXCEPT ![i] = v]
      BY <1>3 DEF Returns, TypeOK, Invocation
    <3> HIDE DEF v
    <3> QED
      BY <2>0, <3>1, OneInvocation
  <2>2. box' \in [Boxes -> Box]
    BY <1>0, <1>3, PoolAssumption DEF Returns, TypeOK, Box
  <2> QED
    BY <1>0, <1>3, <2>1, <2>2 DEF Returns, TypeOK
<1> QED
  BY <1>1, <1>2, <1>3 DEF Finish, Return

LEMMA TypeContainer ==
  ASSUME TypeOK, NEW c \in Boxes, Crash(c) \/ Kill(c) \/ Reap(c)
  PROVE  TypeOK'
<1>1. box' \in [Boxes -> Box]
  BY UnpooledFacts, Constant DEF Crash, Kill, Reap, TypeOK, Box
<1> QED
  BY <1>1 DEF Crash, Kill, Reap, TypeOK

LEMMA TypeControl ==
  ASSUME TypeOK, NEW f \in Functions, ControlPlane(f)
  PROVE  TypeOK'
<1>1. CASE PublishVersion(f)
  BY <1>1 DEF PublishVersion, TypeOK
<1>2. CASE DeleteFunction(f)
  BY <1>2 DEF DeleteFunction, TypeOK
<1>3. CASE KillFunction(f)
  BY <1>3, UnpooledFacts DEF KillFunction, PoolOf, TypeOK
<1>4. ASSUME NEW new \in Config, UpdateFunction(f, new) \/ CreateFunction(f, new)
      PROVE  TypeOK'
  BY <1>4 DEF UpdateFunction, CreateFunction, TypeOK, Limit
<1>5. ASSUME NEW n \in Limit, PutConcurrency(f, n)
      PROVE  TypeOK'
  BY <1>5 DEF PutConcurrency, TypeOK
<1> QED
  BY <1>1, <1>2, <1>3, <1>4, <1>5 DEF ControlPlane

LEMMA TypeStep == TypeOK /\ [Next]_vars => TypeOK'
<1> SUFFICES ASSUME TypeOK, [Next]_vars PROVE TypeOK'
  OBVIOUS
<1>1. ASSUME NEW S \in SUBSET Boxes, Evict(S)
      PROVE  TypeOK'
  BY <1>1, UnpooledFacts DEF Evict, TypeOK
<1>2. CASE Reset
  BY <1>2, UnpooledFacts DEF Reset, TypeOK
<1>3. CASE UNCHANGED vars
  BY <1>3 DEF vars, TypeOK
<1> QED
  BY <1>1, <1>2, <1>3, TypeInvoke, TypeExecution, TypeAcquire, TypeFinish,
     TypeContainer, TypeControl DEF Next

-----------------------------------------------------------------------------
(* Exclusive use, action by action.                                         *)
Safe == BoxExclusive /\ BusyMarked

(* An action that lets nobody start to run and takes no entry's mark.       *)
LEMMA Quiet ==
  ASSUME TypeOK, Safe, reaping' \subseteq reaping,
         \A i \in Invocations : inv'[i].pc = "run" => inv'[i] = inv[i],
         \A c \in Boxes : Marked(c) => Marked(c)'
  PROVE  Safe'
BY DEF TypeOK, Safe, BoxExclusive, BusyMarked

LEMMA MarksUnpooled ==
  ASSUME TypeOK, NEW S, box' = Unpooled(S), NEW c \in Boxes, Marked(c)
  PROVE  Marked(c)'
BY UnpooledFacts DEF Marked, TypeOK

LEMMA SafeInvoke ==
  ASSUME TypeOK, Safe, NEW i \in Invocations, Invoke(i) \/ Admit(i) \/ EndExecution(i)
  PROVE  Safe'
<1>1. UNCHANGED <<box, reaping>>
  BY DEF Invoke, InvokeLatest, InvokeVersion, Start, Admit, Throttle, BeginExecution,
         EndExecution, ReleaseSlot
<1>2. \A j \in Invocations : inv'[j].pc = "run" => inv'[j] = inv[j]
  <2>1. \A j \in Invocations \ {i} : inv'[j] = inv[j]
    BY DEF Invoke, InvokeLatest, InvokeVersion, Start, Admit, Throttle, BeginExecution,
           EndExecution, TypeOK
  <2>2. inv'[i].pc # "run"
    <3>1. CASE Invoke(i)
      <4> PICK f, p, r, conf, cap : Start(i, f, p, r, conf, cap)
        BY <3>1 DEF Invoke, InvokeLatest, InvokeVersion
      <4> QED
        BY Constant DEF Start, TypeOK, Invocation
    <3>2. CASE Throttle(i) \/ EndExecution(i)
      <4>1. inv'[i] = Idle \/ (inv[i].left > 0 /\ inv'[i] = Retry(inv[i]))
        BY <3>2 DEF Throttle, EndExecution, TypeOK
      <4>2. inv[i] \in Invocation
        BY DEF TypeOK
      <4> QED
        BY <4>1, <4>2, Constant, RetryType
    <3>3. CASE BeginExecution(i)
      BY <3>3 DEF BeginExecution, TypeOK, Invocation
    <3> QED
      BY <3>1, <3>2, <3>3 DEF Admit
  <2> QED
    BY <2>1, <2>2
<1>3. \A c \in Boxes : Marked(c) => Marked(c)'
  BY <1>1 DEF Marked
<1> QED
  BY <1>1, <1>2, <1>3, Quiet

(* A container handed out is free, so nobody runs in it.                    *)
LEMMA SafeAcquire ==
  ASSUME TypeOK, Safe, NEW i \in Invocations, PoolPoll(i) \/ Acquire(i)
  PROVE  Safe'
<1>1. CASE PoolPoll(i) \/ MustSpawn(i) \/ PoolThrottle(i)
  <2>1. box' = Prune(i) /\ reaping' = reaping
    BY <1>1 DEF PoolPoll, MustSpawn, PoolThrottle
  <2>2. \A j \in Invocations : inv'[j].pc = "run" => inv'[j] = inv[j]
    BY <1>1 DEF PoolPoll, MustSpawn, PoolThrottle, TypeOK, Invocation
  <2>3. \A c \in Boxes : Marked(c) => Marked(c)'
    BY <2>1, MarksUnpooled DEF Prune
  <2> QED
    BY <2>1, <2>2, <2>3, Quiet
<1>2. ASSUME NEW c \in Boxes, Reuse(i, c)
      PROVE  Safe'
  <2>1. /\ box[c].pooled /\ ~box[c].inUse /\ box[c].status = "running"
        /\ reaping' = reaping
    BY <1>2 DEF Reuse, Free, Alive, Entries, Pool
  <2>2. /\ c \notin reaping
        /\ \A j \in Invocations : inv[j].pc = "run" => inv[j].box # c
    BY <2>1 DEF Safe, BusyMarked, Marked
  <2>3. /\ inv'[i].box = c
        /\ \A j \in Invocations \ {i} : inv'[j] = inv[j]
    BY <1>2 DEF Reuse, TypeOK, Invocation
  <2>4. Prune(i) \in [Boxes -> Box] /\ Prune(i)[c].status = "running"
    BY <2>1, UnpooledFacts DEF Prune, TypeOK
  <2>5. Marked(c)'
    BY <1>2, <2>4 DEF Reuse, Marked, Box
  <2>6. \A d \in Boxes \ {c} : Marked(d) => Marked(d)'
    BY <1>2, <2>4, UnpooledFacts DEF Reuse, Prune, Marked, TypeOK
  <2> QED
    BY <2>1, <2>2, <2>3, <2>5, <2>6 DEF Safe, BoxExclusive, BusyMarked, TypeOK
<1> QED
  BY <1>1, <1>2 DEF Acquire

(* A container registered is new, so nobody runs in it.                     *)
LEMMA SafeSpawn ==
  ASSUME TypeOK, Safe, NEW i \in Invocations, Spawn(i)
  PROVE  Safe'
<1>1. CASE SpawnFails(i)
  <2>1. UNCHANGED <<box, reaping>>
    BY <1>1 DEF SpawnFails
  <2>2. \A j \in Invocations : inv'[j].pc = "run" => inv'[j] = inv[j]
    BY <1>1 DEF SpawnFails, TypeOK, Invocation
  <2> QED
    BY <2>1, <2>2, Quiet DEF Marked
<1>2. ASSUME NEW c \in Boxes, Register(i, c)
      PROVE  Safe'
  <2>1. box[c].status = "new" /\ reaping' = reaping
    BY <1>2 DEF Register
  <2>2. /\ c \notin reaping
        /\ \A j \in Invocations : inv[j].pc = "run" => inv[j].box # c
    BY <2>1 DEF Safe, BusyMarked, Marked
  <2>3. /\ inv'[i].box = c
        /\ \A j \in Invocations \ {i} : inv'[j] = inv[j]
    BY <1>2 DEF Register, TypeOK, Invocation
  <2>4. Marked(c)'
    BY <1>2 DEF Register, Marked, TypeOK
  <2>5. \A d \in Boxes \ {c} : box'[d] = box[d]
    BY <1>2 DEF Register, TypeOK
  <2>6. \A d \in Boxes \ {c} : Marked(d) => Marked(d)'
    BY <2>5 DEF Marked
  <2> QED
    BY <2>1, <2>2, <2>3, <2>4, <2>6 DEF Safe, BoxExclusive, BusyMarked, TypeOK
<1> QED
  BY <1>1, <1>2 DEF Spawn

(* The one who leaves a container was alone in it.                          *)
LEMMA SafeFinish ==
  ASSUME TypeOK, Safe, NEW i \in Invocations, Finish(i)
  PROVE  Safe'
<1> DEFINE c == inv[i].box
<1>0. /\ inv[i].pc = "run" /\ c \in Boxes /\ c \notin reaping /\ Marked(c)
      /\ \A j \in Invocations \ {i} : inv[j].pc = "run" => inv[j].box # c
  BY DEF Finish, Return, TimesOut, Breaks, Returns, TypeOK, Safe, BoxExclusive, BusyMarked
<1>1. /\ inv'[i].pc # "run"
      /\ \A j \in Invocations \ {i} : inv'[j] = inv[j]
  <2>1. CASE TimesOut(i)
    BY <2>1 DEF TimesOut, TypeOK, Invocation
  <2>2. CASE Breaks(i)
    BY <2>2 DEF Breaks, TypeOK, Invocation
  <2>3. ASSUME NEW err \in BOOLEAN, Returns(i, err)
        PROVE  /\ inv'[i].pc # "run"
               /\ \A j \in Invocations \ {i} : inv'[j] = inv[j]
    <3> DEFINE e == [inv[i] EXCEPT !.pc = "end", !.failed = err,
                                   !.box = IF KillOnRelease THEN inv[i].box ELSE NoBox]
    <3>1. inv' = [inv EXCEPT ![i] = e]
      BY <2>3 DEF Returns, TypeOK, Invocation
    <3>2. e.pc = "end"
      BY DEF TypeOK, Invocation
    <3> HIDE DEF e
    <3> QED
      BY <3>1, <3>2 DEF TypeOK
  <2> QED
    BY <2>1, <2>2, <2>3 DEF Finish, Return
<1>2. CASE TimesOut(i)
  <2>1. reaping' = reaping \cup {c} /\ box' = box
    BY <1>2 DEF TimesOut
  <2>2. \A d : Marked(d) => Marked(d)'
    BY <2>1 DEF Marked
  <2> HIDE DEF c
  <2> QED
    BY <1>0, <1>1, <2>1, <2>2 DEF Safe, BoxExclusive, BusyMarked, TypeOK
<1>3. CASE Breaks(i)
  <2>1. box' = Unpooled({c}) /\ reaping' = reaping
    BY <1>3 DEF Breaks
  <2>2. \A d \in Boxes : Marked(d) => Marked(d)'
    BY <2>1, MarksUnpooled
  <2> QED
    BY <1>1, <2>1, <2>2, Quiet
<1>4. ASSUME NEW err \in BOOLEAN, Returns(i, err)
      PROVE  Safe'
  <2>1. reaping' = reaping /\ \A d \in Boxes \ {c} : box'[d] = box[d]
    BY <1>4 DEF Returns, TypeOK
  <2>2. \A d \in Boxes \ {c} : Marked(d) => Marked(d)'
    BY <2>1 DEF Marked
  <2> HIDE DEF c
  <2> QED
    BY <1>0, <1>1, <2>1, <2>2 DEF Safe, BoxExclusive, BusyMarked, TypeOK
<1> QED
  BY <1>2, <1>3, <1>4 DEF Finish, Return

LEMMA SafeContainer ==
  ASSUME TypeOK, Safe, NEW c \in Boxes, Crash(c) \/ Kill(c) \/ Reap(c)
  PROVE  Safe'
<1>1. inv' = inv /\ reaping' \subseteq reaping
  BY DEF Crash, Kill, Reap
<1>2. \A d \in Boxes : Marked(d) => Marked(d)'
  <2>1. CASE Crash(c)
    BY <2>1 DEF Crash, Marked, TypeOK, Box
  <2>2. CASE Kill(c)
    <3>1. ~[NewBox EXCEPT !.status = "gone"].pooled /\ [NewBox EXCEPT !.status = "gone"].status = "gone"
      BY Constant DEF NewBox
    <3> QED
      BY <2>2, <3>1 DEF Kill, Marked, TypeOK
  <2>3. CASE Reap(c)
    BY <2>3, MarksUnpooled DEF Reap
  <2> QED
    BY <2>1, <2>2, <2>3
<1> QED
  BY <1>1, <1>2, Quiet

LEMMA SafeControl ==
  ASSUME TypeOK, Safe, NEW f \in Functions, ControlPlane(f)
  PROVE  Safe'
<1>1. inv' = inv /\ reaping' = reaping /\ (box' = box \/ box' = Unpooled(PoolOf(f)))
  BY DEF ControlPlane, PublishVersion, DeleteFunction, KillFunction, UpdateFunction,
         CreateFunction, PutConcurrency
<1>2. \A d \in Boxes : Marked(d) => Marked(d)'
  <2>1. CASE box' = box
    BY <2>1 DEF Marked
  <2>2. CASE box' = Unpooled(PoolOf(f))
    BY <2>2, MarksUnpooled
  <2> QED
    BY <1>1, <2>1, <2>2
<1> QED
  BY <1>1, <1>2, Quiet

LEMMA SafeStep == TypeOK /\ Safe /\ [Next]_vars => Safe'
<1> SUFFICES ASSUME TypeOK, Safe, [Next]_vars PROVE Safe'
  OBVIOUS
<1>1. ASSUME NEW S \in SUBSET Boxes, Evict(S)
      PROVE  Safe'
  <2>1. inv' = inv /\ reaping' = reaping /\ box' = Unpooled(S)
    BY <1>1 DEF Evict
  <2> QED
    BY <2>1, MarksUnpooled, Quiet
<1>2. CASE Reset
  <2>1. inv' = inv /\ reaping' = reaping /\ \E S : box' = Unpooled(S)
    BY <1>2 DEF Reset
  <2> QED
    BY <2>1, MarksUnpooled, Quiet
<1>3. CASE UNCHANGED vars
  BY <1>3 DEF vars, Safe, BoxExclusive, BusyMarked, Marked
<1> QED
  BY <1>1, <1>2, <1>3, SafeInvoke, SafeAcquire, SafeSpawn, SafeFinish,
     SafeContainer, SafeControl DEF Next

-----------------------------------------------------------------------------
(* Whoever takes an entry out of the pool kills its container.              *)

LEMMA OrphansUnpooled ==
  ASSUME TypeOK, NoOrphans, NEW S, box' = Unpooled(S),
         \A c \in S : box[c].status = "running" => c \in doomed', doomed \subseteq doomed'
  PROVE  NoOrphans'
BY UnpooledFacts DEF NoOrphans, TypeOK

LEMMA OrphansSame ==
  ASSUME NoOrphans, box' = box, doomed' = doomed
  PROVE  NoOrphans'
BY DEF NoOrphans

LEMMA OrphansInvocation ==
  ASSUME TypeOK, NoOrphans, NEW i \in Invocations,
         Invoke(i) \/ Admit(i) \/ PoolPoll(i) \/ Acquire(i) \/ Spawn(i) \/ EndExecution(i)
  PROVE  NoOrphans'
<1>1. CASE Invoke(i) \/ Admit(i) \/ EndExecution(i) \/ SpawnFails(i)
  <2>1. box' = box /\ doomed' = doomed
    BY <1>1 DEF Invoke, InvokeLatest, InvokeVersion, Start, Admit, Throttle, BeginExecution,
                EndExecution, ReleaseSlot, SpawnFails
  <2> QED
    BY <2>1, OrphansSame
<1>2. \A c \in Entries(i) \ Alive(i) : box[c].status # "running"
  BY DEF Alive
<1>3. CASE PoolPoll(i) \/ MustSpawn(i) \/ PoolThrottle(i)
  <2>1. box' = Unpooled(Entries(i) \ Alive(i)) /\ doomed' = doomed
    BY <1>3 DEF PoolPoll, MustSpawn, PoolThrottle, Prune
  <2> QED
    BY <1>2, <2>1, OrphansUnpooled
<1>4. ASSUME NEW c \in Boxes, Reuse(i, c)
      PROVE  NoOrphans'
  <2>1. /\ \A d \in Boxes : /\ box'[d].status = Prune(i)[d].status
                            /\ box'[d].pooled = Prune(i)[d].pooled
        /\ doomed' = doomed
    BY <1>4, UnpooledFacts DEF Reuse, Prune, TypeOK, Box
  <2> QED
    BY <1>2, <2>1, UnpooledFacts DEF Prune, NoOrphans, TypeOK
<1>5. ASSUME NEW c \in Boxes, Register(i, c)
      PROVE  NoOrphans'
  BY <1>5 DEF Register, NoOrphans, TypeOK
<1> QED
  BY <1>1, <1>3, <1>4, <1>5 DEF Acquire, Spawn

LEMMA OrphansFinish ==
  ASSUME TypeOK, NoOrphans, NEW i \in Invocations, Finish(i)
  PROVE  NoOrphans'
<1>1. CASE TimesOut(i)
  BY <1>1, OrphansSame DEF TimesOut
<1>2. CASE Breaks(i)
  BY <1>2, OrphansUnpooled DEF Breaks
<1>3. ASSUME NEW err \in BOOLEAN, Returns(i, err)
      PROVE  NoOrphans'
  <2> DEFINE c == inv[i].box
  <2>1. c \in Boxes
    BY <1>3 DEF Returns, TypeOK
  <2>2. /\ doomed' = IF KillOnRelease THEN doomed \cup {c} ELSE doomed
        /\ \A d \in Boxes \ {c} : box'[d] = box[d]
    BY <1>3 DEF Returns, TypeOK
  <2>3. ~KillOnRelease => (box'[c].status = box[c].status /\ (box[c].pooled => box'[c].pooled))
    BY <1>3, <2>1 DEF Returns, TypeOK, Box
  <2> HIDE DEF c
  <2> QED
    BY <2>1, <2>2, <2>3 DEF NoOrphans
<1> QED
  BY <1>1, <1>2, <1>3 DEF Finish, Return

LEMMA OrphansContainer ==
  ASSUME TypeOK, NoOrphans, NEW c \in Boxes, Crash(c) \/ Kill(c) \/ Reap(c)
  PROVE  NoOrphans'
<1>1. CASE Crash(c)
  BY <1>1 DEF Crash, NoOrphans, TypeOK, Box
<1>2. CASE Kill(c)
  <2>1. [NewBox EXCEPT !.status = "gone"].status = "gone"
    BY DEF NewBox
  <2> QED
    BY <1>2, <2>1 DEF Kill, NoOrphans, TypeOK
<1>3. CASE Reap(c)
  BY <1>3, OrphansUnpooled DEF Reap
<1> QED
  BY <1>1, <1>2, <1>3

LEMMA OrphansStep == TypeOK /\ NoOrphans /\ [Next]_vars => NoOrphans'
<1> SUFFICES ASSUME TypeOK, NoOrphans, [Next]_vars PROVE NoOrphans'
  OBVIOUS
<1>1. ASSUME NEW f \in Functions, ControlPlane(f)
      PROVE  NoOrphans'
  <2>1. CASE KillFunction(f)
    BY <2>1, OrphansUnpooled DEF KillFunction
  <2>2. CASE ~KillFunction(f)
    BY <1>1, <2>2, OrphansSame
    DEF ControlPlane, PublishVersion, DeleteFunction, UpdateFunction, CreateFunction,
        PutConcurrency
  <2> QED
    BY <2>1, <2>2
<1>2. ASSUME NEW S \in SUBSET Boxes, Evict(S)
      PROVE  NoOrphans'
  BY <1>2, OrphansUnpooled DEF Evict
<1>3. CASE Reset
  BY <1>3, OrphansUnpooled DEF Reset
<1>4. CASE UNCHANGED vars
  BY <1>4, OrphansSame DEF vars
<1> QED
  BY <1>1, <1>2, <1>3, <1>4, OrphansInvocation, OrphansFinish, OrphansContainer DEF Next

-----------------------------------------------------------------------------
(* The counter moves by one, up only below the cap.                         *)
LEMMA AccountStep == TypeOK /\ AccountBound /\ [Next]_vars => AccountBound'
<1> SUFFICES ASSUME TypeOK, AccountBound, [Next]_vars PROVE AccountBound'
  OBVIOUS
<1>1. \/ total' = total
      \/ total' = OneLess(total)
      \/ total' = total + 1 /\ ~AccountFull
  <2>1. ASSUME NEW i \in Invocations,
               Invoke(i) \/ PoolPoll(i) \/ Acquire(i) \/ Spawn(i) \/ Finish(i)
        PROVE  total' = total
    BY <2>1 DEF Invoke, InvokeLatest, InvokeVersion, Start, PoolPoll, Acquire, MustSpawn,
                PoolThrottle, Reuse, Spawn, SpawnFails, Register, Finish, Return, TimesOut,
                Breaks, Returns
  <2>2. ASSUME NEW i \in Invocations, Admit(i)
        PROVE  total' = total \/ (total' = total + 1 /\ ~AccountFull)
    BY <2>2 DEF Admit, Throttle, BeginExecution
  <2>3. ASSUME NEW i \in Invocations, EndExecution(i)
        PROVE  total' = OneLess(total)
    BY <2>3 DEF EndExecution, ReleaseSlot
  <2>4. ASSUME NEW c \in Boxes, Crash(c) \/ Kill(c) \/ Reap(c)
        PROVE  total' = total
    BY <2>4 DEF Crash, Kill, Reap
  <2>5. ASSUME NEW f \in Functions, ControlPlane(f)
        PROVE  total' = total
    BY <2>5 DEF ControlPlane, PublishVersion, DeleteFunction, KillFunction, UpdateFunction,
                CreateFunction, PutConcurrency
  <2>6. ASSUME NEW S \in SUBSET Boxes, Evict(S)
        PROVE  total' = total
    BY <2>6 DEF Evict
  <2>7. CASE Reset
    BY <2>7 DEF Reset
  <2>8. CASE UNCHANGED vars
    BY <2>8 DEF vars
  <2> QED
    BY <2>1, <2>2, <2>3, <2>4, <2>5, <2>6, <2>7, <2>8 DEF Next
<1> QED
  BY <1>1, PoolAssumption DEF AccountBound, AccountFull, OneLess, TypeOK

-----------------------------------------------------------------------------
LEMMA Inductive == IInv /\ [Next]_vars => IInv'
BY TypeStep, SafeStep, OrphansStep, AccountStep DEF IInv, Safe

(* The invariant holds in every state the executor can reach.               *)
THEOREM InductiveInvariant == Spec => []IInv
BY Initial, Inductive, PTL DEF Spec

(* Type correctness.                                                        *)
THEOREM TypeCorrect == Spec => []TypeOK
<1>1. IInv => TypeOK
  BY DEF IInv
<1> QED
  BY <1>1, InductiveInvariant, PTL

(* A container of the pool never serves two invocations at once, nor one    *)
(* while a handler that timed out still runs in it.                         *)
THEOREM Exclusive == Spec => []BoxExclusive
<1>1. IInv => BoxExclusive
  BY DEF IInv
<1> QED
  BY <1>1, InductiveInvariant, PTL

(* No container that runs is forgotten, whatever updates, deletes, resets,  *)
(* evictions and failing invocations take it out of the pool.               *)
THEOREM Accounted == Spec => []NoOrphans
<1>1. IInv => NoOrphans
  BY DEF IInv
<1> QED
  BY <1>1, InductiveInvariant, PTL

(* Never more executions at a time than the account's cap.                  *)
THEOREM Capped == Spec => []AccountBound
<1>1. IInv => AccountBound
  BY DEF IInv
<1> QED
  BY <1>1, InductiveInvariant, PTL

-----------------------------------------------------------------------------
(* The counters, by the sets they count: only the two actions that hold     *)
(* _inflight_lock change a set, and by one element.                         *)
Out == {"idle", "begin"}
Busy == UNION {Executing(f) : f \in Functions}

LEMMA Sets ==
  /\ \A f \in Functions : IsFiniteSet(Executing(f))
  /\ IsFiniteSet(Busy)
<1>1. \A f \in Functions : Executing(f) \in SUBSET Invocations
  BY DEF Executing
<1>2. Busy \in SUBSET Invocations
  BY <1>1 DEF Busy
<1>3. IsFiniteSet(Invocations)
  BY PoolAssumption
<1>4. \A S \in SUBSET Invocations : IsFiniteSet(S)
  BY <1>3, FS_Subset
<1> QED
  BY <1>1, <1>2, <1>4

(* An invocation that changes to v and neither starts nor ends executing.   *)
LEMMA SameSets ==
  ASSUME TypeOK, NEW i \in Invocations, NEW v, inv' = [inv EXCEPT ![i] = v],
         \/ v.pc \in Out /\ inv[i].pc \in Out
         \/ v.pc \notin Out /\ inv[i].pc \notin Out /\ v.fn = inv[i].fn
  PROVE  \A f \in Functions : Executing(f)' = Executing(f)
<1>1. \A j \in Invocations : inv'[j] = IF j = i THEN v ELSE inv[j]
  BY DEF TypeOK
<1> QED
  BY <1>1 DEF Executing, Out

LEMMA SameCounts ==
  ASSUME SlotsExact, inflight' = inflight, total' = total,
         \A f \in Functions : Executing(f)' = Executing(f)
  PROVE  SlotsExact'
<1>1. {Executing(f) : f \in Functions}' = {Executing(f) : f \in Functions}
  OBVIOUS
<1>2. (UNION {Executing(f) : f \in Functions})' = UNION {Executing(f) : f \in Functions}
  BY <1>1
<1> QED
  BY <1>2 DEF SlotsExact

LEMMA CountedIn ==
  ASSUME TypeOK, SlotsExact, NEW i \in Invocations, BeginExecution(i)
  PROVE  SlotsExact'
<1> DEFINE g == inv[i].fn
<1>0. g \in Functions /\ inv[i].pc = "begin"
  BY DEF TypeOK, Invocation, BeginExecution
<1>1. \A j \in Invocations : /\ inv'[j].fn = inv[j].fn
                            /\ inv'[j].pc = IF j = i THEN "acquire" ELSE inv[j].pc
  BY DEF BeginExecution, TypeOK, Invocation
<1>2. \A f \in Functions : Executing(f)' = IF f = g THEN Executing(f) \cup {i} ELSE Executing(f)
  BY <1>0, <1>1 DEF Executing
<1>3. Busy' = Busy \cup {i}
  BY <1>0, <1>2 DEF Busy
<1>4. i \notin Busy /\ \A f \in Functions : i \notin Executing(f)
  BY <1>0 DEF Executing, Busy
<1>5. Cardinality(Busy') = Cardinality(Busy) + 1
  BY <1>3, <1>4, Sets, FS_AddElement
<1>6. Cardinality(Executing(g) \cup {i}) = Cardinality(Executing(g)) + 1
  BY <1>0, <1>4, Sets, FS_AddElement
<1>7. \A f \in Functions : inflight'[f] = Cardinality(Executing(f)')
  BY <1>0, <1>2, <1>6 DEF SlotsExact, BeginExecution, TypeOK
<1>8. total' = Cardinality(Busy')
  BY <1>5 DEF SlotsExact, BeginExecution, Busy
<1> QED
  BY <1>7, <1>8 DEF SlotsExact, Busy

LEMMA CountedOut ==
  ASSUME TypeOK, SlotsExact, NEW i \in Invocations, EndExecution(i)
  PROVE  SlotsExact'
<1> DEFINE g == inv[i].fn
<1> DEFINE v == IF inv[i].failed /\ inv[i].left > 0 THEN Retry(inv[i]) ELSE Idle
<1>0. g \in Functions /\ inv[i].pc = "end"
  BY DEF TypeOK, Invocation, EndExecution, MayEnd
<1>1. v.pc \in Out
  BY Constant DEF Retry, Out, TypeOK, Invocation
<1>2. \A j \in Invocations : inv'[j] = IF j = i THEN v ELSE inv[j]
  BY DEF EndExecution, TypeOK
<1> HIDE DEF v
<1>3. \A f \in Functions : Executing(f)' = IF f = g THEN Executing(f) \ {i} ELSE Executing(f)
  BY <1>0, <1>1, <1>2 DEF Executing, Out
<1>4. i \in Executing(g) /\ \A f \in Functions : i \in Executing(f) => f = g
  BY <1>0 DEF Executing
<1>5. Busy' = Busy \ {i} /\ i \in Busy
  BY <1>0, <1>3, <1>4 DEF Busy
<1>6. Cardinality(Busy') = Cardinality(Busy) - 1 /\ Cardinality(Busy) \in Nat
  BY <1>5, Sets, FS_RemoveElement, FS_CardinalityType
<1>7. /\ Cardinality(Executing(g) \ {i}) = Cardinality(Executing(g)) - 1
      /\ Cardinality(Executing(g)) \in Nat
  BY <1>0, <1>4, Sets, FS_RemoveElement, FS_CardinalityType
<1>8. Cardinality(Busy) # 0 /\ Cardinality(Executing(g)) # 0
  BY <1>0, <1>4, <1>5, Sets, FS_EmptySet
<1>9. \A f \in Functions : inflight'[f] = Cardinality(Executing(f)')
  <2> SUFFICES ASSUME NEW f \in Functions PROVE inflight'[f] = Cardinality(Executing(f)')
    OBVIOUS
  <2>1. inflight[f] = Cardinality(Executing(f))
    BY DEF SlotsExact
  <2>2. inflight'[f] = IF f = g THEN OneLess(inflight[f]) ELSE inflight[f]
    BY DEF EndExecution, ReleaseSlot, TypeOK
  <2>3. CASE f = g
    <3>1. inflight'[f] = Cardinality(Executing(g)) - 1
      BY <1>7, <1>8, <2>1, <2>2, <2>3 DEF OneLess
    <3> QED
      BY <1>3, <1>7, <2>3, <3>1
  <2>4. CASE f # g
    BY <1>3, <2>1, <2>2, <2>4
  <2> QED
    BY <2>3, <2>4
<1>10. total' = Cardinality(Busy')
  BY <1>6, <1>8 DEF SlotsExact, EndExecution, ReleaseSlot, OneLess, Busy
<1> QED
  BY <1>9, <1>10 DEF SlotsExact, Busy

LEMMA SlotsStep == TypeOK /\ SlotsExact /\ [Next]_vars => SlotsExact'
<1> SUFFICES ASSUME TypeOK, SlotsExact, [Next]_vars PROVE SlotsExact'
  OBVIOUS
<1>1. ASSUME NEW i \in Invocations, Invoke(i)
      PROVE  SlotsExact'
  <2> PICK f \in Functions, p \in Boxes \cup {NoBox}, r \in 0..Retries :
         InvokeLatest(i, f, p, r) \/ InvokeVersion(i, f, p, r)
    BY <1>1 DEF Invoke
  <2>1. PICK conf, cap : Start(i, f, p, r, conf, cap)
    BY DEF InvokeLatest, InvokeVersion
  <2> DEFINE v == [Idle EXCEPT !.pc = "begin", !.fn = f, !.conf = conf,
                               !.cap = cap, !.left = r, !.caller = p]
  <2>2. inv' = [inv EXCEPT ![i] = v] /\ v.pc = "begin"
    BY <2>1 DEF Start, Idle
  <2> HIDE DEF v
  <2> QED
    BY <2>1, <2>2, SameSets, SameCounts DEF Start, Out
<1>2. ASSUME NEW i \in Invocations, Admit(i)
      PROVE  SlotsExact'
  <2>1. CASE Throttle(i)
    <3> DEFINE v == IF inv[i].left > 0 THEN Retry(inv[i]) ELSE Idle
    <3>1. inv' = [inv EXCEPT ![i] = v] /\ v.pc \in Out
      BY <2>1, Constant DEF Throttle, Retry, Out, TypeOK, Invocation
    <3> HIDE DEF v
    <3> QED
      BY <2>1, <3>1, SameSets, SameCounts DEF Throttle, Out
  <2> QED
    BY <1>2, <2>1, CountedIn DEF Admit
<1>3. ASSUME NEW i \in Invocations, PoolPoll(i)
      PROVE  SlotsExact'
  BY <1>3, SameCounts DEF PoolPoll, Executing
<1>4. ASSUME NEW i \in Invocations, Acquire(i) \/ Spawn(i) \/ Finish(i)
      PROVE  SlotsExact'
  <2>1. inflight' = inflight /\ total' = total
    BY <1>4 DEF Acquire, MustSpawn, PoolThrottle, Reuse, Spawn, SpawnFails, Register,
                Finish, TimesOut, Breaks, Return, Returns
  <2>2. inv[i] \in Invocation /\ inv[i].pc \notin Out
    BY <1>4 DEF Acquire, MustSpawn, PoolThrottle, Reuse, Spawn, SpawnFails, Register,
                Finish, TimesOut, Breaks, Return, Returns, TypeOK, Out
  <2>3. \E v : /\ inv' = [inv EXCEPT ![i] = v]
              /\ v.pc \notin Out /\ v.fn = inv[i].fn
    <3>1. CASE Acquire(i)
      BY <2>2, <3>1 DEF Acquire, MustSpawn, PoolThrottle, Reuse, Invocation, Out
    <3>2. CASE Spawn(i)
      BY <2>2, <3>2 DEF Spawn, SpawnFails, Register, Invocation, Out
    <3>3. CASE TimesOut(i)
      <4> DEFINE v == [inv[i] EXCEPT !.pc = "end", !.failed = TRUE, !.box = NoBox]
      <4>1. inv' = [inv EXCEPT ![i] = v]
        BY <3>3 DEF TimesOut
      <4>2. v.pc \notin Out /\ v.fn = inv[i].fn
        BY <2>2 DEF Invocation, Out
      <4> QED
        BY <4>1, <4>2
    <3>4. CASE Breaks(i)
      <4> DEFINE v == [inv[i] EXCEPT !.pc = "end", !.failed = TRUE]
      <4>1. inv' = [inv EXCEPT ![i] = v]
        BY <3>4 DEF Breaks
      <4>2. v.pc \notin Out /\ v.fn = inv[i].fn
        BY <2>2 DEF Invocation, Out
      <4> QED
        BY <4>1, <4>2
    <3>5. ASSUME NEW err \in BOOLEAN, Returns(i, err)
          PROVE  \E v : /\ inv' = [inv EXCEPT ![i] = v]
                        /\ v.pc \notin Out /\ v.fn = inv[i].fn
      <4> DEFINE v == [inv[i] EXCEPT !.pc = "end", !.failed = err,
                         !.box = IF KillOnRelease THEN inv[i].box ELSE NoBox]
      <4>1. inv' = [inv EXCEPT ![i] = v]
        BY <3>5 DEF Returns
      <4>2. v.pc \notin Out /\ v.fn = inv[i].fn
        BY <2>2 DEF Invocation, Out
      <4> QED
        BY <4>1, <4>2
    <3> QED
      BY <1>4, <3>1, <3>2, <3>3, <3>4, <3>5 DEF Finish, Return
  <2> QED
    BY <2>1, <2>2, <2>3, SameSets, SameCounts
<1>5. ASSUME NEW i \in Invocations, EndExecution(i)
      PROVE  SlotsExact'
  BY <1>5, CountedOut
<1>6. ASSUME NEW c \in Boxes, Crash(c) \/ Kill(c) \/ Reap(c)
      PROVE  SlotsExact'
  BY <1>6, SameCounts DEF Crash, Kill, Reap, Executing
<1>7. ASSUME NEW S \in SUBSET Boxes, Evict(S)
      PROVE  SlotsExact'
  BY <1>7, SameCounts DEF Evict, Executing
<1>8. ASSUME NEW f \in Functions, ControlPlane(f)
      PROVE  SlotsExact'
  <2>1. inv' = inv /\ inflight' = inflight /\ total' = total
    BY <1>8 DEF ControlPlane, PublishVersion, DeleteFunction, KillFunction,
                UpdateFunction, CreateFunction, PutConcurrency
  <2> QED
    BY <2>1, SameCounts DEF Executing
<1>9. CASE Reset
  BY <1>9, SameCounts DEF Reset, Executing
<1>10. CASE UNCHANGED vars
  BY <1>10, SameCounts DEF vars, Executing
<1> QED
  BY <1>1, <1>2, <1>3, <1>4, <1>5, <1>6, <1>7, <1>8, <1>9, <1>10 DEF Next

LEMMA SlotsInitial == Init => SlotsExact
<1> SUFFICES ASSUME Init PROVE SlotsExact
  OBVIOUS
<1>1. \A f \in Functions : Executing(f) = {}
  BY Constant DEF Init, Executing
<1>2. Busy = {}
  BY <1>1 DEF Busy
<1> QED
  BY <1>1, <1>2, FS_EmptySet DEF Init, SlotsExact, Busy

(* The slots taken are exactly the executions in progress, per function and *)
(* for the account, on every path out of an execution.                      *)
THEOREM Counted == Spec => []SlotsExact
BY SlotsInitial, SlotsStep, TypeCorrect, PTL DEF Spec

-----------------------------------------------------------------------------
(* The local executor's workers of a function, and what calls and updates   *)
(* do with them.                                                            *)
(* The shapes of the records.                                               *)
LwWorkerRecord == [inUse : BOOLEAN, proc : BOOLEAN, lock : LwCalls \cup {LwNobody},
                   code : 0..LwMaxCode, late : BOOLEAN]
LwCallRecord == [phase : {"idle", "called", "leased", "running"},
                 worker : LwWorkers \cup {LwNoWorker}, code : 0..LwMaxCode,
                 need : 0..LwMaxCode, parent : LwCalls \cup {LwNobody}]
LwTypes ==
  /\ lwCode \in [stored : 0..LwMaxCode, displaced : 0..LwMaxCode]
  /\ lwPool \in Seq(LwWorkers)
  /\ lwWorker \in [LwWorkers -> LwWorkerRecord]
  /\ lwCall \in [LwCalls -> LwCallRecord]
  /\ lwDoomed \subseteq LwWorkers

LwActive(c) == lwCall[c].phase \in {"leased", "running"}

(* The pool has an entry once.                                              *)
LwDistinct == \A i, j \in 1..Len(lwPool) : lwPool[i] = lwPool[j] => i = j

(* Who has a worker leased it for himself, unless he serves a WebSocket     *)
(* route; who runs has its lock, and nobody else does.                      *)
LwOwns == \A c \in LwCalls :
  /\ LwActive(c) <=> lwCall[c].worker # LwNoWorker
  /\ LwActive(c) /\ ~LwSocket(c) => lwWorker[lwCall[c].worker].inUse
  /\ lwCall[c].phase = "running" => lwWorker[lwCall[c].worker].lock = c
LwAlone == \A c, d \in LwCalls :
  LwActive(c) /\ ~LwSocket(c) /\ LwActive(d) /\ ~LwSocket(d) /\ lwCall[c].worker = lwCall[d].worker
  => c = d
LwLocked == \A w \in LwWorkers :
  lwWorker[w].lock # LwNobody => /\ lwCall[lwWorker[w].lock].phase = "running"
                                /\ lwCall[lwWorker[w].lock].worker = w
LwLeases == LwOwns /\ LwAlone /\ LwLocked

(* What an entry of the pool runs is as new as the last update that emptied *)
(* the pool, and so is what a call got out of it.                           *)
LwBegun == \A c \in LwCalls :
  /\ lwCall[c].need <= lwCode.displaced
  /\ lwCall[c].phase = "called" => lwCall[c].need <= lwCall[c].code
  /\ LwActive(c) /\ ~lwWorker[lwCall[c].worker].late
       => lwCall[c].need <= lwWorker[lwCall[c].worker].code
LwNewest == \A w \in LwPooled : ~lwWorker[w].late => lwCode.displaced <= lwWorker[w].code
LwCodes == lwCode.displaced <= lwCode.stored /\ LwBegun /\ LwNewest

(* A subprocess is known to the pool or to its remover.                     *)
LwProcs == \A w \in LwWorkers : lwWorker[w].proc /\ ~lwWorker[w].late => w \in LwPooled \cup lwDoomed

LwInv == LwTypes /\ LwDistinct /\ LwLeases /\ LwCodes /\ LwProcs

-----------------------------------------------------------------------------
(* A list without repetitions has as many entries as it has elements.       *)
LEMMA ListImage ==
  ASSUME NEW S, NEW s \in Seq(S), NEW P, P = {s[i] : i \in DOMAIN s}
  PROVE  /\ IsFiniteSet(P) /\ Cardinality(P) \in Nat /\ P \subseteq S
         /\ (\A i, j \in 1..Len(s) : s[i] = s[j] => i = j) => Len(s) = Cardinality(P)
<1>1. Len(s) \in Nat /\ DOMAIN s = 1..Len(s) /\ \A i \in 1..Len(s) : s[i] \in S OBVIOUS
<1>2. s \in [1..Len(s) -> P] BY <1>1
<1>3. s \in Surjection(1..Len(s), P) BY <1>1, <1>2 DEF Surjection
<1>4. IsFiniteSet(1..Len(s)) /\ Cardinality(1..Len(s)) = Len(s)
  <2>1. Cardinality(1..Len(s)) = IF 1 > Len(s) THEN 0 ELSE Len(s) - 1 + 1
    BY <1>1, FS_Interval, 1 \in Int, Len(s) \in Int
  <2>2. IsFiniteSet(1..Len(s)) BY <1>1, FS_Interval, 1 \in Int, Len(s) \in Int
  <2> QED BY <1>1, <2>1, <2>2
<1>5. /\ IsFiniteSet(P)
      /\ Cardinality(P) = Cardinality(1..Len(s)) <=> s \in Injection(1..Len(s), P)
  BY <1>3, <1>4, FS_Surjection
<1>6. Cardinality(P) \in Nat BY <1>5, FS_CardinalityType
<1>7. ASSUME \A i, j \in 1..Len(s) : s[i] = s[j] => i = j PROVE Len(s) = Cardinality(P)
  BY <1>2, <1>4, <1>5, <1>7 DEF Injection, IsInjective
<1> QED BY <1>1, <1>5, <1>6, <1>7

-----------------------------------------------------------------------------
(* What a step does to the call that takes it; the others keep all but      *)
(* their parent.                                                            *)
LwSame(d) == /\ lwCall'[d].phase = lwCall[d].phase /\ lwCall'[d].worker = lwCall[d].worker
             /\ lwCall'[d].code = lwCall[d].code /\ lwCall'[d].need = lwCall[d].need
LwOthers(c) == \A d \in LwCalls : d # c => LwSame(d)

LEMMA LwNumbers == /\ LwMaxCode \in Nat /\ LwWorkers \subseteq Nat \ {0} /\ LwNobody \notin LwCalls
                   /\ LwNoWorker = 0 /\ LwNoWorker \notin LwWorkers
BY LwAssumption DEF LwNobody, LwNoWorker

LEMMA LwInvoked ==
  ASSUME LwTypes, NEW c \in LwCalls, NEW p \in LwCalls \cup {LwNobody}, LwInvoke(c, p)
  PROVE  /\ lwCall' \in [LwCalls -> LwCallRecord] /\ LwOthers(c)
         /\ lwCall'[c].phase = "called" /\ lwCall'[c].worker = LwNoWorker
         /\ lwCall'[c].code = lwCode.stored /\ lwCall'[c].need = lwCode.displaced
         /\ UNCHANGED <<lwCode, lwPool, lwWorker, lwDoomed>>
<1> DEFINE new == [LwIdleCall EXCEPT !.phase = "called", !.code = lwCode.stored,
                                    !.need = lwCode.displaced, !.parent = p]
<1>1. LwIdleCall \in LwCallRecord /\ LwIdleCall.worker = LwNoWorker
  BY LwNumbers DEF LwIdleCall, LwCallRecord
<1>2. lwCode.stored \in 0..LwMaxCode /\ lwCode.displaced \in 0..LwMaxCode BY DEF LwTypes
<1>3. new \in LwCallRecord BY <1>1, <1>2 DEF LwCallRecord
<1>8. /\ new.phase = "called" /\ new.worker = LwNoWorker
      /\ new.code = lwCode.stored /\ new.need = lwCode.displaced
  BY <1>1 DEF LwCallRecord
<1>4. lwCall' = [lwCall EXCEPT ![c] = new] BY DEF LwInvoke
<1>5. lwCall \in [LwCalls -> LwCallRecord] BY DEF LwTypes
<1>6. lwCall'[c] = new /\ \A d \in LwCalls : d # c => lwCall'[d] = lwCall[d] BY <1>4, <1>5
<1>7. lwCall' \in [LwCalls -> LwCallRecord] BY <1>3, <1>4, <1>5
<1> HIDE DEF new
<1> QED BY <1>6, <1>7, <1>8 DEF LwOthers, LwSame, LwInvoke

LEMMA LwLeasedCall ==
  ASSUME LwTypes, NEW c \in LwCalls, NEW w \in LwWorkers, LwLeased(c, w)
  PROVE  /\ lwCall' \in [LwCalls -> LwCallRecord] /\ LwOthers(c)
         /\ lwCall'[c].phase = "leased" /\ lwCall'[c].worker = w
         /\ lwCall'[c].code = lwCall[c].code /\ lwCall'[c].need = lwCall[c].need
<1>1. lwCall \in [LwCalls -> LwCallRecord] BY DEF LwTypes
<1>2. lwCall' = [lwCall EXCEPT ![c] = [lwCall[c] EXCEPT !.phase = "leased", !.worker = w]]
  BY <1>1 DEF LwLeased, LwCallRecord
<1>3. [lwCall[c] EXCEPT !.phase = "leased", !.worker = w] \in LwCallRecord BY <1>1 DEF LwCallRecord
<1>4. lwCall'[c] = [lwCall[c] EXCEPT !.phase = "leased", !.worker = w] BY <1>1, <1>2
<1>5. \A d \in LwCalls : d # c => lwCall'[d] = lwCall[d] BY <1>1, <1>2
<1>6. lwCall' \in [LwCalls -> LwCallRecord] BY <1>1, <1>2, <1>3
<1> QED BY <1>1, <1>4, <1>5, <1>6 DEF LwOthers, LwSame, LwCallRecord

LEMMA LwRunCall ==
  ASSUME LwTypes, NEW c \in LwCalls, LwRun(c)
  PROVE  /\ lwCall' \in [LwCalls -> LwCallRecord] /\ LwOthers(c)
         /\ lwCall'[c].phase = "running" /\ lwCall'[c].worker = lwCall[c].worker
         /\ lwCall'[c].code = lwCall[c].code /\ lwCall'[c].need = lwCall[c].need
<1>1. lwCall \in [LwCalls -> LwCallRecord] BY DEF LwTypes
<1>2. lwCall' = [lwCall EXCEPT ![c] = [lwCall[c] EXCEPT !.phase = "running"]]
  BY <1>1 DEF LwRun, LwCallRecord
<1>3. [lwCall[c] EXCEPT !.phase = "running"] \in LwCallRecord BY <1>1 DEF LwCallRecord
<1>4. lwCall'[c] = [lwCall[c] EXCEPT !.phase = "running"] BY <1>1, <1>2
<1>5. \A d \in LwCalls : d # c => lwCall'[d] = lwCall[d] BY <1>1, <1>2
<1>6. lwCall' \in [LwCalls -> LwCallRecord] BY <1>1, <1>2, <1>3
<1> QED BY <1>1, <1>4, <1>5, <1>6 DEF LwOthers, LwSame, LwCallRecord

LEMMA LwEndedCall ==
  ASSUME LwTypes, NEW c \in LwCalls, LwEnded(c)
  PROVE  /\ lwCall' \in [LwCalls -> LwCallRecord] /\ LwOthers(c)
         /\ lwCall'[c].phase = "idle" /\ lwCall'[c].worker = LwNoWorker /\ lwCall'[c].need = 0
<1>1. lwCall \in [LwCalls -> LwCallRecord] BY DEF LwTypes
<1>2. LwIdleCall \in LwCallRecord BY LwNumbers DEF LwIdleCall, LwCallRecord
<1>3. lwCall'[c] = LwIdleCall BY DEF LwEnded
<1>4. \A d \in LwCalls : d # c =>
        lwCall'[d] = lwCall[d] \/ lwCall'[d] = [lwCall[d] EXCEPT !.parent = LwNobody]
  BY DEF LwEnded
<1>5. \A d \in LwCalls : [lwCall[d] EXCEPT !.parent = LwNobody] \in LwCallRecord BY <1>1 DEF LwCallRecord
<1>6. \A d \in LwCalls : lwCall'[d] \in LwCallRecord BY <1>1, <1>2, <1>3, <1>4, <1>5
<1>7. lwCall' \in [LwCalls -> LwCallRecord] BY <1>6 DEF LwEnded
<1>8. LwOthers(c)
  <2> SUFFICES ASSUME NEW d \in LwCalls, d # c PROVE LwSame(d) BY DEF LwOthers
  <2>1. lwCall[d] \in LwCallRecord BY <1>1
  <2> QED BY <1>4, <2>1 DEF LwSame, LwCallRecord
<1> QED BY <1>3, <1>7, <1>8 DEF LwIdleCall

(* What a step does to the worker it is about.                              *)
LwOtherWorkers(w) == \A v \in LwWorkers : v # w => lwWorker'[v] = lwWorker[v]
LwTaken(c, w) ==
  /\ w \in LwPooled /\ ~lwWorker[w].inUse /\ lwPool' = lwPool
  /\ lwWorker'[w].proc = lwWorker[w].proc /\ lwWorker'[w].lock = lwWorker[w].lock
  /\ lwWorker'[w].code = lwWorker[w].code /\ lwWorker'[w].late = lwWorker[w].late
LwMade(c, w) ==
  /\ w \in LwUnmade /\ lwPool' = Append(lwPool, w)
  /\ lwWorker'[w].proc = FALSE /\ lwWorker'[w].lock = LwNobody
  /\ lwWorker'[w].code = lwCall[c].code /\ lwWorker'[w].late = (lwCall[c].code < lwCode.displaced)

LEMMA LwAcquired ==
  ASSUME LwTypes, NEW c \in LwCalls, LwAcquire(c)
  PROVE  \E w \in LwWorkers :
           /\ LwLeased(c, w) /\ LwOtherWorkers(w) /\ (LwTaken(c, w) \/ LwMade(c, w))
           /\ lwWorker' \in [LwWorkers -> LwWorkerRecord] /\ lwWorker'[w].inUse = ~LwSocket(c)
           /\ lwCall[c].phase = "called" /\ UNCHANGED <<lwCode, lwDoomed>>
<1>1. /\ lwWorker \in [LwWorkers -> LwWorkerRecord] /\ lwCall[c].code \in 0..LwMaxCode
      /\ \A i \in DOMAIN lwPool : lwPool[i] \in LwWorkers
  BY DEF LwTypes, LwCallRecord
<1>2. LwKeepsLease(c) \in BOOLEAN /\ LwKeepsLease(c) = ~LwSocket(c) BY DEF LwKeepsLease, LwSocket
<1>3. CASE \E i \in DOMAIN lwPool :
             /\ ~lwWorker[lwPool[i]].inUse /\ LwLeased(c, lwPool[i]) /\ lwPool' = lwPool
             /\ lwWorker' = [lwWorker EXCEPT ![lwPool[i]].inUse = LwKeepsLease(c)]
  <2>1. PICK i \in DOMAIN lwPool :
             /\ ~lwWorker[lwPool[i]].inUse /\ LwLeased(c, lwPool[i]) /\ lwPool' = lwPool
             /\ lwWorker' = [lwWorker EXCEPT ![lwPool[i]].inUse = LwKeepsLease(c)]
    BY <1>3
  <2> DEFINE w == lwPool[i]
  <2>2. w \in LwWorkers /\ w \in LwPooled BY <1>1 DEF LwPooled
  <2>3. ~lwWorker[w].inUse /\ LwLeased(c, w) /\ lwPool' = lwPool
        /\ lwWorker' = [lwWorker EXCEPT ![w].inUse = LwKeepsLease(c)]
    BY <2>1
  <2> HIDE DEF w
  <2>4. lwWorker' = [lwWorker EXCEPT ![w] = [lwWorker[w] EXCEPT !.inUse = LwKeepsLease(c)]]
    BY <1>1, <2>2, <2>3 DEF LwWorkerRecord
  <2>5. [lwWorker[w] EXCEPT !.inUse = LwKeepsLease(c)] \in LwWorkerRecord
    <3>1. lwWorker[w] \in LwWorkerRecord BY <1>1, <2>2
    <3> QED BY <1>2, <3>1 DEF LwWorkerRecord
  <2>6. lwWorker'[w] = [lwWorker[w] EXCEPT !.inUse = LwKeepsLease(c)] BY <1>1, <2>2, <2>4
  <2>7. LwOtherWorkers(w) BY <1>1, <2>2, <2>4 DEF LwOtherWorkers
  <2>8. lwWorker' \in [LwWorkers -> LwWorkerRecord] BY <1>1, <2>4, <2>5
  <2>9. lwWorker'[w].inUse = ~LwSocket(c) /\ LwTaken(c, w)
    BY <1>1, <1>2, <2>2, <2>3, <2>6 DEF LwTaken, LwWorkerRecord
  <2> QED BY <2>2, <2>3, <2>7, <2>8, <2>9 DEF LwAcquire
<1>4. CASE \E w \in LwUnmade :
             /\ LwLeased(c, w) /\ lwPool' = Append(lwPool, w)
             /\ lwWorker' = [lwWorker EXCEPT ![w] =
                  [LwBlank EXCEPT !.inUse = LwKeepsLease(c), !.code = lwCall[c].code,
                                  !.late = lwCall[c].code < lwCode.displaced]]
  <2> DEFINE late == lwCall[c].code < lwCode.displaced
             new == [LwBlank EXCEPT !.inUse = LwKeepsLease(c), !.code = lwCall[c].code, !.late = late]
  <2>1. PICK w \in LwUnmade : LwLeased(c, w) /\ lwPool' = Append(lwPool, w)
                              /\ lwWorker' = [lwWorker EXCEPT ![w] = new]
    BY <1>4
  <2>2. w \in LwWorkers BY DEF LwUnmade
  <2>3. LwBlank \in LwWorkerRecord /\ LwBlank.proc = FALSE /\ LwBlank.lock = LwNobody
    BY LwNumbers DEF LwBlank, LwWorkerRecord
  <2>a. late \in BOOLEAN OBVIOUS
  <2> HIDE DEF late
  <2>4. new \in LwWorkerRecord BY <1>1, <1>2, <2>a, <2>3 DEF LwWorkerRecord
  <2>5. /\ new.inUse = ~LwSocket(c) /\ new.proc = FALSE /\ new.lock = LwNobody
        /\ new.code = lwCall[c].code /\ new.late = late
    BY <1>2, <2>3 DEF LwWorkerRecord
  <2> HIDE DEF new
  <2>6. lwWorker'[w] = new /\ LwOtherWorkers(w) BY <1>1, <2>1, <2>2 DEF LwOtherWorkers
  <2>7. lwWorker' \in [LwWorkers -> LwWorkerRecord] BY <1>1, <2>1, <2>4
  <2>8. LwMade(c, w) /\ lwWorker'[w].inUse = ~LwSocket(c) BY <2>1, <2>5, <2>6 DEF LwMade, late
  <2> QED BY <2>1, <2>2, <2>6, <2>7, <2>8 DEF LwAcquire
<1>5. LwUnmade # {} => (CHOOSE x \in LwUnmade : TRUE) \in LwUnmade OBVIOUS
<1> QED BY <1>3, <1>4, <1>5 DEF LwAcquire

LEMMA LwRunWorker ==
  ASSUME LwTypes, NEW c \in LwCalls, LwRun(c), NEW w \in LwWorkers, w = lwCall[c].worker
  PROVE  /\ LwOtherWorkers(w) /\ lwWorker' \in [LwWorkers -> LwWorkerRecord]
         /\ lwWorker'[w].inUse = lwWorker[w].inUse /\ lwWorker'[w].proc = TRUE /\ lwWorker'[w].lock = c
         /\ lwWorker'[w].code = lwWorker[w].code
         /\ lwWorker'[w].late = (lwWorker[w].late \/ (~lwWorker[w].proc /\ w \notin LwPooled))
<1> DEFINE late == lwWorker[w].late \/ (~lwWorker[w].proc /\ w \notin LwPooled)
           new == [lwWorker[w] EXCEPT !.lock = c, !.proc = TRUE, !.late = late]
<1>1. lwWorker \in [LwWorkers -> LwWorkerRecord] BY DEF LwTypes
<1>2. lwWorker[w] \in LwWorkerRecord BY <1>1
<1>3. lwWorker' = [lwWorker EXCEPT ![w].lock = c, ![w].proc = TRUE, ![w].late = @ \/ (~lwWorker[w].proc /\ w \notin LwPooled)]
  BY DEF LwRun
<1>4. lwWorker' = [lwWorker EXCEPT ![w] = new] BY <1>1, <1>2, <1>3 DEF LwWorkerRecord
<1>5. late \in BOOLEAN BY <1>2 DEF LwWorkerRecord
<1> HIDE DEF late
<1>6. new \in LwWorkerRecord BY <1>2, <1>5 DEF LwWorkerRecord
<1>7. /\ new.inUse = lwWorker[w].inUse /\ new.proc = TRUE /\ new.lock = c
      /\ new.code = lwWorker[w].code /\ new.late = late
  BY <1>2 DEF LwWorkerRecord
<1> HIDE DEF new
<1>8. lwWorker'[w] = new /\ LwOtherWorkers(w) BY <1>1, <1>4 DEF LwOtherWorkers
<1>9. lwWorker' \in [LwWorkers -> LwWorkerRecord] BY <1>1, <1>4, <1>6
<1> QED BY <1>7, <1>8, <1>9 DEF late

LEMMA LwReleasedWorker ==
  ASSUME LwTypes, NEW c \in LwCalls, LwAnswer(c) \/ LwError(c), NEW w \in LwWorkers, w = lwCall[c].worker
  PROVE  /\ LwOtherWorkers(w) /\ lwWorker' \in [LwWorkers -> LwWorkerRecord]
         /\ ~LwSocket(c) \/ lwWorker'[w].inUse = lwWorker[w].inUse
         /\ lwWorker'[w].proc => lwWorker[w].proc
         /\ lwWorker'[w].lock = LwNobody
         /\ lwWorker'[w].code = lwWorker[w].code /\ lwWorker'[w].late = lwWorker[w].late
<1>1. lwWorker \in [LwWorkers -> LwWorkerRecord] BY DEF LwTypes
<1>2. lwWorker[w] \in LwWorkerRecord BY <1>1
<1>3. LwReleased(c, w) \in LwWorkerRecord BY <1>2 DEF LwReleased, LwWorkerRecord
<1>4. LwReleased(c, w) = [lwWorker[w] EXCEPT !.lock = LwNobody,
                                             !.inUse = IF LwSocket(c) THEN lwWorker[w].inUse ELSE FALSE]
  BY <1>2 DEF LwReleased, LwWorkerRecord
<1> DEFINE old == LwReleased(c, w)
           dead == [LwReleased(c, w) EXCEPT !.proc = FALSE]
<1>5. /\ LwSocket(c) => old.inUse = lwWorker[w].inUse
      /\ old.proc = lwWorker[w].proc /\ old.lock = LwNobody
      /\ old.code = lwWorker[w].code /\ old.late = lwWorker[w].late
  BY <1>2, <1>4 DEF LwWorkerRecord
<1>6. /\ dead \in LwWorkerRecord /\ dead.inUse = old.inUse /\ dead.proc = FALSE /\ dead.lock = old.lock
      /\ dead.code = old.code /\ dead.late = old.late
  BY <1>3 DEF LwWorkerRecord
<1>7. lwWorker' = [lwWorker EXCEPT ![w] = old] \/ lwWorker' = [lwWorker EXCEPT ![w] = dead]
  BY DEF LwAnswer, LwError
<1> HIDE DEF old, dead
<1>8. (lwWorker'[w] = old \/ lwWorker'[w] = dead) /\ LwOtherWorkers(w) BY <1>1, <1>7 DEF LwOtherWorkers
<1>9. lwWorker' \in [LwWorkers -> LwWorkerRecord] BY <1>1, <1>3, <1>6, <1>7 DEF old
<1> QED BY <1>5, <1>6, <1>8, <1>9

LEMMA LwKilledWorker ==
  ASSUME LwTypes, NEW w \in LwWorkers, LwKill(w)
  PROVE  /\ LwOtherWorkers(w) /\ lwWorker' \in [LwWorkers -> LwWorkerRecord]
         /\ lwWorker'[w].inUse = lwWorker[w].inUse /\ ~lwWorker'[w].proc
         /\ lwWorker'[w].lock = lwWorker[w].lock
         /\ lwWorker'[w].code = lwWorker[w].code /\ lwWorker'[w].late = lwWorker[w].late
<1>1. lwWorker \in [LwWorkers -> LwWorkerRecord] BY DEF LwTypes
<1>2. lwWorker' = [lwWorker EXCEPT ![w] = [lwWorker[w] EXCEPT !.proc = FALSE]]
  BY <1>1 DEF LwKill, LwWorkerRecord
<1>3. [lwWorker[w] EXCEPT !.proc = FALSE] \in LwWorkerRecord BY <1>1 DEF LwWorkerRecord
<1>4. lwWorker'[w] = [lwWorker[w] EXCEPT !.proc = FALSE] /\ LwOtherWorkers(w)
  BY <1>1, <1>2 DEF LwOtherWorkers
<1>5. lwWorker' \in [LwWorkers -> LwWorkerRecord] BY <1>1, <1>2, <1>3
<1> QED BY <1>1, <1>4, <1>5 DEF LwWorkerRecord

(* What a step does to the pool.                                            *)
LEMMA LwAppended ==
  ASSUME LwTypes, NEW w \in LwWorkers, lwPool' = Append(lwPool, w)
  PROVE  /\ lwPool' \in Seq(LwWorkers) /\ LwPooled' = LwPooled \cup {w}
         /\ LwDistinct /\ w \notin LwPooled => LwDistinct'
<1>1. lwPool \in Seq(LwWorkers) BY DEF LwTypes
<1>2. /\ lwPool' \in Seq(LwWorkers) /\ Len(lwPool') = Len(lwPool) + 1 /\ Len(lwPool) \in Nat
      /\ DOMAIN lwPool = 1..Len(lwPool) /\ DOMAIN lwPool' = 1..Len(lwPool')
      /\ lwPool'[Len(lwPool) + 1] = w /\ \A i \in 1..Len(lwPool) : lwPool'[i] = lwPool[i]
  BY <1>1
<1>3. LwPooled' = LwPooled \cup {w} BY <1>2 DEF LwPooled
<1>4. ASSUME LwDistinct, w \notin LwPooled, NEW i \in 1..Len(lwPool'), NEW j \in 1..Len(lwPool'), lwPool'[i] = lwPool'[j]
      PROVE i = j
  BY <1>2, <1>4 DEF LwDistinct, LwPooled
<1> QED BY <1>2, <1>3, <1>4 DEF LwDistinct

LEMMA LwReaped ==
  ASSUME LwTypes, LwDistinct, NEW old \in SUBSET LwPooled, LwReap(old)
  PROVE  /\ lwPool' \in Seq(LwWorkers) /\ LwDistinct' /\ LwPooled' \subseteq LwPooled
         /\ LwPooled \subseteq LwPooled' \cup lwDoomed' /\ lwDoomed \subseteq lwDoomed'
         /\ lwDoomed' \subseteq LwWorkers /\ UNCHANGED <<lwCode, lwWorker, lwCall>>
<1> DEFINE I == {i \in DOMAIN lwPool : lwPool[i] \in old}
           K == {i \in DOMAIN lwPool : lwPool[i] \notin old}
           n == Len(lwPool)
           m == Len(lwPool) - Cardinality(old)
<1>1. n \in Nat /\ DOMAIN lwPool = 1..n /\ \A i \in 1..n : lwPool[i] \in LwWorkers BY DEF LwTypes
<1>2. IsFiniteSet(LwPooled) /\ LwPooled \subseteq LwWorkers /\ Len(lwPool) = Cardinality(LwPooled)
  BY ListImage DEF LwPooled, LwTypes, LwDistinct
<1>3. IsFiniteSet(old) /\ Cardinality(old) \in Nat /\ Cardinality(old) <= n
  BY <1>2, FS_Subset, FS_CardinalityType
<1>4. m \in Nat BY <1>1, <1>3
<1>5. PICK at \in [1..m -> K] : /\ \A i, j \in DOMAIN at : i < j => at[i] < at[j]
                                /\ lwPool' = [i \in DOMAIN at |-> lwPool[at[i]]]
  <2> DEFINE killed == {w \in old : LwSurplus(w)}
  <2>1. killed = old BY DEF LwReap
  <2>2. \E at \in [1..(Len(lwPool) - Cardinality(killed)) -> {i \in DOMAIN lwPool : lwPool[i] \notin killed}] :
          /\ \A i, j \in DOMAIN at : i < j => at[i] < at[j]
          /\ lwPool' = [i \in DOMAIN at |-> lwPool[at[i]]]
    BY Zenon DEF LwReap
  <2> HIDE DEF killed
  <2> QED BY <2>1, <2>2, Zenon
<1>6. DOMAIN at = 1..m /\ \A i \in 1..m : at[i] \in K /\ at[i] \in 1..n BY <1>1, <1>5
<1>7. \A i, j \in 1..m : at[i] = at[j] => i = j
  <2> TAKE i, j \in 1..m
  <2>1. at[i] \in Nat /\ at[j] \in Nat /\ i \in Nat /\ j \in Nat BY <1>1, <1>4, <1>6
  <2>2. i < j => at[i] < at[j] BY <1>5, <1>6
  <2>3. j < i => at[j] < at[i] BY <1>5, <1>6
  <2> QED BY <2>1, <2>2, <2>3
<1>8. \A k \in K : \E i \in 1..m : at[i] = k
  <2>1. IsFiniteSet(1..n) /\ Cardinality(1..n) = n
    <3>1. 1 \in Int /\ n \in Int BY <1>1
    <3>2. /\ IsFiniteSet(1..n)
          /\ Cardinality(1..n) = IF 1 > n THEN 0 ELSE n - 1 + 1
      BY <3>1, FS_Interval, Zenon
    <3>3. n \in Nat BY <1>1
    <3> HIDE DEF n
    <3> QED BY <3>2, <3>3, SMT
  <2>2. IsFiniteSet(1..m) /\ Cardinality(1..m) = m
    <3>1. 1 \in Int /\ m \in Int BY <1>4
    <3>2. /\ IsFiniteSet(1..m)
          /\ Cardinality(1..m) = IF 1 > m THEN 0 ELSE m - 1 + 1
      BY <3>1, FS_Interval, Zenon
    <3> HIDE DEF m
    <3> QED BY <1>4, <3>2, SMT
  <2>3. IsFiniteSet(I) /\ IsFiniteSet(K) BY <1>1, <2>1, FS_Subset
  <2>4. Cardinality(I) = Cardinality(old)
    <3> DEFINE f == [i \in I |-> lwPool[i]]
    <3>1. f \in [I -> old] OBVIOUS
    <3>2. \A i, j \in I : f[i] = f[j] => i = j BY <1>1 DEF LwDistinct
    <3>3. \A w \in old : \E i \in I : f[i] = w BY DEF LwPooled
    <3> HIDE DEF f, I
    <3>4. f \in Bijection(I, old) BY <3>1, <3>2, <3>3 DEF Bijection, Injection, IsInjective, Surjection
    <3> QED BY <2>3, <3>4, FS_Bijection DEF ExistsBijection
  <2>5. I \cup K = 1..n /\ I \cap K = {} BY <1>1
  <2>6. Cardinality(1..n) = Cardinality(I) + Cardinality(K) - Cardinality({}) BY <2>3, <2>5, FS_Union
  <2>7. Cardinality(K) = m
    <3>1. Cardinality({}) = 0 BY FS_EmptySet
    <3>2. Cardinality(K) \in Nat BY <2>3, FS_CardinalityType
    <3> HIDE DEF K, I
    <3> QED BY <1>1, <1>3, <2>1, <2>4, <2>6, <3>1, <3>2
  <2>8. at \in Injection(1..m, K) BY <1>5, <1>7 DEF Injection, IsInjective
  <2>9. at \in Surjection(1..m, K) BY <2>2, <2>3, <2>7, <2>8, FS_Injection
  <2> HIDE DEF K, m
  <2> QED BY <2>9 DEF Surjection
<1> HIDE DEF m
<1>9. lwPool' = [i \in 1..m |-> lwPool[at[i]]] BY <1>5, <1>6
<1>10. lwPool' \in Seq(LwWorkers) /\ Len(lwPool') = m /\ DOMAIN lwPool' = 1..m
  BY <1>1, <1>4, <1>6, <1>9
<1>11. LwDistinct'
  <2> SUFFICES ASSUME NEW i \in 1..m, NEW j \in 1..m, lwPool'[i] = lwPool'[j] PROVE i = j
    BY <1>10 DEF LwDistinct
  <2>1. lwPool[at[i]] = lwPool[at[j]] BY <1>9
  <2>2. at[i] \in 1..Len(lwPool) /\ at[j] \in 1..Len(lwPool) BY <1>6
  <2>3. at[i] = at[j] BY <2>1, <2>2 DEF LwDistinct
  <2> QED BY <1>7, <2>3
<1>12. LwPooled' \subseteq LwPooled BY <1>1, <1>6, <1>9, <1>10 DEF LwPooled
<1>13. LwPooled \subseteq LwPooled' \cup old
  <2> SUFFICES ASSUME NEW i \in 1..n, lwPool[i] \notin old PROVE lwPool[i] \in LwPooled'
    BY <1>1 DEF LwPooled
  <2>1. i \in K BY <1>1
  <2>2. PICK j \in 1..m : at[j] = i BY <1>8, <2>1
  <2> QED BY <1>9, <1>10, <2>2 DEF LwPooled
<1>14. lwDoomed' = lwDoomed \cup old /\ lwDoomed \subseteq LwWorkers /\ UNCHANGED <<lwCode, lwWorker, lwCall>>
  BY DEF LwReap, LwTypes
<1> QED BY <1>2, <1>10, <1>11, <1>12, <1>13, <1>14

-----------------------------------------------------------------------------
LEMMA LwInitInv == LwInit => LwInv
<1> SUFFICES ASSUME LwInit PROVE LwInv OBVIOUS
<1>1. LwTypes
  <2>1. LwIdleCall \in LwCallRecord BY LwNumbers DEF LwIdleCall, LwCallRecord
  <2>2. LwBlank \in LwWorkerRecord BY LwNumbers DEF LwBlank, LwWorkerRecord
  <2> QED BY LwNumbers, <2>1, <2>2 DEF LwInit, LwTypes
<1>2. \A c \in LwCalls : /\ lwCall[c].phase = "idle" /\ lwCall[c].worker = LwNoWorker /\ lwCall[c].need = 0
  BY DEF LwInit, LwIdleCall
<1>3. \A w \in LwWorkers : ~lwWorker[w].proc /\ lwWorker[w].lock = LwNobody BY DEF LwInit, LwBlank
<1>4. LwPooled = {} /\ Len(lwPool) = 0 BY DEF LwInit, LwPooled
<1>5. LwLeases BY <1>2, <1>3 DEF LwLeases, LwOwns, LwAlone, LwLocked, LwActive
<1>6. LwCodes BY <1>2, <1>4 DEF LwCodes, LwBegun, LwNewest, LwActive, LwInit
<1>7. LwDistinct /\ LwProcs BY <1>3, <1>4 DEF LwDistinct, LwProcs
<1> QED BY <1>1, <1>5, <1>6, <1>7 DEF LwInv

(* A call that has a worker has one of LwWorkers.                           *)
LEMMA LwHasWorker ==
  ASSUME LwTypes, LwLeases, NEW c \in LwCalls, LwActive(c)
  PROVE  lwCall[c].worker \in LwWorkers
BY DEF LwTypes, LwLeases, LwOwns, LwAlone, LwLocked, LwCallRecord

(* The pool is emptied.                                                     *)
LEMMA LwEmptied ==
  ASSUME LwTypes, LwInvalidate
  PROVE  /\ lwPool' \in Seq(LwWorkers) /\ Len(lwPool') = 0 /\ LwPooled' = {} /\ LwDistinct'
         /\ lwDoomed' = lwDoomed \cup LwPooled /\ lwDoomed' \subseteq LwWorkers
BY DEF LwTypes, LwInvalidate, LwPooled, LwDistinct

LEMMA LwTypeStep == LwTypes /\ LwDistinct /\ LwLeases /\ [LwNext]_lwVars => LwTypes' /\ LwDistinct'
<1> SUFFICES ASSUME LwTypes, LwDistinct, LwLeases, [LwNext]_lwVars PROVE LwTypes' /\ LwDistinct' OBVIOUS
<1> USE DEF LwTypes
<1>a. ASSUME UNCHANGED lwPool PROVE LwDistinct' BY <1>a DEF LwDistinct
<1>1. CASE LwUpdateCode
  <2>1. lwCode.stored + 1 \in 0..LwMaxCode BY <1>1, LwNumbers DEF LwUpdateCode
  <2> QED BY <1>1, <1>a, <2>1 DEF LwUpdateCode
<1>2. CASE LwDisplace
  <2>1. lwCode' \in [stored : 0..LwMaxCode, displaced : 0..LwMaxCode] BY <1>2 DEF LwDisplace
  <2> QED BY <1>2, <2>1, LwEmptied DEF LwDisplace
<1>3. CASE LwReset BY <1>3, LwEmptied DEF LwReset
<1>4. ASSUME NEW old \in SUBSET LwPooled, LwReap(old) PROVE LwTypes' /\ LwDistinct'
  BY <1>4, LwReaped
<1>5. ASSUME NEW w \in LwWorkers, LwKill(w) PROVE LwTypes' /\ LwDistinct'
  BY <1>5, <1>a, LwKilledWorker DEF LwKill
<1>6. ASSUME NEW c \in LwCalls, NEW p \in LwCalls \cup {LwNobody}, LwInvoke(c, p) PROVE LwTypes' /\ LwDistinct'
  BY <1>6, <1>a, LwInvoked
<1>7. ASSUME NEW c \in LwCalls, LwAcquire(c) PROVE LwTypes' /\ LwDistinct'
  <2>1. PICK w \in LwWorkers :
           /\ LwLeased(c, w) /\ (LwTaken(c, w) \/ LwMade(c, w))
           /\ lwWorker' \in [LwWorkers -> LwWorkerRecord] /\ UNCHANGED <<lwCode, lwDoomed>>
    BY <1>7, LwAcquired
  <2>2. lwCall' \in [LwCalls -> LwCallRecord] BY <2>1, LwLeasedCall
  <2>3. CASE LwTaken(c, w) BY <1>a, <2>1, <2>2, <2>3 DEF LwTaken
  <2>4. CASE LwMade(c, w)
    <3>1. lwPool' \in Seq(LwWorkers) /\ LwDistinct' BY <2>4, LwAppended DEF LwMade, LwUnmade
    <3> QED BY <2>1, <2>2, <3>1
  <2> QED BY <2>1, <2>3, <2>4
<1>8. ASSUME NEW c \in LwCalls, LwRun(c) PROVE LwTypes' /\ LwDistinct'
  <2>1. lwCall[c].worker \in LwWorkers BY <1>8, LwHasWorker DEF LwRun, LwActive
  <2>2. lwCall' \in [LwCalls -> LwCallRecord] BY <1>8, LwRunCall
  <2>3. lwWorker' \in [LwWorkers -> LwWorkerRecord] BY <1>8, <2>1, LwRunWorker
  <2> QED BY <1>8, <1>a, <2>2, <2>3 DEF LwRun
<1>9. ASSUME NEW c \in LwCalls, LwAnswer(c) \/ LwError(c) PROVE LwTypes' /\ LwDistinct'
  <2>1. lwCall[c].worker \in LwWorkers BY <1>9, LwHasWorker DEF LwAnswer, LwError, LwActive
  <2>2. lwCall' \in [LwCalls -> LwCallRecord] BY <1>9, LwEndedCall DEF LwAnswer, LwError
  <2>3. lwWorker' \in [LwWorkers -> LwWorkerRecord] BY <1>9, <2>1, LwReleasedWorker
  <2> QED BY <1>9, <1>a, <2>2, <2>3 DEF LwAnswer, LwError
<1>10. ASSUME NEW c \in LwCalls, LwSpawnFails(c) PROVE LwTypes' /\ LwDistinct'
  <2>1. lwCall' \in [LwCalls -> LwCallRecord] BY <1>10, LwEndedCall DEF LwSpawnFails
  <2>2. lwPool' \in Seq(LwWorkers) /\ LwDistinct' /\ lwDoomed' \subseteq LwWorkers
    BY <1>10, <1>a, LwEmptied DEF LwSpawnFails
  <2> QED BY <1>10, <2>1, <2>2 DEF LwSpawnFails
<1>11. CASE UNCHANGED lwVars BY <1>11, <1>a DEF lwVars
<1> QED BY <1>1, <1>2, <1>3, <1>4, <1>5, <1>6, <1>7, <1>8, <1>9, <1>10, <1>11 DEF LwNext

(* A worker nobody refers to is not locked either.                          *)
LEMMA LwLeaseStep == LwTypes /\ LwLeases /\ [LwNext]_lwVars => LwLeases'
<1> SUFFICES ASSUME LwTypes, LwLeases, [LwNext]_lwVars PROVE LwLeases' OBVIOUS
<1> USE LwNumbers
<1>0. /\ \A c \in LwCalls : lwCall[c].worker \in LwWorkers \cup {LwNoWorker}
      /\ \A w \in LwWorkers : lwWorker[w].lock \in LwCalls \cup {LwNobody} /\ lwWorker[w].inUse \in BOOLEAN
  BY DEF LwTypes, LwCallRecord, LwWorkerRecord
<1>a. ASSUME UNCHANGED lwCall, UNCHANGED lwWorker PROVE LwLeases'
  BY <1>a DEF LwLeases, LwOwns, LwAlone, LwLocked, LwActive
<1>1. CASE LwUpdateCode \/ LwDisplace \/ LwReset \/ UNCHANGED lwVars
  BY <1>1, <1>a DEF LwUpdateCode, LwDisplace, LwReset, lwVars
<1>2. ASSUME NEW old \in SUBSET LwPooled, LwReap(old) PROVE LwLeases'
  BY <1>2, <1>a DEF LwReap
<1>3. ASSUME NEW w \in LwWorkers, LwKill(w) PROVE LwLeases'
  <2>1. /\ lwCall' = lwCall
        /\ \A v \in LwWorkers : lwWorker'[v].inUse = lwWorker[v].inUse /\ lwWorker'[v].lock = lwWorker[v].lock
    BY <1>3, LwKilledWorker DEF LwKill, LwOtherWorkers
  <2>2. \A d \in LwCalls : LwActive(d) => lwCall[d].worker \in LwWorkers BY LwHasWorker
  <2>3. LwOwns' BY <2>1, <2>2 DEF LwLeases, LwOwns, LwActive
  <2>4. LwAlone' BY <2>1 DEF LwLeases, LwOwns, LwAlone, LwLocked, LwAlone, LwActive
  <2>5. LwLocked' BY <2>1 DEF LwLeases, LwOwns, LwAlone, LwLocked, LwLocked
  <2> QED BY <2>3, <2>4, <2>5 DEF LwLeases
<1>4. ASSUME NEW c \in LwCalls, NEW p \in LwCalls \cup {LwNobody}, LwInvoke(c, p) PROVE LwLeases'
  <2>1. /\ lwWorker' = lwWorker /\ LwOthers(c)
        /\ lwCall'[c].phase = "called" /\ lwCall'[c].worker = LwNoWorker /\ lwCall[c].phase = "idle"
    BY <1>4, LwInvoked DEF LwInvoke
  <2> QED BY <1>0, <2>1 DEF LwLeases, LwOwns, LwAlone, LwLocked, LwActive, LwOthers, LwSame
<1>5. ASSUME NEW c \in LwCalls, LwAcquire(c) PROVE LwLeases'
  <2>1. PICK w \in LwWorkers :
           /\ LwLeased(c, w) /\ LwOtherWorkers(w) /\ (LwTaken(c, w) \/ LwMade(c, w))
           /\ lwWorker'[w].inUse = ~LwSocket(c) /\ lwCall[c].phase = "called"
    BY <1>5, LwAcquired
  <2>2. LwOthers(c) /\ lwCall'[c].phase = "leased" /\ lwCall'[c].worker = w BY <2>1, LwLeasedCall
  <2>3. \A d \in LwCalls : d # c /\ LwActive(d) /\ ~LwSocket(d) => lwCall[d].worker # w
    BY <2>1 DEF LwTaken, LwMade, LwUnmade, LwHeld, LwLeases, LwOwns, LwAlone, LwLocked
  <2>4. lwWorker'[w].lock = lwWorker[w].lock
    <3>1. CASE LwTaken(c, w) BY <3>1 DEF LwTaken
    <3>2. CASE LwMade(c, w)
      <4>1. ~LwHeld(w) /\ lwWorker'[w].lock = LwNobody BY <3>2 DEF LwMade, LwUnmade
      <4>2. lwWorker[w].lock = LwNobody BY <1>0, <4>1 DEF LwHeld, LwLeases, LwOwns, LwAlone, LwLocked
      <4> QED BY <4>1, <4>2
    <3> QED BY <2>1, <3>1, <3>2
  <2>5. \A v \in LwWorkers : lwWorker'[v].lock = lwWorker[v].lock BY <2>1, <2>4 DEF LwOtherWorkers
  <2>6. \A d \in LwCalls : d # c /\ LwActive(d) /\ ~LwSocket(d) => lwWorker'[lwCall[d].worker].inUse
    BY <1>0, <2>1, <2>3 DEF LwOtherWorkers, LwLeases, LwOwns, LwAlone, LwLocked
  <2>7. lwCall[c].phase = "called" BY <2>1
  <2>8. \A d \in LwCalls : d # c => LwSame(d) BY <2>2 DEF LwOthers
  <2>9. LwActive(c)' /\ \A d \in LwCalls : d # c => (LwActive(d)' <=> LwActive(d))
    BY <2>2, <2>8 DEF LwActive, LwSame
  <2>10. \A d \in LwCalls :
       /\ LwActive(d)' <=> lwCall'[d].worker # LwNoWorker
       /\ LwActive(d)' /\ ~LwSocket(d) => lwWorker'[lwCall'[d].worker].inUse
       /\ lwCall'[d].phase = "running" => lwWorker'[lwCall'[d].worker].lock = d
    <3> TAKE d \in LwCalls
    <3>1. CASE d = c BY <2>1, <2>2, <2>9, <3>1
    <3>2. CASE d # c
      <4>1. LwSame(d) BY <2>8, <3>2
      <4>2. LwActive(d) => lwCall[d].worker \in LwWorkers BY LwHasWorker
      <4>3. LwActive(d)' => lwCall'[d].worker \in LwWorkers /\ lwCall'[d].worker # LwNoWorker
        BY <2>9, <3>2, <4>1, <4>2 DEF LwSame
      <4>4. lwCall'[d].worker # LwNoWorker => LwActive(d)'
        BY <2>9, <3>2, <4>1 DEF LwSame, LwLeases, LwOwns
      <4>5. LwActive(d)' /\ ~LwSocket(d) => lwWorker'[lwCall'[d].worker].inUse
        BY <2>6, <2>9, <3>2, <4>1 DEF LwSame
      <4>6. lwCall'[d].phase = "running" => lwWorker'[lwCall'[d].worker].lock = d
        <5>1. lwCall'[d].phase = "running" =>
                lwCall[d].phase = "running" /\ lwCall'[d].worker = lwCall[d].worker /\ LwActive(d)
          BY <4>1 DEF LwSame, LwActive
        <5>2. lwCall[d].phase = "running" => lwWorker[lwCall[d].worker].lock = d BY DEF LwLeases, LwOwns
        <5> QED BY <2>5, <4>2, <5>1, <5>2
      <4> QED BY <4>3, <4>4, <4>5, <4>6
    <3> QED BY <3>1, <3>2
  <2>11. \A d, e \in LwCalls : LwActive(d)' /\ ~LwSocket(d) /\ LwActive(e)' /\ ~LwSocket(e)
                               /\ lwCall'[d].worker = lwCall'[e].worker => d = e
    <3> TAKE d, e \in LwCalls
    <3> HAVE LwActive(d)' /\ ~LwSocket(d) /\ LwActive(e)' /\ ~LwSocket(e) /\ lwCall'[d].worker = lwCall'[e].worker
    <3>1. CASE d # c /\ e # c
      <4>1. LwActive(d) /\ LwActive(e) /\ lwCall[d].worker = lwCall[e].worker
        BY <2>8, <2>9, <3>1 DEF LwSame
      <4> QED BY <4>1 DEF LwLeases, LwAlone
    <3>2. CASE d = c \/ e = c BY <2>2, <2>3, <2>8, <2>9, <3>2 DEF LwSame
    <3> QED BY <3>1, <3>2
  <2>12. \A v \in LwWorkers : lwWorker'[v].lock # LwNobody =>
       lwCall'[lwWorker'[v].lock].phase = "running" /\ lwCall'[lwWorker'[v].lock].worker = v
    BY <1>0, <2>5, <2>7, <2>8 DEF LwLeases, LwOwns, LwAlone, LwLocked, LwSame
  <2> QED BY <2>10, <2>11, <2>12 DEF LwLeases, LwOwns, LwAlone, LwLocked, LwActive, LwSocket
<1>6. ASSUME NEW c \in LwCalls, LwRun(c) PROVE LwLeases'
  <2>1. PICK w \in LwWorkers : w = lwCall[c].worker BY <1>6, LwHasWorker DEF LwRun, LwActive
  <2>2. LwOthers(c) /\ lwCall'[c].phase = "running" /\ lwCall'[c].worker = w BY <1>6, <2>1, LwRunCall
  <2>3. LwOtherWorkers(w) /\ lwWorker'[w].inUse = lwWorker[w].inUse /\ lwWorker'[w].lock = c
    BY <1>6, <2>1, LwRunWorker
  <2>4. lwCall[c].phase = "leased" /\ lwWorker[w].lock = LwNobody BY <1>6, <2>1 DEF LwRun
  <2>5. \A v \in LwWorkers : /\ lwWorker'[v].inUse = lwWorker[v].inUse
                             /\ lwWorker'[v].lock = IF v = w THEN c ELSE lwWorker[v].lock
    BY <2>3 DEF LwOtherWorkers
  <2>6. \A d \in LwCalls : d # c => LwSame(d) BY <2>2 DEF LwOthers
  <2>7. \A d \in LwCalls : (LwActive(d)' <=> LwActive(d)) /\ lwCall'[d].worker = lwCall[d].worker
    BY <2>1, <2>2, <2>4, <2>6 DEF LwActive, LwSame
  <2>8. \A d \in LwCalls : d # c /\ lwCall[d].phase = "running" => lwCall[d].worker # w
    BY <2>4 DEF LwLeases, LwOwns, LwAlone, LwLocked
  <2>9. \A d \in LwCalls : LwActive(d) => lwCall[d].worker \in LwWorkers BY LwHasWorker
  <2>10. \A d \in LwCalls :
       /\ LwActive(d)' <=> lwCall'[d].worker # LwNoWorker
       /\ LwActive(d)' /\ ~LwSocket(d) => lwWorker'[lwCall'[d].worker].inUse
    BY <2>5, <2>7, <2>9 DEF LwLeases, LwOwns, LwAlone, LwLocked
  <2>11. \A d \in LwCalls : lwCall'[d].phase = "running" => lwWorker'[lwCall'[d].worker].lock = d
    <3> TAKE d \in LwCalls
    <3>1. CASE d = c BY <2>1, <2>2, <2>3, <3>1
    <3>2. CASE d # c
      <4>1. LwSame(d) BY <2>6, <3>2
      <4>2. lwCall[d].phase = "running" => lwCall[d].worker \in LwWorkers /\ lwCall[d].worker # w
        BY <2>8, <2>9, <3>2 DEF LwActive
      <4>3. lwCall[d].phase = "running" => lwWorker[lwCall[d].worker].lock = d BY DEF LwLeases, LwOwns
      <4> QED BY <2>5, <4>1, <4>2, <4>3 DEF LwSame
    <3> QED BY <3>1, <3>2
  <2>12. \A d, e \in LwCalls : LwActive(d)' /\ ~LwSocket(d) /\ LwActive(e)' /\ ~LwSocket(e)
                               /\ lwCall'[d].worker = lwCall'[e].worker => d = e
    BY <2>7 DEF LwLeases, LwOwns, LwAlone, LwLocked
  <2>13. \A v \in LwWorkers : lwWorker'[v].lock # LwNobody =>
       lwCall'[lwWorker'[v].lock].phase = "running" /\ lwCall'[lwWorker'[v].lock].worker = v
    <3> TAKE v \in LwWorkers
    <3>1. CASE v = w BY <2>2, <2>3, <3>1
    <3>2. CASE v # w
      <4>1. lwWorker'[v].lock = lwWorker[v].lock BY <2>5, <3>2
      <4>2. lwWorker[v].lock # LwNobody => lwWorker[v].lock # c BY <2>4 DEF LwLeases, LwOwns, LwAlone, LwLocked
      <4> QED BY <1>0, <2>6, <4>1, <4>2 DEF LwLeases, LwOwns, LwAlone, LwLocked, LwSame
    <3> QED BY <3>1, <3>2
  <2> QED BY <2>10, <2>11, <2>12, <2>13 DEF LwLeases, LwOwns, LwAlone, LwLocked, LwActive, LwSocket
<1>7. ASSUME NEW c \in LwCalls, LwOthers(c), lwCall'[c].phase = "idle", lwCall'[c].worker = LwNoWorker,
             \A v \in LwWorkers :
               /\ lwWorker'[v].lock = IF v = lwCall[c].worker /\ lwCall[c].phase = "running" THEN LwNobody
                                      ELSE lwWorker[v].lock
               /\ (~LwSocket(c) /\ v = lwCall[c].worker) \/ lwWorker'[v].inUse = lwWorker[v].inUse,
             LwActive(c)
      PROVE  LwLeases'
  <2>1. \A d \in LwCalls : d # c => LwSame(d) BY <1>7 DEF LwOthers
  <2>2. ~LwActive(c)' /\ \A d \in LwCalls : d # c => (LwActive(d)' <=> LwActive(d))
    BY <1>7, <2>1 DEF LwActive, LwSame
  <2>3. \A d \in LwCalls : LwActive(d) => lwCall[d].worker \in LwWorkers BY LwHasWorker
  <2>4. \A d \in LwCalls : d # c /\ LwActive(d) /\ ~LwSocket(d) => lwWorker'[lwCall[d].worker].inUse
    BY <1>7, <2>3 DEF LwLeases, LwOwns, LwAlone, LwLocked
  <2>5. \A d \in LwCalls : d # c /\ lwCall[d].phase = "running" =>
          lwWorker'[lwCall[d].worker].lock = lwWorker[lwCall[d].worker].lock
    <3> SUFFICES ASSUME NEW d \in LwCalls, d # c, lwCall[d].phase = "running"
                 PROVE  lwWorker'[lwCall[d].worker].lock = lwWorker[lwCall[d].worker].lock
      OBVIOUS
    <3>1. lwCall[d].worker \in LwWorkers BY <2>3 DEF LwActive
    <3>2. ~(lwCall[d].worker = lwCall[c].worker /\ lwCall[c].phase = "running")
      <4>1. lwWorker[lwCall[d].worker].lock = d BY DEF LwLeases, LwOwns
      <4>2. lwCall[c].phase = "running" => lwWorker[lwCall[c].worker].lock = c BY DEF LwLeases, LwOwns
      <4> QED BY <4>1, <4>2
    <3> QED BY <1>7, <3>1, <3>2
  <2>6. \A d \in LwCalls :
       /\ LwActive(d)' <=> lwCall'[d].worker # LwNoWorker
       /\ LwActive(d)' /\ ~LwSocket(d) => lwWorker'[lwCall'[d].worker].inUse
       /\ lwCall'[d].phase = "running" => lwWorker'[lwCall'[d].worker].lock = d
    BY <1>7, <2>1, <2>2, <2>4, <2>5 DEF LwLeases, LwOwns, LwAlone, LwLocked, LwSame
  <2>7. \A d, e \in LwCalls : LwActive(d)' /\ ~LwSocket(d) /\ LwActive(e)' /\ ~LwSocket(e)
                              /\ lwCall'[d].worker = lwCall'[e].worker => d = e
    BY <2>1, <2>2 DEF LwLeases, LwOwns, LwAlone, LwLocked, LwSame
  <2>8. \A v \in LwWorkers : lwWorker'[v].lock # LwNobody =>
       lwCall'[lwWorker'[v].lock].phase = "running" /\ lwCall'[lwWorker'[v].lock].worker = v
    <3> SUFFICES ASSUME NEW v \in LwWorkers, lwWorker'[v].lock # LwNobody
                 PROVE lwCall'[lwWorker'[v].lock].phase = "running" /\ lwCall'[lwWorker'[v].lock].worker = v
      OBVIOUS
    <3>1. lwWorker'[v].lock = lwWorker[v].lock /\ ~(v = lwCall[c].worker /\ lwCall[c].phase = "running")
      BY <1>7
    <3>2. lwCall[lwWorker[v].lock].phase = "running" /\ lwCall[lwWorker[v].lock].worker = v
      BY <3>1 DEF LwLeases, LwLocked
    <3>3. lwWorker[v].lock # c BY <3>1, <3>2
    <3> QED BY <1>0, <3>3, <2>1, <3>1, <3>2 DEF LwLeases, LwOwns, LwAlone, LwLocked, LwSame
  <2> QED BY <2>6, <2>7, <2>8 DEF LwLeases, LwOwns, LwAlone, LwLocked, LwActive, LwSocket
<1>8. ASSUME NEW c \in LwCalls, LwAnswer(c) \/ LwError(c) PROVE LwLeases'
  <2>1. LwActive(c) /\ LwEnded(c) /\ lwCall[c].phase = "running" BY <1>8 DEF LwAnswer, LwError, LwActive
  <2>2. PICK w \in LwWorkers : w = lwCall[c].worker BY <2>1, LwHasWorker
  <2>3. LwOthers(c) /\ lwCall'[c].phase = "idle" /\ lwCall'[c].worker = LwNoWorker BY <2>1, LwEndedCall
  <2>4. /\ LwOtherWorkers(w) /\ lwWorker'[w].lock = LwNobody
        /\ ~LwSocket(c) \/ lwWorker'[w].inUse = lwWorker[w].inUse
    BY <1>8, <2>2, LwReleasedWorker
  <2>5. \A v \in LwWorkers :
          /\ lwWorker'[v].lock = IF v = lwCall[c].worker /\ lwCall[c].phase = "running" THEN LwNobody
                                      ELSE lwWorker[v].lock
          /\ (~LwSocket(c) /\ v = lwCall[c].worker) \/ lwWorker'[v].inUse = lwWorker[v].inUse
    BY <2>1, <2>2, <2>4 DEF LwOtherWorkers
  <2> QED BY <1>7, <2>1, <2>3, <2>5
<1>9. ASSUME NEW c \in LwCalls, LwSpawnFails(c) PROVE LwLeases'
  <2>1. LwActive(c) /\ LwEnded(c) /\ lwCall[c].phase = "leased" /\ lwWorker' = lwWorker
    BY <1>9 DEF LwSpawnFails, LwActive
  <2>2. LwOthers(c) /\ lwCall'[c].phase = "idle" /\ lwCall'[c].worker = LwNoWorker BY <2>1, LwEndedCall
  <2> QED BY <1>7, <2>1, <2>2
<1> QED BY <1>1, <1>2, <1>3, <1>4, <1>5, <1>6, <1>8, <1>9 DEF LwNext

(* The numbers the codes are.                                               *)
LEMMA LwNats ==
  ASSUME LwTypes
  PROVE  /\ lwCode.stored \in Nat /\ lwCode.displaced \in Nat
         /\ \A c \in LwCalls : lwCall[c].code \in Nat /\ lwCall[c].need \in Nat
         /\ \A w \in LwWorkers : lwWorker[w].code \in Nat /\ lwWorker[w].late \in BOOLEAN
         /\ LwPooled \subseteq LwWorkers
BY LwNumbers DEF LwTypes, LwCallRecord, LwWorkerRecord, LwPooled

(* Workers keep their code; those that are late stay so.                    *)
LwAged == \A w \in LwWorkers : /\ lwWorker'[w].code = lwWorker[w].code
                               /\ lwWorker[w].late => lwWorker'[w].late

LEMMA LwBegunStays ==
  ASSUME LwTypes, LwLeases, LwBegun, LwAged, NEW c \in LwCalls,
         lwCode'.displaced \in Nat, lwCode.displaced <= lwCode'.displaced,
         LwSame(c)
  PROVE  /\ lwCall'[c].need <= lwCode'.displaced
         /\ lwCall'[c].phase = "called" => lwCall'[c].need <= lwCall'[c].code
         /\ LwActive(c)' /\ ~lwWorker'[lwCall'[c].worker].late
              => lwCall'[c].need <= lwWorker'[lwCall'[c].worker].code
<1>1. /\ lwCall[c].need <= lwCode.displaced
      /\ lwCall[c].phase = "called" => lwCall[c].need <= lwCall[c].code
      /\ LwActive(c) /\ ~lwWorker[lwCall[c].worker].late
           => lwCall[c].need <= lwWorker[lwCall[c].worker].code
  BY DEF LwBegun
<1>2. LwActive(c) => lwCall[c].worker \in LwWorkers BY LwHasWorker
<1>3. lwCode.displaced \in Nat /\ lwCall[c].need \in Nat /\ lwCall[c].code \in Nat BY LwNats
<1>4. /\ lwCall'[c].phase = lwCall[c].phase /\ lwCall'[c].worker = lwCall[c].worker
      /\ lwCall'[c].code = lwCall[c].code /\ lwCall'[c].need = lwCall[c].need
  BY DEF LwSame
<1>5. lwCall[c].need <= lwCode'.displaced BY <1>1, <1>3
<1>6. LwActive(c)' <=> LwActive(c) BY <1>4 DEF LwActive
<1>7. LwActive(c) /\ ~lwWorker'[lwCall[c].worker].late => lwCall[c].need <= lwWorker'[lwCall[c].worker].code
  BY <1>1, <1>2 DEF LwAged
<1> QED BY <1>1, <1>4, <1>5, <1>6, <1>7

LEMMA LwCodeStep == LwTypes /\ LwDistinct /\ LwLeases /\ LwCodes /\ [LwNext]_lwVars => LwCodes'
<1> SUFFICES ASSUME LwTypes, LwDistinct, LwLeases, LwCodes, [LwNext]_lwVars PROVE LwCodes' OBVIOUS
<1>a. lwCode.displaced <= lwCode.stored /\ LwBegun /\ LwNewest BY DEF LwCodes
<1>b. /\ lwCode.stored \in Nat /\ lwCode.displaced \in Nat /\ LwPooled \subseteq LwWorkers
      /\ \A w \in LwWorkers : lwWorker[w].code \in Nat /\ lwWorker[w].late \in BOOLEAN
  BY LwNats
(* Nothing enters the pool, and no call has a new worker.                   *)
<1>c. ASSUME LwAged, LwPooled' \subseteq LwPooled, LwPooled' = {} \/ lwCode'.displaced = lwCode.displaced,
             lwCode'.displaced \in Nat, lwCode'.stored \in Nat,
             lwCode.displaced <= lwCode'.displaced, lwCode'.displaced <= lwCode'.stored,
             \A c \in LwCalls :
               \/ LwSame(c)
               \/ /\ ~LwActive(c)' /\ lwCall'[c].need <= lwCode'.displaced
                  /\ lwCall'[c].phase = "called" => lwCall'[c].need <= lwCall'[c].code
      PROVE  LwCodes'
  <2>1. LwBegun'
    <3> SUFFICES ASSUME NEW c \in LwCalls
                 PROVE  /\ lwCall'[c].need <= lwCode'.displaced
                        /\ lwCall'[c].phase = "called" => lwCall'[c].need <= lwCall'[c].code
                        /\ LwActive(c)' /\ ~lwWorker'[lwCall'[c].worker].late
                             => lwCall'[c].need <= lwWorker'[lwCall'[c].worker].code
      BY DEF LwBegun, LwActive
    <3>1. CASE LwSame(c) BY <1>a, <1>c, <3>1, LwBegunStays
    <3>2. CASE ~LwSame(c) BY <1>c, <3>2
    <3> QED BY <3>1, <3>2
  <2>2. LwNewest' BY <1>a, <1>b, <1>c DEF LwNewest, LwAged
  <2> QED BY <1>c, <2>1, <2>2 DEF LwCodes
<1>d. UNCHANGED lwCall => \A c \in LwCalls : LwSame(c) BY DEF LwSame
<1>e. UNCHANGED lwWorker => LwAged BY DEF LwAged
<1>f. UNCHANGED lwPool => LwPooled' = LwPooled BY DEF LwPooled
<1>1. CASE LwUpdateCode
  <2>1. /\ lwCode'.displaced = lwCode.displaced /\ lwCode'.stored = lwCode.stored + 1
        /\ UNCHANGED <<lwPool, lwWorker, lwCall>>
    BY <1>1 DEF LwUpdateCode, LwTypes
  <2> QED BY <1>a, <1>b, <1>c, <1>d, <1>e, <1>f, <2>1
<1>2. CASE LwDisplace
  <2>1. /\ lwCode'.displaced = lwCode.stored /\ lwCode'.stored = lwCode.stored
        /\ UNCHANGED <<lwWorker, lwCall>> /\ LwPooled' = {}
    BY <1>2, LwEmptied DEF LwDisplace, LwTypes
  <2> QED BY <1>a, <1>b, <1>c, <1>d, <1>e, <2>1
<1>3. CASE LwReset
  <2>1. UNCHANGED <<lwCode, lwWorker, lwCall>> /\ LwPooled' = {} BY <1>3, LwEmptied DEF LwReset
  <2> QED BY <1>a, <1>b, <1>c, <1>d, <1>e, <2>1
<1>4. ASSUME NEW old \in SUBSET LwPooled, LwReap(old) PROVE LwCodes'
  <2>1. UNCHANGED <<lwCode, lwWorker, lwCall>> /\ LwPooled' \subseteq LwPooled BY <1>4, LwReaped
  <2> QED BY <1>a, <1>b, <1>c, <1>d, <1>e, <2>1
<1>5. ASSUME NEW w \in LwWorkers, LwKill(w) PROVE LwCodes'
  <2>1. UNCHANGED <<lwCode, lwPool, lwCall>> BY <1>5 DEF LwKill
  <2>2. LwAged BY <1>5, LwKilledWorker DEF LwAged, LwOtherWorkers
  <2> QED BY <1>a, <1>b, <1>c, <1>d, <1>f, <2>1, <2>2
<1>6. ASSUME NEW c \in LwCalls, NEW p \in LwCalls \cup {LwNobody}, LwInvoke(c, p) PROVE LwCodes'
  <2>1. /\ UNCHANGED <<lwCode, lwPool, lwWorker>> /\ LwOthers(c) /\ lwCall'[c].phase = "called"
        /\ lwCall'[c].code = lwCode.stored /\ lwCall'[c].need = lwCode.displaced
    BY <1>6, LwInvoked
  <2>2. ~LwActive(c)' BY <2>1 DEF LwActive
  <2>3. lwCall'[c].need <= lwCode'.displaced /\ lwCall'[c].need <= lwCall'[c].code BY <1>a, <1>b, <2>1
  <2>4. \A d \in LwCalls : d # c => LwSame(d) BY <2>1 DEF LwOthers
  <2> QED BY <1>a, <1>b, <1>c, <1>e, <1>f, <2>1, <2>2, <2>3, <2>4
<1>7. ASSUME NEW c \in LwCalls, LwAcquire(c) PROVE LwCodes'
  <2>1. PICK w \in LwWorkers :
           /\ LwLeased(c, w) /\ LwOtherWorkers(w) /\ (LwTaken(c, w) \/ LwMade(c, w))
           /\ lwCall[c].phase = "called" /\ UNCHANGED <<lwCode, lwDoomed>>
    BY <1>7, LwAcquired
  <2>2. /\ LwOthers(c) /\ lwCall'[c].phase = "leased" /\ lwCall'[c].worker = w
        /\ lwCall'[c].need = lwCall[c].need
    BY <2>1, LwLeasedCall
  <2>3. lwCall[c].need <= lwCode.displaced /\ lwCall[c].need <= lwCall[c].code BY <1>a, <2>1 DEF LwBegun
  <2>4. lwCall[c].need \in Nat /\ lwCall[c].code \in Nat BY LwNats
  <2>5. \A d \in LwCalls : d # c => LwSame(d) BY <2>2 DEF LwOthers
  <2>6. ASSUME ~lwWorker'[w].late => lwCode.displaced <= lwWorker'[w].code, lwWorker'[w].code \in Nat,
               LwPooled' \subseteq LwPooled \cup {w},
               \A d \in LwCalls : d # c /\ LwActive(d) => lwCall[d].worker # w \/ LwAged
        PROVE  LwCodes'
    <3>1. lwCall'[c].need <= lwCode'.displaced BY <2>1, <2>2, <2>3
    <3>2. ~lwWorker'[lwCall'[c].worker].late => lwCall'[c].need <= lwWorker'[lwCall'[c].worker].code
      BY <1>b, <2>2, <2>3, <2>4, <2>6
    <3>3. ASSUME NEW d \in LwCalls, d # c
          PROVE  /\ lwCall'[d].need <= lwCode'.displaced
                 /\ lwCall'[d].phase = "called" => lwCall'[d].need <= lwCall'[d].code
                 /\ LwActive(d)' /\ ~lwWorker'[lwCall'[d].worker].late
                      => lwCall'[d].need <= lwWorker'[lwCall'[d].worker].code
      <4>1. LwSame(d) /\ lwCode' = lwCode BY <2>1, <2>5, <3>3
      <4>2. CASE LwAged BY <1>a, <1>b, <4>1, <4>2, LwBegunStays
      <4>3. CASE ~LwAged
        <5>1. LwActive(d) => lwCall[d].worker # w /\ lwCall[d].worker \in LwWorkers
          BY <2>6, <3>3, <4>3, LwHasWorker
        <5>2. LwActive(d) => lwWorker'[lwCall[d].worker] = lwWorker[lwCall[d].worker]
          BY <2>1, <5>1 DEF LwOtherWorkers
        <5>3. /\ lwCall[d].need <= lwCode.displaced
              /\ lwCall[d].phase = "called" => lwCall[d].need <= lwCall[d].code
              /\ LwActive(d) /\ ~lwWorker[lwCall[d].worker].late
                   => lwCall[d].need <= lwWorker[lwCall[d].worker].code
          BY <1>a DEF LwBegun
        <5> QED BY <4>1, <5>2, <5>3 DEF LwSame, LwActive
      <4> QED BY <4>2, <4>3
    <3>4. LwBegun' BY <2>2, <3>1, <3>2, <3>3 DEF LwBegun, LwActive
    <3>5. LwNewest'
      <4> SUFFICES ASSUME NEW v \in LwPooled' PROVE ~lwWorker'[v].late => lwCode'.displaced <= lwWorker'[v].code
        BY DEF LwNewest
      <4>1. CASE v = w BY <2>1, <2>6, <4>1
      <4>2. CASE v # w
        <5>1. v \in LwPooled BY <2>6, <4>2
        <5>2. lwWorker'[v] = lwWorker[v] BY <1>b, <2>1, <4>2, <5>1 DEF LwOtherWorkers
        <5> QED BY <1>a, <2>1, <5>1, <5>2 DEF LwNewest
      <4> QED BY <4>1, <4>2
    <3> QED BY <1>a, <2>1, <3>4, <3>5 DEF LwCodes
  <2>7. CASE LwTaken(c, w)
    <3>1. LwAged BY <2>1, <2>7 DEF LwTaken, LwAged, LwOtherWorkers
    <3>2. ~lwWorker'[w].late => lwCode.displaced <= lwWorker'[w].code BY <1>a, <2>7 DEF LwTaken, LwNewest
    <3>3. LwPooled' = LwPooled BY <1>f, <2>7 DEF LwTaken
    <3>4. lwWorker'[w].code \in Nat BY <1>b, <2>7 DEF LwTaken
    <3> QED BY <2>6, <3>1, <3>2, <3>3, <3>4
  <2>8. CASE LwMade(c, w)
    <3>1. lwWorker'[w].code = lwCall[c].code /\ lwWorker'[w].late = (lwCall[c].code < lwCode.displaced)
      BY <2>8 DEF LwMade
    <3>2. LwPooled' = LwPooled \cup {w} BY <2>8, LwAppended DEF LwMade
    <3>3. \A d \in LwCalls : lwCall[d].worker # w BY <2>8 DEF LwMade, LwUnmade, LwHeld
    <3>4. ~lwWorker'[w].late => lwCode.displaced <= lwWorker'[w].code
      <4>1. ~lwWorker'[w].late => ~(lwCall[c].code < lwCode.displaced) BY <3>1, Zenon
      <4>2. ~(lwCall[c].code < lwCode.displaced) => lwCode.displaced <= lwCall[c].code BY <1>b, <2>4
      <4> QED BY <3>1, <4>1, <4>2
    <3> QED BY <2>4, <2>6, <3>1, <3>2, <3>3, <3>4
  <2> QED BY <2>1, <2>7, <2>8
<1>8. ASSUME NEW c \in LwCalls, LwRun(c) PROVE LwCodes'
  <2>1. PICK w \in LwWorkers : w = lwCall[c].worker BY <1>8, LwHasWorker DEF LwRun, LwActive
  <2>2. /\ LwOthers(c) /\ lwCall'[c].phase = "running" /\ lwCall'[c].worker = w
        /\ lwCall'[c].need = lwCall[c].need
    BY <1>8, <2>1, LwRunCall
  <2>3. LwAged BY <1>8, <2>1, LwRunWorker DEF LwAged, LwOtherWorkers
  <2>4. UNCHANGED <<lwCode, lwPool>> /\ LwActive(c) BY <1>8 DEF LwRun, LwActive
  <2>5. LwPooled' = LwPooled BY <1>f, <2>4
  <2>6. LwBegun'
    <3> SUFFICES ASSUME NEW d \in LwCalls
                 PROVE  /\ lwCall'[d].need <= lwCode'.displaced
                        /\ lwCall'[d].phase = "called" => lwCall'[d].need <= lwCall'[d].code
                        /\ LwActive(d)' /\ ~lwWorker'[lwCall'[d].worker].late
                             => lwCall'[d].need <= lwWorker'[lwCall'[d].worker].code
      BY DEF LwBegun, LwActive
    <3>1. CASE d = c
      <4>1. /\ lwCall[c].need <= lwCode.displaced
            /\ ~lwWorker[w].late => lwCall[c].need <= lwWorker[w].code
        BY <1>a, <2>1, <2>4 DEF LwBegun
      <4> QED BY <2>2, <2>3, <2>4, <3>1, <4>1 DEF LwAged
    <3>2. CASE d # c
      <4>1. LwSame(d) BY <2>2, <3>2 DEF LwOthers
      <4> QED BY <1>a, <1>b, <2>3, <2>4, <4>1, LwBegunStays
    <3> QED BY <3>1, <3>2
  <2>7. LwNewest' BY <1>a, <1>b, <2>3, <2>4, <2>5 DEF LwNewest, LwAged
  <2> QED BY <1>a, <2>4, <2>6, <2>7 DEF LwCodes
<1>9. ASSUME NEW c \in LwCalls, LwAnswer(c) \/ LwError(c) \/ LwSpawnFails(c) PROVE LwCodes'
  <2>1. LwEnded(c) /\ lwCode' = lwCode BY <1>9 DEF LwAnswer, LwError, LwSpawnFails
  <2>2. LwOthers(c) /\ lwCall'[c].phase = "idle" /\ lwCall'[c].need = 0 BY <2>1, LwEndedCall
  <2>3. \A d \in LwCalls : d # c => LwSame(d) BY <2>2 DEF LwOthers
  <2>4. ~LwActive(c)' /\ lwCall'[c].need <= lwCode'.displaced BY <1>b, <2>1, <2>2 DEF LwActive
  <2>5. LwAged /\ LwPooled' \subseteq LwPooled
    <3>1. CASE LwAnswer(c) \/ LwError(c)
      <4>1. lwPool' = lwPool /\ LwActive(c) BY <3>1 DEF LwAnswer, LwError, LwActive
      <4>2. PICK w \in LwWorkers : w = lwCall[c].worker BY <4>1, LwHasWorker
      <4>3. LwAged BY <3>1, <4>2, LwReleasedWorker DEF LwAged, LwOtherWorkers
      <4> QED BY <1>f, <4>1, <4>3
    <3>2. CASE LwSpawnFails(c)
      <4>1. LwPooled' = {} \/ LwPooled' = LwPooled BY <1>f, <3>2, LwEmptied DEF LwSpawnFails
      <4> QED BY <1>e, <3>2, <4>1 DEF LwSpawnFails
    <3> QED BY <1>9, <3>1, <3>2
  <2> QED BY <1>a, <1>b, <1>c, <2>1, <2>2, <2>3, <2>4, <2>5
<1>10. CASE UNCHANGED lwVars BY <1>a, <1>b, <1>c, <1>d, <1>e, <1>f, <1>10 DEF lwVars
<1> QED BY <1>1, <1>2, <1>3, <1>4, <1>5, <1>6, <1>7, <1>8, <1>9, <1>10 DEF LwNext

LEMMA LwProcStep == LwTypes /\ LwDistinct /\ LwLeases /\ LwProcs /\ [LwNext]_lwVars => LwProcs'
<1> SUFFICES ASSUME LwTypes, LwDistinct, LwLeases, LwProcs, [LwNext]_lwVars PROVE LwProcs' OBVIOUS
(* Whatever runs afterwards ran before, and is still known.                 *)
<1>a. ASSUME \A w \in LwWorkers : lwWorker'[w].proc /\ ~lwWorker'[w].late => lwWorker[w].proc /\ ~lwWorker[w].late,
             LwPooled \cup lwDoomed \subseteq LwPooled' \cup lwDoomed'
      PROVE  LwProcs'
  BY <1>a DEF LwProcs
<1>b. UNCHANGED lwPool => LwPooled' = LwPooled BY DEF LwPooled
<1>1. CASE LwUpdateCode \/ UNCHANGED lwVars BY <1>1, <1>a, <1>b DEF LwUpdateCode, lwVars
<1>2. CASE LwDisplace \/ LwReset BY <1>2, <1>a, LwEmptied DEF LwDisplace, LwReset
<1>3. ASSUME NEW old \in SUBSET LwPooled, LwReap(old) PROVE LwProcs' BY <1>3, <1>a, LwReaped
<1>4. ASSUME NEW w \in LwWorkers, LwKill(w) PROVE LwProcs'
  <2>1. LwOtherWorkers(w) /\ ~lwWorker'[w].proc BY <1>4, LwKilledWorker
  <2>2. lwDoomed' = lwDoomed \ {w} /\ LwPooled' = LwPooled BY <1>4, <1>b DEF LwKill
  <2> QED BY <2>1, <2>2 DEF LwProcs, LwOtherWorkers
<1>5. ASSUME NEW c \in LwCalls, NEW p \in LwCalls \cup {LwNobody}, LwInvoke(c, p) PROVE LwProcs'
  BY <1>5, <1>a, <1>b DEF LwInvoke
<1>6. ASSUME NEW c \in LwCalls, LwAcquire(c) PROVE LwProcs'
  <2>1. PICK w \in LwWorkers :
           LwOtherWorkers(w) /\ (LwTaken(c, w) \/ LwMade(c, w)) /\ lwDoomed' = lwDoomed
    BY <1>6, LwAcquired
  <2>2. CASE LwTaken(c, w) BY <1>a, <1>b, <2>1, <2>2 DEF LwTaken, LwOtherWorkers
  <2>3. CASE LwMade(c, w)
    <3>1. LwPooled' = LwPooled \cup {w} BY <2>3, LwAppended DEF LwMade
    <3> QED BY <2>1, <2>3, <3>1 DEF LwMade, LwOtherWorkers, LwProcs
  <2> QED BY <2>1, <2>2, <2>3
<1>7. ASSUME NEW c \in LwCalls, LwRun(c) PROVE LwProcs'
  <2>1. PICK w \in LwWorkers : w = lwCall[c].worker BY <1>7, LwHasWorker DEF LwRun, LwActive
  <2>2. /\ LwOtherWorkers(w)
        /\ lwWorker'[w].late = (lwWorker[w].late \/ (~lwWorker[w].proc /\ w \notin LwPooled))
    BY <1>7, <2>1, LwRunWorker
  <2>3. LwPooled' = LwPooled /\ lwDoomed' = lwDoomed BY <1>7, <1>b DEF LwRun
  <2>4. ~lwWorker'[w].late => ~lwWorker[w].late /\ (lwWorker[w].proc \/ w \in LwPooled) BY <2>2
  <2> QED BY <2>2, <2>3, <2>4 DEF LwProcs, LwOtherWorkers
<1>8. ASSUME NEW c \in LwCalls, LwAnswer(c) \/ LwError(c) PROVE LwProcs'
  <2>1. PICK w \in LwWorkers : w = lwCall[c].worker BY <1>8, LwHasWorker DEF LwAnswer, LwError, LwActive
  <2>2. /\ LwOtherWorkers(w) /\ lwWorker'[w].late = lwWorker[w].late
        /\ lwWorker'[w].proc => lwWorker[w].proc
    BY <1>8, <2>1, LwReleasedWorker
  <2>3. LwPooled' = LwPooled /\ lwDoomed' = lwDoomed BY <1>8, <1>b DEF LwAnswer, LwError
  <2> QED BY <1>a, <2>2, <2>3 DEF LwOtherWorkers
<1>9. ASSUME NEW c \in LwCalls, LwSpawnFails(c) PROVE LwProcs'
  <2>1. lwWorker' = lwWorker BY <1>9 DEF LwSpawnFails
  <2>2. LwPooled \cup lwDoomed \subseteq LwPooled' \cup lwDoomed' BY <1>9, <1>b, LwEmptied DEF LwSpawnFails
  <2> QED BY <1>a, <2>1, <2>2
<1> QED BY <1>1, <1>2, <1>3, <1>4, <1>5, <1>6, <1>7, <1>8, <1>9 DEF LwNext

LEMMA LwInvStep == LwInv /\ [LwNext]_lwVars => LwInv'
BY LwTypeStep, LwLeaseStep, LwCodeStep, LwProcStep DEF LwInv

LEMMA LwInvPromises == LwInv => LwTypeOK /\ LwNoOrphans /\ LwFreshCode /\ LwNeverWaits
<1> SUFFICES ASSUME LwInv PROVE LwTypeOK /\ LwNoOrphans /\ LwFreshCode /\ LwNeverWaits OBVIOUS
<1>0. LwTypes /\ LwDistinct /\ LwLeases /\ LwCodes /\ LwProcs BY DEF LwInv
<1>1. LwTypeOK
  <2>1. Len(lwPool) = Cardinality(LwPooled) BY <1>0, ListImage DEF LwPooled, LwTypes, LwDistinct
  <2> QED BY <1>0, <2>1 DEF LwTypeOK, LwTypes, LwWorkerRecord, LwCallRecord
<1>2. LwNoOrphans BY <1>0 DEF LwNoOrphans, LwProcs
<1>3. LwFreshCode
  <2> SUFFICES ASSUME NEW c \in LwCalls, lwCall[c].phase = "running", ~lwWorker[lwCall[c].worker].late
               PROVE  lwWorker[lwCall[c].worker].code >= lwCall[c].need
    BY DEF LwFreshCode
  <2>1. lwCall[c].worker \in LwWorkers BY <1>0, LwHasWorker DEF LwActive
  <2>2. lwCall[c].need <= lwWorker[lwCall[c].worker].code BY <1>0 DEF LwCodes, LwBegun, LwActive
  <2> QED BY <1>0, <2>1, <2>2, LwNats
<1>4. LwNeverWaits
  <2> SUFFICES ASSUME NEW c \in LwCalls, lwCall[c].phase = "leased", ~LwSocket(c),
                      lwWorker[lwCall[c].worker].lock # LwNobody, ~LwSocket(lwWorker[lwCall[c].worker].lock)
               PROVE  FALSE
    BY DEF LwNeverWaits
  <2>1. PICK w \in LwWorkers : w = lwCall[c].worker BY <1>0, LwHasWorker DEF LwActive
  <2>2. PICK d \in LwCalls : d = lwWorker[w].lock
    BY <1>0, <2>1 DEF LwTypes, LwWorkerRecord
  <2>3. lwCall[d].phase = "running" /\ lwCall[d].worker = w BY <1>0, <2>1, <2>2 DEF LwLeases, LwLocked
  <2>4. c = d BY <1>0, <2>1, <2>2, <2>3 DEF LwLeases, LwAlone, LwActive
  <2> QED BY <2>3, <2>4
<1> QED BY <1>1, <1>2, <1>3, <1>4

-----------------------------------------------------------------------------
(* The pool of Node workers.                                                *)
NpWorkerRecord == [inUse : BOOLEAN, proc : BOOLEAN, evals : 0..NpRecycleAfter, dropped : BOOLEAN]
NpCallRecord == [phase : {"idle", "leased", "running", "ended"}, worker : NpWorkers \cup {0}]
NpTypes ==
  /\ npPool \in Seq(NpWorkers)
  /\ npWorker \in [NpWorkers -> NpWorkerRecord]
  /\ npCall \in [NpCalls -> NpCallRecord]
  /\ npResets \subseteq NpWorkers

NpDistinct == \A i, j \in 1..Len(npPool) : npPool[i] = npPool[j] => i = j

(* A call has a worker to itself, and a process while it evaluates.         *)
NpLeases ==
  /\ \A c \in NpCalls :
       /\ npCall[c].phase = "idle" <=> npCall[c].worker = 0
       /\ npCall[c].phase # "idle" => npWorker[npCall[c].worker].inUse
       /\ npCall[c].phase = "running" => npWorker[npCall[c].worker].proc
  /\ \A c, d \in NpCalls : npCall[c].worker = npCall[d].worker /\ c # d => npCall[c].worker = 0

(* Only a worker that evaluates or just has can be due for recycling.       *)
NpEvals ==
  /\ \A w \in NpWorkers : ~npWorker[w].inUse => npWorker[w].evals < NpRecycleAfter
  /\ \A c \in NpCalls : npCall[c].phase = "leased" => npWorker[npCall[c].worker].evals < NpRecycleAfter

(* The first worker is never folded, so the bound is about the others.      *)
NpWarm == {w \in NpPooled : npWorker[w].proc /\ ~npWorker[w].inUse}
NpFewWarm == npPool # <<>> => Cardinality(NpWarm \ {npPool[1]}) <= NpMaxIdle

NpProcs == \A w \in NpWorkers : npWorker[w].proc /\ ~npWorker[w].dropped => w \in NpPooled \cup npResets

NpInv == NpTypes /\ NpDistinct /\ NpLeases /\ NpEvals /\ NpFewWarm /\ NpProcs

-----------------------------------------------------------------------------
LEMMA NpNumbers == /\ NpRecycleAfter \in Nat /\ NpRecycleAfter >= 1 /\ NpMaxIdle \in Nat
                   /\ NpWorkers \subseteq Nat \ {0} /\ 0 \notin NpWorkers
BY NpAssumption

(* What a step does to one worker and to one call.                          *)
NpOtherWorkers(w) == \A v \in NpWorkers : v # w => npWorker'[v] = npWorker[v]
NpOtherCalls(c) == \A d \in NpCalls : d # c => npCall'[d] = npCall[d]

LEMMA NpSetWorker ==
  ASSUME NpTypes, NEW w \in NpWorkers, NEW new \in NpWorkerRecord, npWorker' = [npWorker EXCEPT ![w] = new]
  PROVE  npWorker' \in [NpWorkers -> NpWorkerRecord] /\ npWorker'[w] = new /\ NpOtherWorkers(w)
BY DEF NpTypes, NpOtherWorkers

LEMMA NpSetCall ==
  ASSUME NpTypes, NEW c \in NpCalls, NEW new \in NpCallRecord, npCall' = [npCall EXCEPT ![c] = new]
  PROVE  npCall' \in [NpCalls -> NpCallRecord] /\ npCall'[c] = new /\ NpOtherCalls(c)
BY DEF NpTypes, NpOtherCalls

(* A call that is not idle has a worker.                                    *)
LEMMA NpHasWorker ==
  ASSUME NpTypes, NpLeases, NEW c \in NpCalls, npCall[c].phase # "idle"
  PROVE  npCall[c].worker \in NpWorkers
BY DEF NpTypes, NpLeases, NpCallRecord

(* _acquire takes a free entry, or makes one.                               *)
NpTaken(w) ==
  /\ w \in NpPooled /\ ~npWorker[w].inUse /\ npPool' = npPool
  /\ npWorker'[w].proc = npWorker[w].proc /\ npWorker'[w].evals = npWorker[w].evals
  /\ npWorker'[w].dropped = npWorker[w].dropped
NpMade(w) ==
  /\ w \in NpUnmade /\ npPool' = Append(npPool, w)
  /\ npWorker'[w].proc = FALSE /\ npWorker'[w].evals = 0

LEMMA NpAcquired ==
  ASSUME NpTypes, NEW c \in NpCalls, NpAcquire(c)
  PROVE  \E w \in NpWorkers :
           /\ npWorker' \in [NpWorkers -> NpWorkerRecord] /\ NpOtherWorkers(w)
           /\ npWorker'[w].inUse = TRUE /\ (NpTaken(w) \/ NpMade(w))
           /\ npCall' \in [NpCalls -> NpCallRecord] /\ NpOtherCalls(c)
           /\ npCall'[c].phase = "leased" /\ npCall'[c].worker = w /\ npCall[c].phase = "idle"
           /\ npResets' = npResets
<1>1. /\ npWorker \in [NpWorkers -> NpWorkerRecord] /\ \A i \in DOMAIN npPool : npPool[i] \in NpWorkers
      /\ npCall[c].phase = "idle" /\ npResets' = npResets
  BY DEF NpTypes, NpAcquire
<1>2. ASSUME NEW w \in NpWorkers, npCall' = [npCall EXCEPT ![c] = [phase |-> "leased", worker |-> w]]
      PROVE  /\ npCall' \in [NpCalls -> NpCallRecord] /\ NpOtherCalls(c)
             /\ npCall'[c].phase = "leased" /\ npCall'[c].worker = w
  <2>1. [phase |-> "leased", worker |-> w] \in NpCallRecord BY DEF NpCallRecord
  <2> QED BY <1>2, <2>1, NpSetCall
<1>3. CASE \E i \in DOMAIN npPool :
             /\ ~npWorker[npPool[i]].inUse /\ npPool' = npPool
             /\ npWorker' = [npWorker EXCEPT ![npPool[i]].inUse = TRUE]
             /\ npCall' = [npCall EXCEPT ![c] = [phase |-> "leased", worker |-> npPool[i]]]
  <2>1. PICK w \in NpWorkers :
             /\ w \in NpPooled /\ ~npWorker[w].inUse /\ npPool' = npPool
             /\ npWorker' = [npWorker EXCEPT ![w].inUse = TRUE]
             /\ npCall' = [npCall EXCEPT ![c] = [phase |-> "leased", worker |-> w]]
    BY <1>1, <1>3 DEF NpPooled
  <2> DEFINE new == [npWorker[w] EXCEPT !.inUse = TRUE]
  <2>2. new \in NpWorkerRecord BY <1>1 DEF NpWorkerRecord
  <2>3. /\ new.inUse = TRUE /\ new.proc = npWorker[w].proc /\ new.evals = npWorker[w].evals
        /\ new.dropped = npWorker[w].dropped
    BY <1>1 DEF NpWorkerRecord
  <2>4. npWorker' = [npWorker EXCEPT ![w] = new] BY <1>1, <2>1 DEF NpWorkerRecord
  <2> HIDE DEF new
  <2>5. npWorker' \in [NpWorkers -> NpWorkerRecord] /\ npWorker'[w] = new /\ NpOtherWorkers(w)
    BY <2>2, <2>4, NpSetWorker
  <2>6. NpTaken(w) BY <2>1, <2>3, <2>5 DEF NpTaken
  <2> QED BY <1>1, <1>2, <2>1, <2>3, <2>5, <2>6
<1>4. CASE \E w \in NpUnmade :
             /\ npPool' = Append(npPool, w)
             /\ npWorker' = [npWorker EXCEPT ![w] = [NpBlank EXCEPT !.inUse = TRUE]]
             /\ npCall' = [npCall EXCEPT ![c] = [phase |-> "leased", worker |-> w]]
  <2> DEFINE new == [NpBlank EXCEPT !.inUse = TRUE]
  <2>1. PICK w \in NpUnmade :
             /\ npPool' = Append(npPool, w) /\ npWorker' = [npWorker EXCEPT ![w] = new]
             /\ npCall' = [npCall EXCEPT ![c] = [phase |-> "leased", worker |-> w]]
    BY <1>4
  <2>2. w \in NpWorkers BY DEF NpUnmade
  <2>3. NpBlank \in NpWorkerRecord /\ NpBlank.proc = FALSE /\ NpBlank.evals = 0
    BY NpNumbers DEF NpBlank, NpWorkerRecord
  <2>4. new \in NpWorkerRecord /\ new.inUse = TRUE /\ new.proc = FALSE /\ new.evals = 0
    BY <2>3 DEF NpWorkerRecord
  <2> HIDE DEF new
  <2>5. npWorker' \in [NpWorkers -> NpWorkerRecord] /\ npWorker'[w] = new /\ NpOtherWorkers(w)
    BY <2>1, <2>2, <2>4, NpSetWorker
  <2>6. NpMade(w) BY <2>1, <2>4, <2>5 DEF NpMade
  <2> QED BY <1>1, <1>2, <2>1, <2>2, <2>4, <2>5, <2>6
<1>5. NpUnmade # {} => (CHOOSE w \in NpUnmade : TRUE) \in NpUnmade OBVIOUS
<1> QED BY <1>3, <1>4, <1>5 DEF NpAcquire

LEMMA NpEvaluated ==
  ASSUME NpTypes, NpEvals, NEW c \in NpCalls, NpEvaluate(c), NEW w \in NpWorkers, w = npCall[c].worker
  PROVE  /\ npWorker' \in [NpWorkers -> NpWorkerRecord] /\ NpOtherWorkers(w)
         /\ npWorker'[w].inUse = npWorker[w].inUse /\ npWorker'[w].proc = TRUE
         /\ npWorker'[w].dropped = (w \notin NpPooled \cup npResets)
         /\ npCall' \in [NpCalls -> NpCallRecord] /\ NpOtherCalls(c)
         /\ npCall'[c].phase = "running" /\ npCall'[c].worker = w /\ npCall[c].phase = "leased"
         /\ UNCHANGED <<npPool, npResets>>
<1>1. npWorker[w] \in NpWorkerRecord /\ npCall[c] \in NpCallRecord /\ npCall[c].phase = "leased"
  BY DEF NpTypes, NpEvaluate
<1>2. npWorker[w].evals \in Nat /\ npWorker[w].evals < NpRecycleAfter
  BY <1>1, NpNumbers DEF NpEvals, NpWorkerRecord
<1>3. npWorker[w].evals + 1 \in 0..NpRecycleAfter BY <1>2, NpNumbers
<1> DEFINE late == w \notin NpPooled \cup npResets
           more == npWorker[w].evals + 1
           new == [npWorker[w] EXCEPT !.proc = TRUE, !.evals = more, !.dropped = late]
           call == [npCall[c] EXCEPT !.phase = "running"]
<1>4. npWorker' = [npWorker EXCEPT ![w].proc = TRUE, ![w].evals = npWorker[w].evals + 1, ![w].dropped = w \notin NpPooled \cup npResets]
  BY <1>1 DEF NpEvaluate, NpTypes, NpWorkerRecord
<1>5. npWorker' = [npWorker EXCEPT ![w] = new] BY <1>1, <1>4 DEF NpTypes, NpWorkerRecord
<1>6. late \in BOOLEAN /\ more \in 0..NpRecycleAfter BY <1>3
<1>7. npCall' = [npCall EXCEPT ![c] = call] BY <1>1 DEF NpEvaluate, NpTypes, NpCallRecord
<1>8. call \in NpCallRecord /\ call.phase = "running" /\ call.worker = w BY <1>1 DEF NpCallRecord
<1> HIDE DEF late, more
<1>9. new \in NpWorkerRecord BY <1>1, <1>6 DEF NpWorkerRecord
<1>10. new.inUse = npWorker[w].inUse /\ new.proc = TRUE /\ new.dropped = late BY <1>1 DEF NpWorkerRecord
<1> HIDE DEF new, call
<1>11. npWorker' \in [NpWorkers -> NpWorkerRecord] /\ npWorker'[w] = new /\ NpOtherWorkers(w)
  BY <1>5, <1>9, NpSetWorker
<1>12. npCall' \in [NpCalls -> NpCallRecord] /\ npCall'[c] = call /\ NpOtherCalls(c)
  BY <1>7, <1>8, NpSetCall
<1>13. UNCHANGED <<npPool, npResets>> BY DEF NpEvaluate
<1> QED BY <1>1, <1>8, <1>10, <1>11, <1>12, <1>13 DEF late

LEMMA NpEndedCall ==
  ASSUME NpTypes, NEW c \in NpCalls, NEW alive \in BOOLEAN, NpEnd(c, alive),
         NEW w \in NpWorkers, w = npCall[c].worker
  PROVE  /\ npWorker' \in [NpWorkers -> NpWorkerRecord] /\ NpOtherWorkers(w)
         /\ npWorker'[w].inUse = npWorker[w].inUse /\ npWorker'[w].evals = npWorker[w].evals
         /\ npWorker'[w].dropped = npWorker[w].dropped
         /\ npCall' \in [NpCalls -> NpCallRecord] /\ NpOtherCalls(c)
         /\ npCall'[c].phase = "ended" /\ npCall'[c].worker = w /\ npCall[c].phase = "running"
         /\ UNCHANGED <<npPool, npResets>>
<1>1. npWorker[w] \in NpWorkerRecord /\ npCall[c] \in NpCallRecord /\ npCall[c].phase = "running"
  BY DEF NpTypes, NpEnd
<1> DEFINE new == [npWorker[w] EXCEPT !.proc = alive]
           call == [npCall[c] EXCEPT !.phase = "ended"]
<1>2. npWorker' = [npWorker EXCEPT ![w] = new] BY <1>1 DEF NpEnd, NpTypes, NpWorkerRecord
<1>3. npCall' = [npCall EXCEPT ![c] = call] BY <1>1 DEF NpEnd, NpTypes, NpCallRecord
<1>4. /\ new \in NpWorkerRecord /\ new.inUse = npWorker[w].inUse /\ new.evals = npWorker[w].evals
      /\ new.dropped = npWorker[w].dropped
  BY <1>1 DEF NpWorkerRecord
<1>5. call \in NpCallRecord /\ call.phase = "ended" /\ call.worker = w BY <1>1 DEF NpCallRecord
<1> HIDE DEF new, call
<1>6. npWorker' \in [NpWorkers -> NpWorkerRecord] /\ npWorker'[w] = new /\ NpOtherWorkers(w)
  BY <1>2, <1>4, NpSetWorker
<1>7. npCall' \in [NpCalls -> NpCallRecord] /\ npCall'[c] = call /\ NpOtherCalls(c)
  BY <1>3, <1>5, NpSetCall
<1>8. UNCHANGED <<npPool, npResets>> BY DEF NpEnd
<1> QED BY <1>1, <1>4, <1>5, <1>6, <1>7, <1>8

(* Either way the worker stays leased.                                      *)
LEMMA NpBusyCall ==
  ASSUME NpTypes, NpEvals, NEW c \in NpCalls, NpEvaluate(c) \/ \E alive \in BOOLEAN : NpEnd(c, alive),
         NEW w \in NpWorkers, w = npCall[c].worker
  PROVE  /\ NpOtherWorkers(w) /\ npWorker'[w].inUse = npWorker[w].inUse /\ npPool' = npPool
         /\ NpOtherCalls(c) /\ npCall'[c].phase # "leased" /\ npCall'[c].worker = w
<1>1. CASE NpEvaluate(c) BY <1>1, NpEvaluated
<1>2. CASE \E alive \in BOOLEAN : NpEnd(c, alive)
  <2>1. PICK alive \in BOOLEAN : NpEnd(c, alive) BY <1>2
  <2> QED BY <2>1, NpEndedCall
<1> QED BY <1>1, <1>2

(* _release recycles, folds or keeps.                                       *)
NpRecycled(w) == npPool' = npPool /\ ~npWorker'[w].proc /\ npWorker'[w].evals = 0
NpFoldedUp(w) == /\ w \in NpPooled /\ w # npPool[1] /\ NpRemoves(w)
                 /\ ~npWorker'[w].proc /\ npWorker'[w].evals < NpRecycleAfter
NpKept(w) == /\ npPool' = npPool /\ npWorker'[w].proc = npWorker[w].proc
             /\ npWorker'[w].evals < NpRecycleAfter /\ (w \notin NpPooled \/ ~NpSurplus(w))

LEMMA NpReleasedCall ==
  ASSUME NpTypes, NEW c \in NpCalls, NpRelease(c), NEW w \in NpWorkers, w = npCall[c].worker
  PROVE  /\ npWorker' \in [NpWorkers -> NpWorkerRecord] /\ NpOtherWorkers(w)
         /\ npWorker'[w].inUse = FALSE /\ npWorker'[w].dropped = npWorker[w].dropped
         /\ npCall' \in [NpCalls -> NpCallRecord] /\ NpOtherCalls(c)
         /\ npCall'[c].phase = "idle" /\ npCall'[c].worker = 0 /\ npCall[c].phase = "ended"
         /\ npResets' = npResets
         /\ (NpRecycled(w) \/ NpFoldedUp(w) \/ NpKept(w))
<1>1. npWorker \in [NpWorkers -> NpWorkerRecord] /\ npWorker[w] \in NpWorkerRecord BY DEF NpTypes
<1>2. npCall[c].phase = "ended" /\ npResets' = npResets /\ npCall' = [npCall EXCEPT ![c] = NpIdleCall]
  BY DEF NpRelease
<1>3. NpIdleCall \in NpCallRecord /\ NpIdleCall.phase = "idle" /\ NpIdleCall.worker = 0
  BY DEF NpIdleCall, NpCallRecord
<1>4. npCall' \in [NpCalls -> NpCallRecord] /\ npCall'[c] = NpIdleCall /\ NpOtherCalls(c)
  BY <1>2, <1>3, NpSetCall
<1> DEFINE free == [npWorker[w] EXCEPT !.inUse = FALSE]
           dead == [free EXCEPT !.proc = FALSE]
           young == [dead EXCEPT !.evals = 0]
<1>5. NpFreed(w) = [npWorker EXCEPT ![w] = free] BY <1>1 DEF NpFreed, NpWorkerRecord
<1>6. /\ free \in NpWorkerRecord /\ free.inUse = FALSE /\ free.proc = npWorker[w].proc
      /\ free.evals = npWorker[w].evals /\ free.dropped = npWorker[w].dropped
  BY <1>1 DEF NpWorkerRecord
<1>7. /\ dead \in NpWorkerRecord /\ dead.inUse = FALSE /\ dead.proc = FALSE
      /\ dead.evals = npWorker[w].evals /\ dead.dropped = npWorker[w].dropped
  BY <1>1 DEF NpWorkerRecord
<1>8. /\ young \in NpWorkerRecord /\ young.inUse = FALSE /\ young.proc = FALSE
      /\ young.evals = 0 /\ young.dropped = npWorker[w].dropped
  <2>1. 0 \in 0..NpRecycleAfter BY NpNumbers
  <2> HIDE DEF dead
  <2> QED BY <1>7, <2>1 DEF NpWorkerRecord
<1>9. [NpFreed(w) EXCEPT ![w].proc = FALSE] = [npWorker EXCEPT ![w] = dead]
  BY <1>1, <1>5 DEF NpWorkerRecord
<1>10. [NpFreed(w) EXCEPT ![w].evals = 0, ![w].proc = FALSE] = [npWorker EXCEPT ![w] = young]
  <2> DEFINE F == NpFreed(w)
             new == [free EXCEPT !.evals = 0, !.proc = FALSE]
  <2>1. F \in [NpWorkers -> NpWorkerRecord] /\ F[w] = free BY <1>1, <1>5, <1>6
  <2>2. new = young BY <1>6 DEF NpWorkerRecord
  <2> HIDE DEF F, free, young
  <2>3. [F EXCEPT ![w].evals = 0, ![w].proc = FALSE] = [F EXCEPT ![w] = new]
    BY <1>1, <2>1 DEF NpWorkerRecord
  <2>4. [F EXCEPT ![w] = new] = [npWorker EXCEPT ![w] = new] BY <1>1, <1>5 DEF F
  <2> HIDE DEF new
  <2> QED BY <2>2, <2>3, <2>4 DEF F
<1> HIDE DEF free, dead, young
<1>11. npWorker[w].evals \in Nat BY <1>1, NpNumbers DEF NpWorkerRecord
<1>12. ASSUME NEW new \in NpWorkerRecord, npWorker' = [npWorker EXCEPT ![w] = new],
              new.inUse = FALSE, new.dropped = npWorker[w].dropped
       PROVE  /\ npWorker' \in [NpWorkers -> NpWorkerRecord] /\ NpOtherWorkers(w) /\ npWorker'[w] = new
              /\ npWorker'[w].inUse = FALSE /\ npWorker'[w].dropped = npWorker[w].dropped
  BY <1>12, NpSetWorker
<1>13. CASE NpDue(w)
  <2>1. npWorker' = [npWorker EXCEPT ![w] = young] /\ npPool' = npPool BY <1>10, <1>13 DEF NpRelease
  <2> QED BY <1>2, <1>3, <1>4, <1>8, <1>12, <2>1 DEF NpRecycled
<1>14. CASE ~NpDue(w) /\ NpSurplus(w) /\ w \in NpPooled
  <2>1. npWorker' = [npWorker EXCEPT ![w] = dead] /\ NpRemoves(w) BY <1>9, <1>14 DEF NpRelease, NpFold
  <2>2. npWorker[w].evals < NpRecycleAfter BY <1>11, <1>14, NpNumbers DEF NpDue
  <2>3. w # npPool[1] BY <1>14 DEF NpSurplus
  <2> QED BY <1>2, <1>3, <1>4, <1>7, <1>12, <1>14, <2>1, <2>2, <2>3 DEF NpFoldedUp
<1>15. CASE ~NpDue(w) /\ (w \notin NpPooled \/ ~NpSurplus(w))
  <2>1. npWorker' = [npWorker EXCEPT ![w] = free] /\ npPool' = npPool BY <1>5, <1>15 DEF NpRelease, NpFold
  <2>2. npWorker[w].evals < NpRecycleAfter BY <1>11, <1>15, NpNumbers DEF NpDue
  <2> QED BY <1>2, <1>3, <1>4, <1>6, <1>12, <1>15, <2>1, <2>2 DEF NpKept
<1> QED BY <1>13, <1>14, <1>15

LEMMA NpShutDown ==
  ASSUME NpTypes, NEW w \in NpWorkers, NpShutdown(w)
  PROVE  /\ npWorker' \in [NpWorkers -> NpWorkerRecord] /\ NpOtherWorkers(w)
         /\ npWorker'[w].inUse = npWorker[w].inUse /\ npWorker'[w].evals = npWorker[w].evals
         /\ ~npWorker'[w].proc /\ \A c \in NpCalls : npCall[c].worker = w => npCall[c].phase # "running"
         /\ npResets' = npResets \ {w} /\ UNCHANGED <<npPool, npCall>>
<1>1. npWorker[w] \in NpWorkerRecord BY DEF NpTypes
<1> DEFINE new == [npWorker[w] EXCEPT !.proc = FALSE]
<1>2. npWorker' = [npWorker EXCEPT ![w] = new] BY <1>1 DEF NpShutdown, NpTypes, NpWorkerRecord
<1>3. /\ new \in NpWorkerRecord /\ new.inUse = npWorker[w].inUse /\ new.evals = npWorker[w].evals
      /\ new.proc = FALSE
  BY <1>1 DEF NpWorkerRecord
<1> HIDE DEF new
<1>4. npWorker' \in [NpWorkers -> NpWorkerRecord] /\ npWorker'[w] = new /\ NpOtherWorkers(w)
  BY <1>2, <1>3, NpSetWorker
<1>5. /\ npResets' = npResets \ {w} /\ UNCHANGED <<npPool, npCall>>
      /\ \A c \in NpCalls : npCall[c].worker = w => npCall[c].phase # "running"
  BY DEF NpShutdown, NpHolder
<1> QED BY <1>3, <1>4, <1>5

-----------------------------------------------------------------------------
(* What a step does to the pool.                                            *)
LEMMA NpAppended ==
  ASSUME NpTypes, NEW w \in NpWorkers, npPool' = Append(npPool, w)
  PROVE  /\ npPool' \in Seq(NpWorkers) /\ NpPooled' = NpPooled \cup {w} /\ npPool' # <<>>
         /\ NpDistinct /\ w \notin NpPooled => NpDistinct'
         /\ npPool # <<>> => npPool'[1] = npPool[1]
         /\ npPool = <<>> => NpPooled = {}
<1>1. npPool \in Seq(NpWorkers) BY DEF NpTypes
<1>2. /\ npPool' \in Seq(NpWorkers) /\ Len(npPool') = Len(npPool) + 1 /\ Len(npPool) \in Nat
      /\ DOMAIN npPool = 1..Len(npPool) /\ DOMAIN npPool' = 1..Len(npPool')
      /\ npPool'[Len(npPool) + 1] = w /\ \A i \in 1..Len(npPool) : npPool'[i] = npPool[i]
  BY <1>1
<1>3. NpPooled' = NpPooled \cup {w} BY <1>2 DEF NpPooled
<1>4. ASSUME NpDistinct, w \notin NpPooled, NEW i \in 1..Len(npPool'), NEW j \in 1..Len(npPool'), npPool'[i] = npPool'[j]
      PROVE i = j
  BY <1>2, <1>4 DEF NpDistinct, NpPooled
<1>5. npPool # <<>> => 1 \in 1..Len(npPool) BY <1>1
<1>6. npPool' # <<>> BY <1>2
<1>7. npPool = <<>> => NpPooled = {} BY DEF NpPooled
<1> QED BY <1>2, <1>3, <1>4, <1>5, <1>6, <1>7 DEF NpDistinct

LEMMA NpRemoved ==
  ASSUME NpTypes, NpDistinct, NEW w \in NpPooled, NpRemoves(w)
  PROVE  /\ npPool' \in Seq(NpWorkers) /\ NpDistinct' /\ NpPooled' = NpPooled \ {w}
         /\ w # npPool[1] => npPool # <<>> /\ npPool'[1] = npPool[1]
<1> DEFINE n == Len(npPool)
<1>1. n \in Nat /\ DOMAIN npPool = 1..n /\ \A k \in 1..n : npPool[k] \in NpWorkers BY DEF NpTypes
<1>2. PICK i \in 1..n : npPool[i] = w /\ npPool' = [j \in 1..(n - 1) |-> npPool[IF j < i THEN j ELSE j + 1]]
  BY <1>1 DEF NpRemoves
<1> DEFINE at(j) == IF j < i THEN j ELSE j + 1
<1>3. \A j \in 1..(n - 1) : at(j) \in 1..n /\ at(j) # i BY <1>1
<1>4. \A j, k \in 1..(n - 1) : at(j) = at(k) => j = k BY <1>1
<1>5. \A k \in 1..n : k # i => \E j \in 1..(n - 1) : at(j) = k
  <2> SUFFICES ASSUME NEW k \in 1..n, k # i PROVE \E j \in 1..(n - 1) : at(j) = k OBVIOUS
  <2>1. CASE k < i
    <3>1. k \in 1..(n - 1) /\ at(k) = k BY <1>1, <2>1
    <3> QED BY <3>1
  <2>2. CASE k > i
    <3>1. k - 1 \in 1..(n - 1) /\ at(k - 1) = k BY <1>1, <2>2
    <3> QED BY <3>1
  <2> QED BY <2>1, <2>2
<1>6. npPool' = [j \in 1..(n - 1) |-> npPool[at(j)]] BY <1>2
<1>7. \A j \in 1..(n - 1) : npPool'[j] = npPool[at(j)] BY <1>6
<1> HIDE DEF at
<1>8. n - 1 \in Nat BY <1>1, <1>2
<1>9. npPool' \in Seq(NpWorkers)
  <2>1. npPool' \in [1..(n - 1) -> NpWorkers] BY <1>1, <1>3, <1>6
  <2> QED BY <1>8, <2>1
<1>10. Len(npPool') = n - 1 /\ DOMAIN npPool' = 1..(n - 1) BY <1>6, <1>8, <1>9
<1>11. NpDistinct'
  <2> SUFFICES ASSUME NEW j \in 1..(n - 1), NEW k \in 1..(n - 1), npPool'[j] = npPool'[k] PROVE j = k
    BY <1>10 DEF NpDistinct
  <2>1. npPool[at(j)] = npPool[at(k)] /\ at(j) \in 1..n /\ at(k) \in 1..n BY <1>3, <1>7
  <2>2. at(j) = at(k) BY <2>1 DEF NpDistinct
  <2> QED BY <1>4, <2>2
<1>12. NpPooled' \subseteq NpPooled \ {w}
  <2> SUFFICES ASSUME NEW j \in 1..(n - 1) PROVE npPool'[j] \in NpPooled /\ npPool'[j] # w
    BY <1>10 DEF NpPooled
  <2>1. npPool'[j] = npPool[at(j)] /\ at(j) \in 1..n /\ at(j) # i BY <1>3, <1>7
  <2>2. npPool[at(j)] # npPool[i] BY <2>1 DEF NpDistinct
  <2> QED BY <1>1, <1>2, <2>1, <2>2 DEF NpPooled
<1>13. NpPooled \ {w} \subseteq NpPooled'
  <2> SUFFICES ASSUME NEW k \in 1..n, npPool[k] # w PROVE npPool[k] \in NpPooled'
    BY <1>1 DEF NpPooled
  <2>1. PICK j \in 1..(n - 1) : at(j) = k BY <1>2, <1>5
  <2> QED BY <1>7, <1>10, <2>1 DEF NpPooled
<1>14. w # npPool[1] => npPool # <<>> /\ npPool'[1] = npPool[1]
  <2> SUFFICES ASSUME w # npPool[1] PROVE npPool # <<>> /\ npPool'[1] = npPool[1] OBVIOUS
  <2>1. i # 1 /\ i > 1 /\ n > 1 BY <1>1, <1>2
  <2>2. 1 \in 1..(n - 1) /\ at(1) = 1 BY <1>1, <2>1 DEF at
  <2> QED BY <1>1, <1>7, <2>1, <2>2
<1> QED BY <1>9, <1>11, <1>12, <1>13, <1>14

LEMMA NpEmptied ==
  ASSUME NpTypes, NpReset
  PROVE  /\ npPool' \in Seq(NpWorkers) /\ npPool' = <<>> /\ NpPooled' = {} /\ NpDistinct'
         /\ npResets' = npResets \cup NpPooled /\ NpPooled \subseteq NpWorkers
         /\ UNCHANGED <<npWorker, npCall>>
BY DEF NpTypes, NpReset, NpPooled, NpDistinct

-----------------------------------------------------------------------------
LEMMA NpInitInv == NpInit => NpInv
<1> SUFFICES ASSUME NpInit PROVE NpInv OBVIOUS
<1>1. NpIdleCall \in NpCallRecord /\ NpIdleCall.phase = "idle" /\ NpIdleCall.worker = 0
  BY DEF NpIdleCall, NpCallRecord
<1>2. NpBlank \in NpWorkerRecord /\ NpBlank.proc = FALSE /\ NpBlank.evals = 0
  BY NpNumbers DEF NpBlank, NpWorkerRecord
<1>3. \A c \in NpCalls : npCall[c].phase = "idle" /\ npCall[c].worker = 0 BY <1>1 DEF NpInit
<1>4. \A w \in NpWorkers : npWorker[w].proc = FALSE /\ npWorker[w].evals = 0 BY <1>2 DEF NpInit
<1>5. NpTypes BY <1>1, <1>2 DEF NpInit, NpTypes
<1>6. NpDistinct /\ NpFewWarm BY DEF NpInit, NpDistinct, NpFewWarm
<1>7. NpLeases BY <1>3 DEF NpLeases
<1>8. NpEvals BY <1>3, <1>4, NpNumbers DEF NpEvals
<1>9. NpProcs BY <1>4 DEF NpProcs
<1> QED BY <1>5, <1>6, <1>7, <1>8, <1>9 DEF NpInv

LEMMA NpTypeStep ==
  NpTypes /\ NpDistinct /\ NpLeases /\ NpEvals /\ [NpNext]_npVars => NpTypes' /\ NpDistinct'
<1> SUFFICES ASSUME NpTypes, NpDistinct, NpLeases, NpEvals, [NpNext]_npVars PROVE NpTypes' /\ NpDistinct'
  OBVIOUS
<1>a. UNCHANGED npPool => NpDistinct' /\ npPool' \in Seq(NpWorkers) BY DEF NpDistinct, NpTypes
<1>b. npPool \in Seq(NpWorkers) /\ npResets \subseteq NpWorkers BY DEF NpTypes
<1>1. CASE NpReset BY <1>1, NpEmptied DEF NpTypes
<1>2. ASSUME NEW w \in NpWorkers, NpShutdown(w) PROVE NpTypes' /\ NpDistinct'
  BY <1>2, <1>a, NpShutDown DEF NpTypes
<1>3. ASSUME NEW c \in NpCalls, NpAcquire(c) PROVE NpTypes' /\ NpDistinct'
  <2>1. PICK w \in NpWorkers :
           /\ npWorker' \in [NpWorkers -> NpWorkerRecord] /\ (NpTaken(w) \/ NpMade(w))
           /\ npCall' \in [NpCalls -> NpCallRecord] /\ npResets' = npResets
    BY <1>3, NpAcquired
  <2>2. npPool' \in Seq(NpWorkers) /\ NpDistinct'
    BY <1>a, <2>1, NpAppended DEF NpTaken, NpMade, NpUnmade
  <2> QED BY <1>b, <2>1, <2>2 DEF NpTypes
<1>4. ASSUME NEW c \in NpCalls, NpEvaluate(c) PROVE NpTypes' /\ NpDistinct'
  <2>1. npCall[c].worker \in NpWorkers BY <1>4, NpHasWorker DEF NpEvaluate
  <2> QED BY <1>4, <1>a, <1>b, <2>1, NpEvaluated DEF NpTypes
<1>5. ASSUME NEW c \in NpCalls, NEW alive \in BOOLEAN, NpEnd(c, alive) PROVE NpTypes' /\ NpDistinct'
  <2>1. npCall[c].worker \in NpWorkers BY <1>5, NpHasWorker DEF NpEnd
  <2> QED BY <1>5, <1>a, <1>b, <2>1, NpEndedCall DEF NpTypes
<1>6. ASSUME NEW c \in NpCalls, NpRelease(c) PROVE NpTypes' /\ NpDistinct'
  <2>1. PICK w \in NpWorkers : w = npCall[c].worker BY <1>6, NpHasWorker DEF NpRelease
  <2>2. /\ npWorker' \in [NpWorkers -> NpWorkerRecord] /\ npCall' \in [NpCalls -> NpCallRecord]
        /\ npResets' = npResets /\ (NpRecycled(w) \/ NpFoldedUp(w) \/ NpKept(w))
    BY <1>6, <2>1, NpReleasedCall
  <2>3. npPool' \in Seq(NpWorkers) /\ NpDistinct'
    BY <1>a, <2>2, NpRemoved DEF NpRecycled, NpFoldedUp, NpKept
  <2> QED BY <1>b, <2>2, <2>3 DEF NpTypes
<1>7. CASE UNCHANGED npVars BY <1>7, <1>a DEF npVars, NpTypes
<1> QED BY <1>1, <1>2, <1>3, <1>4, <1>5, <1>6, <1>7 DEF NpNext

LEMMA NpLeaseStep == NpTypes /\ NpLeases /\ NpEvals /\ [NpNext]_npVars => NpLeases'
<1> SUFFICES ASSUME NpTypes, NpLeases, NpEvals, [NpNext]_npVars PROVE NpLeases' OBVIOUS
<1>a. \A c \in NpCalls :
        /\ npCall[c].phase = "idle" <=> npCall[c].worker = 0
        /\ npCall[c].phase # "idle" => npWorker[npCall[c].worker].inUse
        /\ npCall[c].phase = "running" => npWorker[npCall[c].worker].proc
  BY DEF NpLeases
<1>b. \A c, d \in NpCalls : npCall[c].worker = npCall[d].worker /\ c # d => npCall[c].worker = 0
  BY DEF NpLeases
<1>c. \A c \in NpCalls : npCall[c].phase # "idle" => npCall[c].worker \in NpWorkers BY NpHasWorker
(* Who has another worker than the step's is not concerned.                 *)
<1>d. ASSUME NEW c \in NpCalls, NEW w \in NpWorkers, NpOtherCalls(c), NpOtherWorkers(w),
             \A d \in NpCalls : d # c => npCall[d].worker # w,
             npCall'[c].phase = "idle" <=> npCall'[c].worker = 0,
             npCall'[c].worker \in {0, w},
             npCall'[c].phase # "idle" => npWorker'[w].inUse,
             npCall'[c].phase = "running" => npWorker'[w].proc
      PROVE  NpLeases'
  <2>1. \A d \in NpCalls :
          /\ npCall'[d].phase = "idle" <=> npCall'[d].worker = 0
          /\ npCall'[d].phase # "idle" => npWorker'[npCall'[d].worker].inUse
          /\ npCall'[d].phase = "running" => npWorker'[npCall'[d].worker].proc
    <3> TAKE d \in NpCalls
    <3>1. CASE d = c BY <1>d, <3>1
    <3>2. CASE d # c
      <4>1. npCall'[d] = npCall[d] BY <1>d, <3>2 DEF NpOtherCalls
      <4>2. npCall[d].phase # "idle" => npWorker'[npCall[d].worker] = npWorker[npCall[d].worker]
        BY <1>c, <1>d, <3>2 DEF NpOtherWorkers
      <4> QED BY <1>a, <4>1, <4>2
    <3> QED BY <3>1, <3>2
  <2>2. ASSUME NEW d \in NpCalls, NEW e \in NpCalls, npCall'[d].worker = npCall'[e].worker, d # e
        PROVE  npCall'[d].worker = 0
    <3>1. CASE d = c
      <4>1. npCall'[e].worker # w BY <1>d, <2>2, <3>1 DEF NpOtherCalls
      <4> QED BY <1>d, <2>2, <3>1, <4>1
    <3>2. CASE e = c
      <4>1. npCall'[d].worker # w BY <1>d, <2>2, <3>2 DEF NpOtherCalls
      <4> QED BY <1>d, <2>2, <3>2, <4>1
    <3>3. CASE d # c /\ e # c BY <1>b, <1>d, <2>2, <3>3 DEF NpOtherCalls
    <3> QED BY <3>1, <3>2, <3>3
  <2> QED BY <2>1, <2>2 DEF NpLeases
<1>1. CASE NpReset \/ UNCHANGED npVars BY <1>1, <1>a, <1>b DEF NpReset, npVars, NpLeases
<1>2. ASSUME NEW w \in NpWorkers, NpShutdown(w) PROVE NpLeases'
  <2>1. /\ NpOtherWorkers(w) /\ npWorker'[w].inUse = npWorker[w].inUse /\ npCall' = npCall
        /\ \A c \in NpCalls : npCall[c].worker = w => npCall[c].phase # "running"
    BY <1>2, NpShutDown
  <2>2. \A c \in NpCalls :
          /\ npCall[c].phase # "idle" => npWorker'[npCall[c].worker].inUse
          /\ npCall[c].phase = "running" => npWorker'[npCall[c].worker].proc
    <3> TAKE c \in NpCalls
    <3>1. CASE npCall[c].worker = w BY <1>a, <2>1, <3>1
    <3>2. CASE npCall[c].worker # w
      <4>1. npCall[c].phase # "idle" => npWorker'[npCall[c].worker] = npWorker[npCall[c].worker]
        BY <1>c, <2>1, <3>2 DEF NpOtherWorkers
      <4> QED BY <1>a, <4>1
    <3> QED BY <3>1, <3>2
  <2> QED BY <1>a, <1>b, <2>1, <2>2 DEF NpLeases
<1>3. ASSUME NEW c \in NpCalls, NpAcquire(c) PROVE NpLeases'
  <2>1. PICK w \in NpWorkers :
           /\ NpOtherWorkers(w) /\ npWorker'[w].inUse = TRUE /\ (NpTaken(w) \/ NpMade(w))
           /\ NpOtherCalls(c) /\ npCall'[c].phase = "leased" /\ npCall'[c].worker = w
           /\ npCall[c].phase = "idle"
    BY <1>3, NpAcquired
  <2>2. w # 0 BY NpNumbers
  <2>3. \A d \in NpCalls : npCall[d].worker # w
    BY <1>a, <2>1, <2>2 DEF NpTaken, NpMade, NpUnmade, NpHolder
  <2> QED BY <1>d, <2>1, <2>2, <2>3
<1>4. ASSUME NEW c \in NpCalls, npCall[c].phase # "idle" PROVE \A d \in NpCalls : d # c => npCall[d].worker # npCall[c].worker
  BY <1>a, <1>b, <1>4
<1>5. ASSUME NEW c \in NpCalls, NpEvaluate(c) PROVE NpLeases'
  <2>1. PICK w \in NpWorkers : w = npCall[c].worker BY <1>c, <1>5 DEF NpEvaluate
  <2>2. /\ NpOtherWorkers(w) /\ npWorker'[w].inUse = npWorker[w].inUse /\ npWorker'[w].proc = TRUE
        /\ NpOtherCalls(c) /\ npCall'[c].phase = "running" /\ npCall'[c].worker = w
        /\ npCall[c].phase = "leased"
    BY <1>5, <2>1, NpEvaluated
  <2>3. npWorker[w].inUse /\ w # 0 BY <1>a, <2>1, <2>2, NpNumbers
  <2> QED BY <1>4, <1>d, <2>1, <2>2, <2>3
<1>6. ASSUME NEW c \in NpCalls, NEW alive \in BOOLEAN, NpEnd(c, alive) PROVE NpLeases'
  <2>1. PICK w \in NpWorkers : w = npCall[c].worker BY <1>c, <1>6 DEF NpEnd
  <2>2. /\ NpOtherWorkers(w) /\ npWorker'[w].inUse = npWorker[w].inUse
        /\ NpOtherCalls(c) /\ npCall'[c].phase = "ended" /\ npCall'[c].worker = w
        /\ npCall[c].phase = "running"
    BY <1>6, <2>1, NpEndedCall
  <2>3. npWorker[w].inUse /\ w # 0 BY <1>a, <2>1, <2>2, NpNumbers
  <2> QED BY <1>4, <1>d, <2>1, <2>2, <2>3
<1>7. ASSUME NEW c \in NpCalls, NpRelease(c) PROVE NpLeases'
  <2>1. PICK w \in NpWorkers : w = npCall[c].worker BY <1>c, <1>7 DEF NpRelease
  <2>2. /\ NpOtherWorkers(w) /\ NpOtherCalls(c) /\ npCall'[c].phase = "idle" /\ npCall'[c].worker = 0
        /\ npCall[c].phase = "ended"
    BY <1>7, <2>1, NpReleasedCall
  <2> QED BY <1>4, <1>d, <2>1, <2>2
<1> QED BY <1>1, <1>2, <1>3, <1>5, <1>6, <1>7 DEF NpNext

LEMMA NpEvalStep == NpTypes /\ NpLeases /\ NpEvals /\ [NpNext]_npVars => NpEvals'
<1> SUFFICES ASSUME NpTypes, NpLeases, NpEvals, [NpNext]_npVars PROVE NpEvals' OBVIOUS
<1>a. \A w \in NpWorkers : ~npWorker[w].inUse => npWorker[w].evals < NpRecycleAfter BY DEF NpEvals
<1>b. \A c \in NpCalls : npCall[c].phase = "leased" => npWorker[npCall[c].worker].evals < NpRecycleAfter
  BY DEF NpEvals
<1>c. \A c \in NpCalls : npCall[c].phase # "idle" => npCall[c].worker \in NpWorkers BY NpHasWorker
<1>d. ASSUME NEW c \in NpCalls, NEW w \in NpWorkers, NpOtherCalls(c), NpOtherWorkers(w),
             \A d \in NpCalls : d # c /\ npCall[d].phase # "idle" => npCall[d].worker # w,
             npCall'[c].worker = w \/ npCall'[c].phase # "leased",
             npCall'[c].phase = "leased" \/ ~npWorker'[w].inUse => npWorker'[w].evals < NpRecycleAfter
      PROVE  NpEvals'
  <2>1. ASSUME NEW v \in NpWorkers, ~npWorker'[v].inUse PROVE npWorker'[v].evals < NpRecycleAfter
    BY <1>a, <1>d, <2>1 DEF NpOtherWorkers
  <2>2. ASSUME NEW d \in NpCalls, npCall'[d].phase = "leased"
        PROVE  npWorker'[npCall'[d].worker].evals < NpRecycleAfter
    <3>1. CASE d = c BY <1>d, <2>2, <3>1
    <3>2. CASE d # c
      <4>1. npCall'[d] = npCall[d] BY <1>d, <3>2 DEF NpOtherCalls
      <4>2. npCall[d].worker \in NpWorkers /\ npCall[d].worker # w BY <1>c, <1>d, <2>2, <3>2, <4>1
      <4>3. npWorker'[npCall[d].worker] = npWorker[npCall[d].worker] BY <1>d, <4>2 DEF NpOtherWorkers
      <4> QED BY <1>b, <2>2, <4>1, <4>3
    <3> QED BY <3>1, <3>2
  <2> QED BY <2>1, <2>2 DEF NpEvals
<1>1. CASE NpReset \/ UNCHANGED npVars BY <1>1, <1>a, <1>b DEF NpReset, npVars, NpEvals
<1>2. ASSUME NEW w \in NpWorkers, NpShutdown(w) PROVE NpEvals'
  <2>1. /\ NpOtherWorkers(w) /\ npWorker'[w].inUse = npWorker[w].inUse
        /\ npWorker'[w].evals = npWorker[w].evals /\ npCall' = npCall
    BY <1>2, NpShutDown
  <2>2. \A v \in NpWorkers : npWorker'[v].inUse = npWorker[v].inUse /\ npWorker'[v].evals = npWorker[v].evals
    BY <2>1 DEF NpOtherWorkers
  <2>3. \A d \in NpCalls : npCall[d].phase = "leased" => npCall[d].worker \in NpWorkers BY <1>c
  <2> QED BY <1>a, <1>b, <2>1, <2>2, <2>3 DEF NpEvals
<1>3. ASSUME NEW c \in NpCalls, NpAcquire(c) PROVE NpEvals'
  <2>1. PICK w \in NpWorkers :
           /\ NpOtherWorkers(w) /\ npWorker'[w].inUse = TRUE /\ (NpTaken(w) \/ NpMade(w))
           /\ NpOtherCalls(c) /\ npCall'[c].phase = "leased" /\ npCall'[c].worker = w
    BY <1>3, NpAcquired
  <2>2. npWorker'[w].evals < NpRecycleAfter BY <1>a, <2>1, NpNumbers DEF NpTaken, NpMade
  <2>3. \A d \in NpCalls : npCall[d].phase # "idle" => npCall[d].worker # w
    BY <2>1 DEF NpLeases, NpTaken, NpMade, NpUnmade, NpHolder
  <2> QED BY <1>d, <2>1, <2>2, <2>3
<1>4. ASSUME NEW c \in NpCalls, npCall[c].phase # "idle"
      PROVE \A d \in NpCalls : d # c /\ npCall[d].phase # "idle" => npCall[d].worker # npCall[c].worker
  BY <1>4 DEF NpLeases
<1>5. ASSUME NEW c \in NpCalls, NpEvaluate(c) \/ \E alive \in BOOLEAN : NpEnd(c, alive) PROVE NpEvals'
  <2>1. npCall[c].phase # "idle" BY <1>5 DEF NpEvaluate, NpEnd
  <2>2. PICK w \in NpWorkers : w = npCall[c].worker BY <1>c, <2>1
  <2>3. /\ NpOtherWorkers(w) /\ npWorker'[w].inUse = npWorker[w].inUse
        /\ NpOtherCalls(c) /\ npCall'[c].phase # "leased" /\ npCall'[c].worker = w
    BY <1>5, <2>2, NpBusyCall
  <2>4. npWorker[w].inUse BY <2>1, <2>2 DEF NpLeases
  <2> QED BY <1>4, <1>d, <2>1, <2>2, <2>3, <2>4
<1>6. ASSUME NEW c \in NpCalls, NpRelease(c) PROVE NpEvals'
  <2>1. npCall[c].phase # "idle" BY <1>6 DEF NpRelease
  <2>2. PICK w \in NpWorkers : w = npCall[c].worker BY <1>c, <2>1
  <2>3. /\ NpOtherWorkers(w) /\ NpOtherCalls(c) /\ npCall'[c].phase = "idle"
        /\ (NpRecycled(w) \/ NpFoldedUp(w) \/ NpKept(w))
    BY <1>6, <2>2, NpReleasedCall
  <2>4. npWorker'[w].evals < NpRecycleAfter BY <2>3, NpNumbers DEF NpRecycled, NpFoldedUp, NpKept
  <2> QED BY <1>4, <1>d, <2>1, <2>2, <2>3, <2>4
<1> QED BY <1>1, <1>2, <1>3, <1>5, <1>6 DEF NpNext

(* A smaller set of warm workers is as few.                                 *)
LEMMA NpWarmFinite == NpTypes => IsFiniteSet(NpPooled) /\ Cardinality(NpPooled) \in Nat
BY ListImage DEF NpTypes, NpPooled

LEMMA NpSubsetFew ==
  ASSUME NEW S, NEW T \in SUBSET S, IsFiniteSet(S), Cardinality(S) <= NpMaxIdle
  PROVE  Cardinality(T) <= NpMaxIdle
<1>1. IsFiniteSet(T) /\ Cardinality(T) <= Cardinality(S) BY FS_Subset
<1>2. Cardinality(T) \in Nat /\ Cardinality(S) \in Nat BY <1>1, FS_CardinalityType
<1> QED BY <1>1, <1>2, NpNumbers

LEMMA NpWarmStep ==
  NpTypes /\ NpDistinct /\ NpLeases /\ NpEvals /\ NpFewWarm /\ [NpNext]_npVars => NpFewWarm'
<1> SUFFICES ASSUME NpTypes, NpDistinct, NpLeases, NpEvals, NpFewWarm, [NpNext]_npVars, npPool' # <<>>
             PROVE  Cardinality(NpWarm' \ {npPool'[1]}) <= NpMaxIdle
  BY DEF NpFewWarm
<1>0. IsFiniteSet(NpPooled) BY NpWarmFinite
<1>a. ASSUME npPool # <<>>, npPool'[1] = npPool[1], NpWarm' \ {npPool[1]} \subseteq NpWarm
      PROVE  Cardinality(NpWarm' \ {npPool'[1]}) <= NpMaxIdle
  <2>1. IsFiniteSet(NpWarm \ {npPool[1]}) BY <1>0, FS_Subset DEF NpWarm
  <2>2. Cardinality(NpWarm \ {npPool[1]}) <= NpMaxIdle BY <1>a DEF NpFewWarm
  <2>3. NpWarm' \ {npPool'[1]} \in SUBSET (NpWarm \ {npPool[1]}) BY <1>a
  <2> QED BY <2>1, <2>2, <2>3, NpSubsetFew
<1>b. UNCHANGED npPool => NpPooled' = NpPooled /\ npPool # <<>> /\ npPool'[1] = npPool[1] BY DEF NpPooled
<1>c. NpPooled \subseteq NpWorkers BY DEF NpTypes, NpPooled
<1>1. CASE NpReset BY <1>1, NpEmptied
<1>2. CASE UNCHANGED npVars BY <1>2, <1>a, <1>b DEF npVars, NpWarm
<1>3. ASSUME NEW w \in NpWorkers, NpShutdown(w) PROVE Cardinality(NpWarm' \ {npPool'[1]}) <= NpMaxIdle
  <2>1. NpOtherWorkers(w) /\ ~npWorker'[w].proc /\ npPool' = npPool BY <1>3, NpShutDown
  <2>2. NpWarm' \subseteq NpWarm BY <1>b, <1>c, <2>1 DEF NpWarm, NpOtherWorkers
  <2> QED BY <1>a, <1>b, <2>1, <2>2
<1>4. ASSUME NEW c \in NpCalls, NpAcquire(c) PROVE Cardinality(NpWarm' \ {npPool'[1]}) <= NpMaxIdle
  <2>1. PICK w \in NpWorkers :
           NpOtherWorkers(w) /\ npWorker'[w].inUse = TRUE /\ (NpTaken(w) \/ NpMade(w))
    BY <1>4, NpAcquired
  <2>2. NpPooled' \subseteq NpPooled \cup {w} BY <1>b, <2>1, NpAppended DEF NpTaken, NpMade
  <2>3. NpWarm' \subseteq NpWarm BY <1>c, <2>1, <2>2 DEF NpWarm, NpOtherWorkers
  <2>4. CASE npPool # <<>>
    <3>1. npPool'[1] = npPool[1] BY <1>b, <2>1, <2>4, NpAppended DEF NpTaken, NpMade
    <3> QED BY <1>a, <2>3, <2>4, <3>1
  <2>5. CASE npPool = <<>>
    <3>1. NpWarm' = {} BY <2>3, <2>5 DEF NpWarm, NpPooled
    <3>2. NpWarm' \ {npPool'[1]} = {} BY <3>1
    <3>3. Cardinality(NpWarm' \ {npPool'[1]}) = 0 BY <3>2, FS_EmptySet
    <3> QED BY <3>3, NpNumbers
  <2> QED BY <2>4, <2>5
<1>5. ASSUME NEW c \in NpCalls, NpEvaluate(c) \/ \E alive \in BOOLEAN : NpEnd(c, alive)
      PROVE Cardinality(NpWarm' \ {npPool'[1]}) <= NpMaxIdle
  <2>1. npCall[c].phase # "idle" BY <1>5 DEF NpEvaluate, NpEnd
  <2>2. PICK w \in NpWorkers : w = npCall[c].worker BY <2>1, NpHasWorker
  <2>3. NpOtherWorkers(w) /\ npWorker'[w].inUse = npWorker[w].inUse /\ npPool' = npPool
    BY <1>5, <2>2, NpBusyCall
  <2>4. npWorker[w].inUse BY <2>1, <2>2 DEF NpLeases
  <2>5. NpWarm' \subseteq NpWarm BY <1>b, <1>c, <2>3, <2>4 DEF NpWarm, NpOtherWorkers
  <2> QED BY <1>a, <1>b, <2>3, <2>5
<1>6. ASSUME NEW c \in NpCalls, NpRelease(c) PROVE Cardinality(NpWarm' \ {npPool'[1]}) <= NpMaxIdle
  <2>1. PICK w \in NpWorkers : w = npCall[c].worker BY <1>6, NpHasWorker DEF NpRelease
  <2>2. NpOtherWorkers(w) /\ (NpRecycled(w) \/ NpFoldedUp(w) \/ NpKept(w)) BY <1>6, <2>1, NpReleasedCall
  <2>3. CASE NpRecycled(w)
    <3>1. npPool' = npPool /\ ~npWorker'[w].proc BY <2>3 DEF NpRecycled
    <3>2. NpWarm' \subseteq NpWarm BY <1>b, <1>c, <2>2, <3>1 DEF NpWarm, NpOtherWorkers
    <3> QED BY <1>a, <1>b, <3>1, <3>2
  <2>4. CASE NpFoldedUp(w)
    <3>1. NpPooled' = NpPooled \ {w} /\ npPool # <<>> /\ npPool'[1] = npPool[1]
      BY <2>4, NpRemoved DEF NpFoldedUp
    <3>2. NpWarm' \subseteq NpWarm BY <1>c, <2>2, <3>1 DEF NpWarm, NpOtherWorkers
    <3> QED BY <1>a, <3>1, <3>2
  <2>5. CASE NpKept(w)
    <3>1. npPool' = npPool /\ NpPooled' = NpPooled BY <1>b, <2>5 DEF NpKept
    <3>2. NpWarm' \subseteq NpWarm \cup {w} BY <1>c, <2>2, <3>1 DEF NpWarm, NpOtherWorkers
    <3>3. CASE w \notin NpPooled \/ w = npPool[1]
      <4>1. NpWarm' \ {npPool[1]} \subseteq NpWarm BY <3>1, <3>2, <3>3 DEF NpWarm
      <4> QED BY <1>a, <1>b, <3>1, <4>1
    <3>4. CASE w \in NpPooled /\ w # npPool[1]
      <4>1. ~(Cardinality(NpIdle(w)) > NpMaxIdle) BY <2>5, <3>4 DEF NpKept, NpSurplus
      <4>2. IsFiniteSet(NpIdle(w)) BY <1>0, FS_Subset DEF NpIdle
      <4>3. Cardinality(NpIdle(w)) <= NpMaxIdle BY <4>1, <4>2, FS_CardinalityType, NpNumbers
      <4>4. NpWarm' \subseteq NpIdle(w) BY <3>1, <3>2, <3>4 DEF NpWarm, NpIdle
      <4>5. NpWarm' \ {npPool'[1]} \in SUBSET NpIdle(w) BY <4>4
      <4> QED BY <4>2, <4>3, <4>5, NpSubsetFew
    <3> QED BY <3>3, <3>4
  <2> QED BY <2>2, <2>3, <2>4, <2>5
<1> QED BY <1>1, <1>2, <1>3, <1>4, <1>5, <1>6 DEF NpNext

LEMMA NpProcStep ==
  NpTypes /\ NpDistinct /\ NpLeases /\ NpEvals /\ NpProcs /\ [NpNext]_npVars => NpProcs'
<1> SUFFICES ASSUME NpTypes, NpDistinct, NpLeases, NpEvals, NpProcs, [NpNext]_npVars PROVE NpProcs' OBVIOUS
<1>a. ASSUME NEW w \in NpWorkers, NpOtherWorkers(w),
             npWorker'[w].proc /\ ~npWorker'[w].dropped => w \in NpPooled' \cup npResets',
             NpPooled \cup npResets \subseteq NpPooled' \cup npResets' \cup {w}
      PROVE  NpProcs'
  <2> SUFFICES ASSUME NEW v \in NpWorkers, npWorker'[v].proc, ~npWorker'[v].dropped
               PROVE  v \in NpPooled' \cup npResets'
    BY DEF NpProcs
  <2>1. CASE v = w BY <1>a, <2>1
  <2>2. CASE v # w BY <1>a, <2>2 DEF NpProcs, NpOtherWorkers
  <2> QED BY <2>1, <2>2
<1>b. UNCHANGED npPool => NpPooled' = NpPooled BY DEF NpPooled
<1>1. CASE NpReset BY <1>1, NpEmptied DEF NpProcs
<1>2. CASE UNCHANGED npVars BY <1>2, <1>b DEF npVars, NpProcs
<1>3. ASSUME NEW w \in NpWorkers, NpShutdown(w) PROVE NpProcs'
  BY <1>3, <1>a, <1>b, NpShutDown
<1>4. ASSUME NEW c \in NpCalls, NpAcquire(c) PROVE NpProcs'
  <2>1. PICK w \in NpWorkers : NpOtherWorkers(w) /\ (NpTaken(w) \/ NpMade(w)) /\ npResets' = npResets
    BY <1>4, NpAcquired
  <2>2. CASE NpTaken(w) BY <1>a, <1>b, <2>1, <2>2 DEF NpTaken
  <2>3. CASE NpMade(w) BY <1>a, <2>1, <2>3, NpAppended DEF NpMade
  <2> QED BY <2>1, <2>2, <2>3
<1>5. ASSUME NEW c \in NpCalls, NpEvaluate(c) PROVE NpProcs'
  <2>1. PICK w \in NpWorkers : w = npCall[c].worker BY <1>5, NpHasWorker DEF NpEvaluate
  <2>2. /\ NpOtherWorkers(w) /\ npWorker'[w].dropped = (w \notin NpPooled \cup npResets)
        /\ UNCHANGED <<npPool, npResets>>
    BY <1>5, <2>1, NpEvaluated
  <2>3. ~npWorker'[w].dropped => w \in NpPooled \cup npResets BY <2>2, Zenon
  <2> QED BY <1>a, <1>b, <2>2, <2>3
<1>6. ASSUME NEW c \in NpCalls, NEW alive \in BOOLEAN, NpEnd(c, alive) PROVE NpProcs'
  <2>1. PICK w \in NpWorkers : w = npCall[c].worker BY <1>6, NpHasWorker DEF NpEnd
  <2>2. /\ NpOtherWorkers(w) /\ npWorker'[w].dropped = npWorker[w].dropped /\ npCall[c].phase = "running"
        /\ UNCHANGED <<npPool, npResets>>
    BY <1>6, <2>1, NpEndedCall
  <2>3. npWorker[w].proc BY <2>1, <2>2 DEF NpLeases
  <2>4. ~npWorker[w].dropped => w \in NpPooled \cup npResets BY <2>3 DEF NpProcs
  <2> QED BY <1>a, <1>b, <2>2, <2>4
<1>7. ASSUME NEW c \in NpCalls, NpRelease(c) PROVE NpProcs'
  <2>1. PICK w \in NpWorkers : w = npCall[c].worker BY <1>7, NpHasWorker DEF NpRelease
  <2>2. /\ NpOtherWorkers(w) /\ npWorker'[w].dropped = npWorker[w].dropped /\ npResets' = npResets
        /\ (NpRecycled(w) \/ NpFoldedUp(w) \/ NpKept(w))
    BY <1>7, <2>1, NpReleasedCall
  <2>3. CASE NpRecycled(w) BY <1>a, <1>b, <2>2, <2>3 DEF NpRecycled
  <2>4. CASE NpFoldedUp(w) BY <1>a, <2>2, <2>4, NpRemoved DEF NpFoldedUp
  <2>5. CASE NpKept(w) BY <1>a, <1>b, <2>2, <2>5 DEF NpKept, NpProcs
  <2> QED BY <2>2, <2>3, <2>4, <2>5
<1> QED BY <1>1, <1>2, <1>3, <1>4, <1>5, <1>6, <1>7 DEF NpNext

LEMMA NpInvStep == NpInv /\ [NpNext]_npVars => NpInv'
BY NpTypeStep, NpLeaseStep, NpEvalStep, NpWarmStep, NpProcStep DEF NpInv

LEMMA NpInvPromises == NpInv => NpTypeOK /\ NpWarmBound /\ NpNoOrphans
<1> SUFFICES ASSUME NpInv PROVE NpTypeOK /\ NpWarmBound /\ NpNoOrphans OBVIOUS
<1>0. NpTypes /\ NpDistinct /\ NpLeases /\ NpFewWarm /\ NpProcs BY DEF NpInv
<1>1. NpTypeOK
  <2>1. Len(npPool) = Cardinality(NpPooled) BY <1>0, ListImage DEF NpPooled, NpTypes, NpDistinct
  <2>2. \A c, d \in NpCalls : npCall[c].worker = npCall[d].worker /\ c # d => npCall[c].worker = 0
    BY <1>0 DEF NpLeases
  <2> QED BY <1>0, <2>1, <2>2 DEF NpTypeOK, NpTypes, NpWorkerRecord, NpCallRecord
<1>2. NpWarmBound
  <2>1. IsFiniteSet(NpWarm)
    <3>1. IsFiniteSet(NpPooled) BY <1>0, NpWarmFinite
    <3> QED BY <3>1, FS_Subset DEF NpWarm
  <2>2. Cardinality(NpWarm) \in Nat BY <2>1, FS_CardinalityType
  <2>3. CASE npPool = <<>>
    <3>1. NpWarm = {} BY <2>3 DEF NpWarm, NpPooled
    <3> QED BY <3>1, FS_EmptySet, NpNumbers DEF NpWarmBound, NpWarm
  <2>4. CASE npPool # <<>>
    <3>1. Cardinality(NpWarm \ {npPool[1]}) <= NpMaxIdle BY <1>0, <2>4 DEF NpFewWarm
    <3>2. CASE npPool[1] \in NpWarm
      <4>1. Cardinality(NpWarm \ {npPool[1]}) = Cardinality(NpWarm) - 1 BY <2>1, <3>2, FS_RemoveElement
      <4> QED BY <2>2, <3>1, <4>1, NpNumbers DEF NpWarmBound, NpWarm
    <3>3. CASE npPool[1] \notin NpWarm
      <4>1. NpWarm \ {npPool[1]} = NpWarm BY <3>3
      <4>2. Cardinality(NpWarm) <= NpMaxIdle BY <3>1, <4>1
      <4> QED BY <2>2, <4>2, NpNumbers DEF NpWarmBound, NpWarm
    <3> QED BY <3>2, <3>3
  <2> QED BY <2>3, <2>4
<1>3. NpNoOrphans BY <1>0 DEF NpNoOrphans, NpProcs
<1> QED BY <1>1, <1>2, <1>3

-----------------------------------------------------------------------------
(* An ECS service: its deployments keep one primary, its containers and     *)
(* tokens an owner, and a deletion takes every task with it.                *)

(* The shapes of the records.                                               *)
EcDeploymentRecord == [status : {"gone", "PRIMARY", "ACTIVE"},
                       rollout : {"IN_PROGRESS", "COMPLETED", "FAILED"}, failed : 0..EcThreshold]
EcTaskRecord == [there : BOOLEAN, resetting : BOOLEAN,
                 status : {"none", "starting", "RUNNING", "STOPPED"}, dep : 0..EcMaxDeployments,
                 ids : SUBSET EcIds, tokens : SUBSET EcIds, stable : BOOLEAN]
EcWorkerRecord == [pc : {"none", "start", "attach", "done"}, at : EcIds]
EcBusyPcs == {"record", "look", "act", "complete", "drain", "finish"}
EcJobRecord == [pc : {"none", "sleep"} \cup EcBusyPcs, dep : 0..EcMaxDeployments,
                to : 0..EcMaxDeployments, stop : SUBSET EcTasks, run : Int,
                completes : BOOLEAN, watched : BOOLEAN, back : BOOLEAN]

EcServiceTypes ==
  ecService \in [status : {"none", "ACTIVE", "INACTIVE"}, desired : EcDesired \cup {0},
                 deps : [EcDeployments -> EcDeploymentRecord]]
EcTaskTypes ==
  /\ ecTask \in [EcTasks -> EcTaskRecord] /\ ecWorker \in [EcTasks -> EcWorkerRecord]
  /\ ecBox \in [EcTasks \X EcIds -> {"none", "up", "exited"}]
  /\ ecToken \in [EcTasks -> SUBSET EcIds] /\ ecClean \in SUBSET EcTasks
EcOtherTypes ==
  /\ ecReset \in {"no", "flagged"} /\ ecLate \in BOOLEAN
  /\ ecLeft \in [deps : 0..EcMaxDeployments, troubles : Nat]
EcJobTypes == ecJob \in [EcJobs -> EcJobRecord]

(* One primary deployment, and a breaker that trips once.                   *)
EcOnePrimary ==
  ecService.status # "none" => \E p \in EcDeployments : \A d \in EcDeployments :
                                 ecService.deps[d].status = "PRIMARY" <=> d = p
EcNoService == ecService.status = "none" => \A d \in EcDeployments : ecService.deps[d].status = "gone"
EcBreaker == \A d \in EcDeployments :
  \/ ecService.deps[d].failed < EcThreshold
  \/ ecService.deps[d].failed = EcThreshold /\ ecService.deps[d].rollout = "FAILED"
EcDeploymentsInv == EcServiceTypes /\ EcOtherTypes /\ EcOnePrimary /\ EcNoService /\ EcBreaker

-----------------------------------------------------------------------------
(* A finite set of integers has a greatest element: the one above which     *)
(* the fewest others are.                                                   *)
LEMMA GreatestExists ==
  ASSUME NEW S \in SUBSET Int, IsFiniteSet(S), S # {}
  PROVE  Max(S) \in S /\ \A y \in S : Max(S) >= y
<1> DEFINE Above(x) == {y \in S : y > x}
           T == {Above(x) : x \in S}
<1>1. T \subseteq FiniteSubsetsOf(S) /\ T # {}
  <2>1. ASSUME NEW x \in S PROVE Above(x) \in FiniteSubsetsOf(S)
    <3>1. Above(x) \in SUBSET S
      OBVIOUS
    <3>2. IsFiniteSet(Above(x))
      BY <3>1, FS_Subset
    <3> QED
      BY <3>1, <3>2 DEF FiniteSubsetsOf
  <2> QED
    BY <2>1
<1>2. PICK A \in T : \A B \in T : <<B, A>> \notin StrictSubsetOrdering(S)
  <2> HIDE DEF T
  <2> QED BY <1>1, FS_StrictSubsetOrderingWellFounded, WFMin
<1>3. PICK x \in S : A = Above(x)
  BY <1>2
<1>4. ASSUME NEW y \in S, y > x PROVE FALSE
  <2>0. x \in Int /\ y \in Int /\ ~(y > y) /\ \A z \in S : z > y => z > x
    BY <1>4
  <2>1. Above(y) \subseteq Above(x) /\ y \in Above(x) /\ y \notin Above(y)
    BY <1>4, <2>0, Zenon
  <2>2. <<Above(y), Above(x)>> \in StrictSubsetOrdering(S)
    BY <2>1 DEF StrictSubsetOrdering
  <2> QED BY <1>2, <1>3, <2>2
<1>5. \A y \in S : x >= y
  BY <1>4
<1> QED
  BY <1>5 DEF Max

LEMMA EcNumbers ==
  /\ EcMaxTasks \in Nat /\ EcContainers \in Nat /\ EcContainers > 0 /\ EcMaxDeployments \in Nat
  /\ EcThreshold \in Nat /\ EcThreshold > 0 /\ EcDesired \subseteq Nat
  /\ 1 \in EcIds /\ 0 \notin EcDeployments /\ EcDeployments \subseteq 1..EcMaxDeployments
BY EcAssumption DEF EcIds, EcDeployments

LEMMA EcPrimaryIs ==
  ASSUME EcServiceTypes, EcOnePrimary, EcNoService
  PROVE  /\ EcPrimary \in 0..EcMaxDeployments
         /\ ecService.status = "none" => EcPrimary = 0
         /\ ecService.status # "none" =>
              /\ EcPrimary \in EcDeployments
              /\ \A d \in EcDeployments : ecService.deps[d].status = "PRIMARY" <=> d = EcPrimary
<1>1. CASE ecService.status = "none"
  <2>1. EcPrimary = 0
    BY <1>1 DEF EcPrimary, EcNoService, EcListed
  <2> QED
    BY <1>1, <2>1, EcNumbers
<1>2. CASE ecService.status # "none"
  <2>1. PICK p \in EcDeployments : \A d \in EcDeployments : ecService.deps[d].status = "PRIMARY" <=> d = p
    BY <1>2 DEF EcOnePrimary
  <2>2. {d \in EcListed : ecService.deps[d].status = "PRIMARY"} = {p}
    BY <2>1 DEF EcListed
  <2>3. Max({p}) = p
    BY DEF Max, EcDeployments
  <2>4. EcPrimary = p
    BY <2>1, <2>2, <2>3 DEF EcPrimary, EcListed
  <2> QED
    BY <1>2, <2>1, <2>4, EcNumbers DEF EcDeployments
<1> QED
  BY <1>1, <1>2

LEMMA EcCandidateIs ==
  ASSUME NEW d \in EcDeployments, EcCandidates(d) # {}
  PROVE  Max(EcCandidates(d)) \in EcCandidates(d)
<1>1. EcCandidates(d) \subseteq EcDeployments
  BY DEF EcCandidates, EcListed
<1>2. EcDeployments \in SUBSET Int /\ IsFiniteSet(EcDeployments)
  BY EcNumbers, FS_Interval DEF EcDeployments
<1>3. IsFiniteSet(EcCandidates(d)) /\ EcCandidates(d) \in SUBSET Int
  BY <1>1, <1>2, FS_Subset
<1> QED
  BY <1>3, GreatestExists

-----------------------------------------------------------------------------
(* The deployments after a step: what the primary and the counters become.  *)
EcDeps == ecService.deps
EcFits(deps) ==
  /\ deps \in [EcDeployments -> EcDeploymentRecord]
  /\ \A d \in EcDeployments : \/ deps[d].failed < EcThreshold
                              \/ deps[d].failed = EcThreshold /\ deps[d].rollout = "FAILED"
EcLeads(deps, p) ==
  p \in EcDeployments /\ \A d \in EcDeployments : deps[d].status = "PRIMARY" <=> d = p

LEMMA EcDeploymentsAre ==
  ASSUME EcDeploymentsInv
  PROVE  /\ EcFits(EcDeps)
         /\ ecService.status # "none" => EcLeads(EcDeps, EcPrimary)
         /\ \A d \in EcDeployments : EcDeps[d] \in EcDeploymentRecord
<1>1. EcFits(EcDeps)
  BY DEF EcDeploymentsInv, EcServiceTypes, EcBreaker, EcFits, EcDeps
<1>2. ecService.status # "none" => EcLeads(EcDeps, EcPrimary)
  BY EcPrimaryIs DEF EcDeploymentsInv, EcLeads, EcDeps
<1> QED
  BY <1>1, <1>2 DEF EcFits

LEMMA EcGiven ==
  ASSUME NEW deps, NEW status \in {"ACTIVE", "INACTIVE"}, NEW desired \in EcDesired \cup {0},
         EcFits(deps), NEW p, EcLeads(deps, p),
         ecService' = [status |-> status, desired |-> desired, deps |-> deps], EcOtherTypes'
  PROVE  EcDeploymentsInv'
<1>1. EcServiceTypes' /\ EcBreaker'
  BY DEF EcServiceTypes, EcBreaker, EcFits
<1>2. EcOnePrimary' /\ EcNoService'
  BY DEF EcOnePrimary, EcNoService, EcLeads
<1> QED
  BY <1>1, <1>2 DEF EcDeploymentsInv

(* _refresh_service_state drops no primary deployment.                      *)
LEMMA EcPrunedInv ==
  ASSUME EcDeploymentsInv, NEW tasks, ecService' = EcPruned(ecService, tasks), EcOtherTypes'
  PROVE  EcDeploymentsInv'
<1> DEFINE deps == EcPruned(ecService, tasks).deps
<1>0. EcNoDeployment \in EcDeploymentRecord
  BY EcNumbers DEF EcNoDeployment, EcDeploymentRecord
<1>1. \A d \in EcDeployments : \/ deps[d] = EcDeps[d]
                               \/ deps[d] = EcNoDeployment /\ EcDeps[d].status = "ACTIVE"
  BY DEF EcPruned, EcDeps, EcDeploymentsInv, EcServiceTypes
<1>2. DOMAIN deps = EcDeployments /\ deps = [d \in EcDeployments |-> deps[d]]
  BY DEF EcPruned, EcDeploymentsInv, EcServiceTypes
<1>3. ecService' = [status |-> ecService.status, desired |-> ecService.desired, deps |-> deps]
  BY DEF EcPruned, EcDeploymentsInv, EcServiceTypes
<1> HIDE DEF deps
<1>4. EcFits(deps)
  BY <1>0, <1>1, <1>2, EcDeploymentsAre, EcNumbers DEF EcFits, EcNoDeployment
<1>5. CASE ecService.status = "none"
  <2>1. EcNoService'
    BY <1>1, <1>3 DEF EcNoService, EcDeploymentsInv, EcNoDeployment, EcDeps
  <2>2. EcServiceTypes' /\ EcBreaker'
    BY <1>3, <1>4 DEF EcServiceTypes, EcBreaker, EcFits, EcDeploymentsInv
  <2> QED
    BY <1>3, <1>5, <2>1, <2>2 DEF EcDeploymentsInv, EcOnePrimary
<1>6. CASE ecService.status # "none"
  <2>1. EcLeads(deps, EcPrimary)
    BY <1>1, <1>6, EcDeploymentsAre DEF EcLeads, EcNoDeployment
  <2>2. ecService.status \in {"ACTIVE", "INACTIVE"} /\ ecService.desired \in EcDesired \cup {0}
    BY <1>6 DEF EcDeploymentsInv, EcServiceTypes
  <2> QED
    BY <1>3, <1>4, <2>1, <2>2, EcGiven
<1> QED
  BY <1>5, <1>6

LEMMA EcOtherTypesStep ==
  ASSUME EcOtherTypes, [EcNext]_ecVars
  PROVE  EcOtherTypes'
<1>1. ASSUME ecLeft.troubles > 0, ecLeft' = [ecLeft EXCEPT !.troubles = @ - 1]
      PROVE  ecLeft' \in [deps : 0..EcMaxDeployments, troubles : Nat]
  BY <1>1 DEF EcOtherTypes
<1>2. ASSUME EcNewDeployment \in EcDeployments, ecLeft' = [ecLeft EXCEPT !.deps = @ + 1]
      PROVE  ecLeft' \in [deps : 0..EcMaxDeployments, troubles : Nat]
  BY <1>2, EcNumbers DEF EcOtherTypes, EcNewDeployment, EcDeployments
<1>3. CASE \E t \in EcTasks : EcThread(t) \/ EcTaskStep(t)
  BY <1>3 DEF EcOtherTypes, EcThread, EcTaskStep, EcRun, EcAttach, EcRecordFailure, EcFinish, EcSettle, EcCleanup, EcNotice
<1>4. CASE \E j \in EcJobs : EcWork(j)
  <2>1. UNCHANGED <<ecReset, ecLeft>>
    BY <1>4 DEF EcWork, EcWake, EcLook, EcAct, EcComplete
  <2>2. ecLate' \in BOOLEAN
    BY <1>4 DEF EcOtherTypes, EcWork, EcWake, EcLook, EcAct, EcComplete
  <2> QED
    BY <2>1, <2>2 DEF EcOtherTypes
<1>5. CASE \E t \in EcTasks : EcRunFails(t) \/ EcStopTask(t)
  BY <1>1, <1>5 DEF EcOtherTypes, EcRunFails, EcStopTask
<1>6. CASE \E b \in EcTasks \X EcIds : EcExit(b)
  BY <1>1, <1>6 DEF EcOtherTypes, EcExit
<1>7. CASE \E n \in EcDesired : EcCreate(n) \/ EcScale(n)
  BY <1>1, <1>2, <1>7 DEF EcOtherTypes, EcCreate, EcScale
<1>8. CASE EcDeploy \/ EcDelete \/ EcResetFlags \/ EcResetClears
  BY <1>1, <1>2, <1>8 DEF EcOtherTypes, EcDeploy, EcDelete, EcResetFlags, EcResetClears
<1>9. CASE UNCHANGED ecVars
  BY <1>9 DEF EcOtherTypes, ecVars
<1> QED
  BY <1>3, <1>4, <1>5, <1>6, <1>7, <1>8, <1>9 DEF EcNext, EcProgress

(* A failure that trips the breaker hands the primary's place to a          *)
(* completed deployment, or to none.                                        *)
LEMMA EcRecordFailureInv ==
  ASSUME EcDeploymentsInv, NEW t \in EcTasks, EcRecordFailure(t), EcOtherTypes'
  PROVE  EcDeploymentsInv'
<1> DEFINE d == ecTask[t].dep
           counted == EcIsActive /\ d = EcPrimary /\ d > 0 /\ EcRollout = "IN_PROGRESS"
           trips == counted /\ EcDeps[d].failed + 1 >= EcThreshold
           deps == IF trips THEN EcRolledBack(d) ELSE EcDeps
           new == [deps EXCEPT ![d].failed = EcDeps[d].failed + 1,
                               ![d].rollout = IF trips THEN "FAILED" ELSE @]
<1>1. ecService' = IF ~counted THEN ecService ELSE [ecService EXCEPT !.deps = new]
  BY DEF EcRecordFailure, EcDeps
<1>2. CASE ~counted
  BY <1>1, <1>2 DEF EcDeploymentsInv, EcServiceTypes, EcOnePrimary, EcNoService, EcBreaker
<1>3. CASE counted
  <2>1. /\ EcFits(EcDeps) /\ EcLeads(EcDeps, d) /\ d \in EcDeployments /\ EcDeps[d].rollout = "IN_PROGRESS"
        /\ \A e \in EcDeployments : EcDeps[e] \in EcDeploymentRecord
    BY <1>3, EcDeploymentsAre DEF EcIsActive, EcRollout, EcDeps, EcLeads
  <2>2. EcDeps[d].failed \in Nat /\ EcDeps[d].failed < EcThreshold
    <3>1. EcDeps[d] \in EcDeploymentRecord
      BY <2>1
    <3>2. EcDeps[d].failed < EcThreshold
      BY <2>1, Zenon DEF EcFits
    <3> QED
      BY <3>1, <3>2, EcNumbers DEF EcDeploymentRecord
  <2>3. PICK p \in EcDeployments : 
          /\ deps \in [EcDeployments -> EcDeploymentRecord] /\ EcLeads(deps, p)
          /\ \A e \in EcDeployments : deps[e].failed = EcDeps[e].failed
          /\ \A e \in EcDeployments : deps[e].rollout = EcDeps[e].rollout \/ EcDeps[e].rollout = "COMPLETED"
    <3>1. CASE deps = EcDeps
      BY <2>1, <3>1 DEF EcFits
    <3>2. CASE deps # EcDeps
      <4> DEFINE c == Max(EcCandidates(d))
      <4>1. EcCandidates(d) # {}
            /\ deps = [EcDeps EXCEPT ![d].status = "ACTIVE", ![c].status = "PRIMARY", ![c].rollout = "IN_PROGRESS"]
        BY <3>2 DEF EcRolledBack, EcDeps
      <4>2. c \in EcDeployments /\ c # d /\ EcDeps[c].rollout = "COMPLETED"
        BY <2>1, <4>1, EcCandidateIs DEF EcCandidates, EcListed, EcDeps
      <4> HIDE DEF c, deps
      <4>3. deps = [e \in EcDeployments |->
                      IF e = d THEN [EcDeps[d] EXCEPT !.status = "ACTIVE"]
                      ELSE IF e = c THEN [EcDeps[c] EXCEPT !.status = "PRIMARY", !.rollout = "IN_PROGRESS"]
                      ELSE EcDeps[e]]
        BY <2>1, <4>1, <4>2 DEF EcFits, EcDeploymentRecord
      <4>4. /\ [EcDeps[d] EXCEPT !.status = "ACTIVE"] \in EcDeploymentRecord
            /\ [EcDeps[c] EXCEPT !.status = "PRIMARY", !.rollout = "IN_PROGRESS"] \in EcDeploymentRecord
        BY <2>1, <4>2 DEF EcDeploymentRecord
      <4>5. deps \in [EcDeployments -> EcDeploymentRecord]
        BY <2>1, <4>3, <4>4
      <4>6. EcLeads(deps, c)
        BY <2>1, <4>2, <4>3 DEF EcLeads, EcDeploymentRecord
      <4>7. \A e \in EcDeployments :
              /\ deps[e].failed = EcDeps[e].failed
              /\ deps[e].rollout = EcDeps[e].rollout \/ EcDeps[e].rollout = "COMPLETED"
        <5> TAKE e \in EcDeployments
        <5>1. EcDeps[e] \in EcDeploymentRecord
          BY <2>1
        <5>2. CASE e = d
          BY <4>3, <5>1, <5>2 DEF EcDeploymentRecord
        <5>3. CASE e # d /\ e = c
          BY <4>2, <4>3, <5>1, <5>3 DEF EcDeploymentRecord
        <5>4. CASE e # d /\ e # c
          BY <4>3, <5>4
        <5> QED
          BY <5>2, <5>3, <5>4
      <4> QED
        BY <4>2, <4>5, <4>6, <4>7
    <3> QED
      BY <3>1, <3>2
  <2> DEFINE one == [deps[d] EXCEPT !.failed = EcDeps[d].failed + 1, !.rollout = IF trips THEN "FAILED" ELSE @]
  <2>4. new = [deps EXCEPT ![d] = one]
    <3> HIDE DEF deps
    <3> QED
      BY <2>1, <2>3 DEF EcDeploymentRecord
  <2> DEFINE tripped == trips
  <2>5. /\ tripped => EcDeps[d].failed + 1 >= EcThreshold
        /\ ~tripped => EcDeps[d].failed + 1 < EcThreshold
    BY <1>3, <2>2, EcNumbers
  <2>6. /\ one \in EcDeploymentRecord /\ one.status = deps[d].status
        /\ one.failed = EcDeps[d].failed + 1 /\ (tripped => one.rollout = "FAILED")
    <3>1. deps[d] \in EcDeploymentRecord /\ one = [deps[d] EXCEPT !.failed = EcDeps[d].failed + 1, !.rollout = IF tripped THEN "FAILED" ELSE @]
      BY <2>1, <2>3
    <3> HIDE DEF deps, tripped, one
    <3>2. EcDeps[d].failed + 1 \in 0..EcThreshold
      BY <2>2, EcNumbers
    <3> QED
      BY <3>1, <3>2 DEF EcDeploymentRecord
  <2> HIDE DEF deps, tripped, one, new
  <2>7. EcFits(new)
    <3>1. new \in [EcDeployments -> EcDeploymentRecord]
      BY <2>1, <2>3, <2>4, <2>6
    <3>2. ASSUME NEW e \in EcDeployments
          PROVE  new[e].failed < EcThreshold \/ (new[e].failed = EcThreshold /\ new[e].rollout = "FAILED")
      <4>1. CASE e = d
        <5>1. new[e] = one
          BY <2>1, <2>3, <2>4, <4>1
        <5> QED
          BY <5>1, <2>2, <2>5, <2>6, EcNumbers
      <4>2. CASE e # d
        <5>1. new[e] = deps[e]
          BY <2>3, <2>4, <4>2
        <5>2. EcDeps[e].failed \in Nat /\ (EcDeps[e].failed < EcThreshold \/ (EcDeps[e].failed = EcThreshold /\ EcDeps[e].rollout = "FAILED"))
          BY <2>1, EcNumbers DEF EcFits, EcDeploymentRecord
        <5>3. /\ new[e].failed = EcDeps[e].failed
              /\ new[e].rollout = EcDeps[e].rollout \/ EcDeps[e].rollout = "COMPLETED"
          BY <2>3, <5>1
        <5> QED
          BY <5>2, <5>3, Zenon
      <4> QED
        BY <4>1, <4>2
    <3> QED
      BY <3>1, <3>2 DEF EcFits
  <2>8. EcLeads(new, p)
    BY <2>1, <2>3, <2>4, <2>6 DEF EcLeads
  <2>9. /\ ecService.status \in {"ACTIVE", "INACTIVE"} /\ ecService.desired \in EcDesired \cup {0}
        /\ ecService' = [status |-> ecService.status, desired |-> ecService.desired, deps |-> new]
    BY <1>1, <1>3 DEF EcIsActive, EcDeploymentsInv, EcServiceTypes
  <2> QED
    BY <2>7, <2>8, <2>9, EcGiven
<1> QED
  BY <1>2, <1>3

(* One deployment's counter or rollout is set.                              *)
LEMMA EcSetOne ==
  ASSUME EcDeploymentsInv, EcOtherTypes', NEW d \in EcDeployments, ecService.status # "none", NEW one \in EcDeploymentRecord,
         one.status = EcDeps[d].status, one.failed < EcThreshold,
         ecService' = [ecService EXCEPT !.deps = [EcDeps EXCEPT ![d] = one]]
  PROVE  EcDeploymentsInv'
<1> DEFINE new == [EcDeps EXCEPT ![d] = one]
<1>1. EcFits(EcDeps) /\ EcLeads(EcDeps, EcPrimary)
  BY EcDeploymentsAre
<1>2. EcFits(new) /\ EcLeads(new, EcPrimary)
  BY <1>1 DEF EcFits, EcLeads
<1>3. /\ ecService.status \in {"ACTIVE", "INACTIVE"} /\ ecService.desired \in EcDesired \cup {0}
      /\ ecService' = [status |-> ecService.status, desired |-> ecService.desired, deps |-> new]
  BY DEF EcDeploymentsInv, EcServiceTypes
<1> QED
  BY <1>2, <1>3, EcGiven

LEMMA EcCertificationInv ==
  ASSUME EcDeploymentsInv, EcOtherTypes', NEW j \in EcJobs, EcWake(j) \/ EcComplete(j)
  PROVE  EcDeploymentsInv'
<1> DEFINE p == EcPrimary
<1>1. CASE UNCHANGED ecService
  BY <1>1 DEF EcDeploymentsInv, EcServiceTypes, EcOnePrimary, EcNoService, EcBreaker
<1>2. CASE ecService' # ecService
  <2>1. EcIsActive /\ EcRollout = "IN_PROGRESS"
    BY <1>2 DEF EcWake, EcComplete
  <2>2. \/ ecService' = [ecService EXCEPT !.deps[EcPrimary].failed = 0]
        \/ ecService' = [ecService EXCEPT !.deps[EcPrimary].rollout = "COMPLETED"]
    BY <1>2 DEF EcWake, EcComplete
  <2>3. /\ p \in EcDeployments /\ ecService.status # "none" /\ EcDeps[p] \in EcDeploymentRecord
        /\ EcDeps[p].rollout = "IN_PROGRESS" /\ EcFits(EcDeps)
    BY <2>1, EcDeploymentsAre DEF EcIsActive, EcLeads, EcRollout, EcDeps
  <2>4. EcDeps[p].failed < EcThreshold
    BY <2>3, Zenon DEF EcFits
  <2> DEFINE healthy == [EcDeps[p] EXCEPT !.failed = 0]
             completed == [EcDeps[p] EXCEPT !.rollout = "COMPLETED"]
  <2>5. \/ ecService' = [ecService EXCEPT !.deps = [EcDeps EXCEPT ![p] = healthy]]
        \/ ecService' = [ecService EXCEPT !.deps = [EcDeps EXCEPT ![p] = completed]]
    BY <2>2 DEF EcDeps
  <2>6. /\ healthy \in EcDeploymentRecord /\ healthy.status = EcDeps[p].status /\ healthy.failed < EcThreshold
        /\ completed \in EcDeploymentRecord /\ completed.status = EcDeps[p].status
        /\ completed.failed < EcThreshold
    BY <2>3, <2>4, EcNumbers DEF EcDeploymentRecord
  <2> HIDE DEF p, healthy, completed
  <2> QED
    BY <2>3, <2>5, <2>6, EcSetOne
<1> QED
  BY <1>1, <1>2

LEMMA EcUpdateInv ==
  ASSUME EcDeploymentsInv, EcOtherTypes', EcDeploy \/ \E n \in EcDesired : EcCreate(n)
  PROVE  EcDeploymentsInv'
<1> DEFINE d == EcNewDeployment
           first == [status |-> "PRIMARY", rollout |-> "COMPLETED", failed |-> 0]
           next == [status |-> "PRIMARY", rollout |-> "IN_PROGRESS", failed |-> 0]
<1>1. d \in EcDeployments /\ {first, next, EcNoDeployment} \subseteq EcDeploymentRecord
  BY EcNumbers DEF EcDeploy, EcCreate, EcDeploymentRecord, EcNoDeployment
<1>2. ASSUME NEW n \in EcDesired, EcCreate(n) PROVE EcDeploymentsInv'
  <2> DEFINE deps == [e \in EcDeployments |-> IF e = d THEN first ELSE EcNoDeployment]
  <2>1. EcFits(deps) /\ EcLeads(deps, d)
    BY <1>1, EcNumbers DEF EcFits, EcLeads, EcNoDeployment
  <2>2. ecService' = [status |-> "ACTIVE", desired |-> n, deps |-> deps]
    BY <1>2 DEF EcCreate
  <2> QED
    BY <2>1, <2>2, EcGiven
<1>3. CASE EcDeploy
  <2> DEFINE deps == [EcDemoted EXCEPT ![d] = next]
  <2>1. EcFits(EcDeps) /\ \A e \in EcDeployments : EcDeps[e] \in EcDeploymentRecord
    BY EcDeploymentsAre
  <2>2. /\ EcDemoted \in [EcDeployments -> EcDeploymentRecord]
        /\ \A e \in EcDeployments : /\ EcDemoted[e].status # "PRIMARY"
                                    /\ EcDemoted[e].failed = EcDeps[e].failed
                                    /\ EcDemoted[e].rollout = EcDeps[e].rollout
    BY <2>1 DEF EcDemoted, EcDeps, EcDeploymentRecord
  <2>3. /\ DOMAIN deps = EcDeployments /\ deps[d] = next
        /\ \A e \in EcDeployments : e # d => deps[e] = EcDemoted[e]
        /\ deps \in [EcDeployments -> EcDeploymentRecord]
    BY <1>1, <2>2
  <2>4. next.failed < EcThreshold /\ next.status = "PRIMARY"
    BY EcNumbers
  <2> HIDE DEF deps, next, d
  <2>5. EcLeads(deps, d)
    BY <1>1, <2>2, <2>3, <2>4 DEF EcLeads
  <2>6. EcFits(deps)
    BY <2>1, <2>2, <2>3, <2>4, Zenon DEF EcFits
  <2>7. /\ ecService.status \in {"ACTIVE", "INACTIVE"} /\ ecService.desired \in EcDesired \cup {0}
        /\ ecService' = [status |-> ecService.status, desired |-> ecService.desired, deps |-> deps]
    BY <1>3 DEF EcDeploy, EcDeploymentsInv, EcServiceTypes, deps, next, d
  <2> QED
    BY <2>5, <2>6, <2>7, EcGiven
<1> QED
  BY <1>2, <1>3

LEMMA EcScaleInv ==
  ASSUME EcDeploymentsInv, EcOtherTypes', EcDelete \/ \E n \in EcDesired : EcScale(n)
  PROVE  EcDeploymentsInv'
<1>1. EcFits(EcDeps) /\ EcLeads(EcDeps, EcPrimary)
  BY EcDeploymentsAre DEF EcDelete, EcScale, EcIsActive
<1>2. PICK status \in {"ACTIVE", "INACTIVE"}, desired \in EcDesired \cup {0} :
        ecService' = [ecService EXCEPT !.status = status, !.desired = desired]
  <2>1. CASE EcDelete
    BY <2>1 DEF EcDelete
  <2>2. ASSUME NEW n \in EcDesired, EcScale(n)
        PROVE  ecService' = [ecService EXCEPT !.status = "ACTIVE", !.desired = n]
    BY <2>2 DEF EcScale, EcIsActive, EcDeploymentsInv, EcServiceTypes
  <2> QED
    BY <2>1, <2>2
<1>3. ecService' = [status |-> status, desired |-> desired, deps |-> EcDeps]
  BY <1>2 DEF EcDeploymentsInv, EcServiceTypes, EcDeps
<1> QED
  BY <1>1, <1>3, EcGiven

LEMMA EcDeploymentsStep ==
  ASSUME EcDeploymentsInv, [EcNext]_ecVars
  PROVE  EcDeploymentsInv'
<1>0. EcOtherTypes'
  BY EcOtherTypesStep DEF EcDeploymentsInv
<1>a. ASSUME UNCHANGED ecService PROVE EcDeploymentsInv'
  BY <1>0, <1>a DEF EcDeploymentsInv, EcServiceTypes, EcOnePrimary, EcNoService, EcBreaker
<1>1. ASSUME NEW t \in EcTasks, EcThread(t) PROVE EcDeploymentsInv'
  <2>1. \/ UNCHANGED ecService
        \/ ecService' = EcPruned(ecService, ecTask')
    BY <1>1 DEF EcThread, EcRun, EcAttach, EcAttached
  <2> QED
    BY <2>1, <1>0, <1>a, EcPrunedInv
<1>2. ASSUME NEW t \in EcTasks, EcTaskStep(t) \/ EcRunFails(t) \/ EcStopTask(t) PROVE EcDeploymentsInv'
  <2>1. CASE EcRecordFailure(t)
    BY <1>0, <2>1, EcRecordFailureInv
  <2>2. CASE EcFinish(t) \/ EcCleanup(t) \/ EcRunFails(t)
    BY <1>a, <2>2 DEF EcFinish, EcSettle, EcCleanup, EcRunFails
  <2>3. CASE EcNotice(t) \/ EcStopTask(t)
    BY <1>0, <2>3, EcPrunedInv DEF EcNotice, EcStopTask
  <2> QED
    BY <1>2, <2>1, <2>2, <2>3 DEF EcTaskStep
<1>3. ASSUME NEW j \in EcJobs, EcWork(j) PROVE EcDeploymentsInv'
  <2>1. CASE EcWake(j) \/ EcComplete(j)
    BY <1>0, <2>1, EcCertificationInv
  <2>2. CASE EcLook(j)
    BY <1>a, <2>2 DEF EcLook
  <2>3. CASE EcAct(j)
    <3>1. PICK tasks : ecService' = EcPruned(ecService, tasks)
      BY <2>3 DEF EcAct
    <3> QED
      BY <1>0, <3>1, EcPrunedInv
  <2> QED
    BY <1>3, <2>1, <2>2, <2>3 DEF EcWork
<1>4. CASE EcDeploy \/ \E n \in EcDesired : EcCreate(n)
  BY <1>0, <1>4, EcUpdateInv
<1>5. CASE EcDelete \/ \E n \in EcDesired : EcScale(n)
  BY <1>0, <1>5, EcScaleInv
<1>6. CASE EcResetClears
  <2>1. EcNoDeployment \in EcDeploymentRecord /\ EcNoDeployment.failed < EcThreshold
        /\ EcNoDeployment.status = "gone"
    BY EcNumbers DEF EcNoDeployment, EcDeploymentRecord
  <2> QED
    BY <1>0, <1>6, <2>1
    DEF EcResetClears, EcDeploymentsInv, EcServiceTypes, EcOnePrimary, EcNoService, EcBreaker
<1>7. CASE EcResetFlags \/ UNCHANGED ecVars \/ \E b \in EcTasks \X EcIds : EcExit(b)
  BY <1>a, <1>7 DEF EcResetFlags, EcExit, ecVars
<1> QED
  BY <1>1, <1>2, <1>3, <1>4, <1>5, <1>6, <1>7 DEF EcNext, EcProgress

LEMMA EcDeploymentsInit == EcInit => EcDeploymentsInv
<1>1. EcNoDeployment \in EcDeploymentRecord /\ EcNoDeployment.failed < EcThreshold
      /\ EcNoDeployment.status = "gone"
  BY EcNumbers DEF EcNoDeployment, EcDeploymentRecord
<1> SUFFICES ASSUME EcInit PROVE EcDeploymentsInv
  OBVIOUS
<1>2. EcServiceTypes /\ EcOnePrimary /\ EcNoService /\ EcBreaker
  BY <1>1 DEF EcInit, EcServiceTypes, EcOnePrimary, EcNoService, EcBreaker
<1>3. EcOtherTypes
  <2>1. EcMaxTroubles \in Nat /\ 0 \in 0..EcMaxDeployments
    BY EcAssumption
  <2>2. ecLeft \in [deps : 0..EcMaxDeployments, troubles : Nat]
    BY <2>1 DEF EcInit
  <2> QED
    BY <2>2 DEF EcInit, EcOtherTypes
<1> QED
  BY <1>2, <1>3 DEF EcDeploymentsInv

-----------------------------------------------------------------------------
(* The tasks, their threads and the jobs keep their types.                  *)
EcTypes == EcTaskTypes /\ EcJobTypes

LEMMA EcJobNames ==
  /\ <<0, "call">> \in EcJobs /\ 0 \notin EcTasks
  /\ \A t \in EcTasks : {<<t, "end">>, <<t, "check">>, <<t, "back">>} \subseteq EcJobs
  /\ \A j \in EcJobs : \/ j = <<0, "call">>
                       \/ \E t \in EcTasks : j \in {<<t, "end">>, <<t, "check">>, <<t, "back">>}
BY EcNumbers DEF EcJobs, EcTasks

LEMMA EcAsTyped ==
  ASSUME EcTypes
  PROVE  /\ \A t \in EcTasks : ecTask[t] \in EcTaskRecord /\ ecWorker[t] \in EcWorkerRecord
         /\ \A j \in EcJobs : ecJob[j] \in EcJobRecord
BY DEF EcTypes, EcTaskTypes, EcJobTypes

LEMMA LeastAndGreatest ==
  /\ \A a, b \in Int : Max({a, b}) \in Int
  /\ \A a, b, c \in Int : Min({a, b, c}) \in Int
<1> SUFFICES ASSUME NEW a \in Int, NEW b \in Int, NEW c \in Int
             PROVE  Max({a, b}) \in Int /\ Min({a, b, c}) \in Int
  OBVIOUS
<1>1. \E x \in {a, b} : \A y \in {a, b} : x >= y
  OBVIOUS
<1>2. \E x \in {a, b, c} : \A y \in {a, b, c} : x =< y
  OBVIOUS
<1>3. Max({a, b}) \in {a, b} /\ Min({a, b, c}) \in {a, b, c}
  BY <1>1, <1>2, Zenon DEF Max, Min
<1> QED
  BY <1>3

LEMMA EcReconciliationTypes ==
  ASSUME EcDeploymentsInv
  PROVE  EcReconciliation.stop \in SUBSET EcTasks /\ EcReconciliation.run \in Int
<1>1. EcStale \subseteq EcTasks /\ EcCurrent \subseteq EcTasks /\ EcRunning \subseteq EcTasks
  BY DEF EcStale, EcCurrent, EcRunning
<1>2. \A n, S : EcFirst(n, S) \subseteq S /\ EcNewest(n, S) \subseteq S
  BY DEF EcFirst, EcNewest
<1>3. EcDrained \subseteq EcTasks
  BY <1>1 DEF EcDrained
<1>4. EcReconciliation.stop \in SUBSET EcTasks
  BY <1>1, <1>2, <1>3 DEF EcReconciliation
<1>5. ecService.desired \in Int
  <2>1. ecService.desired \in EcDesired \cup {0}
    BY DEF EcDeploymentsInv, EcServiceTypes
  <2>2. EcDesired \subseteq Nat
    BY EcNumbers
  <2>3. ecService.desired \in EcDesired \/ ecService.desired = 0
    BY <2>1
  <2>4. CASE ecService.desired \in EcDesired
    <3>1. ecService.desired \in Nat
      BY <2>2, <2>4, Zenon
    <3> QED
      BY <3>1
  <2> QED
    BY <2>3, <2>4
<1>6. \A S \in SUBSET EcTasks : Cardinality(S) \in Int
  <2>1. IsFiniteSet(EcTasks)
    BY EcNumbers, FS_Interval DEF EcTasks
  <2> QED
    BY <2>1, FS_Subset, FS_CardinalityType
<1>7. EcMissing \in Int /\ EcCapacity \in Int
  BY <1>1, <1>5, <1>6 DEF EcMissing, EcCapacity
<1>8. /\ Max({0, EcCapacity}) \in Int /\ Max({0, EcMissing}) \in Int
      /\ Max({0, Cardinality(EcRunning \ EcDrained) - ecService.desired}) \in Int
      /\ Cardinality(EcStale) \in Int
  <2>1. Cardinality(EcRunning \ EcDrained) \in Int /\ Cardinality(EcStale) \in Int
    BY <1>1, <1>6
  <2>2. Cardinality(EcRunning \ EcDrained) - ecService.desired \in Int
    BY <1>5, <2>1
  <2>3. \A a \in Int : Max({0, a}) \in Int
    BY LeastAndGreatest
  <2> QED
    BY <1>7, <2>1, <2>2, <2>3
<1>9. EcRoom \in Int
  <2>1. EcMissing - Max({0, EcCapacity}) \in Int
    BY <1>7, <1>8
  <2> QED
    BY <1>8, <2>1, LeastAndGreatest DEF EcRoom
<1> QED
  BY <1>4, <1>7, <1>8, <1>9 DEF EcReconciliation

LEMMA EcNoJobType == EcNoJob \in EcJobRecord /\ EcNoTask \in EcTaskRecord
BY EcNumbers DEF EcNoJob, EcJobRecord, EcNoTask, EcTaskRecord

LEMMA EcOverType ==
  ASSUME EcTypes, NEW j \in EcJobs
  PROVE  /\ EcOver(j) \in EcJobRecord /\ EcOver(j).watched \in {ecJob[j].watched, FALSE}
         /\ EcOver(j).pc \in {"finish", "none"}
         /\ j[2] = "end" => EcOver(j).pc = "finish" /\ EcOver(j).watched = ecJob[j].watched
         /\ j[2] # "end" => EcOver(j) = EcNoJob
<1>1. ecJob[j] \in EcJobRecord /\ {} \subseteq EcTasks /\ 0 \in 0..EcMaxDeployments /\ 0 \in Int
  BY EcNumbers DEF EcTypes, EcJobTypes
<1>2. CASE j[2] = "end"
  BY <1>1, <1>2 DEF EcOver, EcJobRecord, EcBusyPcs
<1>3. CASE j[2] # "end"
  BY <1>3, EcNoJobType DEF EcOver, EcNoJob
<1> QED
  BY <1>2, <1>3

(* A step of a job that reconciles or completes.                            *)
EcJobBecomes(j, job) == ecJob' = [ecJob EXCEPT ![j] = job] /\ job \in EcJobRecord
EcGoesOn(j, job) ==
  /\ EcJobBecomes(j, job) /\ job.watched \in {ecJob[j].watched, FALSE} /\ ecJob[j].pc # "none"
  /\ j[2] = "end" /\ ecJob[j].pc # "sleep" => job.pc \in EcBusyPcs /\ job.watched = ecJob[j].watched
  /\ job.pc = "act" => EcIsActive

LEMMA EcOverGoesOn ==
  ASSUME EcTypes, NEW j \in EcJobs, ecJob' = [ecJob EXCEPT ![j] = EcOver(j)], ecJob[j].pc # "none"
  PROVE  EcGoesOn(j, EcOver(j))
<1>1. EcOver(j).pc # "act" /\ (j[2] = "end" => EcOver(j).pc \in EcBusyPcs)
  BY EcOverType DEF EcBusyPcs
<1> QED
  BY <1>1, EcOverType DEF EcGoesOn, EcJobBecomes

(* A job whose steps leave watched alone and keep it busy.                  *)
LEMMA EcKeepsOn ==
  ASSUME EcTypes, NEW j \in EcJobs, NEW job \in EcJobRecord, ecJob' = [ecJob EXCEPT ![j] = job],
         ecJob[j].pc # "none", job.watched = ecJob[j].watched, job.pc \in EcBusyPcs,
         job.pc = "act" => EcIsActive
  PROVE  EcGoesOn(j, job)
BY DEF EcGoesOn, EcJobBecomes

LEMMA EcWorkJob ==
  ASSUME EcDeploymentsInv, EcTypes, NEW j \in EcJobs, EcWork(j)
  PROVE  \E job : EcGoesOn(j, job)
<1>0. ecJob[j] \in EcJobRecord
  BY DEF EcTypes, EcJobTypes
<1>1. CASE EcWake(j)
  <2> DEFINE looking == [ecJob[j] EXCEPT !.pc = "look"]
  <2>1. ecJob[j].pc = "sleep" /\ ecJob' = [ecJob EXCEPT ![j] = IF EcIsActive THEN looking ELSE EcNoJob]
    BY <1>1 DEF EcWake
  <2>2. looking \in EcJobRecord /\ looking.watched = ecJob[j].watched /\ looking.pc = "look"
    BY <1>0 DEF EcJobRecord, EcBusyPcs
  <2> HIDE DEF looking
  <2>3. CASE EcIsActive
    <3>1. EcGoesOn(j, looking)
      BY <2>1, <2>2, <2>3, EcKeepsOn DEF EcBusyPcs
    <3> QED
      BY <3>1
  <2>4. CASE ~EcIsActive
    <3>1. EcGoesOn(j, EcNoJob)
      BY <2>1, <2>4, EcNoJobType DEF EcGoesOn, EcJobBecomes, EcNoJob
    <3> QED
      BY <3>1
  <2> QED
    BY <2>3, <2>4
<1>2. CASE EcLook(j)
  <2>1. CASE EcIsActive
    <3> DEFINE completes == j[2] \in {"check", "back"} \/ ecService.desired = 0
               dep == IF ecService.desired = 0 THEN 0 ELSE ecJob[j].dep
               rec == EcReconciliation
               job == [ecJob[j] EXCEPT !.pc = "act", !.to = EcPrimary, !.stop = rec.stop,
                                       !.run = rec.run, !.completes = completes, !.dep = dep]
    <3>0. 0 \in 0..EcMaxDeployments /\ ecJob[j].dep \in 0..EcMaxDeployments
      BY <1>0, EcNumbers DEF EcJobRecord
    <3>b. completes \in BOOLEAN
      OBVIOUS
    <3>c. dep \in 0..EcMaxDeployments
      BY <3>0
    <3>d. EcPrimary \in 0..EcMaxDeployments
      BY EcPrimaryIs DEF EcDeploymentsInv
    <3>1. ecJob' = [ecJob EXCEPT ![j] = job] /\ ecJob[j].pc = "look"
      BY <1>2, <2>1 DEF EcLook
    <3>a. rec.stop \in SUBSET EcTasks /\ rec.run \in Int
      BY EcReconciliationTypes
    <3> HIDE DEF completes, dep, rec
    <3>3. job \in EcJobRecord /\ job.watched = ecJob[j].watched /\ job.pc = "act"
      BY <1>0, <3>a, <3>b, <3>c, <3>d DEF EcJobRecord, EcBusyPcs
    <3> HIDE DEF job
    <3>4. EcGoesOn(j, job)
      BY <2>1, <3>1, <3>3, EcKeepsOn DEF EcBusyPcs
    <3> QED
      BY <3>4
  <2>2. CASE ~EcIsActive
    <3>1. EcGoesOn(j, EcOver(j))
      BY <1>2, <2>2, EcOverGoesOn DEF EcLook
    <3> QED
      BY <3>1
  <2> QED
    BY <2>1, <2>2
<1>3. CASE EcAct(j)
  <2> DEFINE completing == [ecJob[j] EXCEPT !.pc = "complete", !.stop = {}, !.run = 0, !.to = 0]
  <2>1. ecJob[j].pc \in {"act", "drain"}
    BY <1>3 DEF EcAct
  <2>2. CASE ecJob[j].pc = "act" /\ ecJob[j].completes
    <3>1. ecJob' = [ecJob EXCEPT ![j] = completing]
      BY <1>3, <2>2 DEF EcAct
    <3>a. {} \subseteq EcTasks /\ 0 \in 0..EcMaxDeployments /\ 0 \in Int
      BY EcNumbers
    <3>2. completing \in EcJobRecord /\ completing.pc = "complete" /\ completing.watched = ecJob[j].watched
      BY <1>0, <3>a DEF EcJobRecord, EcBusyPcs
    <3> HIDE DEF completing
    <3>3. EcGoesOn(j, completing)
      BY <2>1, <3>1, <3>2, EcKeepsOn DEF EcBusyPcs
    <3> QED
      BY <3>3
  <2>3. CASE ~(ecJob[j].pc = "act" /\ ecJob[j].completes)
    <3>1. EcGoesOn(j, EcOver(j))
      BY <1>3, <2>1, <2>3, EcOverGoesOn DEF EcAct
    <3> QED
      BY <3>1
  <2> QED
    BY <2>2, <2>3
<1>4. CASE EcComplete(j)
  <2> DEFINE draining == [ecJob[j] EXCEPT !.pc = "drain", !.stop = EcStale]
  <2>1. /\ ecJob[j].pc = "complete"
        /\ \/ ecJob' = [ecJob EXCEPT ![j] = EcOver(j)]
           \/ ecJob' = [ecJob EXCEPT ![j].pc = "drain", ![j].stop = EcStale]
    BY <1>4 DEF EcComplete
  <2>2. EcStale \in SUBSET EcTasks
    BY DEF EcStale
  <2>3. draining \in EcJobRecord /\ draining.pc = "drain" /\ draining.watched = ecJob[j].watched
    BY <1>0, <2>2 DEF EcJobRecord, EcBusyPcs
  <2>4. \/ ecJob' = [ecJob EXCEPT ![j] = EcOver(j)]
        \/ ecJob' = [ecJob EXCEPT ![j] = draining]
    BY <1>0, <2>1 DEF EcJobRecord, EcTypes, EcJobTypes
  <2> HIDE DEF draining
  <2>5. CASE ecJob' = [ecJob EXCEPT ![j] = draining]
    <3>1. EcGoesOn(j, draining)
      BY <2>1, <2>3, <2>5, EcKeepsOn DEF EcBusyPcs
    <3> QED
      BY <3>1
  <2>6. CASE ecJob' = [ecJob EXCEPT ![j] = EcOver(j)]
    <3>1. EcGoesOn(j, EcOver(j))
      BY <2>1, <2>6, EcOverGoesOn
    <3> QED
      BY <3>1
  <2> QED
    BY <2>4, <2>5, <2>6
<1> QED
  BY <1>1, <1>2, <1>3, <1>4 DEF EcWork

-----------------------------------------------------------------------------
(* What a step means for one task: for its record, for the thread that      *)
(* starts it, its containers, its tokens, the thread that saw it end, and   *)
(* whether it waits to be cleaned up.                                       *)
EcEnd(t) == ecJob[<<t, "end">>]

EcSameRecord(t) ==
  /\ ecTask'[t].there = ecTask[t].there /\ ecTask'[t].resetting = ecTask[t].resetting
  /\ ecTask'[t].ids = ecTask[t].ids
EcSameTask(t) ==
  EcSameRecord(t) /\ ecTask'[t].status = ecTask[t].status /\ ecTask'[t].tokens = ecTask[t].tokens
EcSameBoxes(t) == \A i \in EcIds : ecBox'[<<t, i>>] = ecBox[<<t, i>>]
EcSameEnd(t) ==
  /\ EcEnd(t)'.watched = EcEnd(t).watched
  /\ EcEnd(t)'.pc = EcEnd(t).pc \/ (EcEnd(t).pc \in EcBusyPcs /\ EcEnd(t)'.pc \in EcBusyPcs)
EcSameClean(t) == t \in ecClean' <=> t \in ecClean
EcSameRest(t) == ecToken'[t] = ecToken[t] /\ EcSameEnd(t) /\ EcSameClean(t)
EcStays(t) ==
  EcSameTask(t) /\ EcSameBoxes(t) /\ EcSameRest(t) /\ ecWorker'[t] = ecWorker[t]

EcRegistered(t) ==
  /\ ecWorker[t].pc = "none" /\ ecWorker'[t].pc = "start"
  /\ ecTask'[t].there /\ ecTask'[t].status = "starting"
  /\ EcSameBoxes(t) /\ EcSameRest(t)
EcRan(t) ==
  /\ EcActive(t) /\ ecWorker[t].pc = "start"
  /\ ecWorker'[t].pc = "attach" /\ ecWorker'[t].at = ecWorker[t].at
  /\ ecTask'[t].tokens = ecTask[t].tokens \cup {ecWorker[t].at}
  /\ ecToken'[t] = ecToken[t] \cup {ecWorker[t].at}
  /\ \A i \in EcIds : ecBox'[<<t, i>>] = IF i = ecWorker[t].at THEN "up" ELSE ecBox[<<t, i>>]
  /\ EcSameRecord(t) /\ ecTask'[t].status = ecTask[t].status /\ EcSameEnd(t) /\ EcSameClean(t)
EcGaveUp(t) ==
  /\ ~EcActive(t) /\ ecWorker[t].pc \in {"start", "attach"} /\ ecWorker'[t].pc = "done"
  /\ \A i \in EcIds : ecBox'[<<t, i>>] = IF ecWorker[t].pc = "attach" /\ i = ecWorker[t].at THEN "none"
                                                                                       ELSE ecBox[<<t, i>>]
  /\ t \in ecClean' /\ EcSameTask(t) /\ ecToken'[t] = ecToken[t] /\ EcSameEnd(t)
EcFailed(t) ==
  /\ EcActive(t) /\ ecWorker[t].pc = "start" /\ ecWorker'[t].pc = "done"
  /\ ecTask'[t].status = "STOPPED"
  /\ ecTask'[t].tokens = ecTask[t].tokens \cup {ecWorker[t].at}
  /\ ecToken'[t] = ecToken[t] \cup {ecWorker[t].at}
  /\ EcEnd(t)'.pc = "record" /\ EcEnd(t)'.watched = EcEnd(t).watched
  /\ EcSameRecord(t) /\ EcSameBoxes(t) /\ EcSameClean(t)
EcTook(t) ==
  /\ EcActive(t) /\ ecWorker[t].pc = "attach"
  /\ \/ ecWorker'[t].pc = "done" /\ ecTask'[t].status = "RUNNING"
     \/ ecWorker'[t].pc = "start" /\ ecTask'[t].status = ecTask[t].status
  /\ ecTask'[t].there = ecTask[t].there /\ ecTask'[t].resetting = ecTask[t].resetting
  /\ ecTask'[t].ids = ecTask[t].ids \cup {ecWorker[t].at} /\ ecTask'[t].tokens = ecTask[t].tokens
  /\ EcSameBoxes(t) /\ EcSameRest(t)
EcDied(t) ==
  /\ \A i \in EcIds : \/ ecBox'[<<t, i>>] = ecBox[<<t, i>>]
                      \/ ecBox[<<t, i>>] = "up" /\ ecBox'[<<t, i>>] = "exited"
  /\ EcSameTask(t) /\ EcSameRest(t) /\ ecWorker'[t] = ecWorker[t]
EcNoticed(t) ==
  /\ EcActive(t) /\ ecTask[t].status = "RUNNING" /\ ecTask'[t].status = "STOPPED"
  /\ ecBox[<<t, 1>>] = "exited" \/ \A i \in ecTask[t].ids : ecBox[<<t, i>>] = "exited"
  /\ EcEnd(t)'.pc = "record" /\ EcEnd(t)'.watched = TRUE
  /\ EcSameRecord(t) /\ ecTask'[t].tokens = ecTask[t].tokens
  /\ EcSameBoxes(t) /\ ecToken'[t] = ecToken[t] /\ EcSameClean(t) /\ ecWorker'[t] = ecWorker[t]
EcEmptied(t) ==
  /\ ecTask'[t].ids = {} /\ ecTask'[t].tokens = {} /\ ecToken'[t] = ecToken[t] \ ecTask[t].tokens
  /\ ecTask'[t].there = ecTask[t].there /\ ecTask'[t].resetting = ecTask[t].resetting
  /\ ecTask'[t].status = ecTask[t].status /\ ecWorker'[t] = ecWorker[t]
EcCleaned(t) ==
  /\ t \in ecClean /\ t \notin ecClean' /\ EcEmptied(t) /\ EcSameEnd(t)
  /\ \A i \in EcIds : ecBox'[<<t, i>>] = IF i \in ecTask[t].ids THEN "none" ELSE ecBox[<<t, i>>]
EcWasStopped(t) ==
  /\ EcActive(t) /\ ecTask'[t].status = "STOPPED" /\ t \in ecClean'
  /\ EcSameRecord(t) /\ ecTask'[t].tokens = ecTask[t].tokens
  /\ EcSameBoxes(t) /\ ecToken'[t] = ecToken[t] /\ EcSameEnd(t) /\ ecWorker'[t] = ecWorker[t]
EcSettled(t) ==
  /\ EcEnd(t).pc # "none" /\ EcEnd(t)'.pc = "none" /\ EcEnd(t)'.watched = FALSE
  /\ EcSameBoxes(t) /\ ecWorker'[t] = ecWorker[t]
  /\ \/ EcEnd(t).watched /\ EcEmptied(t) /\ EcSameClean(t)
     \/ ~EcEnd(t).watched /\ EcSameTask(t) /\ ecToken'[t] = ecToken[t] /\ t \in ecClean'

EcMoves(t) ==
  \/ EcStays(t) \/ EcRegistered(t) \/ EcRan(t) \/ EcGaveUp(t) \/ EcFailed(t) \/ EcTook(t)
  \/ EcDied(t) \/ EcNoticed(t) \/ EcCleaned(t) \/ EcWasStopped(t) \/ EcSettled(t)

(* The reset's steps, for every task.                                       *)
EcFlagged(t) ==
  /\ ecTask'[t].there = ecTask[t].there /\ ecTask'[t].resetting = (ecTask[t].there \/ ecTask[t].resetting)
  /\ ecTask'[t].status = ecTask[t].status
  /\ ecTask'[t].ids = ecTask[t].ids /\ ecTask'[t].tokens = ecTask[t].tokens
  /\ EcSameBoxes(t) /\ EcSameRest(t) /\ ecWorker'[t] = ecWorker[t]
EcCleared(t) ==
  /\ ecTask'[t].there = FALSE /\ ecTask'[t].ids = ecTask[t].ids
  /\ ecToken'[t] = {} /\ \A i \in EcIds : ecBox'[<<t, i>>] = "none"
  /\ EcSameEnd(t) /\ EcSameClean(t) /\ ecWorker'[t] = ecWorker[t]

EcStepOfTasks ==
  \/ UNCHANGED ecReset /\ \A t \in EcTasks : EcMoves(t)
  \/ ecReset' # "no" /\ \A t \in EcTasks : EcFlagged(t)
  \/ \A t \in EcTasks : EcCleared(t)

-----------------------------------------------------------------------------
(* The invariant of a task.                                                 *)
EcAlive(t) ==
  /\ ecTask[t].there => ecWorker[t].pc # "none"
  /\ ecTask[t].there /\ ecTask[t].status = "RUNNING" => ecWorker[t].pc = "done"
  /\ ecWorker[t].pc = "none" => ecToken[t] = {} /\ \A i \in EcIds : ecBox[<<t, i>>] = "none"

(* Who waits to be cleaned up, or was seen to end, never becomes active.    *)
EcEnded(t) ==
  /\ EcEnd(t).pc # "sleep"
  /\ t \in ecClean \/ EcEnd(t).pc # "none" => ecWorker[t].pc # "none" /\ ~EcActive(t)

(* A task whose exit was seen has no containers to lose but sidecars.       *)
EcSeen(t) ==
  EcEnd(t).watched => /\ EcEnd(t).pc # "none" /\ ecWorker[t].pc = "done" /\ t \notin ecClean
                      /\ \/ ecBox[<<t, 1>>] = "exited"
                         \/ \A i \in ecTask[t].ids : ecBox[<<t, i>>] # "up"

(* A sidecar is without an owner only after its task has been emptied.      *)
EcSidecar(t, i) ==
  i # 1 /\ ecBox[<<t, 1>>] = "exited" /\ ecTask[t].ids = {} /\ ecWorker[t].pc = "done"
EcKept(t) ==
  ecReset = "no" => \A i \in EcIds :
    /\ ecBox[<<t, i>>] = "up" => \/ i \in ecTask[t].ids /\ EcHeld(t)
                                 \/ ecWorker[t].pc = "attach" /\ ecWorker[t].at = i
                                 \/ EcSidecar(t, i)
    /\ i \in ecToken[t] => i \in ecTask[t].tokens /\ EcHeld(t)

EcLife(t) == EcAlive(t) /\ EcEnded(t) /\ EcSeen(t) /\ EcKept(t)

LEMMA EcHeldIs ==
  ASSUME NEW t \in EcTasks
  PROVE  /\ EcHeld(t) <=> EcActive(t) \/ t \in ecClean \/ EcEnd(t).pc \in EcBusyPcs
         /\ EcHeld(t)' <=> EcActive(t)' \/ t \in ecClean' \/ EcEnd(t)'.pc \in EcBusyPcs
BY DEF EcHeld, EcEnd, EcBusyPcs

LEMMA EcTaskIs ==
  ASSUME EcTypes, NEW t \in EcTasks
  PROVE  /\ ecTask[t] \in EcTaskRecord /\ ecWorker[t] \in EcWorkerRecord
         /\ <<t, "end">> \in EcJobs /\ EcEnd(t) \in EcJobRecord /\ ecToken[t] \subseteq EcIds
         /\ \A i \in EcIds : ecBox[<<t, i>>] \in {"none", "up", "exited"}
         /\ EcEnd(t).pc \in {"none", "sleep"} \cup EcBusyPcs /\ EcEnd(t).watched \in BOOLEAN
<1>1. <<t, "end">> \in EcJobs
  BY EcJobNames
<1>2. EcEnd(t) \in EcJobRecord
  BY <1>1 DEF EcEnd, EcTypes, EcJobTypes
<1> QED
  BY <1>1, <1>2 DEF EcTypes, EcTaskTypes, EcJobRecord

LEMMA EcStaysLife ==
  ASSUME EcTypes, NEW t \in EcTasks, EcLife(t), UNCHANGED ecReset, EcStays(t)
  PROVE  EcLife(t)'
<1> USE EcTaskIs, EcNumbers DEF EcLife, EcStays, EcSameTask, EcSameRecord, EcSameBoxes, EcSameRest, EcSameEnd,
                                EcSameClean
<1>0. ecTask[t].ids \subseteq EcIds
  BY DEF EcTaskRecord
<1>1. EcActive(t)' <=> EcActive(t)
  BY DEF EcActive
<1>2. EcAlive(t)'
  BY DEF EcAlive
<1>3. EcEnded(t)'
  BY <1>1 DEF EcEnded, EcBusyPcs
<1>4. EcSeen(t)'
  BY <1>0 DEF EcSeen, EcBusyPcs
<1>5. EcHeld(t) => EcHeld(t)'
  BY <1>1, EcHeldIs
<1>6. EcKept(t)'
  BY <1>5 DEF EcKept, EcSidecar
<1> QED
  BY <1>2, <1>3, <1>4, <1>6

LEMMA EcRegisteredLife ==
  ASSUME EcTypes, NEW t \in EcTasks, EcLife(t), UNCHANGED ecReset, EcRegistered(t)
  PROVE  EcLife(t)'
<1> USE EcTaskIs, EcNumbers DEF EcLife, EcRegistered, EcSameBoxes, EcSameRest, EcSameEnd, EcSameClean
<1>1. EcEnd(t).pc = "none" /\ t \notin ecClean /\ ~EcEnd(t).watched
  BY DEF EcEnded, EcSeen
<1>2. EcEnd(t)'.pc = "none" /\ t \notin ecClean' /\ ~EcEnd(t)'.watched
  BY <1>1 DEF EcBusyPcs
<1>3. EcAlive(t)' /\ EcEnded(t)' /\ EcSeen(t)'
  BY <1>2 DEF EcAlive, EcEnded, EcSeen
<1>4. EcKept(t)'
  BY DEF EcKept, EcAlive
<1> QED
  BY <1>3, <1>4

LEMMA EcRanLife ==
  ASSUME EcTypes, NEW t \in EcTasks, EcLife(t), UNCHANGED ecReset, EcRan(t)
  PROVE  EcLife(t)'
<1> USE EcTaskIs, EcNumbers DEF EcLife, EcRan, EcSameRecord, EcSameEnd, EcSameClean
<1>1. EcEnd(t).pc = "none" /\ t \notin ecClean /\ ~EcEnd(t).watched
  BY DEF EcEnded, EcSeen
<1>2. EcEnd(t)'.pc = "none" /\ t \notin ecClean' /\ ~EcEnd(t)'.watched
  BY <1>1 DEF EcBusyPcs
<1>3. EcActive(t)'
  BY DEF EcActive
<1>4. EcAlive(t)' /\ EcEnded(t)' /\ EcSeen(t)'
  BY <1>2 DEF EcAlive, EcEnded, EcSeen
<1>5. EcHeld(t)'
  BY <1>3, EcHeldIs
<1>6. EcKept(t)'
  BY <1>5 DEF EcKept, EcSidecar, EcWorkerRecord
<1> QED
  BY <1>4, <1>6

LEMMA EcGaveUpLife ==
  ASSUME EcTypes, NEW t \in EcTasks, EcLife(t), UNCHANGED ecReset, EcGaveUp(t)
  PROVE  EcLife(t)'
<1> USE EcTaskIs, EcNumbers DEF EcLife, EcGaveUp, EcSameTask, EcSameRecord, EcSameEnd
<1>1. ~EcActive(t)' /\ ~EcEnd(t).watched
  BY DEF EcActive, EcSeen
<1>2. EcAlive(t)'
  BY DEF EcAlive
<1>3. EcEnded(t)' /\ EcSeen(t)'
  BY <1>1 DEF EcEnded, EcSeen, EcBusyPcs
<1>4. EcHeld(t)'
  BY EcHeldIs
<1>5. EcKept(t)'
  BY <1>4 DEF EcKept, EcSidecar
<1> QED
  BY <1>2, <1>3, <1>5

LEMMA EcFailedLife ==
  ASSUME EcTypes, NEW t \in EcTasks, EcLife(t), UNCHANGED ecReset, EcFailed(t)
  PROVE  EcLife(t)'
<1> USE EcTaskIs, EcNumbers DEF EcLife, EcFailed, EcSameRecord, EcSameBoxes, EcSameClean
<1>1. t \notin ecClean /\ ~EcEnd(t).watched /\ ~EcActive(t)'
  BY DEF EcEnded, EcSeen, EcActive
<1>2. EcAlive(t)' /\ EcEnded(t)' /\ EcSeen(t)'
  BY <1>1 DEF EcAlive, EcEnded, EcSeen
<1>3. EcHeld(t)'
  BY EcHeldIs DEF EcBusyPcs
<1>4. EcKept(t)'
  BY <1>3 DEF EcKept, EcSidecar
<1> QED
  BY <1>2, <1>4

LEMMA EcTookLife ==
  ASSUME EcTypes, NEW t \in EcTasks, EcLife(t), UNCHANGED ecReset, EcTook(t)
  PROVE  EcLife(t)'
<1> USE EcTaskIs, EcNumbers DEF EcLife, EcTook, EcSameBoxes, EcSameRest, EcSameEnd, EcSameClean
<1>1. EcEnd(t).pc = "none" /\ t \notin ecClean /\ ~EcEnd(t).watched
  BY DEF EcEnded, EcSeen
<1>2. EcEnd(t)'.pc = "none" /\ t \notin ecClean' /\ ~EcEnd(t)'.watched
  BY <1>1 DEF EcBusyPcs
<1>3. EcActive(t)'
  BY DEF EcActive
<1>4. EcAlive(t)'
  BY DEF EcAlive, EcActive
<1>5. EcEnded(t)' /\ EcSeen(t)'
  BY <1>2 DEF EcEnded, EcSeen
<1>6. EcHeld(t)'
  BY <1>3, EcHeldIs
<1>7. EcKept(t)'
  BY <1>6 DEF EcKept, EcSidecar
<1> QED
  BY <1>4, <1>5, <1>7

LEMMA EcDiedLife ==
  ASSUME EcTypes, NEW t \in EcTasks, EcLife(t), UNCHANGED ecReset, EcDied(t)
  PROVE  EcLife(t)'
<1> USE EcTaskIs, EcNumbers DEF EcLife, EcDied, EcSameTask, EcSameRecord, EcSameRest, EcSameEnd, EcSameClean
<1>0. ecTask[t].ids \subseteq EcIds
  BY DEF EcTaskRecord
<1>1. EcActive(t)' <=> EcActive(t)
  BY DEF EcActive
<1>2. EcAlive(t)'
  BY DEF EcAlive
<1>3. EcEnded(t)'
  BY <1>1 DEF EcEnded, EcBusyPcs
<1>4. EcSeen(t)'
  BY <1>0 DEF EcSeen, EcBusyPcs
<1>5. EcHeld(t) => EcHeld(t)'
  BY <1>1, EcHeldIs
<1>6. EcKept(t)'
  BY <1>5 DEF EcKept, EcSidecar
<1> QED
  BY <1>2, <1>3, <1>4, <1>6

LEMMA EcNoticedLife ==
  ASSUME EcTypes, NEW t \in EcTasks, EcLife(t), UNCHANGED ecReset, EcNoticed(t)
  PROVE  EcLife(t)'
<1> USE EcTaskIs, EcNumbers DEF EcLife, EcNoticed, EcSameRecord, EcSameBoxes, EcSameClean
<1>0. ecTask[t].ids \subseteq EcIds
  BY DEF EcTaskRecord
<1>1. t \notin ecClean /\ ~EcActive(t)' /\ ecWorker[t].pc = "done"
  BY DEF EcEnded, EcActive, EcAlive
<1>2. EcAlive(t)' /\ EcEnded(t)'
  BY <1>1 DEF EcAlive, EcEnded
<1>3. EcSeen(t)'
  BY <1>0, <1>1 DEF EcSeen
<1>4. EcHeld(t)'
  BY EcHeldIs DEF EcBusyPcs
<1>5. EcKept(t)'
  BY <1>1, <1>4 DEF EcKept, EcSidecar
<1> QED
  BY <1>2, <1>3, <1>5

LEMMA EcCleanedLife ==
  ASSUME EcTypes, NEW t \in EcTasks, EcLife(t), UNCHANGED ecReset, EcCleaned(t)
  PROVE  EcLife(t)'
<1> USE EcTaskIs, EcNumbers DEF EcLife, EcCleaned, EcEmptied, EcSameEnd
<1>1. ~EcActive(t)' /\ ~EcEnd(t).watched /\ ecWorker[t].pc # "none"
  BY DEF EcEnded, EcActive, EcSeen
<1>2. EcAlive(t)'
  BY DEF EcAlive
<1>3. EcEnded(t)' /\ EcSeen(t)'
  BY <1>1 DEF EcEnded, EcSeen, EcBusyPcs
<1>4. EcKept(t)'
  BY DEF EcKept, EcSidecar
<1> QED
  BY <1>2, <1>3, <1>4

LEMMA EcWasStoppedLife ==
  ASSUME EcTypes, NEW t \in EcTasks, EcLife(t), UNCHANGED ecReset, EcWasStopped(t)
  PROVE  EcLife(t)'
<1> USE EcTaskIs, EcNumbers DEF EcLife, EcWasStopped, EcSameRecord, EcSameBoxes, EcSameEnd
<1>1. ~EcActive(t)' /\ ~EcEnd(t).watched /\ ecWorker[t].pc # "none"
  BY DEF EcEnded, EcActive, EcSeen, EcAlive
<1>2. EcAlive(t)'
  BY DEF EcAlive
<1>3. EcEnded(t)' /\ EcSeen(t)'
  BY <1>1 DEF EcEnded, EcSeen, EcBusyPcs
<1>4. EcHeld(t)'
  BY EcHeldIs
<1>5. EcKept(t)'
  BY <1>4 DEF EcKept, EcSidecar
<1> QED
  BY <1>2, <1>3, <1>5

LEMMA EcSettledLife ==
  ASSUME EcTypes, NEW t \in EcTasks, EcLife(t), UNCHANGED ecReset, EcSettled(t)
  PROVE  EcLife(t)'
<1> USE EcTaskIs, EcNumbers DEF EcLife, EcSettled, EcEmptied, EcSameBoxes, EcSameTask, EcSameRecord, EcSameClean
<1>1. ~EcActive(t)' /\ ecWorker[t].pc # "none"
  BY DEF EcEnded, EcActive
<1>2. EcAlive(t)'
  BY DEF EcAlive
<1>3. EcEnded(t)' /\ EcSeen(t)'
  BY <1>1 DEF EcEnded, EcSeen
<1>4. ASSUME EcEnd(t).watched PROVE EcKept(t)'
  <2>1. ecWorker[t].pc = "done"
    BY <1>4 DEF EcSeen
  <2>2. ASSUME NEW i \in EcIds, ecReset = "no", ecBox[<<t, i>>] = "up" PROVE EcSidecar(t, i)'
    <3>1. i \in ecTask[t].ids \/ EcSidecar(t, i)
      BY <2>1, <2>2 DEF EcKept
    <3>2. ecBox[<<t, 1>>] = "exited" \/ EcSidecar(t, i)
      BY <1>4, <2>2, <3>1 DEF EcSeen
    <3>3. ecBox[<<t, 1>>] = "exited" /\ i # 1
      BY <2>2, <3>2 DEF EcSidecar
    <3> QED
      BY <1>4, <2>1, <3>3 DEF EcSidecar
  <2>3. ASSUME ecReset = "no" PROVE ecToken'[t] = {}
    BY <1>4, <2>3 DEF EcKept
  <2>4. /\ \A i \in EcIds : ecReset' = "no" /\ ecBox'[<<t, i>>] = "up" => EcSidecar(t, i)'
        /\ \A i \in EcIds : ecReset' = "no" => i \notin ecToken'[t]
    BY <2>2, <2>3
  <2> QED
    BY ONLY <2>4 DEF EcKept
<1>5. ASSUME ~EcEnd(t).watched PROVE EcKept(t)'
  <2>1. EcHeld(t)'
    BY <1>5, EcHeldIs
  <2> QED
    BY <1>5, <2>1 DEF EcKept, EcSidecar
<1>6. EcKept(t)'
  BY <1>4, <1>5
<1> QED
  BY <1>2, <1>3, <1>6

LEMMA EcResetLife ==
  ASSUME EcTypes, NEW t \in EcTasks, EcLife(t), (EcFlagged(t) /\ ecReset' # "no") \/ EcCleared(t)
  PROVE  EcLife(t)'
<1> USE EcTaskIs, EcNumbers DEF EcLife
<1>0. ecTask[t].ids \subseteq EcIds
  BY DEF EcTaskRecord
<1>1. CASE EcFlagged(t) /\ ecReset' # "no"
  <2> USE <1>1 DEF EcFlagged, EcSameBoxes, EcSameRest, EcSameEnd, EcSameClean
  <2>1. EcActive(t)' => EcActive(t)
    BY DEF EcActive
  <2>2. EcAlive(t)'
    BY DEF EcAlive
  <2>3. EcEnded(t)'
    BY <2>1 DEF EcEnded, EcBusyPcs
  <2>4. EcSeen(t)'
    BY <1>0 DEF EcSeen, EcBusyPcs
  <2>5. EcKept(t)'
    BY DEF EcKept
  <2> QED
    BY <2>2, <2>3, <2>4, <2>5
<1>2. CASE EcCleared(t)
  <2> USE <1>2 DEF EcCleared, EcSameEnd, EcSameClean
  <2>1. ~EcActive(t)' /\ EcAlive(t)'
    BY DEF EcActive, EcAlive
  <2>2. EcEnded(t)' /\ EcKept(t)'
    BY <2>1 DEF EcEnded, EcBusyPcs, EcKept
  <2>3. EcSeen(t)'
    BY <1>0 DEF EcSeen, EcBusyPcs
  <2> QED
    BY <2>1, <2>2, <2>3
<1> QED
  BY <1>1, <1>2

-----------------------------------------------------------------------------
(* Each action takes every task through one of these moves.                 *)
EcUntouched(t) ==
  /\ ecTask'[t] = ecTask[t] /\ ecWorker'[t] = ecWorker[t] /\ ecToken'[t] = ecToken[t]
  /\ EcSameBoxes(t) /\ EcSameClean(t) /\ ecJob'[<<t, "end">>] = ecJob[<<t, "end">>]

LEMMA EcUntouchedStays ==
  ASSUME NEW t \in EcTasks, EcUntouched(t)
  PROVE  EcStays(t)
BY DEF EcUntouched, EcStays, EcSameTask, EcSameRecord, EcSameRest, EcSameEnd, EcEnd

EcStep == EcTypes' /\ UNCHANGED ecReset /\ \A t \in EcTasks : EcMoves(t)

LEMMA EcOneMoves ==
  ASSUME NEW t \in EcTasks, EcTypes', UNCHANGED ecReset, EcMoves(t),
         \A u \in EcTasks : u # t => EcUntouched(u)
  PROVE  EcStep
BY EcUntouchedStays DEF EcStep, EcMoves

LEMMA EcBoxSet ==
  ASSUME EcTypes, NEW t \in EcTasks, NEW i \in EcIds, NEW state \in {"none", "up", "exited"},
         ecBox' = [ecBox EXCEPT ![<<t, i>>] = state]
  PROVE  /\ ecBox' \in [EcTasks \X EcIds -> {"none", "up", "exited"}]
         /\ \A u \in EcTasks : u # t => EcSameBoxes(u)
         /\ \A k \in EcIds : ecBox'[<<t, k>>] = IF k = i THEN state ELSE ecBox[<<t, k>>]
BY DEF EcTypes, EcTaskTypes, EcSameBoxes

LEMMA EcRunStep ==
  ASSUME EcTypes, NEW t \in EcTasks, EcRun(t)
  PROVE  EcStep
<1> DEFINE at == ecWorker[t].at
           rec == [ecTask[t] EXCEPT !.tokens = ecTask[t].tokens \cup {at}]
<1>0. /\ ecTask[t] \in EcTaskRecord /\ ecWorker[t] \in EcWorkerRecord /\ at \in EcIds
      /\ ecToken[t] \subseteq EcIds
  BY EcTaskIs DEF EcWorkerRecord
<1>1. CASE EcActive(t)
  <2>1. /\ ecTask' = [ecTask EXCEPT ![t] = rec] /\ ecToken' = [ecToken EXCEPT ![t] = ecToken[t] \cup {at}]
        /\ ecWorker' = [ecWorker EXCEPT ![t] = [ecWorker[t] EXCEPT !.pc = "attach"]]
        /\ ecBox' = [ecBox EXCEPT ![<<t, at>>] = "up"]
        /\ UNCHANGED <<ecClean, ecJob, ecReset>> /\ ecWorker[t].pc = "start"
    BY <1>0, <1>1 DEF EcRun, EcGo, EcTypes, EcTaskTypes, EcTaskRecord, EcWorkerRecord
  <2>2. rec \in EcTaskRecord /\ [ecWorker[t] EXCEPT !.pc = "attach"] \in EcWorkerRecord
    BY <1>0 DEF EcTaskRecord, EcWorkerRecord
  <2>3. EcTypes'
    BY <1>0, <2>1, <2>2, EcBoxSet DEF EcTypes, EcTaskTypes, EcJobTypes
  <2>4. EcRan(t)
    <3>1. /\ ecTask'[t] = rec /\ ecWorker'[t] = [ecWorker[t] EXCEPT !.pc = "attach"]
          /\ ecToken'[t] = ecToken[t] \cup {at} /\ EcEnd(t)' = EcEnd(t)
      BY <2>1 DEF EcTypes, EcTaskTypes, EcEnd
    <3>2. \A i \in EcIds : ecBox'[<<t, i>>] = IF i = at THEN "up" ELSE ecBox[<<t, i>>]
      BY <1>0, <2>1, EcBoxSet
    <3> QED
      BY <1>0, <1>1, <2>1, <3>1, <3>2
      DEF EcRan, EcSameRecord, EcSameEnd, EcSameClean, EcTaskRecord, EcWorkerRecord
  <2>5. \A u \in EcTasks : u # t => EcUntouched(u)
    <3>1. \A u \in EcTasks : u # t => EcSameBoxes(u)
      BY <1>0, <2>1, EcBoxSet
    <3> QED
      BY <2>1, <3>1 DEF EcTypes, EcTaskTypes, EcUntouched, EcSameClean
  <2> QED
    BY <2>1, <2>3, <2>4, <2>5, EcOneMoves DEF EcMoves
<1>2. CASE ~EcActive(t)
  <2>1. /\ ecWorker' = [ecWorker EXCEPT ![t] = [ecWorker[t] EXCEPT !.pc = "done"]] /\ ecClean' = ecClean \cup {t}
        /\ UNCHANGED <<ecTask, ecToken, ecBox, ecJob, ecReset>> /\ ecWorker[t].pc = "start"
    BY <1>2 DEF EcRun, EcGo, EcGivesUp
  <2>2. [ecWorker[t] EXCEPT !.pc = "done"] \in EcWorkerRecord
    BY <1>0 DEF EcWorkerRecord
  <2>3. EcTypes'
    BY <2>1, <2>2 DEF EcTypes, EcTaskTypes, EcJobTypes
  <2>4. EcGaveUp(t)
    <3>1. ecWorker'[t] = [ecWorker[t] EXCEPT !.pc = "done"] /\ EcEnd(t)' = EcEnd(t)
      BY <2>1 DEF EcTypes, EcTaskTypes, EcEnd
    <3> QED
      BY <1>0, <1>2, <2>1, <3>1
      DEF EcGaveUp, EcSameTask, EcSameRecord, EcSameEnd, EcTaskRecord, EcWorkerRecord
  <2>5. \A u \in EcTasks : u # t => EcUntouched(u)
    BY <2>1 DEF EcTypes, EcTaskTypes, EcUntouched, EcSameClean, EcSameBoxes
  <2> QED
    BY <2>1, <2>3, <2>4, <2>5, EcOneMoves DEF EcMoves
<1> QED
  BY <1>1, <1>2

LEMMA EcAttachStep ==
  ASSUME EcTypes, NEW t \in EcTasks, EcAttach(t)
  PROVE  EcStep
<1> DEFINE at == ecWorker[t].at
           last == at = EcContainers
           status == IF last THEN "RUNNING" ELSE ecTask[t].status
           rec == [ecTask[t] EXCEPT !.ids = ecTask[t].ids \cup {at}, !.status = status]
           worker == IF last THEN [pc |-> "done", at |-> 1] ELSE [pc |-> "start", at |-> at + 1]
<1>0. /\ ecTask[t] \in EcTaskRecord /\ ecWorker[t] \in EcWorkerRecord /\ at \in EcIds
      /\ ecToken[t] \subseteq EcIds
  BY EcTaskIs DEF EcWorkerRecord
<1>1. CASE EcActive(t) /\ EcAttached(t)
  <2>1. UNCHANGED <<ecBox, ecClean, ecToken, ecReset>> /\ ecWorker[t].pc = "attach"
    BY <1>1 DEF EcAttach
  <2>2. worker \in EcWorkerRecord /\ worker.pc = IF last THEN "done" ELSE "start"
    BY <1>0, EcNumbers DEF EcWorkerRecord, EcIds
  <2>3. status \in {"none", "starting", "RUNNING", "STOPPED"}
    BY <1>0 DEF EcTaskRecord
  <2>4. ecTask' = [ecTask EXCEPT ![t] = rec] /\ ecWorker' = [ecWorker EXCEPT ![t] = worker]
    BY <1>0, <1>1 DEF EcAttached, EcTypes, EcTaskTypes, EcTaskRecord
  <2>5. rec \in EcTaskRecord
    <3> HIDE DEF status
    <3> QED
      BY <1>0, <2>3 DEF EcTaskRecord
  <2>6. /\ rec.there = ecTask[t].there /\ rec.resetting = ecTask[t].resetting /\ rec.tokens = ecTask[t].tokens
        /\ rec.ids = ecTask[t].ids \cup {at} /\ rec.status = status
    <3> HIDE DEF status
    <3> QED
      BY <1>0 DEF EcTaskRecord
  <2>7. (worker.pc = "done" /\ status = "RUNNING") \/ (worker.pc = "start" /\ status = ecTask[t].status)
    BY <2>2
  <2>8. /\ ecJob' \in [EcJobs -> EcJobRecord]
        /\ \A j \in EcJobs : j # <<t, "check">> => ecJob'[j] = ecJob[j]
    <3> DEFINE job == [EcNoJob EXCEPT !.pc = "sleep", !.dep = ecTask[t].dep]
    <3>1. job \in EcJobRecord
      BY <1>0, EcNoJobType DEF EcJobRecord, EcTaskRecord
    <3>2. ecJob' \in {ecJob, [ecJob EXCEPT ![<<t, "check">>] = job]}
      BY <1>1 DEF EcAttached
    <3> HIDE DEF job
    <3> QED
      BY <3>1, <3>2, EcJobNames DEF EcTypes, EcJobTypes
  <2>9. \A u \in EcTasks : ecJob'[<<u, "end">>] = ecJob[<<u, "end">>]
    BY <2>8, EcJobNames
  <2> HIDE DEF rec, worker, status
  <2>10. EcTypes'
    BY <2>1, <2>2, <2>4, <2>5, <2>8 DEF EcTypes, EcTaskTypes, EcJobTypes
  <2>11. EcTook(t)
    <3>1. ecTask'[t] = rec /\ ecWorker'[t] = worker /\ EcEnd(t)' = EcEnd(t)
      BY <2>4, <2>9 DEF EcTypes, EcTaskTypes, EcEnd
    <3> QED
      BY <1>1, <2>1, <2>6, <2>7, <3>1
      DEF EcTook, EcSameBoxes, EcSameRest, EcSameEnd, EcSameClean
  <2>12. \A u \in EcTasks : u # t => EcUntouched(u)
    BY <2>1, <2>4, <2>9 DEF EcTypes, EcTaskTypes, EcUntouched, EcSameClean, EcSameBoxes
  <2> QED
    BY <2>1, <2>10, <2>11, <2>12, EcOneMoves DEF EcMoves
<1>2. CASE ~EcActive(t) /\ EcGivesUp(t)
  <2>0. ~EcActive(t) /\ EcGivesUp(t) /\ ecBox' = [ecBox EXCEPT ![<<t, at>>] = "none"]
        /\ UNCHANGED <<ecTask, ecJob, ecToken, ecReset>> /\ ecWorker[t].pc = "attach"
    BY <1>2 DEF EcAttach
  <2>1. /\ ecWorker' = [ecWorker EXCEPT ![t] = [ecWorker[t] EXCEPT !.pc = "done"]] /\ ecClean' = ecClean \cup {t}
    BY <2>0 DEF EcGo, EcGivesUp
  <2>2. [ecWorker[t] EXCEPT !.pc = "done"] \in EcWorkerRecord
    BY <1>0 DEF EcWorkerRecord
  <2>3. EcTypes'
    BY <1>0, <2>0, <2>1, <2>2, EcBoxSet DEF EcTypes, EcTaskTypes, EcJobTypes
  <2>4. EcGaveUp(t)
    <3>1. ecWorker'[t] = [ecWorker[t] EXCEPT !.pc = "done"] /\ EcEnd(t)' = EcEnd(t)
      BY <2>0, <2>1 DEF EcTypes, EcTaskTypes, EcEnd
    <3>2. \A i \in EcIds : ecBox'[<<t, i>>] = IF i = at THEN "none" ELSE ecBox[<<t, i>>]
      BY <1>0, <2>0, EcBoxSet
    <3> QED
      BY <1>0, <2>0, <2>1, <3>1, <3>2
      DEF EcGaveUp, EcSameTask, EcSameRecord, EcSameEnd, EcTaskRecord, EcWorkerRecord
  <2>5. \A u \in EcTasks : u # t => EcUntouched(u)
    <3>1. \A u \in EcTasks : u # t => EcSameBoxes(u)
      BY <1>0, <2>0, EcBoxSet
    <3> QED
      BY <2>0, <2>1, <3>1 DEF EcTypes, EcTaskTypes, EcUntouched, EcSameClean
  <2> QED
    BY <2>0, <2>3, <2>4, <2>5, EcOneMoves DEF EcMoves
<1> QED
  BY <1>1, <1>2 DEF EcAttach

LEMMA EcStoppedIs ==
  ASSUME EcTypes, NEW S
  PROVE  /\ EcStopped(S) \in [EcTasks -> EcTaskRecord]
         /\ \A t \in EcTasks : ~(t \in S /\ EcActive(t)) => EcStopped(S)[t] = ecTask[t]
         /\ \A t \in EcTasks : t \in S /\ EcActive(t) =>
              EcStopped(S)[t] = [ecTask[t] EXCEPT !.status = "STOPPED", !.stable = FALSE]
<1>1. \A t \in EcTasks : [ecTask[t] EXCEPT !.status = "STOPPED", !.stable = FALSE] \in EcTaskRecord
  BY EcTaskIs DEF EcTaskRecord
<1> QED
  BY <1>1, EcTaskIs DEF EcStopped

LEMMA EcRunFailsStep ==
  ASSUME EcTypes, NEW t \in EcTasks, EcRunFails(t)
  PROVE  EcStep
<1> DEFINE at == ecWorker[t].at
           rec == [EcStopped({t})[t] EXCEPT !.tokens = EcStopped({t})[t].tokens \cup {at}]
           job == [ecJob[<<t, "end">>] EXCEPT !.pc = "record"]
<1>0. /\ ecTask[t] \in EcTaskRecord /\ ecWorker[t] \in EcWorkerRecord /\ at \in EcIds
      /\ ecToken[t] \subseteq EcIds /\ <<t, "end">> \in EcJobs /\ ecJob[<<t, "end">>] \in EcJobRecord
  BY EcTaskIs DEF EcWorkerRecord, EcEnd
<1>1. /\ EcActive(t) /\ ecWorker[t].pc = "start"
      /\ ecTask' = [EcStopped({t}) EXCEPT ![t] = rec]
      /\ ecToken' = [ecToken EXCEPT ![t] = ecToken[t] \cup {at}]
      /\ ecWorker' = [ecWorker EXCEPT ![t] = [ecWorker[t] EXCEPT !.pc = "done"]]
      /\ ecJob' = [ecJob EXCEPT ![<<t, "end">>] = job]
      /\ UNCHANGED <<ecBox, ecClean, ecReset>>
  BY <1>0 DEF EcRunFails, EcGo
<1>2. EcStopped({t})[t] = [ecTask[t] EXCEPT !.status = "STOPPED", !.stable = FALSE]
  BY <1>1, EcStoppedIs
<1>3. /\ rec \in EcTaskRecord /\ rec.status = "STOPPED" /\ rec.tokens = ecTask[t].tokens \cup {at}
      /\ rec.there = ecTask[t].there /\ rec.resetting = ecTask[t].resetting /\ rec.ids = ecTask[t].ids
  BY <1>0, <1>2 DEF EcTaskRecord
<1>4. job \in EcJobRecord /\ job.pc = "record" /\ job.watched = ecJob[<<t, "end">>].watched
  BY <1>0 DEF EcJobRecord, EcBusyPcs
<1>5. [ecWorker[t] EXCEPT !.pc = "done"] \in EcWorkerRecord /\ [ecWorker[t] EXCEPT !.pc = "done"].pc = "done"
  BY <1>0 DEF EcWorkerRecord
<1> HIDE DEF rec, job
<1>6. ecTask' \in [EcTasks -> EcTaskRecord] /\ ecTask'[t] = rec /\ \A u \in EcTasks : u # t => ecTask'[u] = ecTask[u]
  BY <1>1, <1>3, EcStoppedIs
<1>7. EcTypes'
  BY <1>0, <1>1, <1>4, <1>5, <1>6 DEF EcTypes, EcTaskTypes, EcJobTypes
<1>8. EcFailed(t)
  <2>1. ecWorker'[t].pc = "done" /\ ecToken'[t] = ecToken[t] \cup {at} /\ EcEnd(t)' = job
    BY <1>0, <1>1, <1>5 DEF EcTypes, EcTaskTypes, EcJobTypes, EcEnd
  <2> QED
    BY <1>1, <1>3, <1>4, <1>6, <2>1 DEF EcFailed, EcSameRecord, EcSameBoxes, EcSameClean, EcEnd
<1>9. \A u \in EcTasks : u # t => EcUntouched(u)
  <2>1. \A u \in EcTasks : u # t => ecJob'[<<u, "end">>] = ecJob[<<u, "end">>]
    BY <1>1, EcJobNames DEF EcTypes, EcJobTypes
  <2>2. \A u \in EcTasks : u # t => ecWorker'[u] = ecWorker[u] /\ ecToken'[u] = ecToken[u]
    BY <1>1 DEF EcTypes, EcTaskTypes
  <2> QED
    BY <1>1, <1>6, <2>1, <2>2 DEF EcUntouched, EcSameClean, EcSameBoxes
<1> QED
  BY <1>1, <1>7, <1>8, <1>9, EcOneMoves DEF EcMoves

LEMMA EcExitStep ==
  ASSUME EcTypes, NEW b \in EcTasks \X EcIds, EcExit(b)
  PROVE  EcStep
<1>1. PICK t \in EcTasks, i \in EcIds : b = <<t, i>>
  OBVIOUS
<1>2. ecBox' = [ecBox EXCEPT ![<<t, i>>] = "exited"] /\ ecBox[<<t, i>>] = "up"
      /\ UNCHANGED <<ecTask, ecWorker, ecToken, ecJob, ecClean, ecReset>>
  BY <1>1 DEF EcExit
<1>3. EcTypes'
  BY <1>2, EcBoxSet DEF EcTypes, EcTaskTypes, EcJobTypes
<1>4. EcDied(t)
  <2>1. \A k \in EcIds : ecBox'[<<t, k>>] = IF k = i THEN "exited" ELSE ecBox[<<t, k>>]
    BY <1>2, EcBoxSet
  <2> QED
    BY <1>2, <2>1 DEF EcDied, EcSameTask, EcSameRecord, EcSameRest, EcSameEnd, EcSameClean, EcEnd
<1>5. \A u \in EcTasks : u # t => EcUntouched(u)
  <2>1. \A u \in EcTasks : u # t => EcSameBoxes(u)
    BY <1>2, EcBoxSet
  <2> QED
    BY <1>2, <2>1 DEF EcUntouched, EcSameClean
<1> QED
  BY <1>2, <1>3, <1>4, <1>5, EcOneMoves DEF EcMoves

LEMMA EcStopStep ==
  ASSUME EcTypes, NEW t \in EcTasks, EcNotice(t) \/ EcStopTask(t)
  PROVE  EcStep
<1> DEFINE rec == EcStopped({t})[t]
           job == [EcNoJob EXCEPT !.pc = "record", !.watched = TRUE]
<1>0. /\ ecTask[t] \in EcTaskRecord /\ <<t, "end">> \in EcJobs
      /\ EcActive(t) /\ ecTask' = EcStopped({t}) /\ UNCHANGED <<ecBox, ecWorker, ecToken, ecReset>>
  BY EcTaskIs DEF EcNotice, EcStopTask
<1>1. rec = [ecTask[t] EXCEPT !.status = "STOPPED", !.stable = FALSE]
  BY <1>0, EcStoppedIs
<1>2. /\ rec.status = "STOPPED" /\ rec.tokens = ecTask[t].tokens
      /\ rec.there = ecTask[t].there /\ rec.resetting = ecTask[t].resetting /\ rec.ids = ecTask[t].ids
  BY <1>0, <1>1 DEF EcTaskRecord
<1>3. ecTask' \in [EcTasks -> EcTaskRecord] /\ ecTask'[t] = rec /\ \A u \in EcTasks : u # t => ecTask'[u] = ecTask[u]
  BY <1>0, EcStoppedIs
<1>4. job \in EcJobRecord /\ job.pc = "record" /\ job.watched = TRUE
  BY EcNoJobType DEF EcJobRecord, EcBusyPcs
<1> HIDE DEF rec, job
<1>5. CASE EcNotice(t)
  <2>1. ecJob' = [ecJob EXCEPT ![<<t, "end">>] = job] /\ UNCHANGED ecClean
    BY <1>5 DEF EcNotice, job
  <2>2. EcTypes'
    BY <1>0, <1>3, <1>4, <2>1 DEF EcTypes, EcTaskTypes, EcJobTypes
  <2>3. EcNoticed(t)
    <3>1. EcEnd(t)' = job
      BY <1>0, <2>1 DEF EcEnd, EcTypes, EcJobTypes
    <3> QED
      BY <1>0, <1>2, <1>3, <1>4, <1>5, <2>1, <3>1
      DEF EcNotice, EcNoticed, EcSameRecord, EcSameBoxes, EcSameClean
  <2>4. \A u \in EcTasks : u # t => EcUntouched(u)
    <3> SUFFICES ASSUME NEW u \in EcTasks, u # t PROVE EcUntouched(u)
      OBVIOUS
    <3>1. ecJob'[<<u, "end">>] = ecJob[<<u, "end">>]
      BY <2>1 DEF EcTypes, EcJobTypes
    <3>2. ecTask'[u] = ecTask[u]
      BY <1>3
    <3> QED
      BY <1>0, <2>1, <3>1, <3>2, Zenon DEF EcUntouched, EcSameClean, EcSameBoxes
  <2> QED
    BY <1>0, <2>2, <2>3, <2>4, EcOneMoves DEF EcMoves
<1>6. CASE EcStopTask(t)
  <2>1. ecJob' = ecJob /\ ecClean' = ecClean \cup {t}
    BY <1>6 DEF EcStopTask
  <2>2. EcTypes'
    BY <1>0, <1>3, <2>1 DEF EcTypes, EcTaskTypes, EcJobTypes
  <2>3. EcWasStopped(t)
    BY <1>0, <1>2, <1>3, <2>1 DEF EcWasStopped, EcSameRecord, EcSameBoxes, EcSameEnd, EcEnd
  <2>4. \A u \in EcTasks : u # t => EcUntouched(u)
    BY <1>0, <1>3, <2>1 DEF EcUntouched, EcSameClean, EcSameBoxes
  <2> QED
    BY <1>0, <2>2, <2>3, <2>4, EcOneMoves DEF EcMoves
<1> QED
  BY <1>5, <1>6

LEMMA EcRemoved ==
  ASSUME EcTypes, NEW t \in EcTasks, EcRemove(t)
  PROVE  /\ ecTask' \in [EcTasks -> EcTaskRecord] /\ ecToken' \in [EcTasks -> SUBSET EcIds]
         /\ \A u \in EcTasks : u # t => ecTask'[u] = ecTask[u] /\ ecToken'[u] = ecToken[u]
         /\ ecTask'[t].ids = {} /\ ecTask'[t].tokens = {} /\ ecToken'[t] = ecToken[t] \ ecTask[t].tokens
         /\ ecTask'[t].there = ecTask[t].there /\ ecTask'[t].resetting = ecTask[t].resetting
         /\ ecTask'[t].status = ecTask[t].status
<1> DEFINE rec == [ecTask[t] EXCEPT !.ids = {}, !.tokens = {}]
<1>0. ecTask[t] \in EcTaskRecord
  BY EcTaskIs
<1>1. ecTask' = [ecTask EXCEPT ![t] = rec] /\ ecToken' = [ecToken EXCEPT ![t] = ecToken[t] \ ecTask[t].tokens]
  BY <1>0 DEF EcRemove, EcTypes, EcTaskTypes, EcTaskRecord
<1>2. /\ rec \in EcTaskRecord /\ rec.ids = {} /\ rec.tokens = {} /\ rec.there = ecTask[t].there
      /\ rec.resetting = ecTask[t].resetting /\ rec.status = ecTask[t].status
  BY <1>0 DEF EcTaskRecord
<1> HIDE DEF rec
<1> QED
  BY <1>1, <1>2 DEF EcTypes, EcTaskTypes

LEMMA EcCleanupStep ==
  ASSUME EcTypes, NEW t \in EcTasks, EcCleanup(t)
  PROVE  EcStep
<1>1. /\ t \in ecClean /\ ecClean' = ecClean \ {t} /\ EcRemove(t) /\ UNCHANGED <<ecWorker, ecJob, ecReset>>
      /\ ecBox' = [b \in EcTasks \X EcIds |-> IF b[1] = t /\ b[2] \in ecTask[t].ids THEN "none" ELSE ecBox[b]]
  BY DEF EcCleanup
<1>2. /\ ecBox' \in [EcTasks \X EcIds -> {"none", "up", "exited"}]
      /\ \A i \in EcIds : ecBox'[<<t, i>>] = IF i \in ecTask[t].ids THEN "none" ELSE ecBox[<<t, i>>]
      /\ \A u \in EcTasks : u # t => \A i \in EcIds : ecBox'[<<u, i>>] = ecBox[<<u, i>>]
  BY <1>1 DEF EcTypes, EcTaskTypes
<1>3. EcTypes'
  BY <1>1, <1>2, EcRemoved DEF EcTypes, EcTaskTypes, EcJobTypes
<1>4. EcCleaned(t)
  BY <1>1, <1>2, EcRemoved DEF EcCleaned, EcEmptied, EcSameEnd, EcEnd
<1>5. \A u \in EcTasks : u # t => EcUntouched(u)
  BY <1>1, <1>2, EcRemoved DEF EcUntouched, EcSameBoxes, EcSameClean
<1> QED
  BY <1>1, <1>3, <1>4, <1>5, EcOneMoves DEF EcMoves

(* A step that leaves a task's record alone, and its end busy.              *)
LEMMA EcQuietStays ==
  ASSUME NEW t \in EcTasks, EcSameTask(t), EcSameBoxes(t), EcSameClean(t), EcSameEnd(t),
         ecWorker'[t] = ecWorker[t], ecToken'[t] = ecToken[t]
  PROVE  EcStays(t)
BY DEF EcStays, EcSameRest

LEMMA EcRecordStep ==
  ASSUME EcTypes, NEW t \in EcTasks, EcRecordFailure(t)
  PROVE  EcStep
<1> DEFINE d == ecTask[t].dep
           counted == EcIsActive /\ d = EcPrimary /\ d > 0 /\ EcRollout = "IN_PROGRESS"
           trips == counted /\ ecService.deps[d].failed + 1 >= EcThreshold
           pc == IF EcIsActive /\ d = EcPrimary /\ d > 0 THEN "look" ELSE "finish"
           back == trips /\ EcRollback /\ EcCandidates(d) # {}
           job == [ecJob[<<t, "end">>] EXCEPT !.pc = pc, !.back = back]
<1>0. <<t, "end">> \in EcJobs /\ ecJob[<<t, "end">>] \in EcJobRecord
  BY EcTaskIs DEF EcEnd
<1>a. pc \in {"look", "finish"} /\ back \in BOOLEAN
  BY EcAssumption
<1>1. /\ ecJob' = [ecJob EXCEPT ![<<t, "end">>] = job] /\ EcEnd(t).pc = "record"
      /\ UNCHANGED <<ecTask, ecWorker, ecBox, ecToken, ecClean, ecReset>>
  <2>1. ecJob' = [ecJob EXCEPT ![<<t, "end">>].pc = pc, ![<<t, "end">>].back = back]
    BY DEF EcRecordFailure
  <2>2. /\ EcEnd(t).pc = "record"
        /\ UNCHANGED <<ecTask, ecWorker, ecBox, ecToken, ecClean, ecReset>>
    BY DEF EcRecordFailure, EcEnd
  <2> HIDE DEF pc, back
  <2> QED
    BY <1>0, <2>1, <2>2 DEF EcJobRecord, EcTypes, EcJobTypes
<1> HIDE DEF pc, back
<1>2. job \in EcJobRecord /\ job.pc \in EcBusyPcs /\ job.watched = EcEnd(t).watched
  BY <1>0, <1>a DEF EcJobRecord, EcBusyPcs, EcEnd
<1> HIDE DEF job
<1>3. EcTypes'
  BY <1>1, <1>2 DEF EcTypes, EcTaskTypes, EcJobTypes
<1>4. EcStays(t)
  <2>1. EcEnd(t)' = job
    BY <1>0, <1>1 DEF EcEnd, EcTypes, EcJobTypes
  <2>2. EcSameEnd(t)
    BY <1>1, <1>2, <2>1 DEF EcSameEnd, EcBusyPcs
  <2> QED
    BY <1>1, <2>2, EcQuietStays DEF EcSameTask, EcSameRecord, EcSameBoxes, EcSameClean
<1>5. \A u \in EcTasks : u # t => EcUntouched(u)
  <2>1. \A u \in EcTasks : u # t => ecJob'[<<u, "end">>] = ecJob[<<u, "end">>]
    BY <1>1, EcJobNames DEF EcTypes, EcJobTypes
  <2> QED
    BY <1>1, <2>1 DEF EcUntouched, EcSameClean, EcSameBoxes
<1> QED
  BY <1>1, <1>3, <1>4, <1>5, EcOneMoves DEF EcMoves

LEMMA EcFinishStep ==
  ASSUME EcDeploymentsInv, EcTypes, NEW t \in EcTasks, EcFinish(t)
  PROVE  EcStep
<1>0. <<t, "end">> \in EcJobs /\ EcEnd(t).pc = "finish" /\ EcEnd(t).watched \in BOOLEAN
  BY EcTaskIs DEF EcFinish, EcEnd
<1>1. /\ ecJob' \in [EcJobs -> EcJobRecord] /\ ecJob'[<<t, "end">>] = EcNoJob
      /\ \A u \in EcTasks : u # t => ecJob'[<<u, "end">>] = ecJob[<<u, "end">>]
  <2> DEFINE job == [EcNoJob EXCEPT !.pc = "sleep", !.dep = EcPrimary]
  <2>1. EcPrimary \in 0..EcMaxDeployments
    BY EcPrimaryIs DEF EcDeploymentsInv
  <2>2. job \in EcJobRecord /\ EcNoJob \in EcJobRecord
    BY <2>1, EcNoJobType DEF EcJobRecord
  <2>3. ecJob' = [j \in EcJobs |->
       IF j = <<t, "end">> THEN EcNoJob
       ELSE IF j = <<t, "back">> /\ ecJob[<<t, "end">>].back /\ EcPrimary > 0 THEN job ELSE ecJob[j]]
    BY DEF EcFinish
  <2> HIDE DEF job
  <2>4. \A u \in EcTasks : u # t => ecJob'[<<u, "end">>] = ecJob[<<u, "end">>]
    BY <2>3, EcJobNames
  <2> QED
    BY <1>0, <2>2, <2>3, <2>4 DEF EcTypes, EcJobTypes
<1>2. EcEnd(t)'.pc = "none" /\ EcEnd(t)'.watched = FALSE
  BY <1>1 DEF EcEnd, EcNoJob
<1>3. CASE EcEnd(t).watched
  <2>1. EcRemove(t) /\ UNCHANGED <<ecClean, ecWorker, ecBox, ecReset>>
    BY <1>3 DEF EcFinish, EcSettle, EcEnd
  <2>2. EcTypes'
    BY <1>1, <2>1, EcRemoved DEF EcTypes, EcTaskTypes, EcJobTypes
  <2>3. EcSettled(t)
    BY <1>0, <1>2, <1>3, <2>1, EcRemoved DEF EcSettled, EcEmptied, EcSameBoxes, EcSameClean
  <2>4. \A u \in EcTasks : u # t => EcUntouched(u)
    BY <1>1, <2>1, EcRemoved DEF EcUntouched, EcSameClean, EcSameBoxes
  <2> QED
    BY <2>1, <2>2, <2>3, <2>4, EcOneMoves DEF EcMoves
<1>4. CASE ~EcEnd(t).watched
  <2>1. ecClean' = ecClean \cup {t} /\ UNCHANGED <<ecTask, ecToken, ecWorker, ecBox, ecReset>>
    BY <1>4 DEF EcFinish, EcSettle, EcEnd
  <2>2. EcTypes'
    BY <1>1, <2>1 DEF EcTypes, EcTaskTypes, EcJobTypes
  <2>3. EcSettled(t)
    BY <1>0, <1>2, <1>4, <2>1 DEF EcSettled, EcSameBoxes, EcSameTask, EcSameRecord
  <2>4. \A u \in EcTasks : u # t => EcUntouched(u)
    BY <1>1, <2>1 DEF EcUntouched, EcSameClean, EcSameBoxes
  <2> QED
    BY <2>1, <2>2, <2>3, <2>4, EcOneMoves DEF EcMoves
<1> QED
  BY <1>3, <1>4

LEMMA EcWorkEnds ==
  ASSUME EcTypes, NEW j \in EcJobs, NEW job, EcGoesOn(j, job), NEW t \in EcTasks, EcEnd(t).pc # "sleep"
  PROVE  ecJob' \in [EcJobs -> EcJobRecord] /\ EcSameEnd(t)
<1>1. ecJob' \in [EcJobs -> EcJobRecord] /\ ecJob'[j] = job /\ \A k \in EcJobs : k # j => ecJob'[k] = ecJob[k]
  BY DEF EcGoesOn, EcJobBecomes, EcTypes, EcJobTypes
<1>2. CASE j = <<t, "end">>
  <2>1. /\ j[2] = "end" /\ EcEnd(t) = ecJob[j] /\ EcEnd(t)' = job
    BY <1>1, <1>2 DEF EcEnd
  <2>2. ecJob[j].pc \in EcBusyPcs
    BY <2>1, EcTaskIs DEF EcGoesOn
  <2> QED
    BY <1>1, <2>1, <2>2 DEF EcGoesOn, EcSameEnd
<1>3. CASE j # <<t, "end">>
  BY <1>1, <1>3, EcTaskIs DEF EcSameEnd, EcEnd
<1> QED
  BY <1>2, <1>3

LEMMA EcWakeStep ==
  ASSUME EcDeploymentsInv, EcTypes, \A t \in EcTasks : EcEnd(t).pc # "sleep",
         NEW j \in EcJobs, EcWake(j) \/ EcLook(j) \/ EcComplete(j)
  PROVE  EcStep
<1>1. PICK job : EcGoesOn(j, job)
  BY EcWorkJob DEF EcWork
<1>2. UNCHANGED <<ecWorker, ecBox, ecToken, ecClean, ecReset>>
  BY DEF EcWake, EcLook, EcComplete
<1>3. ecTask' \in [EcTasks -> EcTaskRecord] /\ \A t \in EcTasks : EcSameTask(t)
  <2>1. CASE UNCHANGED ecTask
    BY <2>1 DEF EcSameTask, EcSameRecord, EcTypes, EcTaskTypes
  <2>2. CASE ecTask' # ecTask
    <3> DEFINE t == j[1]
               rec == [ecTask[t] EXCEPT !.stable = TRUE]
    <3>1. EcWake(j) /\ j[2] = "check"
      BY <2>2 DEF EcWake, EcLook, EcComplete
    <3>2. t \in EcTasks
      BY <3>1, EcJobNames
    <3>3. ecTask' = [ecTask EXCEPT ![t] = rec]
      BY <2>2, <3>1, <3>2 DEF EcWake
    <3>4. /\ rec \in EcTaskRecord /\ rec.there = ecTask[t].there /\ rec.resetting = ecTask[t].resetting
          /\ rec.status = ecTask[t].status /\ rec.ids = ecTask[t].ids /\ rec.tokens = ecTask[t].tokens
      BY <3>2, EcTaskIs DEF EcTaskRecord
    <3> HIDE DEF t, rec
    <3> QED
      BY <3>2, <3>3, <3>4 DEF EcSameTask, EcSameRecord, EcTypes, EcTaskTypes
  <2> QED
    BY <2>1, <2>2
<1>4. ASSUME NEW t \in EcTasks PROVE EcStays(t)
  <2>1. EcSameEnd(t)
    BY <1>1, EcWorkEnds
  <2> QED
    BY <1>2, <1>3, <2>1, EcQuietStays DEF EcSameBoxes, EcSameClean
<1>5. EcTypes'
  <2>1. ecJob' \in [EcJobs -> EcJobRecord]
    BY <1>1 DEF EcGoesOn, EcJobBecomes, EcTypes, EcJobTypes
  <2> QED
    BY <1>2, <1>3, <2>1 DEF EcTypes, EcTaskTypes, EcJobTypes
<1> QED
  BY <1>2, <1>4, <1>5 DEF EcStep, EcMoves

LEMMA EcActStep ==
  ASSUME EcDeploymentsInv, EcTypes, \A t \in EcTasks : EcEnd(t).pc # "sleep" /\ EcAlive(t),
         NEW j \in EcJobs, EcAct(j)
  PROVE  EcStep
<1> DEFINE new == EcFresh(ecJob[j].run)
           stop == ecJob[j].stop
           rec == [EcNoTask EXCEPT !.there = TRUE, !.status = "starting", !.dep = ecJob[j].to]
<1>1. PICK job : EcGoesOn(j, job)
  BY EcWorkJob DEF EcWork
<1>2. /\ ecTask' = [t \in EcTasks |-> IF t \in new THEN rec ELSE EcStopped(stop)[t]]
      /\ ecClean' = ecClean \cup {t \in stop : EcActive(t)}
      /\ ecWorker' = [t \in EcTasks |-> IF t \in new THEN [ecWorker[t] EXCEPT !.pc = "start"] ELSE ecWorker[t]]
      /\ UNCHANGED <<ecBox, ecToken, ecReset>>
  BY DEF EcAct
<1>3. /\ stop \in SUBSET EcTasks
      /\ rec \in EcTaskRecord /\ rec.there = TRUE /\ rec.status = "starting"
  <2>1. ecJob[j] \in EcJobRecord
    BY DEF EcTypes, EcJobTypes
  <2> QED
    BY <2>1, EcNoJobType DEF EcTaskRecord, EcJobRecord
<1>4. \A t \in new : ecWorker[t].pc = "none"
  BY DEF EcFresh, EcFirst
<1> HIDE DEF new, stop, rec
<1>5. EcTypes'
  <2>1. ecJob' \in [EcJobs -> EcJobRecord]
    BY <1>1 DEF EcGoesOn, EcJobBecomes, EcTypes, EcJobTypes
  <2>2. ecTask' \in [EcTasks -> EcTaskRecord]
    BY <1>2, <1>3, EcStoppedIs
  <2>3. \A t \in EcTasks : [ecWorker[t] EXCEPT !.pc = "start"] \in EcWorkerRecord /\ ecWorker[t] \in EcWorkerRecord
    BY EcTaskIs DEF EcWorkerRecord
  <2>4. ecWorker' \in [EcTasks -> EcWorkerRecord]
    BY <1>2, <2>3
  <2> QED
    BY <1>2, <1>3, <2>1, <2>2, <2>4 DEF EcTypes, EcTaskTypes, EcJobTypes
<1>6. ASSUME NEW t \in EcTasks PROVE EcMoves(t)
  <2>1. EcSameEnd(t)
    BY <1>1, EcWorkEnds
  <2>2. CASE t \in new
    <3>1. ecWorker[t].pc = "none" /\ ~EcActive(t)
      BY <1>4, <2>2 DEF EcAlive, EcActive
    <3>2. EcSameClean(t)
      BY <1>2, <3>1 DEF EcSameClean
    <3>3. ecWorker'[t].pc = "start" /\ ecTask'[t] = rec
      BY <1>2, <2>2, EcTaskIs DEF EcWorkerRecord
    <3>4. EcRegistered(t)
      BY <1>2, <1>3, <2>1, <3>1, <3>2, <3>3 DEF EcRegistered, EcSameBoxes, EcSameRest
    <3> QED
      BY <3>4 DEF EcMoves
  <2>3. CASE t \notin new /\ t \in stop /\ EcActive(t)
    <3>1. ecTask'[t] = [ecTask[t] EXCEPT !.status = "STOPPED", !.stable = FALSE]
      BY <1>2, <2>3, EcStoppedIs
    <3>2. EcSameRecord(t) /\ ecTask'[t].status = "STOPPED" /\ ecTask'[t].tokens = ecTask[t].tokens
      BY <3>1, EcTaskIs DEF EcSameRecord, EcTaskRecord
    <3>3. EcWasStopped(t)
      BY <1>2, <2>1, <2>3, <3>2 DEF EcWasStopped, EcSameBoxes
    <3> QED
      BY <3>3 DEF EcMoves
  <2>4. CASE t \notin new /\ ~(t \in stop /\ EcActive(t))
    <3>1. ecTask'[t] = ecTask[t] /\ ecWorker'[t] = ecWorker[t]
      BY <1>2, <2>4, EcStoppedIs
    <3>2. EcSameClean(t)
      BY <1>2, <2>4 DEF EcSameClean
    <3>3. EcStays(t)
      BY <1>2, <2>1, <3>1, <3>2, EcQuietStays DEF EcSameBoxes, EcSameTask, EcSameRecord
    <3> QED
      BY <3>3 DEF EcMoves
  <2> QED
    BY <2>2, <2>3, <2>4
<1> QED
  BY <1>2, <1>5, <1>6 DEF EcStep


(* A handler that leaves the tasks to the reconciler it calls.              *)
LEMMA EcCallStep ==
  ASSUME EcTypes, NEW pc \in {"look", "act"}, NEW stop \in SUBSET EcTasks, EcCalls(pc, stop),
         UNCHANGED <<ecTask, ecWorker, ecBox, ecToken, ecClean, ecReset>>
  PROVE  EcStep
<1> DEFINE job == [EcNoJob EXCEPT !.pc = pc, !.stop = stop]
<1>1. job \in EcJobRecord /\ ecJob' = [ecJob EXCEPT ![<<0, "call">>] = job]
  BY EcNoJobType DEF EcJobRecord, EcBusyPcs, EcCalls
<1> HIDE DEF job
<1>2. EcTypes'
  BY <1>1 DEF EcTypes, EcTaskTypes, EcJobTypes
<1>3. \A t \in EcTasks : EcUntouched(t)
  <2>1. \A t \in EcTasks : <<t, "end">> # <<0, "call">> /\ <<t, "end">> \in EcJobs
    BY EcJobNames
  <2>2. \A t \in EcTasks : ecJob'[<<t, "end">>] = ecJob[<<t, "end">>]
    BY <1>1, <2>1 DEF EcTypes, EcJobTypes
  <2> QED
    BY <2>2 DEF EcUntouched, EcSameBoxes, EcSameClean
<1> QED
  BY <1>2, <1>3, EcUntouchedStays DEF EcStep, EcMoves

LEMMA EcResetStep ==
  ASSUME EcTypes, EcResetFlags \/ EcResetClears
  PROVE  EcTypes' /\ EcStepOfTasks
<1>0. \A t \in EcTasks : ecTask[t] \in EcTaskRecord
  BY EcTaskIs
<1>1. CASE EcResetFlags
  <2> DEFINE rec(t) == IF ecTask[t].there THEN [ecTask[t] EXCEPT !.resetting = TRUE] ELSE ecTask[t]
  <2>1. /\ ecTask' = [t \in EcTasks |-> rec(t)] /\ ecReset' = "flagged"
        /\ UNCHANGED <<ecWorker, ecBox, ecToken, ecJob, ecClean>>
    BY <1>1 DEF EcResetFlags
  <2>2. ASSUME NEW t \in EcTasks
        PROVE  /\ rec(t) \in EcTaskRecord /\ rec(t).there = ecTask[t].there
               /\ rec(t).resetting = (ecTask[t].there \/ ecTask[t].resetting)
               /\ rec(t).status = ecTask[t].status /\ rec(t).ids = ecTask[t].ids
               /\ rec(t).tokens = ecTask[t].tokens
    <3>1. CASE ecTask[t].there
      BY <1>0, <3>1 DEF EcTaskRecord
    <3>2. CASE ~ecTask[t].there
      BY <1>0, <3>2 DEF EcTaskRecord
    <3> QED
      BY <3>1, <3>2
  <2> HIDE DEF rec
  <2>3. EcTypes'
    BY <2>1, <2>2 DEF EcTypes, EcTaskTypes, EcJobTypes
  <2>4. \A t \in EcTasks : EcFlagged(t)
    BY <2>1, <2>2 DEF EcFlagged, EcSameBoxes, EcSameRest, EcSameEnd, EcSameClean, EcEnd
  <2> QED
    BY <2>1, <2>3, <2>4 DEF EcStepOfTasks
<1>2. CASE EcResetClears
  <2> DEFINE rec(t) == [EcNoTask EXCEPT !.ids = ecTask[t].ids, !.tokens = ecTask[t].tokens]
  <2>1. /\ ecTask' = [t \in EcTasks |-> rec(t)]
        /\ ecBox' = [b \in EcTasks \X EcIds |-> "none"] /\ ecToken' = [t \in EcTasks |-> {}]
        /\ UNCHANGED <<ecWorker, ecJob, ecClean>>
        /\ ecReset' = "no"
    BY <1>2 DEF EcResetClears
  <2>2. ASSUME NEW t \in EcTasks
        PROVE  rec(t) \in EcTaskRecord /\ rec(t).there = FALSE /\ rec(t).ids = ecTask[t].ids
    BY <1>0, EcNoJobType DEF EcTaskRecord, EcNoTask
  <2> HIDE DEF rec
  <2>3. EcTypes'
    BY <2>1, <2>2 DEF EcTypes, EcTaskTypes, EcJobTypes
  <2>4. \A t \in EcTasks : EcCleared(t)
    BY <2>1, <2>2 DEF EcCleared, EcSameEnd, EcSameClean, EcEnd
  <2> QED
    BY <2>3, <2>4 DEF EcStepOfTasks
<1> QED
  BY <1>1, <1>2

(* The invariant of the service and its tasks.                              *)
EcTasksInv == EcTypes /\ \A t \in EcTasks : EcLife(t)

LEMMA EcTasksStep ==
  ASSUME EcDeploymentsInv, EcTasksInv, [EcNext]_ecVars
  PROVE  EcTypes' /\ EcStepOfTasks
<1>0. EcTypes /\ \A t \in EcTasks : EcEnd(t).pc # "sleep" /\ EcAlive(t)
  BY DEF EcTasksInv, EcLife, EcEnded
<1>a. ASSUME EcStep PROVE EcTypes' /\ EcStepOfTasks
  BY <1>a DEF EcStep, EcStepOfTasks
<1>1. ASSUME NEW t \in EcTasks, EcThread(t) \/ EcRunFails(t) PROVE EcStep
  BY <1>0, <1>1, EcRunStep, EcAttachStep, EcRunFailsStep DEF EcThread
<1>2. ASSUME NEW t \in EcTasks, EcTaskStep(t) \/ EcStopTask(t) PROVE EcStep
  BY <1>0, <1>2, EcRecordStep, EcFinishStep, EcCleanupStep, EcStopStep DEF EcTaskStep
<1>3. ASSUME NEW j \in EcJobs, EcWork(j) PROVE EcStep
  BY <1>0, <1>3, EcWakeStep, EcActStep DEF EcWork
<1>4. ASSUME NEW b \in EcTasks \X EcIds, EcExit(b) PROVE EcStep
  BY <1>0, <1>4, EcExitStep
<1>5. ASSUME EcDeploy \/ EcDelete \/ \E n \in EcDesired : EcCreate(n) \/ EcScale(n) PROVE EcStep
  <2>1. PICK pc \in {"look", "act"}, stop \in SUBSET EcTasks : EcCalls(pc, stop)
    BY <1>5 DEF EcDeploy, EcDelete, EcCreate, EcScale
  <2>2. UNCHANGED <<ecTask, ecWorker, ecBox, ecToken, ecClean, ecReset>>
    BY <1>5 DEF EcDeploy, EcDelete, EcCreate, EcScale
  <2> QED
    BY <1>0, <2>1, <2>2, EcCallStep
<1>6. CASE EcResetFlags \/ EcResetClears
  BY <1>0, <1>6, EcResetStep
<1>7. ASSUME UNCHANGED ecVars PROVE EcStep
  <2>1. EcTypes'
    BY <1>0, <1>7 DEF EcTypes, EcTaskTypes, EcJobTypes, ecVars
  <2>2. UNCHANGED ecReset /\ \A t \in EcTasks : EcUntouched(t)
    BY <1>7 DEF ecVars, EcUntouched, EcSameBoxes, EcSameClean
  <2> QED
    BY <2>1, <2>2, EcUntouchedStays DEF EcStep, EcMoves
<1> QED
  BY <1>a, <1>1, <1>2, <1>3, <1>4, <1>5, <1>6, <1>7 DEF EcNext, EcProgress

LEMMA EcTasksInvStep ==
  ASSUME EcDeploymentsInv, EcTasksInv, [EcNext]_ecVars
  PROVE  EcTasksInv'
<1>1. EcTypes' /\ EcStepOfTasks
  BY EcTasksStep
<1>2. ASSUME NEW t \in EcTasks PROVE EcLife(t)'
  <2>0. EcTypes /\ EcLife(t)
    BY DEF EcTasksInv
  <2>1. CASE UNCHANGED ecReset /\ EcMoves(t)
    BY <2>0, <2>1, EcStaysLife, EcRegisteredLife, EcRanLife, EcGaveUpLife, EcFailedLife, EcTookLife,
       EcDiedLife, EcNoticedLife, EcCleanedLife, EcWasStoppedLife, EcSettledLife DEF EcMoves
  <2>2. CASE (EcFlagged(t) /\ ecReset' # "no") \/ EcCleared(t)
    BY <2>0, <2>2, EcResetLife
  <2> QED
    BY <1>1, <2>1, <2>2 DEF EcStepOfTasks
<1> QED
  BY <1>1, <1>2 DEF EcTasksInv

LEMMA EcTasksInit == EcInit => EcTasksInv
<1> SUFFICES ASSUME EcInit PROVE EcTasksInv
  OBVIOUS
<1>1. [pc |-> "none", at |-> 1] \in EcWorkerRecord
  BY EcNumbers DEF EcWorkerRecord
<1>2. EcTypes
  BY <1>1, EcNoJobType DEF EcInit, EcTypes, EcTaskTypes, EcJobTypes
<1>3. ASSUME NEW t \in EcTasks PROVE EcLife(t)
  <2>1. EcEnd(t).pc = "none" /\ ~EcEnd(t).watched
    BY EcJobNames DEF EcInit, EcEnd, EcNoJob
  <2>2. ecTask[t].there = FALSE /\ ecWorker[t].pc = "none" /\ ecToken[t] = {} /\ t \notin ecClean
        /\ \A i \in EcIds : ecBox[<<t, i>>] = "none"
    BY DEF EcInit, EcNoTask
  <2> QED
    BY <2>1, <2>2 DEF EcLife, EcAlive, EcEnded, EcSeen, EcKept
<1> QED
  BY <1>2, <1>3 DEF EcTasksInv

(* The two properties it implies.                                           *)
LEMMA EcNothingLeftHolds == EcTasksInv => EcNothingLeft
BY DEF EcTasksInv, EcLife, EcKept, EcSidecar, EcNothingLeft, EcOwned

LEMMA EcTypesHold == EcDeploymentsInv /\ EcTasksInv => EcTypeOK
<1> SUFFICES ASSUME EcDeploymentsInv, EcTasksInv PROVE EcTypeOK
  OBVIOUS
<1>1. /\ ecService.status \in {"none", "ACTIVE", "INACTIVE"} /\ ecService.desired \in EcDesired \cup {0}
      /\ \A d \in EcDeployments :
           /\ ecService.deps[d].status \in {"gone", "PRIMARY", "ACTIVE"}
           /\ ecService.deps[d].rollout \in {"IN_PROGRESS", "COMPLETED", "FAILED"}
           /\ ecService.deps[d].failed \in 0..EcThreshold
  BY DEF EcDeploymentsInv, EcServiceTypes, EcDeploymentRecord
<1>2. ASSUME EcIsActive PROVE Cardinality({d \in EcDeployments : ecService.deps[d].status = "PRIMARY"}) = 1
  <2>1. PICK p \in EcDeployments : \A d \in EcDeployments : ecService.deps[d].status = "PRIMARY" <=> d = p
    BY <1>2 DEF EcDeploymentsInv, EcOnePrimary, EcIsActive
  <2>2. {d \in EcDeployments : ecService.deps[d].status = "PRIMARY"} = {p}
    BY <2>1
  <2> QED
    BY <2>2, FS_Singleton
<1>3. \A t \in EcTasks : ecTask[t].ids \subseteq EcIds /\ ecTask[t].tokens \subseteq EcIds
  BY EcTaskIs DEF EcTasksInv, EcTaskRecord
<1>4. ecClean \subseteq EcTasks /\ ecLeft.deps \in 0..EcMaxDeployments
  BY DEF EcTasksInv, EcTypes, EcTaskTypes, EcDeploymentsInv, EcOtherTypes
<1> QED
  BY <1>1, <1>2, <1>3, <1>4 DEF EcTypeOK

-----------------------------------------------------------------------------
(* What is left of a deleted service its deletion is about to stop.         *)
EcDeleting ==
  ecService.status = "INACTIVE" /\ ecReset = "no" /\ ~ecLate => \A t \in EcTasks :
    EcActive(t) => ecJob[<<0, "call">>].pc = "act" /\ t \in ecJob[<<0, "call">>].stop

LEMMA EcDeletedStopsHolds == EcDeleting => EcDeletedStops
BY DEF EcDeleting, EcDeletedStops, EcIdle

LEMMA EcDeletingInit == EcInit => EcDeleting
BY DEF EcInit, EcDeleting

(* Nobody becomes active but who is registered.                             *)
LEMMA EcNoneAwakes ==
  ASSUME EcTypes, EcStepOfTasks, NEW t \in EcTasks, EcActive(t)'
  PROVE  EcActive(t) \/ EcRegistered(t)
<1>1. CASE EcMoves(t)
  BY <1>1, EcTaskIs
  DEF EcMoves, EcStays, EcRan, EcGaveUp, EcFailed, EcTook, EcDied, EcNoticed, EcCleaned, EcEmptied, EcWasStopped,
      EcSettled, EcSameTask, EcSameRecord, EcActive, EcTaskRecord
<1>2. CASE EcFlagged(t) \/ EcCleared(t)
  BY <1>2 DEF EcFlagged, EcCleared, EcActive
<1> QED
  BY <1>1, <1>2 DEF EcStepOfTasks

(* A step that registers nobody and leaves a deletion's call alone.         *)
EcBystander(t) ==
  /\ ecService'.status = ecService.status /\ UNCHANGED <<ecReset, ecLate>> /\ ~EcRegistered(t)
  /\ ecJob[<<0, "call">>].pc = "act" => ecJob'[<<0, "call">>] = ecJob[<<0, "call">>]

LEMMA EcPrunedStatus ==
  ASSUME EcServiceTypes, NEW tasks
  PROVE  EcPruned(ecService, tasks).status = ecService.status
BY DEF EcServiceTypes, EcPruned

LEMMA EcThreadsBystand ==
  ASSUME EcServiceTypes, EcTypes, NEW t \in EcTasks, NEW u \in EcTasks,
         EcThread(u) \/ EcRunFails(u) \/ EcTaskStep(u) \/ EcStopTask(u)
  PROVE  EcBystander(t)
<1>0. /\ <<0, "call">> # <<u, "end">> /\ <<0, "call">> # <<u, "check">> /\ <<0, "call">> # <<u, "back">>
      /\ <<0, "call">> \in EcJobs /\ <<u, "end">> \in EcJobs
      /\ ecJob \in [EcJobs -> EcJobRecord]
  BY EcJobNames DEF EcTypes, EcJobTypes
<1>1. UNCHANGED <<ecReset, ecLate>> /\ ecJob'[<<0, "call">>] = ecJob[<<0, "call">>]
  BY <1>0 DEF EcThread, EcRun, EcAttach, EcAttached, EcRunFails, EcTaskStep, EcRecordFailure, EcFinish, EcSettle,
              EcCleanup, EcNotice, EcStopTask
<1>2. ecService'.status = ecService.status
  BY EcPrunedStatus
  DEF EcThread, EcRun, EcAttach, EcAttached, EcRunFails, EcTaskStep, EcRecordFailure, EcFinish, EcSettle,
      EcCleanup, EcNotice, EcStopTask, EcServiceTypes
<1>3. ~EcRegistered(t)
  <2>1. CASE EcThread(u)
    <3>1. ecWorker[t].pc = "none" => ecWorker'[t] = ecWorker[t]
      BY <2>1, EcTaskIs DEF EcThread, EcRun, EcAttach, EcAttached, EcGo, EcGivesUp, EcTypes, EcTaskTypes
    <3> QED
      BY <3>1 DEF EcRegistered
  <2>2. CASE ~EcThread(u)
    <3>1. ecWorker' = ecWorker \/ (ecWorker'[t].pc # "start" \/ ecWorker[t].pc # "none")
      BY <2>2, EcTaskIs DEF EcRunFails, EcGo, EcTaskStep, EcRecordFailure, EcFinish, EcSettle, EcCleanup, EcNotice,
        EcStopTask, EcTypes, EcTaskTypes
    <3> QED
      BY <3>1 DEF EcRegistered
  <2> QED
    BY <2>1, <2>2
<1> QED
  BY <1>1, <1>2, <1>3 DEF EcBystander

LEMMA EcLooksBystand ==
  ASSUME EcServiceTypes, EcTypes, NEW t \in EcTasks,
         \/ \E j \in EcJobs : EcWake(j) \/ EcLook(j) \/ EcComplete(j)
         \/ \E b \in EcTasks \X EcIds : EcExit(b)
         \/ UNCHANGED ecVars
  PROVE  EcBystander(t)
<1>1. UNCHANGED <<ecReset, ecLate, ecWorker>>
  BY DEF EcWake, EcLook, EcComplete, EcExit, ecVars
<1>2. ecService'.status = ecService.status
  BY DEF EcWake, EcLook, EcComplete, EcExit, ecVars, EcServiceTypes
<1>3. ecJob[<<0, "call">>].pc = "act" => ecJob'[<<0, "call">>] = ecJob[<<0, "call">>]
  <2>1. ASSUME NEW j \in EcJobs, NEW pc \in {"sleep", "look", "complete"}, ecJob[j].pc = pc,
               NEW job, ecJob' = [ecJob EXCEPT ![j] = job], ecJob[<<0, "call">>].pc = "act"
        PROVE  ecJob'[<<0, "call">>] = ecJob[<<0, "call">>]
    BY <2>1 DEF EcTypes, EcJobTypes
  <2>2. ASSUME NEW j \in EcJobs, EcWake(j) \/ EcLook(j) \/ EcComplete(j)
        PROVE  ecJob[j].pc \in {"sleep", "look", "complete"} /\ \E job : ecJob' = [ecJob EXCEPT ![j] = job]
    <3>1. EcWork(j)
      BY <2>2 DEF EcWork
    <3>2. CASE EcWake(j)
      BY <3>2 DEF EcWake
    <3>3. CASE EcLook(j)
      BY <3>3 DEF EcLook
    <3>4. CASE EcComplete(j)
      <4>1. ecJob[j].pc = "complete"
        BY <3>4 DEF EcComplete
      <4>2. CASE ecJob' = [ecJob EXCEPT ![j] = EcOver(j)]
        BY <4>1, <4>2
      <4>3. CASE ecJob' = [ecJob EXCEPT ![j].pc = "drain", ![j].stop = EcStale]
        <5>1. ecJob' = [ecJob EXCEPT ![j] = [ecJob[j] EXCEPT !.pc = "drain", !.stop = EcStale]]
          BY <2>2, <4>3 DEF EcTypes, EcJobTypes, EcJobRecord
        <5> QED
          BY <4>1, <5>1
      <4> QED
        BY <3>4, <4>2, <4>3 DEF EcComplete
    <3> QED
      BY <2>2, <3>2, <3>3, <3>4
  <2>3. CASE \E j \in EcJobs : EcWake(j) \/ EcLook(j) \/ EcComplete(j)
    BY <2>1, <2>2, <2>3
  <2>4. CASE UNCHANGED ecJob
    BY <2>4
  <2> QED
    BY <2>3, <2>4 DEF EcExit, ecVars
<1> QED
  BY <1>1, <1>2, <1>3 DEF EcBystander, EcRegistered

(* A reconciler that acts for a deleted service registers nobody unseen, and *)
(* the deletion's own stops whoever is active.                              *)
LEMMA EcActDeletes ==
  ASSUME EcServiceTypes, EcTypes, EcDeleting, NEW j \in EcJobs, EcAct(j),
         ecService'.status = "INACTIVE", ecReset' = "no", ~ecLate', NEW t \in EcTasks, EcActive(t)'
  PROVE  ecJob'[<<0, "call">>].pc = "act" /\ t \in ecJob'[<<0, "call">>].stop
<1> DEFINE new == EcFresh(ecJob[j].run)
           rec == [EcNoTask EXCEPT !.there = TRUE, !.status = "starting", !.dep = ecJob[j].to]
<1>1. ecService.status = "INACTIVE" /\ ecReset = "no"
  BY EcPrunedStatus DEF EcAct
<1>2. new = {} /\ ~ecLate
  <2>1. ecLate' = (ecLate \/ (new # {} /\ (~EcIsActive \/ ecJob[j].to \notin EcListed \/ ecReset # "no")))
    BY DEF EcAct
  <2>2. ~EcIsActive
    BY <1>1 DEF EcIsActive
  <2> HIDE DEF new
  <2> QED
    BY <2>1, <2>2
<1>3. ecTask'[t] = EcStopped(ecJob[j].stop)[t]
  <2>1. ecTask' = [u \in EcTasks |-> IF u \in new THEN rec ELSE EcStopped(ecJob[j].stop)[u]]
    BY DEF EcAct
  <2> HIDE DEF new, rec
  <2> QED
    BY <1>2, <2>1
<1>4. EcActive(t) /\ t \notin ecJob[j].stop
  <2>1. CASE t \in ecJob[j].stop /\ EcActive(t)
    <3>1. ecTask'[t] = [ecTask[t] EXCEPT !.status = "STOPPED", !.stable = FALSE]
      BY <1>3, <2>1, EcStoppedIs
    <3>2. ecTask'[t].status = "STOPPED"
      BY <3>1, EcTaskIs DEF EcTaskRecord
    <3> QED
      BY <3>2 DEF EcActive
  <2>2. CASE ~(t \in ecJob[j].stop /\ EcActive(t))
    <3>1. ecTask'[t] = ecTask[t]
      BY <1>3, <2>2, EcStoppedIs
    <3> QED
      BY <2>2, <3>1 DEF EcActive
  <2> QED
    BY <2>1, <2>2
<1>5. ecJob[<<0, "call">>].pc = "act" /\ t \in ecJob[<<0, "call">>].stop
  BY <1>1, <1>2, <1>4 DEF EcDeleting
<1>6. j # <<0, "call">>
  BY <1>4, <1>5
<1>7. ecJob'[<<0, "call">>] = ecJob[<<0, "call">>]
  BY <1>6, EcJobNames DEF EcAct, EcTypes, EcJobTypes
<1> QED
  BY <1>5, <1>7

LEMMA EcDeletingStep ==
  ASSUME EcDeploymentsInv, EcTasksInv, EcDeleting, [EcNext]_ecVars
  PROVE  EcDeleting'
<1> SUFFICES ASSUME ecService'.status = "INACTIVE", ecReset' = "no", ~ecLate', NEW t \in EcTasks, EcActive(t)'
             PROVE  ecJob'[<<0, "call">>].pc = "act" /\ t \in ecJob'[<<0, "call">>].stop
  BY DEF EcDeleting
<1>0. EcTypes /\ EcServiceTypes /\ EcStepOfTasks
  BY EcTasksStep DEF EcTasksInv, EcDeploymentsInv
<1>1. ASSUME EcBystander(t)
      PROVE  ecJob'[<<0, "call">>].pc = "act" /\ t \in ecJob'[<<0, "call">>].stop
  <2>1. EcActive(t)
    BY <1>0, <1>1, EcNoneAwakes DEF EcBystander
  <2>2. ecJob[<<0, "call">>].pc = "act" /\ t \in ecJob[<<0, "call">>].stop
    BY <1>1, <2>1 DEF EcBystander, EcDeleting
  <2> QED
    BY <1>1, <2>2 DEF EcBystander
<1>2. CASE \E u \in EcTasks : EcThread(u) \/ EcTaskStep(u) \/ EcRunFails(u) \/ EcStopTask(u)
  BY <1>0, <1>1, <1>2, EcThreadsBystand
<1>3. CASE \/ \E j \in EcJobs : EcWake(j) \/ EcLook(j) \/ EcComplete(j)
           \/ \E b \in EcTasks \X EcIds : EcExit(b)
           \/ UNCHANGED ecVars
  BY <1>0, <1>1, <1>3, EcLooksBystand
<1>4. CASE \E j \in EcJobs : EcAct(j)
  BY <1>0, <1>4, EcActDeletes
<1>5. CASE EcDelete
  <2>1. /\ ecJob' = [ecJob EXCEPT ![<<0, "call">>] = [EcNoJob EXCEPT !.pc = "act", !.stop = {u \in EcTasks : EcPreStop(u)}]]
        /\ ecTask' = ecTask
    BY <1>5 DEF EcDelete, EcCalls
  <2>2. EcPreStop(t)
    BY <2>1 DEF EcActive, EcPreStop
  <2>3. ecJob'[<<0, "call">>] = [EcNoJob EXCEPT !.pc = "act", !.stop = {u \in EcTasks : EcPreStop(u)}]
    BY <1>0, <2>1, EcJobNames DEF EcTypes, EcJobTypes
  <2> QED
    BY <2>2, <2>3 DEF EcNoJob
<1>6. CASE EcDeploy
  <2>1. /\ ecTask' = ecTask /\ UNCHANGED <<ecReset, ecLate>> /\ EcIdle
        /\ ecService.status = "INACTIVE"
    BY <1>0, <1>6 DEF EcDeploy, EcServiceTypes
  <2>2. EcActive(t)
    BY <2>1 DEF EcActive
  <2> QED
    BY <2>1, <2>2 DEF EcDeleting, EcIdle
<1>7. CASE (\E n \in EcDesired : EcCreate(n) \/ EcScale(n)) \/ EcResetFlags \/ EcResetClears
  <2>1. ASSUME NEW n \in EcDesired, EcCreate(n) PROVE ecService'.status = "ACTIVE"
    BY <2>1 DEF EcCreate
  <2>2. ASSUME NEW n \in EcDesired, EcScale(n) PROVE ecService'.status = "ACTIVE"
    BY <1>0, <2>2 DEF EcScale, EcIsActive, EcServiceTypes
  <2>3. CASE EcResetFlags
    BY <2>3 DEF EcResetFlags
  <2>4. ASSUME EcResetClears PROVE ecService'.status = "none"
    BY <2>4 DEF EcResetClears
  <2> QED
    BY <1>7, <2>1, <2>2, <2>3, <2>4
<1>8. CASE EcProgress
  <2>1. CASE \E j \in EcJobs : EcWork(j)
    BY <1>3, <1>4, <2>1 DEF EcWork
  <2> QED
    BY <1>2, <1>7, <1>8, <2>1 DEF EcProgress
<1>9. CASE \E u \in EcTasks : EcRunFails(u) \/ EcStopTask(u)
  BY <1>2, <1>9
<1>10. CASE \E b \in EcTasks \X EcIds : EcExit(b)
  BY <1>3, <1>10
<1>11. CASE UNCHANGED ecVars
  BY <1>3, <1>11
<1> QED
  BY <1>5, <1>6, <1>7, <1>8, <1>9, <1>10, <1>11 DEF EcNext

-----------------------------------------------------------------------------
(* EcOldTasksStay: where the primary deployment has failed for good, none   *)
(* that completed is on the list.                                           *)
EcFailedForGood == \A p, d \in EcDeployments :
  EcRollback /\ ecService.deps[p].status = "PRIMARY" /\ ecService.deps[p].rollout = "FAILED"
    => d = p \/ ecService.deps[d].status = "gone" \/ ecService.deps[d].rollout # "COMPLETED"

LEMMA EcFailedForGoodInit == EcInit => EcFailedForGood
BY DEF EcInit, EcFailedForGood, EcNoDeployment

(* A tripped breaker hands over, or finds nothing completed.                *)
LEMMA EcTripsForGood ==
  ASSUME EcDeploymentsInv, EcFailedForGood, NEW t \in EcTasks, EcRecordFailure(t)
  PROVE  EcFailedForGood'
<1> DEFINE d == ecTask[t].dep
           counted == EcIsActive /\ d = EcPrimary /\ d > 0 /\ EcRollout = "IN_PROGRESS"
           trips == counted /\ EcDeps[d].failed + 1 >= EcThreshold
           deps == IF trips THEN EcRolledBack(d) ELSE EcDeps
           new == [deps EXCEPT ![d].failed = EcDeps[d].failed + 1,
                               ![d].rollout = IF trips THEN "FAILED" ELSE @]
<1>1. ecService' = IF ~counted THEN ecService ELSE [ecService EXCEPT !.deps = new]
  BY DEF EcRecordFailure, EcDeps
<1>2. CASE ~counted BY <1>1, <1>2 DEF EcFailedForGood
<1>3. CASE counted
  <2>1. /\ EcFits(EcDeps) /\ EcLeads(EcDeps, d) /\ d \in EcDeployments /\ EcDeps[d].rollout = "IN_PROGRESS"
        /\ \A e \in EcDeployments : EcDeps[e] \in EcDeploymentRecord
    BY <1>3, EcDeploymentsAre DEF EcIsActive, EcRollout, EcDeps, EcLeads
  <2>2. ecService'.deps = new BY <1>1, <1>3 DEF EcDeploymentsInv, EcServiceTypes
  <2>3. CASE deps = EcDeps
    <3>1. \A e \in EcDeployments : e # d => new[e] = EcDeps[e] BY <2>1, <2>3 DEF EcFits
    <3>2. new[d].rollout = IF trips THEN "FAILED" ELSE "IN_PROGRESS"
      <4> DEFINE tripped == trips
      <4>1. new = [EcDeps EXCEPT ![d] = [EcDeps[d] EXCEPT !.failed = EcDeps[d].failed + 1,
                                                         !.rollout = IF tripped THEN "FAILED" ELSE @]]
        BY <2>1, <2>3 DEF EcFits, EcDeploymentRecord
      <4> HIDE DEF tripped, new
      <4>2. new[d].rollout = IF tripped THEN "FAILED" ELSE "IN_PROGRESS"
        BY <2>1, <4>1 DEF EcFits, EcDeploymentRecord
      <4> QED BY <4>2 DEF tripped
    <3>3. trips /\ EcRollback => \A e \in EcDeployments :
            e = d \/ EcDeps[e].status = "gone" \/ EcDeps[e].rollout # "COMPLETED"
      <4> SUFFICES ASSUME trips, EcRollback PROVE EcCandidates(d) = {}
        BY DEF EcCandidates, EcListed, EcDeps
      <4> SUFFICES ASSUME EcCandidates(d) # {} PROVE FALSE OBVIOUS
      <4> DEFINE c == Max(EcCandidates(d))
      <4>1. deps = [EcDeps EXCEPT ![d].status = "ACTIVE", ![c].status = "PRIMARY", ![c].rollout = "IN_PROGRESS"]
        BY DEF EcRolledBack, EcDeps
      <4>2. c \in EcDeployments /\ c # d BY <2>1, EcCandidateIs DEF EcCandidates, EcListed
      <4> HIDE DEF c, deps
      <4>3. deps[d].status = "ACTIVE"
        BY <2>1, <4>1, <4>2 DEF EcFits, EcDeploymentRecord
      <4>4. EcDeps[d].status = "PRIMARY" BY <2>1 DEF EcLeads
      <4> QED BY <2>3, <4>3, <4>4
    <3>4. \A e \in EcDeployments : EcDeps[e].status = "PRIMARY" => e = d BY <2>1 DEF EcLeads
    <3>5. \A e \in EcDeployments : new[e].status = EcDeps[e].status
      <4> TAKE e \in EcDeployments
      <4>1. CASE e # d BY <3>1, <4>1
      <4>2. CASE e = d BY <2>1, <2>3, <4>2 DEF EcFits, EcDeploymentRecord
      <4> QED BY <4>1, <4>2
    <3> HIDE DEF new, deps, trips, counted
    <3> QED BY <2>2, <3>1, <3>2, <3>3, <3>4, <3>5 DEF EcFailedForGood
  <2>4. CASE deps # EcDeps
    <3> DEFINE c == Max(EcCandidates(d))
    <3>1. EcCandidates(d) # {} /\ trips
          /\ deps = [EcDeps EXCEPT ![d].status = "ACTIVE", ![c].status = "PRIMARY", ![c].rollout = "IN_PROGRESS"]
      BY <2>4 DEF EcRolledBack, EcDeps
    <3>2. c \in EcDeployments /\ c # d BY <2>1, <3>1, EcCandidateIs DEF EcCandidates, EcListed
    <3> DEFINE n == EcDeps[d].failed + 1
    <3>3. new = [deps EXCEPT ![d].failed = n, ![d].rollout = "FAILED"] BY <3>1
    <3> HIDE DEF c, deps, trips, counted, new, n
    <3>4. new[d].status = "ACTIVE" /\ new[c].rollout = "IN_PROGRESS"
      BY <2>1, <3>1, <3>2, <3>3 DEF EcFits, EcDeploymentRecord
    <3>5. \A e \in EcDeployments : e # d /\ e # c => new[e].status # "PRIMARY"
      BY <2>1, <3>1, <3>2, <3>3 DEF EcFits, EcDeploymentRecord, EcLeads
    <3> QED BY <2>2, <3>4, <3>5 DEF EcFailedForGood
  <2> QED BY <2>3, <2>4
<1> QED BY <1>2, <1>3

LEMMA EcFailedForGoodStep ==
  ASSUME EcDeploymentsInv, EcFailedForGood, [EcNext]_ecVars
  PROVE  EcFailedForGood'
<1>a. ASSUME \A d \in EcDeployments : ecService'.deps[d] = EcDeps[d] \/ ecService'.deps[d] = EcNoDeployment
      PROVE  EcFailedForGood'
  BY <1>a DEF EcFailedForGood, EcDeps, EcNoDeployment
<1>b. ASSUME \/ UNCHANGED ecService
             \/ \E tasks : ecService' = EcPruned(ecService, tasks)
             \/ \E n, s : ecService' = [ecService EXCEPT !.status = s, !.desired = n]
             \/ \E n : ecService' = [ecService EXCEPT !.desired = n]
      PROVE  EcFailedForGood'
  <2>1. \A d \in EcDeployments : ecService'.deps[d] = EcDeps[d] \/ ecService'.deps[d] = EcNoDeployment
    <3>1. /\ ecService \in [status : {"none", "ACTIVE", "INACTIVE"}, desired : EcDesired \cup {0},
                            deps : [EcDeployments -> EcDeploymentRecord]]
          /\ EcDeps = ecService.deps
      BY DEF EcDeploymentsInv, EcServiceTypes, EcDeps
    <3>2. CASE UNCHANGED ecService BY <3>1, <3>2
    <3>3. CASE \E tasks : ecService' = EcPruned(ecService, tasks)
      <4>1. PICK tasks : ecService' = EcPruned(ecService, tasks) BY <3>3
      <4> QED BY <3>1, <4>1 DEF EcPruned
    <3>4. CASE \E n, s : ecService' = [ecService EXCEPT !.status = s, !.desired = n]
      <4>1. PICK n, s : ecService' = [ecService EXCEPT !.status = s, !.desired = n] BY <3>4
      <4> QED BY <3>1, <4>1
    <3>5. CASE \E n : ecService' = [ecService EXCEPT !.desired = n]
      <4>1. PICK n : ecService' = [ecService EXCEPT !.desired = n] BY <3>5
      <4> QED BY <3>1, <4>1
    <3> QED BY <1>b, <3>2, <3>3, <3>4, <3>5
  <2> QED BY <1>a, <2>1
<1>c. ASSUME \A p \in EcDeployments : ecService'.deps[p].status = "PRIMARY" => ecService'.deps[p].rollout # "FAILED"
      PROVE  EcFailedForGood'
  BY <1>c DEF EcFailedForGood
<1>1. CASE \E t \in EcTasks : EcThread(t)
  <2>1. \/ UNCHANGED ecService
        \/ ecService' = EcPruned(ecService, ecTask')
    BY <1>1 DEF EcThread, EcRun, EcAttach, EcAttached
  <2> QED BY <1>b, <2>1
<1>2. ASSUME NEW t \in EcTasks, EcTaskStep(t) \/ EcRunFails(t) \/ EcStopTask(t) PROVE EcFailedForGood'
  <2>1. CASE EcRecordFailure(t) BY <2>1, EcTripsForGood
  <2>2. CASE EcFinish(t) \/ EcCleanup(t) \/ EcRunFails(t)
    BY <1>b, <2>2 DEF EcFinish, EcSettle, EcCleanup, EcRunFails
  <2>3. CASE EcNotice(t) \/ EcStopTask(t) BY <1>b, <2>3 DEF EcNotice, EcStopTask
  <2> QED BY <1>2, <2>1, <2>2, <2>3 DEF EcTaskStep
<1>3. ASSUME NEW j \in EcJobs, EcWork(j) PROVE EcFailedForGood'
  <2>1. CASE UNCHANGED ecService BY <1>b, <2>1
  <2>2. CASE EcAct(j)
    <3>1. PICK tasks : ecService' = EcPruned(ecService, tasks) BY <2>2 DEF EcAct
    <3> QED BY <1>b, <3>1
  <2>3. CASE ecService' # ecService /\ (EcWake(j) \/ EcComplete(j))
    <3>1. EcIsActive /\ EcRollout = "IN_PROGRESS" BY <2>3 DEF EcWake, EcComplete
    <3>2. \/ ecService' = [ecService EXCEPT !.deps[EcPrimary].failed = 0]
          \/ ecService' = [ecService EXCEPT !.deps[EcPrimary].rollout = "COMPLETED"]
      BY <2>3 DEF EcWake, EcComplete
    <3> DEFINE p == EcPrimary
    <3>3. /\ EcLeads(EcDeps, p) /\ p \in EcDeployments /\ EcDeps[p].rollout = "IN_PROGRESS"
          /\ \A d \in EcDeployments : EcDeps[d] \in EcDeploymentRecord
      BY <3>1, EcDeploymentsAre DEF EcIsActive, EcLeads, EcRollout, EcDeps
    <3>4. /\ \A d \in EcDeployments : d # p => ecService'.deps[d] = EcDeps[d]
          /\ ecService'.deps[p].rollout \in {"IN_PROGRESS", "COMPLETED"}
      <4>1. \/ ecService' = [ecService EXCEPT !.deps[p].failed = 0]
            \/ ecService' = [ecService EXCEPT !.deps[p].rollout = "COMPLETED"]
        BY <3>2
      <4> HIDE DEF p
      <4> QED BY <3>3, <4>1 DEF EcDeps, EcDeploymentsInv, EcServiceTypes, EcDeploymentRecord
    <3> HIDE DEF p
    <3>5. \A d \in EcDeployments : ecService'.deps[d].status = "PRIMARY" => d = p BY <3>3, <3>4 DEF EcLeads
    <3> QED BY <1>c, <3>4, <3>5
  <2> QED BY <1>3, <2>1, <2>2, <2>3 DEF EcWork, EcLook
<1>4. CASE \E n \in EcDesired : EcCreate(n)
  <2>1. PICK n \in EcDesired : EcCreate(n) BY <1>4
  <2>2. \A p \in EcDeployments : ecService'.deps[p].rollout = "COMPLETED"
    BY <2>1 DEF EcCreate, EcNoDeployment
  <2> QED BY <1>c, <2>2
<1>5. CASE EcDeploy
  <2> DEFINE d == EcNewDeployment
             next == [status |-> "PRIMARY", rollout |-> "IN_PROGRESS", failed |-> 0]
  <2>1. /\ EcFits(EcDeps) /\ d \in EcDeployments /\ \A e \in EcDeployments : EcDeps[e] \in EcDeploymentRecord
    BY <1>5, EcDeploymentsAre DEF EcDeploy
  <2>2. DOMAIN EcDemoted = EcDeployments /\ \A e \in EcDeployments : EcDemoted[e].status # "PRIMARY"
    BY <2>1 DEF EcDemoted, EcDeps, EcDeploymentRecord
  <2>3. ecService'.deps = [EcDemoted EXCEPT ![d] = next]
    BY <1>5 DEF EcDeploy, EcDeploymentsInv, EcServiceTypes
  <2>4. next.rollout = "IN_PROGRESS" OBVIOUS
  <2> HIDE DEF d, next
  <2> QED BY <1>c, <2>1, <2>2, <2>3, <2>4
<1>6. CASE EcDelete \/ \E n \in EcDesired : EcScale(n) BY <1>b, <1>6 DEF EcDelete, EcScale
<1>7. CASE EcResetClears
  <2>1. \A d \in EcDeployments : ecService'.deps[d] = EcNoDeployment BY <1>7 DEF EcResetClears
  <2> QED BY <1>a, <2>1
<1>8. CASE EcResetFlags \/ UNCHANGED ecVars \/ \E b \in EcTasks \X EcIds : EcExit(b)
  BY <1>b, <1>8 DEF EcResetFlags, EcExit, ecVars
<1> QED BY <1>1, <1>2, <1>3, <1>4, <1>5, <1>6, <1>7, <1>8 DEF EcNext, EcProgress

(* Tasks are picked for stopping by a look, by a completion, by a deletion. *)
LEMMA EcPicks ==
  ASSUME EcTypes, EcNext, NEW j \in EcJobs, ~EcLook(j), ~EcComplete(j), ~(j[2] = "call" /\ EcDelete)
  PROVE  ecJob'[j].stop \subseteq ecJob[j].stop
<1>0. ecJob \in [EcJobs -> EcJobRecord] BY DEF EcTypes, EcJobTypes
<1>e. EcNoJob.stop = {} BY DEF EcNoJob
<1>a. ASSUME NEW i \in EcJobs, NEW job, job.stop \subseteq ecJob[i].stop, ecJob' = [ecJob EXCEPT ![i] = job]
      PROVE  ecJob'[j].stop \subseteq ecJob[j].stop
  BY <1>0, <1>a
<1>c. ASSUME NEW pc, EcCalls(pc, {}) PROVE ecJob'[j].stop \subseteq ecJob[j].stop
  <2> DEFINE job == [EcNoJob EXCEPT !.pc = pc, !.stop = {}]
  <2>1. job.stop = {} BY DEF EcNoJob
  <2>2. ecJob' = [ecJob EXCEPT ![<<0, "call">>] = job] BY <1>c DEF EcCalls
  <2>3. <<0, "call">> \in EcJobs BY DEF EcJobs
  <2> HIDE DEF job
  <2> QED BY <1>a, <2>1, <2>2, <2>3
<1>o. ASSUME NEW i \in EcJobs PROVE EcOver(i).stop = {}
  BY <1>0, <1>e DEF EcOver, EcJobRecord
<1>1. CASE \E t \in EcTasks : EcThread(t) \/ EcCleanup(t) \/ EcRunFails(t) \/ EcStopTask(t)
  <2>1. PICK t \in EcTasks : EcThread(t) \/ EcCleanup(t) \/ EcRunFails(t) \/ EcStopTask(t) BY <1>1
  <2>2. CASE UNCHANGED ecJob BY <2>2
  <2>3. CASE EcRunFails(t)
    <3>1. ecJob' = [ecJob EXCEPT ![<<t, "end">>].pc = "record"] BY <2>3 DEF EcRunFails
    <3> QED BY <1>0, <3>1 DEF EcJobRecord
  <2>4. CASE EcThread(t) /\ ecJob' # ecJob
    <3> DEFINE job == [EcNoJob EXCEPT !.pc = "sleep", !.dep = ecTask[t].dep]
    <3>1. ecJob' = [ecJob EXCEPT ![<<t, "check">>] = job]
      BY <2>4 DEF EcThread, EcRun, EcAttach, EcAttached
    <3>2. job.stop = {} BY DEF EcNoJob
    <3>3. <<t, "check">> \in EcJobs BY DEF EcJobs
    <3> HIDE DEF job
    <3> QED BY <1>a, <3>1, <3>2, <3>3
  <2> QED BY <2>1, <2>2, <2>3, <2>4 DEF EcCleanup, EcStopTask
<1>2. CASE \E t \in EcTasks : EcRecordFailure(t)
  <2>1. PICK t \in EcTasks : EcRecordFailure(t) BY <1>2
  <2>2. PICK pc, back : ecJob' = [ecJob EXCEPT ![<<t, "end">>].pc = pc, ![<<t, "end">>].back = back]
    BY <2>1 DEF EcRecordFailure
  <2> QED BY <1>0, <2>2 DEF EcJobRecord
<1>3. CASE \E t \in EcTasks : EcFinish(t)
  <2>1. PICK t \in EcTasks : EcFinish(t) BY <1>3
  <2>2. \/ ecJob'[j] = EcNoJob \/ ecJob'[j] = [EcNoJob EXCEPT !.pc = "sleep", !.dep = EcPrimary]
        \/ ecJob'[j] = ecJob[j]
    BY <2>1 DEF EcFinish
  <2>3. [EcNoJob EXCEPT !.pc = "sleep", !.dep = EcPrimary].stop = {} BY DEF EcNoJob
  <2> QED BY <1>e, <2>2, <2>3
<1>4. CASE \E t \in EcTasks : EcNotice(t)
  <2>1. PICK t \in EcTasks : EcNotice(t) BY <1>4
  <2> DEFINE job == [EcNoJob EXCEPT !.pc = "record", !.watched = TRUE]
  <2>2. job.stop = {} BY DEF EcNoJob
  <2>3. ecJob' = [ecJob EXCEPT ![<<t, "end">>] = job] /\ <<t, "end">> \in EcJobs BY <2>1 DEF EcNotice, EcJobs
  <2> HIDE DEF job
  <2> QED BY <1>a, <2>2, <2>3
<1>5. CASE \E i \in EcJobs : EcWork(i)
  <2>1. PICK i \in EcJobs : EcWork(i) BY <1>5
  <2>2. CASE i # j BY <1>0, <2>1, <2>2 DEF EcWork, EcWake, EcLook, EcAct, EcComplete
  <2>3. CASE i = j /\ EcWake(i)
    <3>1. PICK job : ecJob' = [ecJob EXCEPT ![i] = job] /\ job \in {[ecJob[i] EXCEPT !.pc = "look"], EcNoJob}
      BY <2>3 DEF EcWake
    <3>2. job.stop \subseteq ecJob[i].stop BY <1>0, <1>e, <3>1 DEF EcJobRecord
    <3> QED BY <1>a, <3>1, <3>2
  <2>4. CASE i = j /\ EcAct(i)
    <3>1. PICK job : /\ ecJob' = [ecJob EXCEPT ![i] = job]
                     /\ job \in {[ecJob[i] EXCEPT !.pc = "complete", !.stop = {}, !.run = 0, !.to = 0], EcOver(i)}
      BY <2>4 DEF EcAct
    <3>2. job.stop = {} BY <1>0, <1>o, <3>1 DEF EcJobRecord
    <3> QED BY <1>a, <3>1, <3>2
  <2> QED BY <2>1, <2>2, <2>3, <2>4 DEF EcWork
<1>6. CASE EcDeploy \/ \E n \in EcDesired : EcCreate(n) \/ EcScale(n)
  <2>1. EcCalls("look", {}) BY <1>6 DEF EcDeploy, EcCreate, EcScale
  <2> QED BY <1>c, <2>1
<1>7. CASE EcDelete
  <2>1. j # <<0, "call">> BY <1>7
  <2> QED BY <1>0, <1>7, <2>1 DEF EcDelete, EcCalls
<1>8. CASE EcResetClears \/ EcResetFlags \/ \E b \in EcTasks \X EcIds : EcExit(b)
  BY <1>8 DEF EcResetClears, EcResetFlags, EcExit
<1> QED BY <1>1, <1>2, <1>3, <1>4, <1>5, <1>6, <1>7, <1>8 DEF EcNext, EcProgress, EcTaskStep

LEMMA EcTasksFinite == EcTasks \in SUBSET Int /\ IsFiniteSet(EcTasks)
BY EcNumbers, FS_Interval DEF EcTasks

LEMMA Remaining ==
  ASSUME NEW S, IsFiniteSet(S), NEW T \in SUBSET S
  PROVE  Cardinality(S \ T) = Cardinality(S) - Cardinality(T)
<1>1. S \cap T = T OBVIOUS
<1> QED BY <1>1, FS_Difference

(* Of the first n there are n at most.                                      *)
LEMMA EcFirstBound ==
  ASSUME NEW S \in SUBSET EcTasks, NEW n \in Int
  PROVE  EcFirst(n, S) = {} \/ Cardinality(EcFirst(n, S)) <= n
<1> DEFINE F == EcFirst(n, S)
           m == Max(F)
           Below == {s \in S : s < m}
<1>1. EcTasks \in SUBSET Int /\ IsFiniteSet(EcTasks) BY EcTasksFinite
<1>2. F \subseteq S BY DEF EcFirst
<1>3. IsFiniteSet(S) /\ IsFiniteSet(F) /\ S \in SUBSET Int /\ F \in SUBSET Int BY <1>1, <1>2, FS_Subset
<1> SUFFICES ASSUME F # {} PROVE Cardinality(F) <= n OBVIOUS
<1>4. m \in F /\ \A y \in F : m >= y BY <1>3, GreatestExists
<1>5. Cardinality(Below) < n BY <1>4 DEF EcFirst
<1> HIDE DEF F, m
<1>6. F \ {m} \in SUBSET Below
  <2>1. m \in Int /\ \A y \in F : y \in Int /\ m >= y BY <1>3, <1>4
  <2> QED BY <1>2, <2>1
<1>7. IsFiniteSet(Below)
  <2>1. Below \in SUBSET S OBVIOUS
  <2> QED BY <1>3, <2>1, FS_Subset
<1> HIDE DEF Below
<1>8. Cardinality(F \ {m}) <= Cardinality(Below) BY <1>6, <1>7, FS_Subset
<1>9. Cardinality(F \ {m}) = Cardinality(F) - 1 BY <1>3, <1>4, FS_RemoveElement
<1>10. Cardinality(F) \in Nat /\ Cardinality(Below) \in Nat BY <1>3, <1>7, FS_CardinalityType
<1> QED BY <1>5, <1>8, <1>9, <1>10

LEMMA LeastOfThree ==
  ASSUME NEW x \in Int, NEW y \in Int, NEW z \in Int
  PROVE  Min({x, y, z}) \in Int /\ Min({x, y, z}) <= z
<1> DEFINE Least(v) == \A w \in {x, y, z} : v <= w
<1>1. \E v \in {x, y, z} : Least(v) OBVIOUS
<1>2. Min({x, y, z}) = CHOOSE v \in {x, y, z} : Least(v) BY DEF Min
<1>3. Min({x, y, z}) \in {x, y, z} /\ Least(Min({x, y, z}))
  <2> HIDE DEF Least
  <2> QED BY <1>1, <1>2
<1> QED BY <1>3

LEMMA GreaterOfTwo == ASSUME NEW x \in Int PROVE Max({0, x}) = IF x > 0 THEN x ELSE 0
<1>1. {0, x} \in SUBSET Int /\ IsFiniteSet({0, x}) /\ {0, x} # {}
  <2>1. IsFiniteSet({0}) BY FS_Singleton
  <2>2. IsFiniteSet({0} \cup {x}) BY <2>1, FS_AddElement
  <2>3. {0, x} = {0} \cup {x} OBVIOUS
  <2> QED BY <2>2, <2>3
<1>2. Max({0, x}) \in {0, x} /\ \A y \in {0, x} : Max({0, x}) >= y BY <1>1, GreatestExists
<1> QED BY <1>2

(* A look decides to stop tasks of another deployment while the primary's   *)
(* rollout is in progress only as far as enough others run.                 *)
LEMMA EcLookKeeps ==
  ASSUME EcDeploymentsInv, EcFailedForGood, EcTypes, NEW j \in EcJobs, EcLook(j), ecService.desired > 0,
         NEW stopping, stopping = {t \in EcRunning : t \in ecJob'[j].stop \ ecJob[j].stop},
         NEW t \in stopping, ecTask[t].dep # EcPrimary
  PROVE  EcRollout = "COMPLETED" \/ EcNoWayBack \/ Cardinality(EcRunning \ stopping) >= ecService.desired
<1> DEFINE desired == ecService.desired
           excess == Cardinality(EcRunning) - desired
<1>0. ecJob \in [EcJobs -> EcJobRecord] /\ desired \in Nat
  <2>1. desired \in EcDesired \cup {0} BY DEF EcDeploymentsInv, EcServiceTypes
  <2>2. EcDesired \subseteq Nat BY EcAssumption
  <2>3. desired \in Nat
    <3> HIDE DEF desired
    <3>1. 0 \in Nat OBVIOUS
    <3> QED BY <2>1, <2>2, <3>1, Zenon
  <2>4. ecJob \in [EcJobs -> EcJobRecord] BY DEF EcTypes, EcJobTypes
  <2> QED BY <2>3, <2>4
<1>1. t \in EcRunning /\ t \in ecJob'[j].stop OBVIOUS
<1>2. EcIsActive /\ ecJob'[j].stop = EcReconciliation.stop
  <2>1. CASE EcIsActive
    <3> DEFINE stop == EcReconciliation.stop
               run == EcReconciliation.run
    <3>1. PICK to, completes, dep : ecJob' = [ecJob EXCEPT ![j] =
            [ecJob[j] EXCEPT !.pc = "act", !.to = to, !.stop = stop, !.run = run, !.completes = completes, !.dep = dep]]
      BY <2>1 DEF EcLook
    <3> HIDE DEF stop, run
    <3>2. ecJob'[j].stop = stop BY <1>0, <3>1 DEF EcJobRecord
    <3> QED BY <2>1, <3>2 DEF stop
  <2>2. CASE ~EcIsActive
    <3>1. ecJob'[j] = EcOver(j) BY <1>0, <2>2 DEF EcLook
    <3>2. EcOver(j).stop = {} BY <1>0 DEF EcOver, EcJobRecord, EcNoJob
    <3> QED BY <1>1, <3>1, <3>2
  <2> QED BY <2>1, <2>2
<1>3. EcLeads(EcDeps, EcPrimary) /\ EcRollout = EcDeps[EcPrimary].rollout /\ EcPrimary # 0
  <2>1. EcLeads(EcDeps, EcPrimary) BY <1>2, EcDeploymentsAre DEF EcIsActive
  <2>2. EcPrimary # 0 BY <2>1, EcNumbers DEF EcLeads
  <2> QED BY <2>1, <2>2 DEF EcRollout, EcDeps
<1>4. CASE EcDrains
  <2>1. EcRollout \in {"COMPLETED", "FAILED"}
    <3>1. EcDeps[EcPrimary] \in EcDeploymentRecord BY <1>3, EcDeploymentsAre DEF EcLeads
    <3> QED BY <1>3, <1>4, <3>1 DEF EcDrains, EcDeploymentRecord
  <2>2. EcRollout = "FAILED" => EcNoWayBack
    <3>1. EcPrimary \in EcDeployments /\ EcDeps[EcPrimary].status = "PRIMARY" BY <1>3 DEF EcLeads
    <3> QED BY <1>3, <3>1 DEF EcFailedForGood, EcNoWayBack, EcCandidates, EcListed, EcDeps
  <2> QED BY <2>1, <2>2
<1>5. CASE ~EcDrains
  <2>1. EcDrained = {} BY <1>5 DEF EcDrained
  <2>2. /\ EcRunning \in SUBSET EcTasks /\ EcStale \in SUBSET EcTasks /\ EcCurrent \in SUBSET EcTasks
        /\ IsFiniteSet(EcTasks) /\ IsFiniteSet(EcRunning) /\ IsFiniteSet(EcStale) /\ IsFiniteSet(EcCurrent)
        /\ IsFiniteSet(EcCurrent \cup EcStale)
    <3>1. IsFiniteSet(EcTasks) BY EcTasksFinite
    <3>2. /\ EcRunning \in SUBSET EcTasks /\ EcStale \in SUBSET EcTasks /\ EcCurrent \in SUBSET EcTasks
          /\ EcCurrent \cup EcStale \in SUBSET EcTasks
      BY DEF EcRunning, EcStale, EcCurrent
    <3> QED BY <3>1, <3>2, FS_Subset
  <2>3. t \notin EcCurrent BY DEF EcCurrent
  <2>4. ecJob'[j].stop = EcFirst(EcRoom, EcStale)
    <3>1. ecJob'[j].stop \in {EcDrained \cup EcFirst(EcRoom, EcStale), EcDrained \cup EcNewest(-EcMissing, EcCurrent)}
      BY <1>2 DEF EcReconciliation
    <3>2. EcNewest(-EcMissing, EcCurrent) \subseteq EcCurrent BY DEF EcNewest
    <3> QED BY <1>1, <2>1, <2>3, <3>1, <3>2
  <2>5. Cardinality(EcRunning) \in Nat /\ Cardinality(EcStale) \in Nat /\ Cardinality(EcCurrent) \in Nat
        /\ Cardinality(EcCurrent \cup EcStale) \in Nat
    BY <2>2, FS_CardinalityType
  <2>6. EcRoom \in Int /\ EcRoom <= Max({0, excess}) /\ excess \in Int
    <3> DEFINE capacity == Max({0, EcCapacity})
    <3>1. EcMissing \in Int /\ EcCapacity \in Int /\ excess \in Int
      BY <1>0, <2>5 DEF EcMissing, EcCapacity
    <3>2. capacity \in Int /\ Max({0, excess}) \in Int
      <4> HIDE DEF excess
      <4> QED BY <3>1, GreaterOfTwo
    <3>3. EcRunning \ EcDrained = EcRunning BY <2>1
    <3>4. EcRoom = Min({EcMissing - capacity, Cardinality(EcStale), Max({0, excess})}) BY <3>3 DEF EcRoom
    <3>5. EcMissing - capacity \in Int /\ Cardinality(EcStale) \in Int BY <2>5, <3>1, <3>2
    <3> DEFINE wanted == EcMissing - capacity
               stale == Cardinality(EcStale)
               room == Max({0, excess})
    <3> HIDE DEF excess, wanted, stale, room
    <3>6. Min({wanted, stale, room}) \in Int /\ Min({wanted, stale, room}) <= room
      BY <3>2, <3>5, LeastOfThree DEF wanted, stale, room
    <3> QED BY <3>1, <3>4, <3>6 DEF wanted, stale, room
  <2> DEFINE first == EcFirst(EcRoom, EcStale)
  <2>7. first # {} BY <1>1, <2>4
  <2>8. Cardinality(first) <= EcRoom BY <2>2, <2>6, <2>7, EcFirstBound
  <2>9. first \in SUBSET EcStale BY DEF EcFirst
  <2>10. IsFiniteSet(first) BY <2>2, <2>9, FS_Subset
  <2>11. stopping \in SUBSET first BY <2>4
  <2> HIDE DEF first
  <2>12. Cardinality(first) \in Nat /\ Cardinality(first) # 0 BY <2>7, <2>10, FS_CardinalityType, FS_EmptySet
  <2>13. IsFiniteSet(stopping) /\ Cardinality(stopping) <= Cardinality(first) BY <2>10, <2>11, FS_Subset
  <2>14. stopping \in SUBSET EcRunning OBVIOUS
  <2>15. Cardinality(EcRunning \ stopping) = Cardinality(EcRunning) - Cardinality(stopping)
    BY <2>2, <2>14, Remaining
  <2>16. Max({0, excess}) = IF excess > 0 THEN excess ELSE 0
    <3> HIDE DEF excess
    <3> QED BY <2>6, GreaterOfTwo
  <2>17. Cardinality(stopping) \in Nat BY <2>13, FS_CardinalityType
  <2> QED BY <1>0, <2>5, <2>6, <2>8, <2>12, <2>13, <2>15, <2>16, <2>17
<1> QED BY <1>4, <1>5

LEMMA EcOldTasksStayStep ==
  ASSUME EcDeploymentsInv, EcFailedForGood, EcTypes, EcNext, NEW j \in EcJobs,
         NEW stopping, stopping = {t \in EcRunning : t \in ecJob'[j].stop \ ecJob[j].stop},
         j[2] # "call" \/ ecService'.status = "ACTIVE", ecService.desired > 0,
         NEW t \in stopping, ecTask[t].dep # EcPrimary
  PROVE  EcRollout' = "COMPLETED" \/ EcNoWayBack' \/ Cardinality(EcRunning \ stopping) >= ecService.desired
<1>1. CASE EcLook(j)
  <2>1. EcRollout = "COMPLETED" \/ EcNoWayBack \/ Cardinality(EcRunning \ stopping) >= ecService.desired
    BY <1>1, EcLookKeeps
  <2>2. UNCHANGED ecService BY <1>1 DEF EcLook
  <2>3. EcRollout' = EcRollout /\ EcNoWayBack' = EcNoWayBack
    BY <2>2 DEF EcRollout, EcNoWayBack, EcCandidates, EcPrimary, EcListed
  <2> QED BY <2>1, <2>3
<1>2. CASE EcComplete(j)
  <2>1. ecJob \in [EcJobs -> EcJobRecord] BY DEF EcTypes, EcJobTypes
  <2>2. CASE UNCHANGED ecService
    <3> DEFINE p == EcPrimary
    <3>1. ecJob' = [ecJob EXCEPT ![j] = EcOver(j)] \/ (EcIsActive /\ EcRollout = "IN_PROGRESS"
            /\ ecService' = [ecService EXCEPT !.deps[p].rollout = "COMPLETED"])
      BY <1>2 DEF EcComplete
    <3>2. EcOver(j).stop = {} BY <2>1 DEF EcOver, EcJobRecord, EcNoJob
    <3>3. CASE ecJob' = [ecJob EXCEPT ![j] = EcOver(j)] BY <2>1, <3>2, <3>3
    <3>4. CASE EcIsActive /\ EcRollout = "IN_PROGRESS" /\ ecService' = [ecService EXCEPT !.deps[p].rollout = "COMPLETED"]
      <4>1. p \in EcDeployments /\ EcDeps[p].rollout = "IN_PROGRESS"
        BY <3>4, EcDeploymentsAre DEF EcIsActive, EcLeads, EcRollout, EcDeps
      <4> HIDE DEF p
      <4>2. ecService'.deps[p].rollout = "COMPLETED"
        BY <3>4, <4>1 DEF EcDeploymentsInv, EcServiceTypes, EcDeploymentRecord
      <4> QED BY <2>2, <4>1, <4>2 DEF EcDeps
    <3> QED BY <3>1, <3>3, <3>4
  <2>3. CASE ecService' # ecService
    <3> DEFINE p == EcPrimary
    <3>1. /\ EcIsActive /\ EcRollout = "IN_PROGRESS"
          /\ ecService' = [ecService EXCEPT !.deps[p].rollout = "COMPLETED"]
      BY <1>2, <2>3 DEF EcComplete
    <3>2. /\ EcLeads(EcDeps, p) /\ p \in EcDeployments /\ ecService.status = "ACTIVE"
      BY <3>1, EcDeploymentsAre DEF EcIsActive, EcLeads
    <3> HIDE DEF p
    <3>3. /\ ecService'.deps[p].rollout = "COMPLETED" /\ ecService'.deps[p].status = "PRIMARY"
          /\ \A d \in EcDeployments : d # p => ecService'.deps[d] = EcDeps[d]
      BY <3>1, <3>2 DEF EcDeploymentsInv, EcServiceTypes, EcDeploymentRecord, EcLeads, EcDeps
    <3>4. {d \in EcListed' : ecService'.deps[d].status = "PRIMARY"} = {p}
      BY <3>2, <3>3 DEF EcListed, EcLeads
    <3>5. Max({p}) = p
      <4>1. p \in Int BY <3>2 DEF EcDeployments
      <4>2. {p} \in SUBSET Int /\ IsFiniteSet({p}) BY <4>1, FS_Singleton
      <4> QED BY <4>2, GreatestExists
    <3>6. EcPrimary' = p BY <3>2, <3>3, <3>4, <3>5 DEF EcPrimary, EcListed
    <3>7. p # 0 BY <3>2, EcNumbers
    <3> QED BY <3>3, <3>6, <3>7 DEF EcRollout
  <2> QED BY <2>2, <2>3
<1>3. CASE ~EcLook(j) /\ ~EcComplete(j)
  <2>1. ~(j[2] = "call" /\ EcDelete)
    <3> SUFFICES ASSUME EcDelete PROVE ecService'.status = "INACTIVE" OBVIOUS
    <3> QED BY DEF EcDelete, EcDeploymentsInv, EcServiceTypes
  <2>2. ecJob'[j].stop \subseteq ecJob[j].stop BY <1>3, <2>1, EcPicks
  <2> QED BY <2>2
<1> QED BY <1>1, <1>2, <1>3

-----------------------------------------------------------------------------
(* All of it.                                                               *)
EcInv == EcDeploymentsInv /\ EcTasksInv /\ EcDeleting /\ EcFailedForGood

LEMMA EcInvInit == EcInit => EcInv
BY EcDeploymentsInit, EcTasksInit, EcDeletingInit, EcFailedForGoodInit DEF EcInv

LEMMA EcInvStep == EcInv /\ [EcNext]_ecVars => EcInv'
BY EcDeploymentsStep, EcTasksInvStep, EcDeletingStep, EcFailedForGoodStep DEF EcInv
=============================================================================
