------------------------------- MODULE EsmSqs -------------------------------
(***************************************************************************)
(* A Lambda event source mapping on the source queue of SqsQueue: the      *)
(* poller thread of lambda_svc.py, the background threads that run the     *)
(* batches, and the clients of the queue next to them.                     *)
(*                                                                         *)
(* A dispatched batch is a consumer of the queue (a member of Slots): it   *)
(* holds the message dictionaries themselves, not copies, so what it reads *)
(* from them after the handler has run is whatever the queue wrote there   *)
(* meanwhile.  Receives and deletes of the mapping hold _queues_lock and   *)
(* are atomic here.                                                        *)
(***************************************************************************)
EXTENDS SqsQueue

CONSTANTS
  Slots,          \* the consumers that are batches of the mapping
  Concurrency,    \* _sqs_esm_concurrency of a standard queue
  Matching,       \* ids of the messages that pass the FilterCriteria
  BackoffSeconds, \* _ESM_BACKOFF_SECONDS
  PartialFailures,\* does the mapping have ReportBatchItemFailures?
  SpawnFails      \* may the OS refuse a new thread?

ASSUME EsmAssumption ==
  /\ Slots \subseteq Consumers /\ IsFiniteSet(Slots)
  /\ Concurrency \in Nat /\ BackoffSeconds \in Nat \ {0}
  /\ Matching \subseteq Ids
  /\ PartialFailures \in BOOLEAN /\ SpawnFails \in BOOLEAN

VARIABLES
  esm,       \* the mapping: "Enabled", "Disabled" or "Deleted"
  batch,     \* per slot, what its batch is doing and the messages it took
  inflight,  \* _esm_inflight[esm_id], 0 if absent
  backoff,   \* _esm_backoff_until[esm_id]: time left, 0 if absent
  handled    \* history: ids a handler run has reported as processed

esmVars == <<esm, batch, inflight, backoff, handled>>
allVars == <<vars, esmVars>>

Clients == Consumers \ Slots
NoBatch == [pc |-> "free", obj |-> <<"src", 1>>, got |-> {}]

(* The poller is one thread.                                                *)
PollerIdle == \A b \in Slots : batch[b].pc \notin {"receiving", "polled"}
Running == {b \in Slots : batch[b].pc = "running"}

(* Faulty: a FIFO queue is no exception.                                    *)
LimitIgnoresFifo == Concurrency

Limit == IF IsFifo THEN 1 ELSE Concurrency

EsmInit ==
  /\ Init
  /\ esm = "Enabled"
  /\ batch = [b \in Slots |-> NoBatch]
  /\ inflight = 0
  /\ backoff = 0
  /\ handled = {}

-----------------------------------------------------------------------------
(* The poller.                                                              *)

(* Up to the lock: enabled, the queue there, no cooldown, below the limit.  *)
EsmPoll(b, n, v) ==
  /\ esm = "Enabled" /\ PollerIdle /\ batch[b].pc = "free"
  /\ backoff = 0
  /\ inflight < Limit
  /\ ReceiveMessage(b, "src", n, v, 0)
  /\ batch' = [batch EXCEPT ![b].pc = "receiving", ![b].obj = Object("src")]
  /\ UNCHANGED <<esm, inflight, backoff, handled>>

EsmCollect(b) ==
  LET got == First(Deliverable(batch[b].obj), call[b].max) IN
  /\ batch[b].pc = "receiving"
  /\ Collect(b)
  /\ batch' = [batch EXCEPT ![b] =
       IF got = {} THEN NoBatch ELSE [@ EXCEPT !.pc = "polled", !.got = got]]
  /\ UNCHANGED <<esm, inflight, backoff, handled>>

Matched(b) == IdsOf(batch[b].got) \cap Matching

(* No record matches: list.remove for one message after the other.  It      *)
(* raises at the first that is gone; those behind it stay.                  *)
Removed(b) ==
  LET here == IdsOf(msgs[batch[b].obj]) IN
  {m.id : m \in {x \in batch[b].got :
                   \A y \in batch[b].got : y.pos <= x.pos => y.id \in here}}

EsmDrop(b) ==
  LET o == batch[b].obj IN
  /\ LoopFree /\ batch[b].pc = "polled" /\ Matched(b) = {}
  /\ msgs' = [msgs EXCEPT ![o] = {m \in @ : m.id \notin Removed(b)}]
  /\ fate' = Mark(Removed(b), "deleted")
  /\ lease' = [lease EXCEPT ![b] = [i \in Ids |-> IF i \in Removed(b) THEN 0 ELSE @[i]]]
  /\ batch' = [batch EXCEPT ![b] = NoBatch]
  /\ UNCHANGED <<live, made, attr, tail, dedup, call, since, esm, inflight, backoff, handled>>

(* _dispatch_esm_batch counts first, then starts the thread.                *)
EsmDispatch(b) ==
  /\ LoopFree /\ batch[b].pc = "polled" /\ Matched(b) # {}
  /\ inflight' = inflight + 1
  /\ batch' = [batch EXCEPT ![b].pc = "running"]
  /\ UNCHANGED <<vars, esm, backoff, handled>>

(* The thread does not start: the poll pass ends with the error logged.     *)
EsmDispatchFails(b) ==
  /\ SpawnFails /\ LoopFree /\ batch[b].pc = "polled" /\ Matched(b) # {}
  /\ inflight' = inflight + 1
  /\ batch' = [batch EXCEPT ![b] = NoBatch]
  /\ UNCHANGED <<vars, esm, backoff, handled>>

-----------------------------------------------------------------------------
(* The batch: _run_sqs_batch after the handler returned.                    *)

(* Faulty: the batch is not counted out.                                    *)
ReleaseKeepsCount(b) ==
  /\ batch' = [batch EXCEPT ![b] = NoBatch]
  /\ UNCHANGED inflight

Release(b) ==
  /\ batch' = [batch EXCEPT ![b] = NoBatch]
  /\ inflight' = Minus1(inflight)

(* Faulty: a failed batch is not counted out.                               *)
EsmFailKeepsCount(b) ==
  /\ LoopFree /\ b \in Running
  /\ backoff' = BackoffSeconds
  /\ batch' = [batch EXCEPT ![b] = NoBatch]
  /\ UNCHANGED <<vars, esm, inflight, handled>>

EsmFail(b) ==
  /\ LoopFree /\ b \in Running
  /\ backoff' = BackoffSeconds
  /\ Release(b)
  /\ UNCHANGED <<vars, esm, handled>>

(* Faulty: the handles of the whole batch are deleted.                      *)
SettledAll(b, failed) ==
  IF ~Exists("src") THEN {} ELSE
  {m \in msgs[Object("src")] : m.id \in IdsOf(batch[b].got) /\ m.handle # NoHandle}

(* What the delete takes: the messages of the batch still in the queue of   *)
(* that URL, by the handle each of them has now.                            *)
Settled(b, failed) ==
  IF ~Exists("src") THEN {} ELSE
  {m \in msgs[Object("src")] : /\ m.id \in IdsOf(batch[b].got) \ failed
                               /\ m.handle # NoHandle}

EsmSucceed(b, failed) ==
  LET gone == IdsOf(Settled(b, failed)) IN
  /\ LoopFree /\ b \in Running
  /\ failed \subseteq Matched(b) /\ (failed # {} => PartialFailures)
  /\ backoff' = 0
  /\ handled' = handled \cup (Matched(b) \ failed)
  /\ msgs' = IF Exists("src")
             THEN [msgs EXCEPT ![Object("src")] = {m \in @ : m.id \notin gone}] ELSE msgs
  /\ fate' = Mark(gone, "deleted")
  /\ lease' = [lease EXCEPT ![b] = [i \in Ids |-> IF i \in gone THEN 0 ELSE @[i]]]
  /\ Release(b)
  /\ UNCHANGED <<live, made, attr, tail, dedup, call, since, esm>>

-----------------------------------------------------------------------------
(* The mapping's own life: UpdateEventSourceMapping and its delete, which   *)
(* drops the bookkeeping.                                                   *)

UpdateEsm(s) ==
  /\ LoopFree /\ esm # "Deleted" /\ esm # s
  /\ esm' = s
  /\ UNCHANGED <<vars, batch, inflight, backoff, handled>>

DeleteEsm ==
  /\ LoopFree /\ esm # "Deleted"
  /\ esm' = "Deleted"
  /\ backoff' = 0
  /\ UNCHANGED <<vars, batch, inflight, handled>>

EsmTick ==
  /\ Tick
  /\ backoff' = Minus1(backoff)
  /\ UNCHANGED <<esm, batch, inflight, handled>>

ClientStep ==
  /\ \/ Send
     \/ \E c \in Clients : Receive(c) \/ Collect(c) \/ Wake(c) \/ Settle(c)
     \/ PurgeQueue("src")
     \/ DeleteQueue("src")
     \/ \E a \in Attributes["src"] : CreateQueue("src", a)
  /\ UNCHANGED esmVars

EsmStep(b) ==
  \/ \E n \in BatchSizes, v \in VisTimeouts : EsmPoll(b, n, v)
  \/ EsmCollect(b)
  \/ EsmDrop(b)
  \/ EsmDispatch(b)
  \/ EsmDispatchFails(b)
  \/ EsmFail(b)
  \/ \E failed \in SUBSET Matched(b) : EsmSucceed(b, failed)

EsmNext ==
  \/ ClientStep
  \/ \E b \in Slots : EsmStep(b)
  \/ \E s \in {"Enabled", "Disabled"} : UpdateEsm(s)
  \/ DeleteEsm
  \/ EsmTick

EsmSpec == EsmInit /\ [][EsmNext]_allVars

(* A mapping whose queue has no other readers and which nobody touches; the *)
(* handler may fail every time.  The poller thread, the batch threads and   *)
(* the clock go on.                                                         *)
UndisturbedNext ==
  \/ Send /\ UNCHANGED esmVars
  \/ \E b \in Slots : EsmStep(b)
  \/ EsmTick

UndisturbedSpec ==
  /\ EsmInit /\ [][UndisturbedNext]_allVars
  /\ SF_allVars(EsmTick)
  /\ SF_allVars(\E b \in Slots, n \in BatchSizes, v \in VisTimeouts : EsmPoll(b, n, v))
  /\ \A b \in Slots :
       /\ WF_allVars(EsmCollect(b))
       /\ SF_allVars(EsmDrop(b) \/ EsmDispatch(b))
       /\ SF_allVars(EsmFail(b) \/ \E failed \in SUBSET Matched(b) : EsmSucceed(b, failed))

-----------------------------------------------------------------------------
(* Properties.                                                              *)

(* The mapping's variables have the shape the code gives them.              *)
EsmTypeOK ==
  /\ TypeOK
  /\ esm \in {"Enabled", "Disabled", "Deleted"}
  /\ batch \in [Slots -> [pc : {"free", "receiving", "polled", "running"},
                          obj : Objects, got : SUBSET Message]]
  /\ inflight \in Nat /\ backoff \in Nat
  /\ handled \subseteq Ids

(* The limit holds whatever order batches end in (1 for a FIFO queue, so    *)
(* that batches of one group never overlap), and the counter the poller     *)
(* reads is the number of batches "dispatched ... not yet finished".        *)
ConcurrencyBound ==
  /\ inflight = Cardinality(Running)
  /\ inflight <= IF IsFifo THEN 1 ELSE Concurrency

(* At least once: the mapping deletes a message that matches its filter     *)
(* only after a handler run reported it as processed; a batch item failure, *)
(* a failed run, a queue purged or re-created meanwhile do not lose one.    *)
DeletedAreHandled ==
  [][batch' # batch =>
       \A i \in Matching : fate[i] = "queued" /\ fate'[i] = "deleted" => i \in handled']_allVars

(* "Messages in the same group are delivered to Lambda in order"            *)
(* (_sqs_esm_concurrency): without partial batch responses, no message is   *)
(* processed while an earlier one of its group that passes the filter waits *)
(* for a retry.                                                             *)
HandledInOrder ==
  [][\A o \in Objects : \A m, x \in msgs[o] :
       /\ m.id \in handled' \ handled
       /\ x.id \in Matching /\ x.group = m.group /\ x.pos < m.pos
       => x.id \in handled']_allVars

(* A message that matches is handled, or given up on in the dead-letter     *)
(* queue; the back-off, the limit and failing handlers do not strand it.    *)
EventuallySettled ==
  \A i \in Matching :
    fate[i] = "queued" ~> i \in handled \/ i \in IdsOf(msgs[Object("dlq")])

=============================================================================
