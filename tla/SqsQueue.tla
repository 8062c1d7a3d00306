------------------------------ MODULE SqsQueue ------------------------------
(***************************************************************************)
(* The SQS emulator (ministack/services/sqs.py): one source queue and its  *)
(* dead-letter queue, standard or FIFO, as the coroutines of the single    *)
(* event loop drive them.                                                  *)
(*                                                                         *)
(* A handler runs from one await to the next without interleaving: every   *)
(* operation is one action, except ReceiveMessage, whose long poll gives   *)
(* the loop up while it sleeps and holds on to the queue object it looked  *)
(* up, and whose helpers read the clock for themselves: it may move        *)
(* between _dlq_sweep and _collect_msgs.                                   *)
(*                                                                         *)
(* Time is relative.  A message keeps the time left until its visible_at   *)
(* (hidden) and the time since it was enqueued (age), a deduplication      *)
(* entry the time left until it expires; Tick moves them all.              *)
(*                                                                         *)
(* A queue's "messages" list is a set ordered by the field pos.  A receipt *)
(* handle is a fresh uuid that only the receiver learns; the model keeps   *)
(* the receiver.  A call that presents any other handle, or an older one,  *)
(* is answered ReceiptHandleIsInvalid and changes nothing.                 *)
(*                                                                         *)
(* The definitions commented "Faulty" are no part of the specification:    *)
(* each is the definition after it with a bug put in, to show that some    *)
(* property notices.                                                       *)
(***************************************************************************)
EXTENDS Naturals, FiniteSets

CONSTANTS
  Ids,            \* message ids, each used for one message
  Groups,         \* MessageGroupIds
  Keys,           \* deduplication cache keys
  Consumers,      \* clients that receive; each has one call at a time
  NoGroup, NoKey, \* what a standard queue's messages carry
  NoHandle,       \* the receipt handle of a message not received yet
  IsFifo,         \* are the two queues FIFO queues?
  Attributes,     \* per queue name, the settings Create/SetQueueAttributes store
  Incarnations,   \* per queue name, how often the queue is created (bound)
  Delays,         \* per-message DelaySeconds of a standard queue
  VisTimeouts,    \* VisibilityTimeouts of receives and ChangeMessageVisibility
  WaitTimes,      \* per queue name, WaitTimeSeconds of receives
  BatchSizes,     \* MaxNumberOfMessages of receives
  DedupWindow,    \* _DEDUP_WINDOW_S
  MaxAge,         \* ages from here on are not told apart (bound)
  MaxReceives,    \* no receive once a message was received this often (bound)
  ExtendExpired,  \* do clients extend a message after its own timeout ran out?
  ClockInHandler, \* does the clock move between a receive's clock reads?
  DirectAppends   \* do other services append to a queue's list themselves?

Names == {"src", "dlq"}

(* The settings of a queue: its DelaySeconds, its MessageRetentionPeriod    *)
(* and the maxReceiveCount of its RedrivePolicy, 0 when it has none.  The   *)
(* policy of the source queue names the dead-letter queue.                  *)
Setting == [delay : Nat, retention : Nat \ {0}, maxrc : Nat]

ASSUME ConstantsAssumption ==
  /\ IsFifo \in BOOLEAN /\ ExtendExpired \in BOOLEAN
  /\ ClockInHandler \in BOOLEAN /\ DirectAppends \in BOOLEAN
  /\ Incarnations \in [Names -> Nat \ {0}]
  /\ Attributes \in [Names -> SUBSET Setting]
  /\ Delays \subseteq Nat /\ VisTimeouts \subseteq Nat
  /\ WaitTimes \in [Names -> SUBSET Nat] /\ BatchSizes \subseteq Nat \ {0}
  /\ DedupWindow \in Nat \ {0} /\ MaxAge \in Nat /\ MaxReceives \in Nat
  /\ NoGroup \notin Groups /\ NoKey \notin Keys /\ NoHandle \notin Consumers

ASSUME DlqAssumption == \A a \in Attributes["dlq"] : a.maxrc = 0

VARIABLES
  live,     \* _queues and its name index: the names that name a queue
  made,     \* per name, the number of queue objects made for it so far
  attr,     \* per queue object, q["attributes"]
  msgs,     \* per queue object, q["messages"]
  tail,     \* per queue object, the pos of the next append
  dedup,    \* per queue object, q["dedup_cache"]: key -> time left, 0 if absent
  call,     \* per consumer, the ReceiveMessage coroutine it awaits
  fate,     \* what became of each id ("unsent": new_uuid() may still return it)
  lease,    \* history: per consumer and id, the time left in which the queue
            \*   promised that consumer to hide the message from the others
  since     \* history: per queue object and key, time since the last append

vars == <<live, made, attr, msgs, tail, dedup, call, fate, lease, since>>

-----------------------------------------------------------------------------
(* Queue objects.  Deleting a queue unbinds its name; a long poll that is   *)
(* asleep keeps the object it looked up.                                    *)

Objects == UNION { {<<q, k>> : k \in 1..Incarnations[q]} : q \in Names }
Exists(q) == q \in live
Object(q) == <<q, made[q]>>

Message == [id : Ids, group : Groups \cup {NoGroup}, key : Keys \cup {NoKey},
            pos : Nat, hidden : Nat, age : Nat, rcv : Nat,
            handle : Consumers \cup {NoHandle}]

IdleCall == [pc |-> "idle", obj |-> <<"src", 1>>, max |-> 0, vis |-> 0, wait |-> 0]
Call == [pc : {"collect", "sleep"}, obj : Objects,
         max : BatchSizes, vis : VisTimeouts, wait : Nat]

Fates == {"unsent", "queued", "deleted", "expired", "purged"}

(* The event loop is free when no coroutine is between two awaits.          *)
LoopFree == \A c \in Consumers : call[c].pc # "collect"

Visible(m) == m.hidden = 0
InFlight(m) == m.hidden > 0 /\ m.rcv > 0
Retained(o) == {m \in msgs[o] : m.age < attr[o].retention}
Expired(o) == msgs[o] \ Retained(o)
IdsOf(S) == {m.id : m \in S}
Copies(i) == {o \in Objects : i \in IdsOf(msgs[o])}

(* Faulty: the newest first.                                                *)
LastOf(S, n) == {m \in S : Cardinality({x \in S : x.pos > m.pos}) < n}

(* The n first messages of S in list order.                                 *)
First(S, n) == {m \in S : Cardinality({x \in S : x.pos < m.pos}) < n}

Mark(ids, f) == [i \in Ids |-> IF i \in ids THEN f ELSE fate[i]]
Minus1(n) == IF n = 0 THEN 0 ELSE n - 1
Plus1(n, cap) == IF n >= cap THEN n ELSE n + 1

-----------------------------------------------------------------------------
Init ==
  /\ live = Names
  /\ made = [q \in Names |-> 1]
  /\ attr \in [Objects -> UNION {Attributes[q] : q \in Names}]
  /\ \A o \in Objects : attr[o] \in Attributes[o[1]] /\ attr[o] = attr[<<o[1], 1>>]
  /\ msgs = [o \in Objects |-> {}]
  /\ tail = [o \in Objects |-> 0]
  /\ dedup = [o \in Objects |-> [k \in Keys |-> 0]]
  /\ call = [c \in Consumers |-> IdleCall]
  /\ fate = [i \in Ids |-> "unsent"]
  /\ lease = [c \in Consumers |-> [i \in Ids |-> 0]]
  /\ since = [o \in Objects |-> [k \in Keys |-> DedupWindow]]

-----------------------------------------------------------------------------
(* Sending.                                                                 *)

NewMessage(o, i, g, k, d) ==
  [id |-> i, group |-> g, key |-> k, pos |-> tail[o], hidden |-> d,
   age |-> 0, rcv |-> 0, handle |-> NoHandle]

Append(o, i, g, k, d) ==
  /\ fate[i] = "unsent"
  /\ msgs' = [msgs EXCEPT ![o] = @ \cup {NewMessage(o, i, g, k, d)}]
  /\ tail' = [tail EXCEPT ![o] = @ + 1]
  /\ fate' = [fate EXCEPT ![i] = "queued"]
  /\ since' = IF k = NoKey THEN since ELSE [since EXCEPT ![o][k] = 0]

(* A standard queue takes the message's own DelaySeconds or the queue's.    *)
SendStandard(q, i, d) ==
  /\ ~IsFifo /\ LoopFree /\ Exists(q)
  /\ d \in Delays \cup {attr[Object(q)].delay}
  /\ Append(Object(q), i, NoGroup, NoKey, d)
  /\ UNCHANGED <<live, made, attr, dedup, call, lease>>

(* A FIFO queue always takes the queue's DelaySeconds.  A key still in the  *)
(* cache is answered with the first message's id and appends nothing.       *)
SendFifo(q, i, g, k) ==
  LET o == Object(q) IN
  /\ IsFifo /\ LoopFree /\ Exists(q)
  /\ dedup[o][k] = 0
  /\ Append(o, i, g, k, attr[o].delay)
  /\ dedup' = [dedup EXCEPT ![o][k] = DedupWindow]
  /\ UNCHANGED <<live, made, attr, call, lease>>

(* An EventBridge target, an SNS subscription: the message goes straight to *)
(* q["messages"], with a deduplication id but past the cache.               *)
DirectAppend(q, i, g, k) ==
  LET o == Object(q) IN
  /\ DirectAppends /\ IsFifo /\ LoopFree /\ Exists(q)
  /\ Append(o, i, g, k, attr[o].delay)
  /\ UNCHANGED <<live, made, attr, dedup, call, lease>>

-----------------------------------------------------------------------------
(* Receiving.                                                               *)

(* Faulty: sweeps one receive too late.                                     *)
DeadLate(o) ==
  {m \in Retained(o) : /\ Exists("dlq") /\ attr[o].maxrc > 0
                       /\ m.rcv > attr[o].maxrc /\ Visible(m)}

(* Faulty: sweeps what consumers are working on.                            *)
DeadInFlight(o) ==
  {m \in Retained(o) : /\ Exists("dlq") /\ attr[o].maxrc > 0
                       /\ m.rcv >= attr[o].maxrc}

(* What _dlq_sweep takes out: only if the policy's queue can be found.      *)
Dead(o) ==
  {m \in Retained(o) : /\ Exists("dlq") /\ attr[o].maxrc > 0
                       /\ m.rcv >= attr[o].maxrc /\ Visible(m)}

(* Faulty: the moved message gets its id for a receipt handle.              *)
MovedWithHandle(m) ==
  [m EXCEPT !.pos = tail[Object("dlq")] + @, !.handle = m.id, !.hidden = 0]

(* A standard dead-letter queue keeps the enqueue time, a FIFO one resets   *)
(* it.  The receive count is kept.                                          *)
Moved(m) ==
  [m EXCEPT !.pos = tail[Object("dlq")] + @, !.handle = NoHandle, !.hidden = 0,
            !.age = IF IsFifo THEN 0 ELSE @]

(* Faulty: what is moved stays in the source queue as well.                 *)
SweepCopies(o) ==
  LET dlq == Object("dlq") IN
  /\ msgs' = [msgs EXCEPT ![o] = Retained(o), ![dlq] = @ \cup {Moved(m) : m \in Dead(o)}]
  /\ tail' = IF Dead(o) = {} THEN tail ELSE [tail EXCEPT ![dlq] = @ + tail[o]]
  /\ fate' = Mark(IdsOf(Expired(o)), "expired")

ExpireAndSweep(o) ==
  LET dead == Dead(o)
      dlq  == Object("dlq") IN
  /\ msgs' = [msgs EXCEPT ![o] = Retained(o) \ dead,
                          ![dlq] = @ \cup {Moved(m) : m \in dead}]
  /\ tail' = IF dead = {} THEN tail ELSE [tail EXCEPT ![dlq] = @ + tail[o]]
  /\ fate' = Mark(IdsOf(Expired(o)), "expired")

(* The first pass of the receive loop, up to the sweep.                     *)
ReceiveMessage(c, q, n, v, w) ==
  LET o == Object(q) IN
  /\ LoopFree /\ Exists(q) /\ call[c].pc = "idle"
  /\ \A m \in msgs[o] : m.rcv < MaxReceives
  /\ ExpireAndSweep(o)
  /\ call' = [call EXCEPT ![c] = [pc |-> "collect", obj |-> o, max |-> n, vis |-> v, wait |-> w]]
  /\ UNCHANGED <<live, made, attr, dedup, lease, since>>

(* Faulty: every pass renews the deadline.                                  *)
WakeRenews(c) ==
  /\ LoopFree /\ call[c].pc = "sleep"
  /\ ExpireAndSweep(call[c].obj)
  /\ call' = [call EXCEPT ![c].pc = "collect", ![c].wait = 1]
  /\ UNCHANGED <<live, made, attr, dedup, lease, since>>

(* A later pass: the sleep is over, the queue object is the same.           *)
Wake(c) ==
  /\ LoopFree /\ call[c].pc = "sleep"
  /\ ExpireAndSweep(call[c].obj)
  /\ call' = [call EXCEPT ![c].pc = "collect"]
  /\ UNCHANGED <<live, made, attr, dedup, lease, since>>

(* Faulty: no group is ever blocked.                                        *)
BlockedNever(o) == {}

Blocked(o) == {m.group : m \in {x \in msgs[o] : InFlight(x) /\ x.group # NoGroup}}
Deliverable(o) ==
  {m \in msgs[o] : Visible(m) /\ (IsFifo => m.group \notin Blocked(o))}

(* Faulty: the receive is not counted.                                     *)
DeliveredUncounted(m, c, v) == [m EXCEPT !.handle = c, !.hidden = v]

Delivered(m, c, v) == [m EXCEPT !.handle = c, !.hidden = v, !.rcv = @ + 1]

(* The second half of a pass: mint handles for what is deliverable, or go   *)
(* (back) to sleep until the deadline.                                      *)
Collect(c) ==
  LET o   == call[c].obj
      got == First(Deliverable(o), call[c].max) IN
  /\ call[c].pc = "collect"
  /\ msgs' = [msgs EXCEPT ![o] =
                {IF m \in got THEN Delivered(m, c, call[c].vis) ELSE m : m \in @}]
  /\ lease' = [lease EXCEPT ![c] =
                [i \in Ids |-> IF i \in IdsOf(got) THEN call[c].vis ELSE @[i]]]
  /\ call' = [call EXCEPT ![c] = IF got = {} /\ @.wait > 0
                                 THEN [@ EXCEPT !.pc = "sleep"] ELSE IdleCall]
  /\ UNCHANGED <<live, made, attr, tail, dedup, fate, since>>

-----------------------------------------------------------------------------
(* What a consumer does with the handles it holds.  A batch handles its     *)
(* entries one by one; those whose handle is no longer current fail alone.  *)

(* Faulty: any handle the message ever had is taken for its current one.    *)
HeldByAnyone(c, o) == {m \in msgs[o] : m.handle # NoHandle}

Held(c, o) == {m \in msgs[o] : m.handle = c}

(* Faulty: a delete drops the deduplication entries too (#1326).            *)
DeleteForgetsKeys(c, q, D) ==
  LET o == Object(q) IN
  /\ LoopFree /\ Exists(q)
  /\ D # {} /\ D \subseteq IdsOf(Held(c, o))
  /\ msgs' = [msgs EXCEPT ![o] = {m \in @ : m.id \notin D}]
  /\ dedup' = [dedup EXCEPT ![o] = [k \in Keys |-> 0]]
  /\ fate' = Mark(D, "deleted")
  /\ lease' = [lease EXCEPT ![c] = [i \in Ids |-> IF i \in D THEN 0 ELSE @[i]]]
  /\ UNCHANGED <<live, made, attr, tail, call, since>>

DeleteMessages(c, q, D) ==
  LET o == Object(q) IN
  /\ LoopFree /\ Exists(q)
  /\ D # {} /\ D \subseteq IdsOf(Held(c, o))
  /\ msgs' = [msgs EXCEPT ![o] = {m \in @ : m.id \notin D}]
  /\ fate' = Mark(D, "deleted")
  /\ lease' = [lease EXCEPT ![c] = [i \in Ids |-> IF i \in D THEN 0 ELSE @[i]]]
  /\ UNCHANGED <<live, made, attr, tail, dedup, call, since>>

(* The handle is all the code looks at: the message may be visible again.   *)
ChangeVisibility(c, q, D, v) ==
  LET o == Object(q) IN
  /\ LoopFree /\ Exists(q)
  /\ D # {} /\ D \subseteq IdsOf(Held(c, o))
  /\ ExtendExpired \/ \A i \in D : lease[c][i] > 0
  /\ msgs' = [msgs EXCEPT ![o] =
                {IF m.id \in D THEN [m EXCEPT !.hidden = v] ELSE m : m \in @}]
  /\ lease' = [lease EXCEPT ![c] = [i \in Ids |-> IF i \in D THEN v ELSE @[i]]]
  /\ UNCHANGED <<live, made, attr, tail, dedup, call, fate, since>>

-----------------------------------------------------------------------------
(* Queue administration.                                                    *)

(* GetQueueAttributes refreshes the counters, and expires on the way.       *)
GetQueueAttributes(q) ==
  LET o == Object(q) IN
  /\ LoopFree /\ Exists(q)
  /\ msgs' = [msgs EXCEPT ![o] = Retained(o)]
  /\ fate' = Mark(IdsOf(Expired(o)), "expired")
  /\ UNCHANGED <<live, made, attr, tail, dedup, call, lease, since>>

PurgeQueue(q) ==
  LET o == Object(q) IN
  /\ LoopFree /\ Exists(q)
  /\ msgs' = [msgs EXCEPT ![o] = {}]
  /\ fate' = Mark(IdsOf(msgs[o]), "purged")
  /\ UNCHANGED <<live, made, attr, tail, dedup, call, lease, since>>

(* A RedrivePolicy is only accepted when its dead-letter queue exists.      *)
Accepted(q, a) == a \in Attributes[q] /\ (a.maxrc > 0 => Exists("dlq"))

SetQueueAttributes(q, a) ==
  /\ LoopFree /\ Exists(q) /\ Accepted(q, a)
  /\ attr' = [attr EXCEPT ![Object(q)] = a]
  /\ UNCHANGED <<live, made, msgs, tail, dedup, call, fate, lease, since>>

DeleteQueue(q) ==
  /\ LoopFree /\ Exists(q)
  /\ live' = live \ {q}
  /\ UNCHANGED <<made, attr, msgs, tail, dedup, call, fate, lease, since>>

CreateQueue(q, a) ==
  /\ LoopFree /\ ~Exists(q) /\ Accepted(q, a)
  /\ made[q] < Incarnations[q]
  /\ live' = live \cup {q}
  /\ made' = [made EXCEPT ![q] = @ + 1]
  /\ attr' = [attr EXCEPT ![<<q, made[q] + 1>>] = a]
  /\ UNCHANGED <<msgs, tail, dedup, call, fate, lease, since>>

-----------------------------------------------------------------------------
Tick ==
  /\ ClockInHandler \/ LoopFree
  /\ msgs' = [o \in Objects |->
       {[m EXCEPT !.hidden = Minus1(@), !.age = Plus1(@, MaxAge)] : m \in msgs[o]}]
  /\ dedup' = [o \in Objects |-> [k \in Keys |-> Minus1(dedup[o][k])]]
  /\ call' = [c \in Consumers |-> [call[c] EXCEPT !.wait = Minus1(@)]]
  /\ lease' = [c \in Consumers |-> [i \in Ids |-> Minus1(lease[c][i])]]
  /\ since' = [o \in Objects |-> [k \in Keys |-> Plus1(since[o][k], DedupWindow)]]
  /\ UNCHANGED <<live, made, attr, tail, fate>>

Send ==
  \E q \in Names, i \in Ids :
    \/ \E d \in Delays \cup {attr[Object(q)].delay} : SendStandard(q, i, d)
    \/ \E g \in Groups, k \in Keys : SendFifo(q, i, g, k) \/ DirectAppend(q, i, g, k)

Receive(c) ==
  \E q \in Names, n \in BatchSizes, v \in VisTimeouts :
    \E w \in WaitTimes[q] : ReceiveMessage(c, q, n, v, w)

Settle(c) ==
  \E q \in Names, D \in SUBSET Ids :
    \/ DeleteMessages(c, q, D)
    \/ \E v \in VisTimeouts : ChangeVisibility(c, q, D, v)

Administer ==
  \E q \in Names :
    \/ GetQueueAttributes(q)
    \/ PurgeQueue(q)
    \/ DeleteQueue(q)
    \/ \E a \in Attributes[q] : SetQueueAttributes(q, a) \/ CreateQueue(q, a)

Next ==
  \/ Send
  \/ \E c \in Consumers : Receive(c) \/ Collect(c) \/ Wake(c) \/ Settle(c)
  \/ Administer
  \/ Tick

Spec == Init /\ [][Next]_vars

(* The loop resumes a coroutine whose sleep is over, finishes a handler it  *)
(* started, and the clock does not stop.                                    *)
LoopFairness ==
  /\ SF_vars(Tick)
  /\ \A c \in Consumers : SF_vars(Wake(c)) /\ WF_vars(Collect(c))

(* Consumers that crash on every message: they keep receiving from the      *)
(* source queue (as the event source mapping poller does) and never settle. *)
(* The queues may be deleted under them.                                    *)
CrashLoopNext ==
  \/ Send
  \/ \E c \in Consumers : Receive(c) \/ Collect(c) \/ Wake(c)
  \/ \E q \in Names : DeleteQueue(q)
  \/ Tick

Poll(c) == \E n \in BatchSizes, v \in VisTimeouts, w \in WaitTimes["src"] :
             ReceiveMessage(c, "src", n, v, w)

CrashLoopSpec ==
  /\ Init /\ [][CrashLoopNext]_vars
  /\ LoopFairness
  /\ \A c \in Consumers : SF_vars(Poll(c))

-----------------------------------------------------------------------------
(* Properties.                                                              *)

(* Every variable has the shape the code gives it.                          *)
TypeOK ==
  /\ live \subseteq Names
  /\ made \in [Names -> Nat] /\ \A q \in Names : made[q] \in 1..Incarnations[q]
  /\ attr \in [Objects -> Setting] /\ \A o \in Objects : attr[o] \in Attributes[o[1]]
  /\ msgs \in [Objects -> SUBSET Message]
  /\ tail \in [Objects -> Nat]
  /\ dedup \in [Objects -> [Keys -> Nat]]
  /\ call \in [Consumers -> Call \cup {IdleCall}]
  /\ fate \in [Ids -> Fates]
  /\ lease \in [Consumers -> [Ids -> Nat]]
  /\ since \in [Objects -> [Keys -> Nat]]

(* While the queue has promised one consumer to hide a message, no other    *)
(* consumer holds such a promise for it: the visibility timeout works       *)
(* across late deletes and extensions, sweeps, re-created queues and long   *)
(* polls that outlive their queue.                                          *)
LeaseExclusive ==
  \A c, d \in Consumers, i \in Ids :
    lease[c][i] > 0 /\ lease[d][i] > 0 => c = d

(* A message accepted is in exactly one list until it is deleted, expired   *)
(* or purged: a move to the dead-letter queue neither loses nor copies it,  *)
(* and none comes back.                                                     *)
Conservation ==
  \A i \in Ids :
    /\ Cardinality(Copies(i)) = IF fate[i] = "queued" THEN 1 ELSE 0
    /\ \A o \in Copies(i) : Cardinality({m \in msgs[o] : m.id = i}) = 1

(* The messages of msgs[o] that this step delivers.                         *)
Received(o) == {m \in msgs[o] : \E n \in msgs'[o] : n.id = m.id /\ n.rcv > m.rcv}

(* "Messages within a group are delivered in send order" (_collect_fifo):   *)
(* no message is delivered past an earlier one of its group that stays.     *)
GroupOrder ==
  [][\A o \in Objects : \A m \in Received(o), x \in msgs[o] :
       x.group = m.group /\ x.pos < m.pos => x \in Received(o)]_vars

(* Two consumers never work on messages of one group at the same time.      *)
GroupExclusive ==
  \A o \in Objects : \A m, x \in msgs[o] : \A c, d \in Consumers :
    m.group = x.group /\ lease[c][m.id] > 0 /\ lease[d][x.id] > 0 => c = d

(* The deduplication window is measured from the send, whatever happens to  *)
(* the first message meanwhile (#1326): no queue takes a second message of  *)
(* a key within the window.                                                 *)
DedupWindowKept ==
  [][\A o \in Objects : \A n \in msgs'[o] :
       fate[n.id] = "unsent" /\ n.key # NoKey => since[o][n.key] >= DedupWindow]_vars

(* Nothing expired is delivered, and nothing that _dlq_sweep should have    *)
(* moved, whichever settings changed while the receive was asleep.          *)
FreshDelivery ==
  [][\A o \in Objects : \A m \in Received(o) :
       /\ m.age < attr[o].retention
       /\ attr[o].maxrc > 0 /\ Exists("dlq") => m.rcv < attr[o].maxrc]_vars

(* The queue as its clients see it: the state of a Mailbox.                 *)
Place ==
  [i \in Ids |-> IF fate[i] = "unsent" THEN <<"unsent", 0>>
                 ELSE IF Copies(i) = {} THEN <<"gone", 0>>
                 ELSE CHOOSE o \in Copies(i) : TRUE]

Latest ==
  [i \in Ids |-> IF Copies(i) = {} THEN NoHandle
                 ELSE (CHOOSE m \in msgs[Place[i]] : m.id = i).handle]

Promised == {i \in Ids : Copies(i) # {} /\ \E c \in Consumers : lease[c][i] > 0}

Abstract == INSTANCE Mailbox WITH
  Queues <- Objects, DeadLetterQueues <- {o \in Objects : o[1] = "dlq"},
  Nobody <- NoHandle, Unsent <- <<"unsent", 0>>, Gone <- <<"gone", 0>>,
  place <- Place, latest <- Latest, promised <- Promised

(* The queue pair keeps the promises of a mailbox: what happens to a        *)
(* message, step by step, is what Mailbox allows; no sweep, late delete,    *)
(* extension or purge breaks a running visibility timeout.                  *)
KeepsPromises == Abstract!MailboxSpec

(* A long poll comes back, also from a queue deleted under it.              *)
LongPollEnds == \A c \in Consumers : call[c].pc # "idle" ~> call[c].pc = "idle"

(* A message nobody deletes leaves the source queue for the dead-letter     *)
(* queue in the end, as long as both exist; in a FIFO queue it does not     *)
(* block its group for ever.                                                *)
EventuallyDeadLettered ==
  \A i \in Ids :
    i \in IdsOf(msgs[<<"src", 1>>]) ~> i \in IdsOf(msgs[<<"dlq", 1>>]) \/ live # Names

=============================================================================
